---------------------------- MODULE Persistence ----------------------------
(***************************************************************************)
(* SQLGate's own database: the five tables of db/schema.sql and one    *)
(* operator for every SQL statement src/db/ sends that changes them.       *)
(*                                                                         *)
(* Every function of src/db/ takes a pooled connection, runs one           *)
(* autocommitted statement and gives the connection back, so a statement   *)
(* is one atomic step and nothing spans two of them.  A statement ends in  *)
(* one of three ways, its first argument o:                                *)
(*   "ok"       it was applied and the caller gets Ok;                     *)
(*   "lost"     it was not applied (no connection, broken connection) and  *)
(*              the caller gets Err;                                       *)
(*   "unknown"  it was applied, but the connection broke before the reply: *)
(*              the caller gets Err.                                       *)
(*                                                                         *)
(* A row's uuid is modelled by a member of Ids (requests) or by the thread *)
(* that inserted the row (approvals, executions): a thread inserts at most *)
(* one row into each of those tables.                                      *)
(***************************************************************************)
EXTENDS Integers, FiniteSets, Sequences

CONSTANTS
    Threads,    \* connection threads, one per accepted connection
    Ids,        \* values gen_random_uuid() yields for requests.id
    Users,      \* e-mail addresses of authenticated users
    Queries,    \* texts users submit that pass validation
    Forged,     \* texts written into requests.query_text from outside
    None        \* SQL NULL, Rust None, and a field nobody has set

ASSUME NoneAssumption ==
    None \notin Threads \cup Ids \cup Users \cup Queries \cup Forged \cup Nat

\* UNIQUE(query_hash) leaves at most one row per text, so ids never run out.
ASSUME IdsAssumption ==
    /\ IsFiniteSet(Ids)
    /\ IsFiniteSet(Queries)
    /\ Cardinality(Queries) <= Cardinality(Ids)

VARIABLES
    requests,   \* table requests: a row, or NoRow, for every id
    previews,   \* table previews: the request ids that have a row
    approvals,  \* table approvals: set of decision rows
    executions, \* table executions: set of attempt rows
    audit_log   \* table audit_log: for every request its events, oldest first

tables == <<requests, previews, approvals, executions, audit_log>>

Statuses == {"submitted", "previewed", "pending_approval", "approved",
             "rejected", "executed", "expired"}
Kinds == {"postgres", "mysql"}
Decisions == {"approved", "rejected"}
Events == {"submitted", "previewed", "requested_approval", "approved",
           "rejected", "executed", "execution_failed"}

\* SHA-256, taken to be injective: a digest is no text, and it names its text.
Sha256(q) == <<"sha256", q>>

ASSUME HashAssumption == \A q \in Queries : Sha256(q) # None

NoRow == [status |-> "absent", requester_email |-> None, query_text |-> None,
          query_hash |-> None, target_kind |-> None]

RequestRow == [status : Statuses \cup {"absent"},
               requester_email : Users \cup {None},
               query_text : Queries \cup Forged \cup {None},
               query_hash : {Sha256(q) : q \in Queries} \cup {None},
               target_kind : Kinds \cup {None}]

ApprovalRow == [thread : Threads, req : Ids, approver_email : Users,
                decision : Decisions, expires_at : Nat \cup {None},
                created_at : Nat]

ExecutionRow == [thread : Threads, req : Ids, hash_matched : BOOLEAN,
                 error : BOOLEAN]

AuditRow == [event : Events, actor : Users]

Exists(i) == requests[i].status # "absent"

TablesTypeOK ==
    /\ requests \in [Ids -> RequestRow]
    /\ previews \in SUBSET Ids
    /\ approvals \in SUBSET ApprovalRow
    /\ executions \in SUBSET ExecutionRow
    /\ audit_log \in [Ids -> Seq(AuditRow)]

TablesInit ==
    /\ requests = [i \in Ids |-> NoRow]
    /\ previews = {}
    /\ approvals = {}
    /\ executions = {}
    /\ audit_log = [i \in Ids |-> <<>>]

----------------------------------------------------------------------------

\* query_hash is UNIQUE: a second row with the same text is refused (23505).
Duplicate(q) == \E i \in Ids : requests[i].query_hash = Sha256(q)

\* Mistake: the text itself is stored where its hash belongs.
InsertRequest_Unhashed(o, i, q, kind, email) ==
    /\ ~Exists(i)
    /\ requests' = [requests EXCEPT ![i] =
           [status |-> "submitted", requester_email |-> email,
            query_text |-> q, query_hash |-> q, target_kind |-> kind]]
    /\ UNCHANGED <<previews, approvals, executions, audit_log>>

\* INSERT INTO requests ...; the status column defaults to 'submitted'.
InsertRequest(o, i, q, kind, email) ==
    /\ ~Exists(i)
    /\ ~Duplicate(q)
    /\ requests' = IF o = "lost" THEN requests ELSE
           [requests EXCEPT ![i] =
               [status |-> "submitted", requester_email |-> email,
                query_text |-> q, query_hash |-> Sha256(q),
                target_kind |-> kind]]
    /\ UNCHANGED <<previews, approvals, executions, audit_log>>

\* UPDATE requests SET status = s WHERE id = i: whatever the status was.
UpdateStatus(o, i, s) ==
    /\ requests' = IF o = "lost" THEN requests
                   ELSE [requests EXCEPT ![i].status = s]
    /\ UNCHANGED <<previews, approvals, executions, audit_log>>

InsertPreview(o, i) ==
    /\ previews' = IF o = "lost" THEN previews ELSE previews \cup {i}
    /\ UNCHANGED <<requests, approvals, executions, audit_log>>

InsertApproval(o, t, i, email, decision, expires, now) ==
    /\ approvals' = IF o = "lost" THEN approvals ELSE approvals \cup
           {[thread |-> t, req |-> i, approver_email |-> email,
             decision |-> decision, expires_at |-> expires,
             created_at |-> now]}
    /\ UNCHANGED <<requests, previews, executions, audit_log>>

\* The requests the UPDATE of expire_stale_approvals selects at instant now:
\* approved, with at least one approval whose deadline has passed.
Stale(now) ==
    {i \in Ids : /\ requests[i].status = "approved"
                 /\ \E a \in approvals : /\ a.req = i
                                         /\ a.decision = "approved"
                                         /\ a.expires_at # None
                                         /\ a.expires_at < now}

ExpireStaleApprovals(o, now) ==
    /\ requests' = IF o = "lost" THEN requests ELSE
           [i \in Ids |-> IF i \in Stale(now)
                          THEN [requests[i] EXCEPT !.status = "expired"]
                          ELSE requests[i]]
    /\ UNCHANGED <<previews, approvals, executions, audit_log>>

InsertExecution(o, t, i, matched, error) ==
    /\ executions' = IF o = "lost" THEN executions ELSE executions \cup
           {[thread |-> t, req |-> i, hash_matched |-> matched,
             error |-> error]}
    /\ UNCHANGED <<requests, previews, approvals, audit_log>>

\* The only write to audit_log anywhere.
AppendAuditEvent(o, i, event, email) ==
    /\ audit_log' = IF o = "lost" THEN audit_log ELSE
           [audit_log EXCEPT ![i] =
               Append(@, [event |-> event, actor |-> email])]
    /\ UNCHANGED <<requests, previews, approvals, executions>>
============================================================================
