--------------------------- MODULE GateInvariants ---------------------------
(***************************************************************************)
(* The inductive invariant behind the properties of Gate that hold under   *)
(* every interleaving, failure, kill and forged text.  It says what a      *)
(* handler may still rely on after its checks, although nothing holds the  *)
(* row still between them and its UPDATE.                                  *)
(***************************************************************************)
EXTENDS GateProperties

\* The pipeline of a submission, up to the UPDATE to "previewed".
Fresh == {"sub_audit", "pre_run", "pre_insert", "pre_status"}

Pipeline == Fresh \cup {"pre_audit"}

\* A handler that fetched a row and was content with it.
Deciding == {"app_ttl", "app_insert", "app_status", "app_audit",
             "rej_insert", "rej_status", "rej_audit"}

Executing == {"exe_mismatch", "exe_run", "exe_record", "exe_status",
              "exe_audit"}

Checked == {"req_status", "req_audit"} \cup Deciding \cup Executing

NoUser == {"new", "done", "killed", "list_sweep"}

NoRequest == NoUser \cup {"sub_insert"}

\* A stored row is complete.
RowsOK == \A i \in Ids : Exists(i) =>
    /\ requests[i].requester_email \in Users
    /\ requests[i].query_text \in Queries \cup Forged
    /\ requests[i].query_hash # None
    /\ requests[i].target_kind \in Kinds

\* The locals j that label l relies on are set.
LocalsOK(l, j) ==
    /\ l \notin NoUser => j.user \in Users
    /\ l = "sub_insert" => j.query \in Queries /\ j.kind \in Kinds
    /\ l \notin NoRequest => j.req \in Ids
    /\ l = "exe_run" => j.query \in Queries \cup Forged

JobsOK == \A t \in Threads :
    /\ LocalsOK(pc[t], job[t])
    /\ pc[t] \in Pipeline \cup Checked => Exists(job[t].req)

TypeInv == TypeOK /\ RowsOK /\ JobsOK

\* What no step of anybody undoes: a row stays, keeps its requester, its hash
\* and its kind, and never returns to where it has no preview.
Grows ==
    /\ \A i \in Ids : Exists(i) =>
           /\ Exists(i)'
           /\ requests'[i].requester_email = requests[i].requester_email
           /\ requests'[i].query_hash = requests[i].query_hash
           /\ requests'[i].target_kind = requests[i].target_kind
    /\ \A i \in Ids : Previewed(i) => Previewed(i)'
    /\ previews \subseteq previews'
    /\ commits \subseteq commits'

\* Until its pipeline says so a request stays "submitted", in the hands of the
\* one thread that inserted it.
PipelineOK == \A t \in Threads :
    /\ pc[t] \in Pipeline => Row(t).target_kind = job[t].kind
    /\ pc[t] \in {"pre_insert", "pre_status", "pre_audit"} =>
           job[t].kind = "postgres"
    /\ pc[t] \in {"pre_status", "pre_audit"} => job[t].req \in previews
    /\ pc[t] \in Fresh =>
           /\ Row(t).status = "submitted"
           /\ \A u \in Threads \ {t} : pc[u] \in Fresh => job[u].req # job[t].req

\* Every other handler that gets past its check works on a previewed request,
\* and no request loses its preview.
PreviewsOK ==
    /\ \A i \in Ids : Previewed(i) => /\ i \in previews
                                      /\ requests[i].target_kind = "postgres"
    /\ \A t \in Threads : pc[t] \in Checked => Previewed(job[t].req)
    /\ \A a \in approvals : Previewed(a.req)
    /\ \A c \in commits : Previewed(c.req)

\* The requester never changes, so the check outlives the row it was made on.
DecidersOK == \A t \in Threads :
    pc[t] \in Deciding => Row(t).requester_email # job[t].user

\* A timeline starts after its request.
LogsOK == \A i \in Ids : audit_log[i] # <<>> => Exists(i)

\* What an execution is about to record happened.
ExecutorsOK == \A t \in Threads :
    /\ pc[t] = "exe_run" => Row(t).query_hash = Sha256(job[t].query)
    /\ pc[t] \in {"exe_record", "exe_status", "exe_audit"} /\ ~job[t].failed =>
           \E c \in commits : c.thread = t /\ c.req = job[t].req
    /\ pc[t] = "exe_status" => ~job[t].failed

GateInv ==
    /\ TypeInv
    /\ PipelineOK /\ PreviewsOK
    /\ DecidersOK /\ LogsOK /\ FourEyes
    /\ ExecutorsOK /\ RecordsTruthful /\ TextIntegrity
=============================================================================
