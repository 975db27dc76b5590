----------------------------- MODULE GateClaims -----------------------------
(***************************************************************************)
(* What the repository's own documents and comments say of the workflow    *)
(* and the code does not keep.  Each run over one of these claims ends     *)
(* with the shortest behaviour that breaks it.                             *)
(***************************************************************************)
EXTENDS GateInvariants

\* "Only approved requests can be executed." (src/execute/engine.rs:31)  Two
\* executions that both read "approved" both commit, and so does one that
\* was overtaken by a status some slower handler wrote.
OnlyApprovedExecuted ==
    [][\A c \in commits' \ commits : Status(c.req) = "approved"]_vars

\* "rejected (terminal)" (SKILL.md:108, src/main.rs:293), "rejected requests
\* cannot later be approved" (SKILL.md:424).  The UPDATE of an approval, or of
\* a request for approval, that checked the status earlier still lands.
RejectedIsTerminal ==
    [][\A i \in Ids : Status(i) = "rejected" => Status(i)' = "rejected"]_vars

\* "lazy-checked on execute ...: expired approvals can never execute"
\* (README.md:178).  The only check is the sweep: the approval may run out
\* between it and the transaction at the target.
ExpiredNeverExecutes ==
    [][\A c \in commits' \ commits : \E a \in approvals :
           a.req = c.req /\ a.decision = "approved" /\ now <= a.expires_at]_vars

\* "one row per approval action" (db/schema.sql:29).  The INSERT's outcome is
\* dropped, and the request is approved all the same, never to expire.
ApprovalHasRow ==
    \A i \in Ids : Status(i) = "approved" => \E a \in approvals : a.req = i
=============================================================================
