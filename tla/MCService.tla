------------------------------ MODULE MCService ------------------------------
(***************************************************************************)
(* An instance of Service for TLC: what the clients send, and how the      *)
(* process may have been started.                                          *)
(***************************************************************************)
EXTENDS Service, TLC

CONSTANTS c1, c2, c3

Shown(what) == [error |-> "none", method |-> what.method, path |-> what.path,
                secret |-> "right", email |-> "given"]

Forgetting(what) == {[Shown(what) EXCEPT !.secret = "absent"],
                     [Shown(what) EXCEPT !.secret = "wrong"],
                     [Shown(what) EXCEPT !.email = "absent"]}

Failing(error) == [NoRequest EXCEPT !.error = error]

\* Pages and files, refused requests, and what cannot be parsed.
Various ==
    {Shown(Get(p)) : p \in {Root, Health, SubmitPath, ApprovalsPath, HistoryPath,
                            DetailPath("r1"), <<Gap, "nowhere">>,
                            <<Gap, "static", "htmx.min.js">>}}
    \cup {Shown(Post("submit")), Shown([method |-> "HEAD", path |-> Health])}
    \cup Forgetting(Get(HistoryPath))
    \cup {[Shown(Get(p)) EXCEPT !.secret = "absent"] :
              p \in {Health, <<Gap, "static", "history">>}}
    \cup {Failing("ChunkedNotSupported")}

MCSends == c1 :> Various
           @@ c2 :> {Failing("ReadTimeout")}
           @@ c3 :> {Shown(Post("execute"))}

MCAssets == {<<"tailwind.css">>, <<"htmx.min.js">>, <<"alpine.min.js">>}

MCStarts == {[db |-> TRUE, secret |-> TRUE], [db |-> FALSE, secret |-> TRUE],
             [db |-> TRUE, secret |-> FALSE]}
=============================================================================
