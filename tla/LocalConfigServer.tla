-------------------------- MODULE LocalConfigServer --------------------------
(***************************************************************************)
(* server/LocalConfigServer.kt: the HTTP handlers that import profiles,    *)
(* subscriptions and rules, as clients of the repository beside the user   *)
(* interface.  A handler launches a coroutine, waits for its latch for a   *)
(* limited time, and answers by the variable the coroutine assigns.        *)
(***************************************************************************)
EXTENDS ProfileStore

VARIABLES
    request          \* the HTTP request behind each job: "none", "waiting",
                     \* or answered "ok", "error"

serverVars == <<vars, request>>

ServerInit == Init /\ request = [j \in Job |-> "none"]

\* A user interface calls the repository.
Call(j) ==
    /\ \E op \in Op \ {"qr"}, id \in Key : Launch(j, op, id)
    /\ UNCHANGED request

\* handleImport with text, handleSubscription, handleImportRule.
Handle(j) ==
    /\ \E op \in {"add", "addSub", "addRule"} : Launch(j, op, None)
    /\ request' = [request EXCEPT ![j] = "waiting"]

\* handleImport with a QR code that could be parsed: the answer does not wait
\* for the row.
HandleQr(j) ==
    /\ Launch(j, "qr", None)
    /\ request' = [request EXCEPT ![j] = "ok"]

\* The variable as the handler finds it when the latch opens or the wait runs
\* out: result starts out false, but error starts out null.
Result(j) ==
    IF job[j].op = "addRule"
    THEN job[j].at # "done" \/ job[j].ok
    ELSE job[j].at = "done" /\ job[j].ok

Answer(j) ==
    /\ request[j] = "waiting"
    /\ request' = [request EXCEPT ![j] = IF Result(j) THEN "ok" ELSE "error"]
    /\ UNCHANGED vars

Serve(j) == Query(j) /\ UNCHANGED request

\* The activity that called is gone; the server's scope is never cancelled.
CallCancelled(j) ==
    /\ request[j] = "none"
    /\ Cancel(j)
    /\ UNCHANGED request

\* The result was used, the answer sent.
Close(j) ==
    /\ request[j] # "waiting"
    /\ Forget(j)
    /\ request' = [request EXCEPT ![j] = "none"]

ProcessDies ==
    /\ Crash
    /\ request' = [j \in Job |-> "none"]

ServerNext ==
    \/ \E j \in Job :
          \/ Call(j) \/ CallCancelled(j)
          \/ Handle(j) \/ HandleQr(j) \/ Answer(j)
          \/ Serve(j) \/ Close(j)
    \/ ProcessDies

ServerSpec == ServerInit /\ [][ServerNext]_serverVars
=============================================================================
