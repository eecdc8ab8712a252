---------------------------- MODULE Socks5Client ----------------------------
(***************************************************************************)
(* The client side of a SOCKS5 connection, hev-socks5-client.c and         *)
(* hev-socks5-client-udp.c: the connection to the server, the handshake in *)
(* its two forms, and the association of a UDP socket.  A handshake is the *)
(* list of calls it still has to make (todo).  A message is its kind and   *)
(* what the other side looks at in it; the server, which is outside, may   *)
(* give any answer and close the connection at any point.                  *)
(***************************************************************************)
EXTENDS Naturals, Sequences

VARIABLES
    opt,        \* [pipeline, auth]: the form, and whether there are credentials
    todo,       \* calls of the handshake that are still to be made
    toServer, toClient,     \* the two halves of the control connection
    server,     \* what the server waits for: "methods", "creds", "request",
                \* or nothing any more: "granted", "refused"
    closed,     \* the server has closed the control connection
    fds         \* descriptors that are open

clientVars == <<opt, todo, toServer, toClient, server, closed, fds>>

Standard == <<"write_methods", "read_method", "write_creds", "read_creds",
              "write_request", "read_response">>
Pipelined == <<"write_methods", "write_creds", "write_request",
               "read_method", "read_creds", "read_response">>
Calls == {Standard[i] : i \in 1..Len(Standard)}

ClientInit ==
    /\ opt \in [pipeline : BOOLEAN, auth : BOOLEAN]
    /\ todo = << >> /\ toServer = << >> /\ toClient = << >>
    /\ server = "methods" /\ closed = FALSE
    /\ fds = {}

Script == IF opt.pipeline THEN Pipelined ELSE Standard

\* The method the client offers: it knows of one at a time.
Offer == IF opt.auth THEN "user" ELSE "none"

\* What a call writes; without credentials there is nothing to write.
Written(call) ==
    IF call = "write_methods" THEN << <<"methods", Offer>> >>
    ELSE IF call = "write_request" THEN << <<"request", "">> >>
    ELSE IF opt.auth THEN << <<"creds", "">> >> ELSE << >>

Writes == todo # << >> /\ Head(todo) \in {"write_methods", "write_creds", "write_request"}
Reads == todo # << >> /\ Head(todo) \in {"read_method", "read_creds", "read_response"}
Answered == Reads /\ toClient # << >>
Waits == Reads /\ toClient = << >>
HungUp == closed /\ toClient = << >>

\* The calls left after "none" was chosen: the credentials, which the
\* pipelined form has written already, are skipped.
WithoutCreds(calls) == IF opt.pipeline THEN Tail(calls) ELSE Tail(Tail(calls))

\* A mutant: whatever comes is taken for an agreement.
AnyAnswer(m) == TRUE

\* The checks of version and reply in the three functions that read.
Agrees(m) ==
    \/ Head(todo) = "read_method" /\ m[1] = "method" /\ m[2] \in {"user", "none"}
    \/ Head(todo) = "read_creds" /\ m = <<"status", "ok">>
    \/ Head(todo) = "read_response" /\ m = <<"response", "ok">>

Write ==
    /\ Writes
    /\ toServer' = toServer \o Written(Head(todo))
    /\ todo' = Tail(todo)
    /\ UNCHANGED <<opt, toClient, server, closed, fds>>

\* One message read and agreed to; the last one leads to a UDP socket.
Read ==
    /\ Answered /\ Agrees(Head(toClient))
    /\ toClient' = Tail(toClient)
    /\ todo' = IF Head(toClient) = <<"method", "none">>
               THEN WithoutCreds(Tail(todo)) ELSE Tail(todo)
    /\ fds' = IF Head(todo) = "read_response" THEN fds \cup {"udp"} ELSE fds
    /\ UNCHANGED <<opt, toServer, server, closed>>

\* The ways to give up: the message refuses, the connection is closed, the
\* wait times out, or no UDP socket can be made, bound and connected.
Refused == Answered /\ (Agrees(Head(toClient)) => Len(todo) = 1)
Broken == IF Reads THEN HungUp ELSE Writes /\ closed

-----------------------------------------------------------------------------
\* The server reads a message and answers; one it does not expect, such as
\* credentials sent ahead when it asks for none, makes it hang up.
Reply(m, next) ==
    /\ toClient' = toClient \o m
    /\ server' = next
    /\ closed' = (next = "refused")

Serve ==
    /\ toServer # << >> /\ ~closed /\ server # "granted"
    /\ toServer' = Tail(toServer)
    /\ \/ /\ server = "methods"
          /\ \/ Reply(<< <<"method", "none">> >>, "request")
             \/ Reply(<< <<"method", "user">> >>, "creds")
             \/ Reply(<< <<"method", "bad">> >>, "refused")
       \/ /\ server = "creds" /\ Head(toServer)[1] = "creds"
          /\ \/ Reply(<< <<"status", "ok">> >>, "request")
             \/ Reply(<< <<"status", "bad">> >>, "refused")
       \/ /\ server = "request" /\ Head(toServer)[1] = "request"
          /\ \/ Reply(<< <<"response", "ok">> >>, "granted")
             \/ Reply(<< <<"response", "bad">> >>, "refused")
       \/ /\ server # "methods" /\ Head(toServer)[1] # server
          /\ Reply(<< >>, "refused")
    /\ UNCHANGED <<opt, todo, fds>>

HangUp ==
    /\ ~closed
    /\ closed' = TRUE
    /\ UNCHANGED <<opt, todo, toServer, toClient, server, fds>>
=============================================================================
