-------------------------- MODULE UdpSessionProofs --------------------------
(***************************************************************************)
(* A UDP session, for every size of the pool, of a batch and of the        *)
(* socket's buffer: datagrams keep their order, the task does not sleep    *)
(* over work, and the handshake leaves nothing behind.                     *)
(***************************************************************************)
EXTENDS UdpSession, SequenceTheorems, TLAPS

Places == {"connect", "connecting", "handshake", "forward", "send", "sending",
           "backward", "choose", "ready", "wait", "leave", "done"}

\* Where the task can be in hev_socks5_session_udp_splice.
Splicing == {"forward", "send", "sending", "backward", "choose", "ready", "wait"}

TaskTypes == at \in Places /\ awake \in BOOLEAN /\ edge \in BOOLEAN

-----------------------------------------------------------------------------
\* A batch is part of the list, and there is none outside of the send; the
\* first conjunct of InOrder.
UpInv ==
    /\ frames \in Nat /\ batch \in Nat /\ sent \in Nat /\ app \in Nat
    /\ frame_list \in Seq(Nat) /\ out \in Seq(Nat)
    /\ got \in Seq(Nat) /\ accepted \in Seq(Nat)
    /\ res_f \in -1..1
    /\ IF at \in {"send", "sending"} THEN sent <= batch /\ batch <= frames
       ELSE sent = 0 /\ batch = 0
    /\ at # "done" =>
          /\ frames = Len(frame_list) /\ frames <= PoolSize + 1
          /\ accepted = got \o out \o Rest(frame_list, sent)

\* The other conjuncts.
DownInv ==
    /\ srv \in Nat /\ in \in Seq(Nat) /\ back \in Seq(Nat) /\ res_b \in -1..1
    /\ back = [i \in 1..Len(back) |-> i]
    /\ res_b >= 0 => back \o in = [i \in 1..srv |-> i]

\* A round that found nothing to move found it so for good: neither lwIP nor
\* the reactor can come before the yield.
Round ==
    /\ at \in {"backward", "choose"} /\ res_f = 0 => frames = 0
    /\ at = "choose" /\ res_b = 0 /\ in # << >> => edge
    /\ at \in Splicing => "udp" \in fds

-----------------------------------------------------------------------------
Requests == {<<"methods", "user">>, <<"methods", "none">>, <<"creds", "">>,
             <<"request", "">>}
Answers == {"method", "status", "response"} \X {"user", "none", "ok", "bad"}

\* What may be left of the standard handshake and of the pipelined one while
\* the request is not written yet, and what once it is.
S1 == Standard
S2 == <<"read_method", "write_creds", "read_creds", "write_request", "read_response">>
S3 == <<"write_creds", "read_creds", "write_request", "read_response">>
S4 == <<"read_creds", "write_request", "read_response">>
S5 == <<"write_request", "read_response">>
P1 == Pipelined
P2 == <<"write_creds", "write_request", "read_method", "read_creds", "read_response">>
P3 == <<"write_request", "read_method", "read_creds", "read_response">>
R1 == <<"read_method", "read_creds", "read_response">>
R2 == <<"read_creds", "read_response">>
R3 == <<"read_response">>

Unasked == todo \in IF opt.pipeline THEN {P1, P2, P3} ELSE {S1, S2, S3, S4, S5}
Asked == todo \in IF opt.pipeline THEN {R1, R2, R3} ELSE {R3}

\* No message in q is an m; the last one may be.
No(q, m) == \A i \in 1..Len(q) : q[i][1] # m
OnlyLast(q, m) == \A i \in 1..Len(q) : q[i][1] = m => i = Len(q)

\* The request is the last message the client writes, the response the last
\* one the server does, and the server is finished when it has granted it.
Conversation ==
    /\ opt \in [pipeline : BOOLEAN, auth : BOOLEAN]
    /\ closed \in BOOLEAN
    /\ server \in {"methods", "creds", "request", "granted", "refused"}
    /\ fds \in SUBSET {"tcp", "udp"}
    /\ toServer \in Seq(Requests) /\ toClient \in Seq(Answers)
    /\ OnlyLast(toServer, "request") /\ OnlyLast(toClient, "response")
    /\ server \notin {"granted", "refused"} => No(toClient, "response")
    /\ \A i \in 1..Len(toClient) : toClient[i] = <<"response", "ok">> => server = "granted"
    /\ server = "granted" => toServer = << >>
    /\ at \in {"connect", "connecting"} =>
          toServer = << >> /\ server = "methods" /\ "udp" \notin fds
    /\ at = "handshake" => (Unasked \/ Asked) /\ "udp" \notin fds
    /\ at = "handshake" /\ Unasked => No(toServer, "request") /\ server # "granted"

IInv ==
    /\ TaskTypes /\ UpInv /\ DownInv /\ Round /\ Conversation
    /\ Attentive /\ InStep

-----------------------------------------------------------------------------
(***************************************************************************)
(* Sequences.                                                              *)
(***************************************************************************)
LEMMA RestProperties ==
    ASSUME NEW s \in Seq(Nat), NEW n \in 0..Len(s)
    PROVE  /\ Rest(s, n) \in Seq(Nat) /\ Len(Rest(s, n)) = Len(s) - n
           /\ Prefix(s, n) \in Seq(Nat) /\ Len(Prefix(s, n)) = n
           /\ Prefix(s, n) \o Rest(s, n) = s
           /\ \A i \in 1..n : Prefix(s, n)[i] = s[i]
<1>1. Len(s) \in Nat /\ \A i \in 1..Len(s) : s[i] \in Nat
  BY LenProperties
<1>2. Rest(s, n) \in Seq(Nat) /\ Len(Rest(s, n)) = Len(s) - n
  BY <1>1, SubSeqProperties DEF Rest
<1>3. Prefix(s, n) \in Seq(Nat) /\ Len(Prefix(s, n)) = n
      /\ \A i \in 1..n : Prefix(s, n)[i] = s[i]
  BY <1>1, SubSeqProperties DEF Prefix
<1>4. Prefix(s, n) \o Rest(s, n) = SubSeq(s, 1, Len(s))
  <2>1. 1 \in 1..(Len(s) + 1) /\ n \in (1 - 1)..Len(s) /\ Len(s) \in n..Len(s)
    BY <1>1
  <2> QED BY <2>1, ConcatAdjacentSubSeq, Zenon DEF Prefix, Rest
<1> QED BY <1>2, <1>3, <1>4, SubSeqFull

\* What sendmmsg takes and what it leaves.
LEMMA RestSplit ==
    ASSUME NEW s \in Seq(Nat), NEW n \in 0..Len(s), NEW m \in n..Len(s)
    PROVE  /\ SubSeq(s, n + 1, m) \in Seq(Nat)
           /\ Rest(s, n) = SubSeq(s, n + 1, m) \o Rest(s, m)
           /\ Len(SubSeq(s, n + 1, m)) = m - n
<1>1. Len(s) \in Nat /\ \A i \in 1..Len(s) : s[i] \in Nat
  BY LenProperties
<1>2. SubSeq(s, n + 1, m) \in Seq(Nat) /\ Len(SubSeq(s, n + 1, m)) = m - n
  BY <1>1, SubSeqProperties
<1>3. PICK k \in Int : k = n + 1
  OBVIOUS
<1>4. SubSeq(s, k, m) \o SubSeq(s, m + 1, Len(s)) = SubSeq(s, k, Len(s))
  <2>1. k \in 1..(Len(s) + 1) /\ m \in (k - 1)..Len(s) /\ Len(s) \in m..Len(s)
    BY <1>1, <1>3
  <2> QED BY <2>1, ConcatAdjacentSubSeq, Zenon
<1> QED BY <1>2, <1>3, <1>4 DEF Rest

LEMMA RestZero == ASSUME NEW s \in Seq(Nat) PROVE Rest(s, 0) = s
BY SubSeqFull DEF Rest

LEMMA RestAppend ==
    ASSUME NEW s \in Seq(Nat), NEW n \in 0..Len(s), NEW x \in Nat
    PROVE  Rest(Append(s, x), n) = Append(Rest(s, n), x)
<1> DEFINE t == Append(s, x)
<1>1. t \in Seq(Nat) /\ Len(t) = Len(s) + 1 /\ t[Len(s) + 1] = x
      /\ \A i \in 1..Len(s) : t[i] = s[i]
  BY AppendProperties
<1>2. Len(s) \in Nat
  BY LenProperties
<1> HIDE DEF t
<1>3. /\ Rest(t, n) \in Seq(Nat) /\ Len(Rest(t, n)) = Len(s) + 1 - n
      /\ \A i \in 1..(Len(s) + 1 - n) : Rest(t, n)[i] = t[n + i]
  <2>1. \A i \in (n + 1)..Len(t) : t[i] \in Nat
    BY <1>1, <1>2, ElementOfSeq
  <2> QED BY <1>1, <1>2, <2>1, SubSeqProperties DEF Rest
<1>4. /\ Rest(s, n) \in Seq(Nat) /\ Len(Rest(s, n)) = Len(s) - n
      /\ \A i \in 1..(Len(s) - n) : Rest(s, n)[i] = s[n + i]
  <2>1. \A i \in (n + 1)..Len(s) : s[i] \in Nat
    BY <1>2, ElementOfSeq
  <2> QED BY <1>2, <2>1, SubSeqProperties DEF Rest
<1>5. /\ Append(Rest(s, n), x) \in Seq(Nat)
      /\ Len(Append(Rest(s, n), x)) = Len(s) - n + 1
      /\ \A i \in 1..(Len(s) - n) : Append(Rest(s, n), x)[i] = s[n + i]
      /\ Append(Rest(s, n), x)[Len(s) - n + 1] = x
  BY <1>4, AppendProperties
<1> DEFINE r == Rest(t, n)
           u == Append(Rest(s, n), x)
<1> HIDE DEF r, u
<1>6. ASSUME NEW i \in 1..(Len(s) + 1 - n) PROVE r[i] = u[i]
  <2>1. CASE i = Len(s) + 1 - n
    <3>1. n + i = Len(s) + 1 /\ i = Len(s) - n + 1
      BY <1>2, <2>1
    <3> QED BY <1>1, <1>3, <1>5, <3>1 DEF r, u
  <2>2. CASE i # Len(s) + 1 - n
    <3>1. n + i \in 1..Len(s) /\ i \in 1..(Len(s) - n)
      BY <1>2, <2>2
    <3>2. r[i] = t[n + i] /\ t[n + i] = s[n + i] /\ u[i] = s[n + i]
      BY <1>1, <1>3, <1>5, <3>1 DEF r, u
    <3> QED BY <3>2
  <2> QED BY <2>1, <2>2
<1>7. r = u
  <2>1. r \in Seq(Nat) /\ u \in Seq(Nat) /\ Len(r) = Len(u) /\ Len(r) = Len(s) + 1 - n
    BY <1>2, <1>3, <1>5 DEF r, u
  <2> QED BY <1>6, <2>1, SeqEqual
<1> QED BY <1>7 DEF t, r, u

\* A datagram changes hands between two neighbouring queues.
LEMMA HandOver ==
    ASSUME NEW g \in Seq(Nat), NEW q \in Seq(Nat), q # << >>
    PROVE  /\ Append(g, Head(q)) \in Seq(Nat) /\ Tail(q) \in Seq(Nat)
           /\ Append(g, Head(q)) \o Tail(q) = g \o q
<1>1. Head(q) \in Nat /\ Tail(q) \in Seq(Nat) /\ <<Head(q)>> \in Seq(Nat)
  BY HeadTailProperties
<1>2. <<Head(q)>> \o Tail(q) = q
  OBVIOUS
<1>3. Append(g, Head(q)) = g \o <<Head(q)>>
  BY <1>1, AppendIsConcat
<1>4. (g \o <<Head(q)>>) \o Tail(q) = g \o (<<Head(q)>> \o Tail(q))
  BY <1>1, ConcatAssociative
<1> QED BY <1>1, <1>2, <1>3, <1>4, AppendProperties

LEMMA Associative ==
    ASSUME NEW s \in Seq(Nat), NEW t \in Seq(Nat), NEW u \in Seq(Nat)
    PROVE  (s \o t) \o u = s \o (t \o u)
BY ConcatAssociative

LEMMA AppendConcat ==
    ASSUME NEW s \in Seq(Nat), NEW t \in Seq(Nat), NEW x \in Nat
    PROVE  s \o Append(t, x) = Append(s \o t, x)
<1>1. <<x>> \in Seq(Nat)
  OBVIOUS
<1>2. s \o (t \o <<x>>) = (s \o t) \o <<x>>
  BY <1>1, ConcatAssociative
<1>3. s \o t \in Seq(Nat)
  BY ConcatProperties
<1> QED BY <1>2, <1>3, AppendIsConcat

\* Counting on.
LEMMA CountOn ==
    ASSUME NEW n \in Nat
    PROVE  /\ [i \in 1..n |-> i] \in Seq(Nat) /\ Len([i \in 1..n |-> i]) = n
           /\ Append([i \in 1..n |-> i], n + 1) = [i \in 1..(n + 1) |-> i]
<1>1. \A k \in Nat : /\ [i \in 1..k |-> i] \in Seq(Nat) /\ Len([i \in 1..k |-> i]) = k
                     /\ \A i \in 1..k : [j \in 1..k |-> j][i] = i
  OBVIOUS
<1> DEFINE a == [i \in 1..n |-> i]
           b == [i \in 1..(n + 1) |-> i]
<1>2. a \in Seq(Nat) /\ Len(a) = n /\ \A i \in 1..n : a[i] = i
  BY <1>1
<1>3. b \in Seq(Nat) /\ Len(b) = n + 1 /\ \A i \in 1..(n + 1) : b[i] = i
  BY <1>1
<1> HIDE DEF a, b
<1>4. Append(a, n + 1) \in Seq(Nat) /\ Len(Append(a, n + 1)) = n + 1
      /\ (\A i \in 1..n : Append(a, n + 1)[i] = i) /\ Append(a, n + 1)[n + 1] = n + 1
  BY <1>2, AppendProperties
<1>5. Append(a, n + 1) = b
  BY <1>3, <1>4, SeqEqual
<1> QED BY <1>2, <1>5 DEF a, b

-----------------------------------------------------------------------------
(***************************************************************************)
(* From the app to the server.                                             *)
(***************************************************************************)
Outgoing == {"send", "sending"}

\* Steps that move no datagram of the app.
LEMMA UpQuiet ==
    ASSUME UpInv, UNCHANGED upVars, at' \in Outgoing <=> at \in Outgoing,
           at' # "done" => at # "done"
    PROVE  UpInv'
BY DEF UpInv, upVars, Outgoing, Rest

LEMMA UpTypes ==
    ASSUME UpInv
    PROVE  /\ frames \in Nat /\ batch \in Nat /\ sent \in Nat /\ app \in Nat
           /\ frame_list \in Seq(Nat) /\ out \in Seq(Nat) /\ got \in Seq(Nat)
           /\ accepted \in Seq(Nat) /\ Len(frame_list) \in Nat /\ Len(out) \in Nat
           /\ got \o out \in Seq(Nat)
BY LenProperties, ConcatProperties DEF UpInv

LEMMA ForwardUp == ASSUME UpInv, Forward PROVE UpInv'
<1>1. /\ UNCHANGED <<frame_list, frames, sent, out, got, app, accepted>>
      /\ at = "forward" /\ sent = 0 /\ batch = 0
      /\ \/ at' = "send" /\ batch' = Smaller(frames, Num) /\ res_f' = res_f
         \/ at' = "backward" /\ batch' = batch /\ res_f' \in {0, res_f}
  BY DEF Forward, UpInv
<1>2. frames \in Nat /\ Num \in Nat /\ res_f \in -1..1
  BY PoolAssumption DEF UpInv
<1>3. /\ at' \in {"send", "backward"} /\ batch' \in Nat /\ batch' <= frames
      /\ at' = "backward" => batch' = 0
  BY <1>1, <1>2 DEF Smaller
<1>4. res_f' \in -1..1
  BY <1>1, <1>2
<1> QED BY <1>1, <1>2, <1>3, <1>4 DEF UpInv

LEMMA SendUp == ASSUME UpInv, Send PROVE UpInv'
<1>1. /\ at = "send" /\ at' = "send" /\ sent < batch /\ Len(out) < SockBuf
      /\ sent' = sent + Smaller(batch - sent, SockBuf - Len(out))
      /\ out' = out \o SubSeq(frame_list, sent + 1, sent')
      /\ UNCHANGED <<frame_list, frames, batch, res_f, got, app, accepted>>
  BY DEF Send
<1>2. frames = Len(frame_list) /\ batch <= frames /\ SockBuf \in Nat
  BY <1>1, PoolAssumption DEF UpInv
<1>3. sent' \in sent..Len(frame_list) /\ sent' <= batch /\ sent \in 0..Len(frame_list)
  <2>1. sent \in Nat /\ batch \in Nat /\ Len(out) \in Nat /\ frames \in Nat
    BY UpTypes
  <2> DEFINE d == Smaller(batch - sent, SockBuf - Len(out))
  <2>2. sent < batch /\ Len(out) < SockBuf /\ SockBuf \in Nat
    BY <1>1, <1>2
  <2>3. d \in Nat /\ d <= batch - sent
    BY <2>1, <2>2 DEF Smaller
  <2>4. sent' = sent + d
    BY <1>1
  <2> HIDE DEF d
  <2>5. sent' \in Nat /\ sent <= sent' /\ sent' <= batch
    BY <2>1, <2>3, <2>4
  <2> QED BY <1>2, <2>1, <2>5
<1> DEFINE x == SubSeq(frame_list, sent + 1, sent')
<1>4. x \in Seq(Nat) /\ Rest(frame_list, sent) = x \o Rest(frame_list, sent')
      /\ Rest(frame_list, sent') \in Seq(Nat)
  <2>1. PICK m \in sent..Len(frame_list) : m = sent'
    BY <1>3
  <2>2. m \in 0..Len(frame_list)
    BY <1>3, UpTypes
  <2> QED BY <1>3, <2>1, <2>2, UpTypes, RestSplit, RestProperties
<1> HIDE DEF x
<1>5. got \o (out \o x) = (got \o out) \o x
  <2>1. got \in Seq(Nat) /\ out \in Seq(Nat) /\ x \in Seq(Nat)
    BY <1>4, UpTypes
  <2> QED BY <2>1, Associative
<1>6. ((got \o out) \o x) \o Rest(frame_list, sent')
         = (got \o out) \o (x \o Rest(frame_list, sent'))
  BY <1>4, UpTypes, Associative
<1>7. out' \in Seq(Nat) /\ out' = out \o x
  BY <1>1, <1>4, UpTypes, ConcatProperties DEF x
<1>8. accepted = (got \o out) \o Rest(frame_list, sent)
  BY <1>1 DEF UpInv
<1>9. accepted' = got' \o out' \o Rest(frame_list', sent')
  BY <1>1, <1>4, <1>5, <1>6, <1>7, <1>8
<1>10. sent' \in Nat /\ sent' <= batch'
  BY <1>1, <1>3, UpTypes
<1> QED BY <1>1, <1>2, <1>7, <1>9, <1>10 DEF UpInv

LEMMA FreeSentUp ==
    ASSUME UpInv, at \in Outgoing, FreeSent PROVE UpInv'
<1>1. /\ frame_list' = Rest(frame_list, sent) /\ frames' = frames - sent
      /\ res_f' \in {1, -1} /\ sent' = 0 /\ batch' = 0 /\ at' = "backward"
      /\ UNCHANGED <<out, got, app, accepted>>
  BY DEF FreeSent, Sent
<1>2. sent \in 0..Len(frame_list) /\ frames = Len(frame_list) /\ frames <= PoolSize + 1
      /\ accepted = got \o out \o Rest(frame_list, sent)
  BY UpTypes DEF UpInv, Outgoing
<1>3. /\ frame_list' \in Seq(Nat) /\ Len(frame_list') = Len(frame_list) - sent
      /\ Rest(frame_list', sent') = frame_list'
  BY <1>1, <1>2, UpTypes, RestProperties, RestZero
<1>4. frames' \in Nat /\ frames' = Len(frame_list') /\ frames' <= PoolSize + 1
  BY <1>1, <1>2, <1>3, UpTypes, PoolAssumption
<1>5. accepted' = got' \o out' \o Rest(frame_list', sent')
  BY <1>1, <1>2, <1>3
<1>6. res_f' \in -1..1
  BY <1>1
<1> QED BY <1>1, <1>3, <1>4, <1>5, <1>6 DEF UpInv

LEMMA ReceiveUp == ASSUME UpInv, Receive PROVE UpInv'
<1>1. /\ at' = at /\ at # "done" /\ app' = app + 1
      /\ UNCHANGED <<batch, sent, res_f, out, got>>
      /\ \/ UNCHANGED <<frame_list, frames, accepted>>
         \/ /\ frames <= PoolSize /\ frames' = frames + 1
            /\ frame_list' = Append(frame_list, app') /\ accepted' = Append(accepted, app')
  BY DEF Receive, Yielded
<1>2. app' \in Nat /\ frames = Len(frame_list) /\ sent \in 0..Len(frame_list)
      /\ accepted = (got \o out) \o Rest(frame_list, sent)
      /\ Rest(frame_list, sent) \in Seq(Nat)
  <2>1. app' \in Nat /\ frames = Len(frame_list) /\ sent <= frames
        /\ accepted = (got \o out) \o Rest(frame_list, sent)
    BY <1>1 DEF UpInv
  <2>2. sent \in 0..Len(frame_list)
    BY <2>1, UpTypes
  <2> QED BY <2>1, <2>2, UpTypes, RestProperties
<1>3. CASE UNCHANGED <<frame_list, frames, accepted>>
  BY <1>1, <1>2, <1>3 DEF UpInv
<1>4. CASE /\ frames <= PoolSize /\ frames' = frames + 1
           /\ frame_list' = Append(frame_list, app') /\ accepted' = Append(accepted, app')
  <2>1. PICK x \in Nat : x = app'
    BY <1>2
  <2>2. /\ Append(frame_list, x) \in Seq(Nat) /\ Append(accepted, x) \in Seq(Nat)
        /\ Len(Append(frame_list, x)) = frames + 1
        /\ Rest(Append(frame_list, x), sent) = Append(Rest(frame_list, sent), x)
    BY <1>2, UpTypes, AppendProperties, RestAppend
  <2>3. (got \o out) \o Append(Rest(frame_list, sent), x) = Append(accepted, x)
    BY <1>2, UpTypes, AppendConcat
  <2>4. accepted' = got' \o out' \o Rest(frame_list', sent')
    BY <1>1, <1>4, <2>1, <2>2, <2>3
  <2>5. /\ frames' \in Nat /\ frames' <= PoolSize + 1 /\ frames' = Len(frame_list')
        /\ batch <= frames => batch' <= frames'
    <3>1. PoolSize \in Nat /\ frames \in Nat /\ batch \in Nat
      BY UpTypes, PoolAssumption
    <3>2. frames' = frames + 1 /\ frames <= PoolSize /\ batch' = batch
          /\ Len(frame_list') = frames + 1
      BY <1>1, <1>4, <2>1, <2>2
    <3> QED BY <3>1, <3>2
  <2> QED BY <1>1, <1>2, <1>4, <2>1, <2>2, <2>4, <2>5 DEF UpInv
<1> QED BY <1>1, <1>3, <1>4

LEMMA TransmitUp == ASSUME UpInv, Transmit PROVE UpInv'
<1>1. /\ out # << >> /\ got' = Append(got, Head(out)) /\ out' = Tail(out)
      /\ UNCHANGED <<at, frame_list, frames, batch, sent, res_f, app, accepted>>
  BY DEF Transmit
<1>2. got' \in Seq(Nat) /\ out' \in Seq(Nat) /\ got' \o out' = got \o out
  BY <1>1, UpTypes, HandOver
<1> QED BY <1>1, <1>2 DEF UpInv

LEMMA LeaveUp == ASSUME UpInv, Leave PROVE UpInv'
BY DEF UpInv, Leave

-----------------------------------------------------------------------------
(***************************************************************************)
(* From the server to the app.                                             *)
(***************************************************************************)
Count(n) == [i \in 1..n |-> i]

\* The beginning of a count is a count.
LEMMA CountPrefix ==
    ASSUME NEW s \in Seq(Nat), NEW t \in Seq(Nat), NEW n \in Nat, s \o t = Count(n)
    PROVE  s = Count(Len(s))
<1>1. Len(s) \in Nat /\ Len(t) \in Nat
  BY LenProperties
<1>2. /\ Len(s \o t) = Len(s) + Len(t)
      /\ \A i \in 1..(Len(s) + Len(t)) :
            (s \o t)[i] = IF i <= Len(s) THEN s[i] ELSE t[i - Len(s)]
  BY ConcatProperties
<1>3. Len(Count(n)) = n /\ \A i \in 1..n : Count(n)[i] = i
  BY CountOn DEF Count
<1>4. n = Len(s) + Len(t)
  BY <1>2, <1>3
<1>5. ASSUME NEW i \in 1..Len(s) PROVE s[i] = i
  <2>1. i \in 1..n /\ i \in 1..(Len(s) + Len(t)) /\ i <= Len(s)
    BY <1>1, <1>4
  <2> QED BY <1>2, <1>3, <2>1
<1>6. s = [i \in 1..Len(s) |-> s[i]]
  BY LenProperties
<1> QED BY <1>5, <1>6 DEF Count

LEMMA DownCount ==
    DownInv <=> /\ srv \in Nat /\ in \in Seq(Nat) /\ back \in Seq(Nat) /\ res_b \in -1..1
                /\ back = Count(Len(back))
                /\ res_b >= 0 => back \o in = Count(srv)
BY DEF DownInv, Count

LEMMA DownQuiet == ASSUME DownInv, UNCHANGED downVars PROVE DownInv'
BY DEF DownInv, downVars

\* A batch of the server's datagrams, of which the app gets k.
LEMMA BackwardMoves ==
    ASSUME DownInv, res_b >= 0, NEW n \in 0..Len(in), NEW k \in 0..n,
           back' = back \o Prefix(in, k), in' = Rest(in, n),
           res_b' = IF k = n THEN 1 ELSE -1, srv' = srv
    PROVE  DownInv'
<1>1. srv \in Nat /\ in \in Seq(Nat) /\ back \in Seq(Nat) /\ back \o in = Count(srv)
      /\ Len(in) \in Nat
  BY LenProperties, DownCount
<1>2. k \in 0..Len(in)
  BY <1>1
<1>3. /\ Prefix(in, k) \in Seq(Nat) /\ Rest(in, k) \in Seq(Nat)
      /\ Prefix(in, k) \o Rest(in, k) = in
  BY <1>1, <1>2, RestProperties
<1>4. (back \o Prefix(in, k)) \o Rest(in, k) = back \o (Prefix(in, k) \o Rest(in, k))
  BY <1>1, <1>3, Associative
<1>5. (back \o Prefix(in, k)) \o Rest(in, k) = Count(srv)
  BY <1>1, <1>3, <1>4
<1>6. back' \in Seq(Nat)
  BY <1>1, <1>3, ConcatProperties
<1>7. PICK b \in Seq(Nat) : b = back' /\ b \o Rest(in, k) = Count(srv)
  BY <1>5, <1>6
<1>8. b = Count(Len(b))
  BY <1>1, <1>3, <1>7, CountPrefix
<1>9. back' = Count(Len(back'))
  BY <1>7, <1>8
<1>10. in' \in Seq(Nat)
  BY <1>1, RestProperties
<1>11. res_b' >= 0 => back' \o in' = Count(srv')
  <2>1. CASE k = n
    BY <1>5, <2>1
  <2>2. CASE k # n
    BY <2>2
  <2> QED BY <2>1, <2>2
<1>12. res_b' \in -1..1 /\ srv' \in Nat
  BY <1>1
<1>13. /\ srv' \in Nat /\ in' \in Seq(Nat) /\ back' \in Seq(Nat) /\ res_b' \in -1..1
       /\ back' = [i \in 1..Len(back') |-> i]
       /\ res_b' >= 0 => back' \o in' = [i \in 1..srv' |-> i]
  BY <1>6, <1>9, <1>10, <1>11, <1>12 DEF Count
<1> QED BY <1>13 DEF DownInv

LEMMA BackwardDown == ASSUME DownInv, Backward PROVE DownInv'
<1>1. srv' = srv /\ in \in Seq(Nat) /\ Len(in) \in Nat /\ Num \in Nat
  BY LenProperties, PoolAssumption DEF Backward, DownInv
<1>2. CASE UNCHANGED <<in, back>> /\ (res_b' \in {res_b, -1} \/ (res_b' = 0 /\ res_b >= 0))
  <2>1. res_b \in -1..1
    BY DEF DownInv
  <2>2. res_b' \in -1..1 /\ (res_b' >= 0 => res_b >= 0)
    BY <1>2, <2>1
  <2> QED BY <1>1, <1>2, <2>2 DEF DownInv
<1>3. CASE /\ res_b >= 0
           /\ LET n == Smaller(Len(in), Num) IN
                /\ \E k \in IF "tun" \in Faults THEN 0..n ELSE {n} :
                      back' = back \o Prefix(in, k) /\ res_b' = IF k = n THEN 1 ELSE -1
                /\ in' = Rest(in, n)
  <2> DEFINE n == Smaller(Len(in), Num)
  <2>1. n \in 0..Len(in)
    BY <1>1 DEF Smaller
  <2>2. PICK k \in IF "tun" \in Faults THEN 0..n ELSE {n} :
           back' = back \o Prefix(in, k) /\ res_b' = IF k = n THEN 1 ELSE -1
    BY <1>3
  <2>3. in' = Rest(in, n) /\ res_b >= 0
    BY <1>3
  <2> HIDE DEF n
  <2>4. k \in 0..n
    BY <1>1, <2>1, <2>2
  <2> QED BY <1>1, <2>1, <2>2, <2>3, <2>4, BackwardMoves
<1>4. res_b < 0 \/ res_b >= 0
  BY DEF DownInv
<1> QED BY <1>2, <1>3, <1>4 DEF Backward

LEMMA ServerSendsDown == ASSUME DownInv, ServerSends PROVE DownInv'
<1>1. srv \in Nat /\ in \in Seq(Nat) /\ back \in Seq(Nat) /\ srv' = srv + 1
      /\ in' = Append(in, srv + 1) /\ UNCHANGED <<res_b, back>>
  BY DEF ServerSends, DownInv
<1>2. in' \in Seq(Nat) /\ srv + 1 \in Nat
  BY <1>1, AppendProperties
<1>3. ASSUME res_b >= 0 PROVE back \o in' = [i \in 1..(srv + 1) |-> i]
  <2>1. back \o in = [i \in 1..srv |-> i]
    BY <1>3 DEF DownInv
  <2>2. back \o Append(in, srv + 1) = Append(back \o in, srv + 1)
    BY <1>1, <1>2, AppendConcat
  <2> QED BY <1>1, <2>1, <2>2, CountOn
<1> QED BY <1>1, <1>2, <1>3 DEF DownInv

-----------------------------------------------------------------------------
(***************************************************************************)
(* The handshake.                                                          *)
(***************************************************************************)

\* One call after the other.
LEMMA Steps ==
    /\ Head(S1) = "write_methods" /\ Tail(S1) = S2
    /\ Head(S2) = "read_method" /\ Tail(S2) = S3 /\ Tail(Tail(S3)) = S5
    /\ Head(S3) = "write_creds" /\ Tail(S3) = S4
    /\ Head(S4) = "read_creds" /\ Tail(S4) = S5
    /\ Head(S5) = "write_request" /\ Tail(S5) = R3
    /\ Head(P1) = "write_methods" /\ Tail(P1) = P2
    /\ Head(P2) = "write_creds" /\ Tail(P2) = P3
    /\ Head(P3) = "write_request" /\ Tail(P3) = R1
    /\ Head(R1) = "read_method" /\ Tail(R1) = R2
    /\ Head(R2) = "read_creds" /\ Tail(R2) = R3
    /\ Head(R3) = "read_response" /\ Tail(R3) = << >>
<1>1. Head(S1) = "write_methods" /\ Tail(S1) = S2
  BY DEF S1, S2, Standard
<1>2. Head(S2) = "read_method" /\ Tail(S2) = S3
  BY DEF S2, S3
<1>3. Head(S3) = "write_creds" /\ Tail(S3) = S4
  BY DEF S3, S4
<1>4. Head(S4) = "read_creds" /\ Tail(S4) = S5
  BY DEF S4, S5
<1>5. Head(S5) = "write_request" /\ Tail(S5) = R3
  BY DEF S5, R3
<1>6. Head(P1) = "write_methods" /\ Tail(P1) = P2
  BY DEF P1, P2, Pipelined
<1>7. Head(P2) = "write_creds" /\ Tail(P2) = P3
  BY DEF P2, P3
<1>8. Head(P3) = "write_request" /\ Tail(P3) = R1
  BY DEF P3, R1
<1>9. Head(R1) = "read_method" /\ Tail(R1) = R2
  BY DEF R1, R2
<1>10. Head(R2) = "read_creds" /\ Tail(R2) = R3
  BY DEF R2, R3
<1>11. Head(R3) = "read_response" /\ Tail(R3) = << >>
  BY DEF R3
<1> QED BY <1>1, <1>2, <1>3, <1>4, <1>5, <1>6, <1>7, <1>8, <1>9, <1>10, <1>11

LEMMA NoneEmpty ==
    /\ S1 # << >> /\ S2 # << >> /\ S3 # << >> /\ S4 # << >> /\ S5 # << >>
    /\ P1 # << >> /\ P2 # << >> /\ P3 # << >>
    /\ R1 # << >> /\ R2 # << >> /\ R3 # << >>
BY DEF S1, S2, S3, S4, S5, P1, P2, P3, R1, R2, R3, Standard, Pipelined

\* The calls that are left after a write.
LEMMA WriteTodo ==
    ASSUME Unasked \/ Asked, Writes, todo' = Tail(todo), opt' = opt
    PROVE  /\ Unasked /\ todo' # << >>
           /\ IF Head(todo) = "write_request" THEN Asked' ELSE Unasked'
BY Steps, NoneEmpty DEF Asked, Unasked, Writes

\* The calls that are left after an answer that was agreed to.
LEMMA ReadTodo ==
    ASSUME Unasked \/ Asked, Reads, opt' = opt, NEW m, Agrees(m),
           todo' = IF m = <<"method", "none">> THEN WithoutCreds(Tail(todo))
                   ELSE Tail(todo)
    PROVE  /\ Head(todo) = "read_response" => Asked /\ todo' = << >>
           /\ Head(todo) # "read_response" =>
                 /\ todo' # << >>
                 /\ IF Unasked THEN Unasked' ELSE Asked'
<1>1. Head(todo) \in {"read_method", "read_creds", "read_response"}
  BY DEF Reads
<1>2. CASE Head(todo) = "read_method"
  <2>1. todo \in {S2, R1} /\ (todo = S2 <=> ~opt.pipeline)
    BY <1>2, Steps DEF Asked, Unasked
  <2> QED BY <1>2, <2>1, Steps, NoneEmpty DEF Asked, Unasked, WithoutCreds
<1>3. CASE Head(todo) = "read_creds"
  <2>1. m = <<"status", "ok">>
    BY <1>3 DEF Agrees
  <2>2. m # <<"method", "none">>
    BY <2>1
  <2> QED BY <1>3, <2>2, Steps, NoneEmpty DEF Asked, Unasked
<1>4. CASE Head(todo) = "read_response"
  <2>1. m = <<"response", "ok">>
    BY <1>4 DEF Agrees
  <2>2. m # <<"method", "none">>
    BY <2>1
  <2> QED BY <1>4, <2>2, Steps, NoneEmpty DEF Asked, Unasked
<1> QED BY <1>1, <1>2, <1>3, <1>4

\* A message, or none, is put at the end of a queue.
LEMMA PutMessage ==
    ASSUME NEW S, NEW q \in Seq(S), NEW w, w = << >> \/ \E x \in S : w = <<x>>
    PROVE  /\ q \o w \in Seq(S) /\ Len(q \o w) \in Nat
           /\ w = << >> => q \o w = q
           /\ \A x \in S : w = <<x>> =>
                 /\ Len(q \o w) = Len(q) + 1 /\ (q \o w)[Len(q) + 1] = x
                 /\ \A i \in 1..Len(q) : (q \o w)[i] = q[i]
<1>1. CASE w = << >>
  <2>1. q \o w = q
    BY <1>1, ConcatEmptySeq
  <2>2. Len(q) \in Nat /\ \A x \in S : w # <<x>>
    BY <1>1, LenProperties
  <2> QED BY <2>1, <2>2
<1>2. ASSUME NEW x \in S, w = <<x>>
      PROVE  /\ q \o w \in Seq(S) /\ Len(q \o w) = Len(q) + 1 /\ (q \o w)[Len(q) + 1] = x
             /\ \A i \in 1..Len(q) : (q \o w)[i] = q[i]
  <2>1. q \o w = Append(q, x)
    BY <1>2, AppendIsConcat
  <2> QED BY <2>1, AppendProperties
<1>3. ASSUME NEW x \in S, NEW y \in S, w = <<x>>, w = <<y>> PROVE x = y
  <2>1. <<x>>[1] = x /\ <<y>>[1] = y
    OBVIOUS
  <2> QED BY <1>3, <2>1
<1>4. CASE \E x \in S : w = <<x>>
  <2>1. PICK x \in S : w = <<x>>
    BY <1>4
  <2>2. w # << >>
    BY <2>1
  <2>3. Len(q) \in Nat
    BY LenProperties
  <2> QED BY <1>2, <1>3, <2>1, <2>2, <2>3
<1> QED BY <1>1, <1>4

LEMMA PutClear ==
    ASSUME NEW S, NEW q \in Seq(S), NEW w, w = << >> \/ \E x \in S : w = <<x>>,
           NEW m, No(q, m)
    PROVE  /\ OnlyLast(q \o w, m)
           /\ (\A x \in S : w = <<x>> => x[1] # m) => No(q \o w, m)
<1>1. Len(q) \in Nat
  BY LenProperties
<1>2. CASE w = << >>
  <2>1. q \o w = q
    BY <1>2, PutMessage
  <2> QED BY <2>1 DEF No, OnlyLast
<1>3. ASSUME NEW x \in S, w = <<x>>
      PROVE  OnlyLast(q \o w, m) /\ (x[1] # m => No(q \o w, m))
  <2>1. /\ Len(q \o w) = Len(q) + 1 /\ (q \o w)[Len(q) + 1] = x
        /\ \A i \in 1..Len(q) : (q \o w)[i] = q[i]
    BY <1>3, PutMessage
  <2>2. \A i \in 1..(Len(q) + 1) : i \in 1..Len(q) \/ i = Len(q) + 1
    BY <1>1
  <2> QED BY <1>1, <2>1, <2>2 DEF No, OnlyLast
<1> QED BY <1>2, <1>3

\* The first message of a queue is taken.
LEMMA TakeMessage ==
    ASSUME NEW S, NEW q \in Seq(S), q # << >>, NEW m
    PROVE  /\ Tail(q) \in Seq(S) /\ Head(q) = q[1] /\ Head(q) \in S
           /\ Len(q) \in Nat /\ Len(q) >= 1 /\ 1 \in 1..Len(q)
           /\ Len(q) = 1 => Tail(q) = << >>
           /\ No(q, m) => No(Tail(q), m)
           /\ OnlyLast(q, m) => OnlyLast(Tail(q), m)
           /\ OnlyLast(q, m) /\ Head(q)[1] = m => Len(q) = 1
           /\ \A i \in 1..Len(Tail(q)) : \E j \in 1..Len(q) : Tail(q)[i] = q[j]
<1>1. Len(q) \in Nat /\ Len(q) >= 1 /\ Head(q) = q[1] /\ Head(q) \in S
  <2>1. Len(q) \in Nat \ {0} /\ Head(q) \in S
    BY EmptySeq, HeadTailProperties
  <2>2. Head(q) = q[1]
    OBVIOUS
  <2> QED BY <2>1, <2>2
<1>2. /\ Tail(q) \in Seq(S) /\ Len(Tail(q)) = Len(q) - 1
      /\ \A i \in 1..Len(Tail(q)) : Tail(q)[i] = q[i + 1]
  BY HeadTailProperties
<1>3. ASSUME Len(q) = 1 PROVE Tail(q) = << >>
  <2>1. Len(Tail(q)) = 0
    BY <1>2, <1>3
  <2> QED BY <1>2, <2>1, EmptySeq
<1>4. \A i \in 1..Len(Tail(q)) : i + 1 \in 1..Len(q) /\ (i + 1 = Len(q) => i = Len(Tail(q)))
  <2>1. PICK n \in Nat : n = Len(q) /\ n >= 1 /\ Len(Tail(q)) = n - 1
    BY <1>1, <1>2
  <2>2. \A i \in 1..(n - 1) : i + 1 \in 1..n /\ (i + 1 = n => i = n - 1)
    BY <2>1
  <2> QED BY <2>1, <2>2
<1>5. No(q, m) => No(Tail(q), m)
  BY <1>2, <1>4 DEF No
<1>6. OnlyLast(q, m) => OnlyLast(Tail(q), m)
  BY <1>2, <1>4 DEF OnlyLast
<1>7. OnlyLast(q, m) /\ Head(q)[1] = m => Len(q) = 1
  <2>1. 1 \in 1..Len(q)
    BY <1>1
  <2> QED BY <1>1, <2>1 DEF OnlyLast
<1>8. \A i \in 1..Len(Tail(q)) : \E j \in 1..Len(q) : Tail(q)[i] = q[j]
  BY <1>2, <1>4
<1>9. 1 \in 1..Len(q)
  BY <1>1
<1> QED BY <1>1, <1>2, <1>3, <1>5, <1>6, <1>7, <1>8, <1>9

Talk == Conversation /\ InStep

LEMMA TalkQuiet ==
    ASSUME Talk, UNCHANGED clientVars,
           at' \in {"connect", "connecting", "handshake"} => at' = at
    PROVE  Talk'
<1>1. /\ opt' = opt /\ todo' = todo /\ toServer' = toServer /\ toClient' = toClient
      /\ server' = server /\ closed' = closed /\ fds' = fds
  BY DEF clientVars
<1>2. Unasked' <=> Unasked
  BY <1>1 DEF Unasked
<1>3. Asked' <=> Asked
  BY <1>1 DEF Asked
<1> QED BY <1>1, <1>2, <1>3 DEF Talk, Conversation, InStep, OnlyLast, No

\* hev_socks5_client_connect, and the descriptors' end.
LEMMA TalkConnect ==
    ASSUME Talk, Connect \/ Connected \/ ConnectFails \/ Leave
    PROVE  Talk'
<1>1. CASE Connected
  <2>1. /\ at = "connecting" /\ at' = "handshake" /\ todo' = Script
        /\ UNCHANGED <<opt, toServer, toClient, server, closed, fds>>
    BY <1>1 DEF Connected
  <2>2. toServer = << >> /\ server = "methods" /\ "udp" \notin fds
    BY <2>1 DEF Talk, Conversation
  <2>3. Unasked'
    BY <2>1 DEF Script, Unasked, P1, S1
  <2>4. No(toServer', "request")
    BY <2>1, <2>2 DEF No
  <2> QED BY <2>1, <2>2, <2>3, <2>4 DEF Talk, Conversation, InStep, OnlyLast, No
<1>2. CASE Connect \/ ConnectFails \/ Leave
  <2>1. /\ UNCHANGED <<opt, todo, toServer, toClient, server, closed>>
        /\ fds' \in SUBSET {"tcp"}
        /\ at' \in {"connecting", "leave", "done"} /\ (at' = "connecting" => at = "connect")
    BY <1>2 DEF Connect, ConnectFails, Leave
  <2>2. fds' \in SUBSET {"tcp", "udp"} /\ "udp" \notin fds'
    BY <2>1
  <2> QED BY <2>1, <2>2 DEF Talk, Conversation, InStep, OnlyLast, No
<1> QED BY <1>1, <1>2

LEMMA TalkWrite ==
    ASSUME Talk, at = "handshake", Write,
           at' = IF todo' = << >> THEN "forward" ELSE at
    PROVE  Talk' /\ at' = "handshake"
<1>1. /\ Writes /\ toServer' = toServer \o Written(Head(todo)) /\ todo' = Tail(todo)
      /\ UNCHANGED <<opt, toClient, server, closed, fds>>
  BY DEF Write
<1>2. Unasked \/ Asked
  BY DEF Talk, Conversation
<1>3. /\ Unasked /\ todo' # << >>
      /\ IF Head(todo) = "write_request" THEN Asked' ELSE Unasked'
  BY <1>1, <1>2, WriteTodo
<1>4. at' = "handshake"
  BY <1>3
<1>5. /\ toServer \in Seq(Requests) /\ No(toServer, "request") /\ server # "granted"
      /\ "udp" \notin fds
  BY <1>3 DEF Talk, Conversation
<1> DEFINE w == Written(Head(todo))
<1>6. /\ w = << >> \/ \E x \in Requests : w = <<x>>
      /\ Head(todo) # "write_request" => \A x \in Requests : w = <<x>> => x[1] # "request"
  <2>1. Head(todo) \in {"write_methods", "write_creds", "write_request"}
    BY <1>1 DEF Writes
  <2>2. CASE Head(todo) = "write_methods"
    <3>1. w = << <<"methods", Offer>> >> /\ <<"methods", Offer>> \in Requests
      BY <2>2 DEF Written, Requests, Offer
    <3>2. \A x : w = <<x>> => x = <<"methods", Offer>>
      BY <3>1
    <3> QED BY <3>1, <3>2
  <2>3. CASE Head(todo) = "write_request"
    <3>1. w = << <<"request", "">> >> /\ <<"request", "">> \in Requests
      BY <2>3 DEF Written, Requests
    <3> QED BY <2>3, <3>1
  <2>4. CASE Head(todo) = "write_creds" /\ opt.auth
    <3>1. w = << <<"creds", "">> >> /\ <<"creds", "">> \in Requests
      BY <2>4 DEF Written, Requests
    <3>2. PICK m \in Requests : m = <<"creds", "">> /\ m[1] = "creds" /\ w = <<m>>
      BY <3>1
    <3>3. \A x : <<m>> = <<x>> => x = m
      OBVIOUS
    <3> QED BY <3>2, <3>3
  <2>5. CASE Head(todo) = "write_creds" /\ ~opt.auth
    BY <2>5 DEF Written
  <2> QED BY <2>1, <2>2, <2>3, <2>4, <2>5
<1>7. toServer' = toServer \o w
  BY <1>1
<1> HIDE DEF w
<1>8. toServer' \in Seq(Requests)
  BY <1>5, <1>6, <1>7, PutMessage
<1>9. /\ OnlyLast(toServer', "request")
      /\ Head(todo) # "write_request" => No(toServer', "request")
  BY <1>5, <1>6, <1>7, PutClear
<1>10. Unasked' => Head(todo) # "write_request"
  <2>1. Asked' => ~Unasked'
    BY Steps DEF Asked, Unasked
  <2> QED BY <1>3, <2>1
<1>11. (Unasked' \/ Asked')
  BY <1>3
<1>12. InStep'
  BY <1>1, <1>5 DEF InStep
<1>13. Conversation'
  BY <1>1, <1>4, <1>5, <1>8, <1>9, <1>10, <1>11
     DEF Talk, Conversation, OnlyLast, No
<1> QED BY <1>4, <1>12, <1>13 DEF Talk

LEMMA TalkRead ==
    ASSUME Talk, at = "handshake", Read,
           at' = IF todo' = << >> THEN "forward" ELSE at
    PROVE  Talk' /\ at' \in {"handshake", "forward"} /\ (at' = "forward" => "udp" \in fds')
<1>1. /\ Reads /\ toClient # << >> /\ Agrees(Head(toClient)) /\ toClient' = Tail(toClient)
      /\ todo' = IF Head(toClient) = <<"method", "none">>
                 THEN WithoutCreds(Tail(todo)) ELSE Tail(todo)
      /\ fds' = IF Head(todo) = "read_response" THEN fds \cup {"udp"} ELSE fds
      /\ UNCHANGED <<opt, toServer, server, closed>>
  BY DEF Read, Answered
<1>2. (Unasked \/ Asked) /\ "udp" \notin fds
  BY DEF Talk, Conversation
<1>3. /\ Head(todo) = "read_response" => Asked /\ todo' = << >>
      /\ Head(todo) # "read_response" =>
            /\ todo' # << >>
            /\ IF Unasked THEN Unasked' ELSE Asked'
  <2>1. PICK m : m = Head(toClient)
    OBVIOUS
  <2> QED BY <1>1, <1>2, <2>1, ReadTodo
<1>4. toClient \in Seq(Answers)
  BY DEF Talk, Conversation
<1>5. /\ toClient' \in Seq(Answers) /\ Head(toClient) = toClient[1] /\ Len(toClient) >= 1
      /\ 1 \in 1..Len(toClient) /\ Len(toClient) \in Nat
      /\ Len(toClient) = 1 => toClient' = << >>
      /\ No(toClient, "response") => No(toClient', "response")
      /\ OnlyLast(toClient, "response") => OnlyLast(toClient', "response")
      /\ OnlyLast(toClient, "response") /\ Head(toClient)[1] = "response" => Len(toClient) = 1
      /\ \A i \in 1..Len(toClient') : \E j \in 1..Len(toClient) : toClient'[i] = toClient[j]
  BY <1>1, <1>4, TakeMessage
<1>6. \A i \in 1..Len(toClient') : toClient'[i] = <<"response", "ok">> => server = "granted"
  BY <1>5 DEF Talk, Conversation
<1>7. CASE Head(todo) = "read_response"
  <2>1. at' = "forward" /\ fds' = fds \cup {"udp"}
    BY <1>1, <1>3, <1>7
  <2>2. Head(toClient) = <<"response", "ok">>
    BY <1>1, <1>7 DEF Agrees
  <2>3. Head(toClient)[1] = "response"
    BY <2>2
  <2>4. toClient' = << >> /\ server = "granted" /\ toServer = << >>
    BY <1>5, <2>2, <2>3 DEF Talk, Conversation
  <2>5. InStep'
    BY <1>1, <2>4 DEF InStep
  <2>6. Conversation'
    BY <1>1, <1>5, <1>6, <2>1, <2>4 DEF Talk, Conversation, OnlyLast, No
  <2> QED BY <2>1, <2>5, <2>6 DEF Talk
<1>8. CASE Head(todo) # "read_response"
  <2>1. at' = "handshake" /\ fds' = fds
    BY <1>1, <1>3, <1>8
  <2>2. (Unasked' \/ Asked') /\ (Unasked' => Unasked)
    <3>1. Asked' => ~Unasked'
      BY Steps DEF Asked, Unasked
    <3> QED BY <1>3, <1>8, <3>1
  <2>3. InStep'
    BY <1>2, <2>1 DEF InStep
  <2>4. Conversation'
    BY <1>1, <1>2, <1>5, <1>6, <2>1, <2>2 DEF Talk, Conversation, OnlyLast, No
  <2> QED BY <2>1, <2>3, <2>4 DEF Talk
<1> QED BY <1>7, <1>8

\* The server's side: what it answers, and what that makes of it.
LEMMA Served ==
    ASSUME Serve
    PROVE  \E w : /\ toClient' = toClient \o w
                  /\ w = << >> \/ \E x \in Answers : w = <<x>>
                  /\ server' \in {"creds", "request", "granted", "refused"}
                  /\ server' \notin {"granted", "refused"} =>
                        \A x \in Answers : w = <<x>> => x[1] # "response"
                  /\ w # << >> => server \notin {"granted", "refused"}
                  /\ w = << >> => server' = "refused"
                  /\ server' \notin {"granted", "refused"} => server \in {"methods", "creds"}
                  /\ server' = "granted" => Head(toServer)[1] = "request"
                  /\ \A x \in Answers : w = <<x>> /\ x = <<"response", "ok">> =>
                                            server' = "granted"
<1> DEFINE Good(w, n) ==
              /\ w = << >> \/ \E x \in Answers : w = <<x>>
              /\ n \in {"creds", "request", "granted", "refused"}
              /\ n \notin {"granted", "refused"} =>
                    \A x \in Answers : w = <<x>> => x[1] # "response"
              /\ w # << >> => server \notin {"granted", "refused"}
              /\ w = << >> => n = "refused"
              /\ n \notin {"granted", "refused"} => server \in {"methods", "creds"}
              /\ n = "granted" => Head(toServer)[1] = "request"
              /\ \A x \in Answers : w = <<x>> /\ x = <<"response", "ok">> => n = "granted"
<1>1. ASSUME NEW m \in Answers, NEW n \in {"creds", "request", "granted", "refused"},
             m[1] = "response" => n \in {"granted", "refused"},
             server \notin {"granted", "refused"},
             n \notin {"granted", "refused"} => server \in {"methods", "creds"},
             n = "granted" => Head(toServer)[1] = "request",
             m = <<"response", "ok">> => n = "granted"
      PROVE  Good(<<m>>, n)
  <2>1. \A x : <<m>> = <<x>> => x = m
    OBVIOUS
  <2>2. <<m>> # << >>
    OBVIOUS
  <2> QED BY <1>1, <2>1, <2>2
<1>2. Good(<< >>, "refused")
  <2>1. \A x : << >> # <<x>>
    OBVIOUS
  <2> QED BY <2>1
<1> HIDE DEF Good
<1>3. SUFFICES \E w : toClient' = toClient \o w /\ Good(w, server')
  BY DEF Good
<1>4. ASSUME NEW w, NEW n, Good(w, n), Reply(w, n)
      PROVE  \E v : toClient' = toClient \o v /\ Good(v, server')
  <2>1. toClient' = toClient \o w /\ server' = n
    BY <1>4 DEF Reply
  <2> QED BY <1>4, <2>1
<1>5. /\ <<"method", "none">> \in Answers /\ <<"method", "user">> \in Answers
      /\ <<"method", "bad">> \in Answers /\ <<"status", "ok">> \in Answers
      /\ <<"status", "bad">> \in Answers /\ <<"response", "ok">> \in Answers
      /\ <<"response", "bad">> \in Answers
  BY DEF Answers
<1>6. CASE server = "methods"
  <2>1. /\ Good(<< <<"method", "none">> >>, "request")
        /\ Good(<< <<"method", "user">> >>, "creds")
        /\ Good(<< <<"method", "bad">> >>, "refused")
    BY <1>1, <1>5, <1>6
  <2> QED BY <1>4, <1>6, <2>1 DEF Serve
<1>7. CASE server = "creds" /\ Head(toServer)[1] = "creds"
  <2>1. /\ Good(<< <<"status", "ok">> >>, "request")
        /\ Good(<< <<"status", "bad">> >>, "refused")
    BY <1>1, <1>5, <1>7
  <2> QED BY <1>4, <1>7, <2>1 DEF Serve
<1>8. CASE server = "request" /\ Head(toServer)[1] = "request"
  <2>1. /\ Good(<< <<"response", "ok">> >>, "granted")
        /\ Good(<< <<"response", "bad">> >>, "refused")
    BY <1>1, <1>5, <1>8
  <2> QED BY <1>4, <1>8, <2>1 DEF Serve
<1>9. CASE server # "methods" /\ Head(toServer)[1] # server
  <2>1. Reply(<< >>, "refused")
    BY <1>9 DEF Serve
  <2> QED BY <1>2, <1>4, <2>1
<1> QED BY <1>6, <1>7, <1>8, <1>9 DEF Serve

LEMMA TalkServe ==
    ASSUME Talk, Serve, at' = at
    PROVE  Talk' /\ "udp" \notin fds
<1>1. /\ toServer # << >> /\ ~closed /\ server # "granted" /\ toServer' = Tail(toServer)
      /\ UNCHANGED <<opt, todo, fds>>
  BY DEF Serve
<1>2. PICK w :    /\ toClient' = toClient \o w
                  /\ w = << >> \/ \E x \in Answers : w = <<x>>
                  /\ server' \in {"creds", "request", "granted", "refused"}
                  /\ server' \notin {"granted", "refused"} =>
                        \A x \in Answers : w = <<x>> => x[1] # "response"
                  /\ w # << >> => server \notin {"granted", "refused"}
                  /\ w = << >> => server' = "refused"
                  /\ server' \notin {"granted", "refused"} => server \in {"methods", "creds"}
                  /\ server' = "granted" => Head(toServer)[1] = "request"
                  /\ \A x \in Answers : w = <<x>> /\ x = <<"response", "ok">> =>
                                            server' = "granted"
  BY Served
<1>3. toServer \in Seq(Requests) /\ toClient \in Seq(Answers) /\ Len(toClient) \in Nat
  BY LenProperties DEF Talk, Conversation
<1>4. /\ toServer' \in Seq(Requests) /\ Head(toServer) = toServer[1]
      /\ 1 \in 1..Len(toServer)
      /\ Len(toServer) = 1 => toServer' = << >>
      /\ No(toServer, "request") => No(toServer', "request")
      /\ OnlyLast(toServer', "request")
      /\ Head(toServer)[1] = "request" => Len(toServer) = 1
  <2>1. OnlyLast(toServer, "request")
    BY DEF Talk, Conversation
  <2> QED BY <1>1, <1>3, <2>1, TakeMessage
<1>5. toClient' \in Seq(Answers)
  BY <1>2, <1>3, PutMessage
<1>6. OnlyLast(toClient', "response")
  <2>1. CASE w = << >>
    <3>1. toClient' = toClient
      BY <1>2, <1>3, <2>1, PutMessage
    <3> QED BY <3>1 DEF Talk, Conversation, OnlyLast
  <2>2. CASE w # << >>
    <3>1. No(toClient, "response")
      BY <1>2, <2>2 DEF Talk, Conversation
    <3> QED BY <1>2, <1>3, <3>1, PutClear
  <2> QED BY <2>1, <2>2
<1>7. server' \notin {"granted", "refused"} => No(toClient', "response")
  <2> SUFFICES ASSUME server' \notin {"granted", "refused"} PROVE No(toClient', "response")
    OBVIOUS
  <2>1. No(toClient, "response")
    BY <1>2 DEF Talk, Conversation
  <2> QED BY <1>2, <1>3, <2>1, PutClear
<1>8. ASSUME NEW i \in 1..Len(toClient'), toClient'[i] = <<"response", "ok">>
      PROVE  server' = "granted"
  <2>1. CASE w = << >>
    <3>1. toClient' = toClient
      BY <1>2, <1>3, <2>1, PutMessage
    <3> QED BY <1>1, <1>8, <3>1 DEF Talk, Conversation
  <2>2. CASE w # << >>
    <3>1. PICK x \in Answers : w = <<x>>
      BY <1>2, <2>2
    <3>2. /\ Len(toClient') = Len(toClient) + 1 /\ toClient'[Len(toClient) + 1] = x
          /\ \A j \in 1..Len(toClient) : toClient'[j] = toClient[j]
      BY <1>2, <1>3, <3>1, PutMessage
    <3>3. i \in 1..Len(toClient) \/ i = Len(toClient) + 1
      BY <1>3, <3>2
    <3>4. CASE i = Len(toClient) + 1
      BY <1>2, <1>8, <3>1, <3>2, <3>4
    <3>5. CASE i \in 1..Len(toClient)
      BY <1>1, <1>8, <3>2, <3>5 DEF Talk, Conversation
    <3> QED BY <3>3, <3>4, <3>5
  <2> QED BY <2>1, <2>2
<1>9. server' = "granted" => toServer' = << >>
  BY <1>2, <1>4
<1>10. "udp" \notin fds
  BY <1>1 DEF Talk, InStep
<1>11. at \notin {"connect", "connecting"}
  BY <1>1 DEF Talk, Conversation
<1>12. closed' \in BOOLEAN
  BY DEF Serve, Reply
<1>13. (Unasked' <=> Unasked) /\ (Asked' <=> Asked)
  BY <1>1 DEF Unasked, Asked
<1>14. ASSUME No(toServer, "request") PROVE server' # "granted"
  BY <1>2, <1>4, <1>14 DEF No
<1>15. Conversation'
  BY <1>1, <1>2, <1>4, <1>5, <1>6, <1>7, <1>8, <1>9, <1>11, <1>12, <1>13, <1>14
     DEF Talk, Conversation
<1>16. InStep'
  BY <1>1, <1>10 DEF InStep
<1> QED BY <1>10, <1>15, <1>16 DEF Talk

LEMMA TalkHangUp == ASSUME Talk, HangUp, at' = at PROVE Talk'
<1>1. UNCHANGED <<opt, todo, toServer, toClient, server, fds>> /\ closed' = TRUE
  BY DEF HangUp
<1>2. (Unasked' <=> Unasked) /\ (Asked' <=> Asked)
  BY <1>1 DEF Unasked, Asked
<1> QED BY <1>1, <1>2 DEF Talk, Conversation, InStep, OnlyLast, No

-----------------------------------------------------------------------------
(***************************************************************************)
(* The rounds of hev_socks5_session_udp_splice.                            *)
(***************************************************************************)
Rounds == TaskTypes /\ Round /\ Attentive

\* In the splice nothing of the control connection is left to read, and so
\* its end is seen at once.
LEMMA EndIsSeen ==
    ASSUME Round, Talk, at \in Splicing
    PROVE  (HungUp <=> closed) /\ ~Serve /\ "udp" \in fds
BY DEF Round, Talk, InStep, HungUp, Serve

\* The splice itself.
LEMMA RoundsTask ==
    ASSUME IInv,
           Forward \/ Send \/ WaitToSend \/ SendEnds \/ SendTimesOut \/ Backward
           \/ Choose \/ Resume
    PROVE  Rounds'
<1>1. frames \in Nat /\ res_f \in -1..1 /\ res_b \in -1..1 /\ fds' = fds /\ closed' = closed
      /\ at \in Splicing /\ edge' = edge
  BY DEF IInv, UpInv, DownInv, Forward, Send, WaitToSend, SendEnds, SendTimesOut, FreeSent,
     Backward, Choose, Resume, clientVars, Splicing
<1>2. (HungUp <=> closed) /\ "udp" \in fds
  BY <1>1, EndIsSeen DEF IInv, Talk
<1> USE DEF IInv, Rounds, TaskTypes, Round, Attentive, Places, Splicing
<1>3. CASE Forward
  BY <1>1, <1>2, <1>3 DEF Forward, clientVars
<1>4. CASE Send
  BY <1>1, <1>2, <1>4 DEF Send, clientVars
<1>5. CASE WaitToSend
  <2>1. at' = "sending" /\ ~closed /\ Len(out') = SockBuf
    BY <1>2, <1>5 DEF WaitToSend, upVars
  <2>2. SockBuf \in Nat
    BY PoolAssumption
  <2>3. ~(Len(out') < SockBuf)
    BY <2>1, <2>2
  <2>4. awake' \in BOOLEAN
    BY <1>5 DEF WaitToSend
  <2> QED BY <1>1, <1>2, <2>1, <2>3, <2>4
<1>6. CASE SendEnds \/ SendTimesOut
  <2>1. at' = "backward"
    BY <1>6 DEF SendEnds, SendTimesOut, FreeSent
  <2>2. awake' = awake \/ awake' = TRUE
    BY <1>6 DEF SendEnds, SendTimesOut
  <2>3. awake' \in BOOLEAN
    BY <2>2
  <2>4. res_f' = IF sent > 0 THEN 1 ELSE -1
    BY <1>6 DEF SendEnds, SendTimesOut, FreeSent
  <2>5. res_f' # 0
    BY <2>4
  <2> QED BY <1>1, <1>2, <2>1, <2>3, <2>5
<1>7. CASE Backward
  <2>1. at' = "choose" /\ awake' = awake /\ res_f' = res_f /\ frames' = frames
    BY <1>7 DEF Backward, upVars
  <2>2. res_b' = 0 => in' = << >>
    BY <1>1, <1>7 DEF Backward
  <2> QED BY <1>1, <1>2, <1>7, <2>1, <2>2 DEF Backward
<1>8. CASE Choose
  <2>1. /\ at' \in {"leave", "ready", "wait"} /\ awake' \in BOOLEAN
        /\ at' = "wait" => ~closed
        /\ UNCHANGED <<res_f, res_b, frames, in>>
    BY <1>2, <1>8 DEF Choose, ControlGone, upVars, downVars
  <2> QED BY <1>1, <1>2, <1>8, <2>1 DEF Choose
<1>9. CASE Resume
  BY <1>1, <1>2, <1>9 DEF Resume, clientVars, upVars, downVars
<1> QED BY <1>3, <1>4, <1>5, <1>6, <1>7, <1>8, <1>9

\* Connection, handshake and the end.
LEMMA RoundsOutside ==
    ASSUME IInv,
           Connect \/ Connected \/ ConnectFails \/ HandshakeStep \/ HandshakeFails
           \/ TimesOut \/ Leave,
           at' = "forward" => "udp" \in fds'
    PROVE  Rounds'
<1>1. awake' \in {awake, TRUE, FALSE} /\ edge' = edge
      /\ at' \in {"connecting", "handshake", "forward", "leave", "done"}
  <2>1. CASE HandshakeStep
    BY <2>1 DEF HandshakeStep
  <2>2. CASE Connect \/ Connected \/ ConnectFails \/ HandshakeFails \/ TimesOut \/ Leave
    BY <2>2 DEF Connect, Connected, ConnectFails, HandshakeFails, TimesOut, Leave
  <2> QED BY <2>1, <2>2
<1> QED BY <1>1 DEF IInv, Rounds, TaskTypes, Round, Attentive, Places, Splicing

\* Those who wake the task.
LEMMA RoundsAround ==
    ASSUME IInv,
           Receive \/ Terminate \/ Transmit \/ ServerSends \/ ServerAnswers
           \/ ServerHangsUp \/ Reactor
    PROVE  Rounds'
<1>1. at' = at /\ fds' = fds /\ res_f' = res_f /\ res_b' = res_b
  BY DEF Receive, Terminate, Transmit, ServerSends, ServerAnswers, ServerHangsUp, Reactor,
     clientVars, upVars, downVars, Serve, HangUp
<1>2. awake' \in BOOLEAN /\ edge' \in BOOLEAN
  BY DEF IInv, TaskTypes, Receive, WakeTask, Terminate, Transmit, ServerSends,
     ServerAnswers, ServerHangsUp, Reactor
<1> USE DEF IInv, Rounds, TaskTypes, Round, Attentive, Splicing
<1>3. CASE Receive
  <2>1. /\ at \notin {"backward", "choose"} /\ in' = in /\ edge' = edge /\ closed' = closed
        /\ out' = out /\ (awake' = TRUE \/ (awake' = awake /\ frames' = frames))
    BY <1>3 DEF Receive, Yielded, WakeTask, clientVars, downVars
  <2> QED BY <1>1, <1>2, <2>1
<1>4. CASE Terminate \/ Reactor
  BY <1>1, <1>2, <1>4 DEF Terminate, Reactor, Yielded, clientVars, upVars, downVars
<1>5. CASE Transmit
  BY <1>1, <1>2, <1>5 DEF Transmit, clientVars, downVars
<1>6. CASE ServerSends
  BY <1>1, <1>2, <1>6 DEF ServerSends, clientVars, upVars
<1>7. CASE ServerAnswers
  <2>1. at \notin Splicing
    BY <1>7, EndIsSeen DEF ServerAnswers, Talk
  <2> QED BY <1>1, <1>2, <2>1
<1>8. CASE ServerHangsUp
  BY <1>1, <1>2, <1>8 DEF ServerHangsUp, HangUp, upVars, downVars
<1> QED BY <1>3, <1>4, <1>5, <1>6, <1>7, <1>8

-----------------------------------------------------------------------------
LEMMA InitInv == Init => IInv
<1> SUFFICES ASSUME Init PROVE IInv
  OBVIOUS
<1>1. UpInv
  <2>1. /\ frame_list = << >> /\ out = << >> /\ got = << >> /\ accepted = << >>
        /\ frames = 0 /\ batch = 0 /\ sent = 0 /\ app = 0 /\ res_f = 1 /\ at = "connect"
    BY DEF Init
  <2>2. << >> \in Seq(Nat) /\ Len(<< >>) = 0 /\ << >> \o << >> = << >>
    BY EmptySeq, ConcatEmptySeq
  <2>3. Rest(<< >>, 0) = << >>
    BY <2>2, RestZero
  <2>4. 0 <= PoolSize + 1 /\ 1 \in -1..1
    BY PoolAssumption
  <2> QED BY <2>1, <2>2, <2>3, <2>4 DEF UpInv
<1>2. DownInv
  <2>1. in = << >> /\ back = << >> /\ srv = 0 /\ res_b = 1
    BY DEF Init
  <2>2. << >> \in Seq(Nat) /\ Len(<< >>) = 0 /\ << >> \o << >> = << >>
    BY EmptySeq, ConcatEmptySeq
  <2>3. << >> = [i \in 1..0 |-> i]
    OBVIOUS
  <2> QED BY <2>1, <2>2, <2>3 DEF DownInv
<1>3. TaskTypes /\ Round /\ Attentive /\ InStep
  BY DEF Init, ClientInit, TaskTypes, Places, Round, Splicing, Attentive, InStep
<1>4. Conversation
  <2>1. << >> \in Seq(Requests) /\ << >> \in Seq(Answers) /\ Len(<< >>) = 0
    BY EmptySeq
  <2>2. /\ toServer = << >> /\ toClient = << >> /\ server = "methods" /\ at = "connect"
        /\ fds = {} /\ closed = FALSE /\ opt \in [pipeline : BOOLEAN, auth : BOOLEAN]
    BY DEF Init, ClientInit
  <2>3. \A m : OnlyLast(<< >>, m) /\ No(<< >>, m)
    BY <2>1 DEF OnlyLast, No
  <2>4. \A i \in 1..Len(toClient) : FALSE
    BY <2>1, <2>2
  <2> QED BY <2>1, <2>2, <2>3, <2>4 DEF Conversation
<1> QED BY <1>1, <1>2, <1>3, <1>4 DEF IInv

LEMMA NextInv == IInv /\ [Next]_vars => IInv'
<1> SUFFICES ASSUME IInv, [Next]_vars PROVE IInv'
  OBVIOUS
<1> USE DEF IInv, Rounds, Talk
<1>1. CASE Connect \/ Connected \/ ConnectFails
  <2>1. UpInv'
    BY <1>1, UpQuiet DEF Connect, Connected, ConnectFails, Outgoing
  <2>2. DownInv'
    BY <1>1, DownQuiet DEF Connect, Connected, ConnectFails
  <2>3. at' # "forward"
    BY <1>1 DEF Connect, Connected, ConnectFails
  <2>4. Talk'
    BY <1>1, TalkConnect
  <2>5. Rounds'
    BY <1>1, <2>3, RoundsOutside
  <2> QED BY <2>1, <2>2, <2>4, <2>5
<1>2. CASE HandshakeStep
  <2>1. Talk' /\ at' \in {"handshake", "forward"} /\ (at' = "forward" => "udp" \in fds')
    BY <1>2, TalkWrite, TalkRead DEF HandshakeStep
  <2>2. UpInv'
    BY <1>2, <2>1, UpQuiet DEF HandshakeStep, Outgoing
  <2>3. DownInv'
    BY <1>2, DownQuiet DEF HandshakeStep
  <2>4. Rounds'
    BY <1>2, <2>1, RoundsOutside
  <2> QED BY <2>1, <2>2, <2>3, <2>4
<1>3. CASE HandshakeFails \/ TimesOut
  <2>1. UNCHANGED <<clientVars, upVars, downVars>> /\ at' = "leave"
        /\ at \in {"handshake", "wait"}
    BY <1>3 DEF HandshakeFails, TimesOut
  <2>2. UpInv'
    BY <2>1, UpQuiet DEF Outgoing
  <2>3. DownInv'
    BY <2>1, DownQuiet
  <2>4. Talk'
    BY <2>1, TalkQuiet
  <2>5. Rounds'
    BY <1>3, <2>1, RoundsOutside
  <2> QED BY <2>2, <2>3, <2>4, <2>5
<1>4. CASE Leave
  <2>1. DownInv'
    BY <1>4, DownQuiet DEF Leave
  <2>2. Rounds'
    BY <1>4, RoundsOutside DEF Leave
  <2>3. UpInv'
    BY <1>4, LeaveUp
  <2>4. Talk'
    BY <1>4, TalkConnect
  <2> QED BY <2>1, <2>2, <2>3, <2>4
<1>5. CASE Forward \/ Send \/ WaitToSend \/ SendEnds \/ SendTimesOut \/ Backward
           \/ Choose \/ Resume
  <2>1. UNCHANGED clientVars /\ at' \notin {"connect", "connecting", "handshake"}
    BY <1>5 DEF Forward, Send, WaitToSend, SendEnds, SendTimesOut, FreeSent, Backward,
       Choose, Resume
  <2>2. Talk'
    BY <2>1, TalkQuiet
  <2>3. Rounds'
    BY <1>5, RoundsTask
  <2>4. CASE Forward
    BY <2>2, <2>3, <2>4, ForwardUp, DownQuiet DEF Forward
  <2>5. CASE Send
    BY <2>2, <2>3, <2>5, SendUp, DownQuiet DEF Send
  <2>6. CASE SendEnds \/ SendTimesOut
    <3>1. FreeSent /\ at \in Outgoing /\ UNCHANGED downVars
      BY <2>6 DEF SendEnds, SendTimesOut, FreeSent, Outgoing
    <3> QED BY <2>2, <2>3, <3>1, FreeSentUp, DownQuiet
  <2>7. CASE Backward
    <3>1. UpInv'
      BY <2>7, UpQuiet DEF Backward, Outgoing
    <3> QED BY <2>2, <2>3, <2>7, <3>1, BackwardDown
  <2>8. CASE WaitToSend \/ Choose \/ Resume
    <3>1. UNCHANGED <<upVars, downVars>> /\ at # "done"
          /\ (at' \in Outgoing <=> at \in Outgoing)
      BY <2>8 DEF WaitToSend, Choose, Resume, Outgoing
    <3>2. UpInv'
      BY <3>1, UpQuiet
    <3> QED BY <2>2, <2>3, <3>1, <3>2, DownQuiet
  <2> QED BY <1>5, <2>4, <2>5, <2>6, <2>7, <2>8
<1>6. CASE Receive \/ Terminate \/ Transmit \/ ServerSends \/ ServerAnswers
           \/ ServerHangsUp \/ Reactor
  <2>1. at' = at
    BY <1>6 DEF Receive, Terminate, Transmit, ServerSends, ServerAnswers, ServerHangsUp,
       Reactor
  <2>2. Rounds'
    BY <1>6, RoundsAround
  <2>3. Talk'
    <3>1. CASE ServerAnswers
      BY <2>1, <3>1, TalkServe DEF ServerAnswers
    <3>2. CASE ServerHangsUp
      BY <2>1, <3>2, TalkHangUp DEF ServerHangsUp
    <3>3. CASE UNCHANGED clientVars
      BY <2>1, <3>3, TalkQuiet
    <3> QED BY <1>6, <3>1, <3>2, <3>3 DEF Receive, Terminate, Transmit, ServerSends, Reactor
  <2>4. UpInv'
    <3>1. CASE UNCHANGED upVars
      BY <2>1, <3>1, UpQuiet
    <3> QED BY <1>6, <3>1, ReceiveUp, TransmitUp
            DEF Terminate, ServerSends, ServerAnswers, ServerHangsUp, Reactor
  <2>5. DownInv'
    BY <1>6, ServerSendsDown, DownQuiet
       DEF Receive, Terminate, Transmit, ServerAnswers, ServerHangsUp, Reactor
  <2> QED BY <2>2, <2>3, <2>4, <2>5
<1>7. CASE Done \/ UNCHANGED vars
  <2>1. UNCHANGED <<clientVars, at, awake, edge, upVars, downVars>>
    BY <1>7 DEF Done, vars
  <2>2. Talk'
    BY <2>1, TalkQuiet
  <2>3. UpInv' /\ DownInv'
    BY <2>1, UpQuiet, DownQuiet
  <2>4. Rounds'
    BY <2>1 DEF TaskTypes, Round, Attentive, clientVars, upVars, downVars
  <2> QED BY <2>2, <2>3, <2>4
<1> QED BY <1>1, <1>2, <1>3, <1>4, <1>5, <1>6, <1>7 DEF Next, Task

\* The inductive invariant holds throughout.
THEOREM InvHolds == Spec => []IInv
BY InitInv, NextInv, PTL DEF Spec

\* hev_socks5_session_udp_fwd_f and udp_recv_handler lose, repeat and reorder
\* nothing that entered the list, and hev_socks5_session_udp_fwd_b nothing
\* before its first failure, whatever the sizes of pool, batch and buffer.
THEOREM DatagramsInOrder == Spec => []InOrder
<1>1. IInv => InOrder
  BY DEF IInv, UpInv, DownInv, InOrder
<1> QED BY <1>1, InvHolds, PTL

\* The task of hev_socks5_session_udp_splice never sleeps over work: every
\* wakeup that it needs is there, or about to come from the reactor.
THEOREM NeverAsleep == Spec => []Attentive
<1>1. IInv => Attentive
  BY DEF IInv
<1> QED BY <1>1, InvHolds, PTL

\* hev_socks5_client_handshake, standard or pipelined, ends in step with the
\* server or not at all.
THEOREM HandshakeInStep == Spec => []InStep
<1>1. IInv => InStep
  BY DEF IInv
<1> QED BY <1>1, InvHolds, PTL
=============================================================================
