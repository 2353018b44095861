------------------------------ MODULE CacheLink ------------------------------
(***************************************************************************)
(* The TCP link of one nginx worker to a cache server: one socket, kept in *)
(* the static _cache_sockfd_, over which locks, anchors and keep-alives are*)
(* sent one after another.  A send or a receive that fails makes           *)
(* update_cache_server connect again, and the request is sent once more.   *)
(* Sources: auth_socks.c:301-567, query_xml.c:56-76, status_xml.c:31-43    *)
(* and the calls of dav_cloud.c:77-167.                                    *)
(*                                                                         *)
(* The server, its replies and the segments TCP cuts them into are         *)
(* external.  A reply is read by one recv: what that recv does not get     *)
(* stays in the socket for the next call.                                  *)
(***************************************************************************)
EXTENDS Integers, Sequences, FiniteSets, Functions

CONSTANTS Servers,    \* cache servers (serv_addr)
          Users,      \* users of the spaces
          Home,       \* Auth_host of each user: its cache server
          NoOne,      \* an empty _acce_user_, a _cache_saddr_ never set
          Retries,    \* RETRY_CACHE_TIMES
          Faults,     \* "down" a server drops a connection, "refuse" a connect
                      \* fails, "split" a reply arrives in two segments
          MaxCalls,   \* bound: requests sent
          MaxFaults   \* bound: faults

FaultKinds == {"down", "refuse", "split"}

ASSUME LinkAssumption ==
    /\ Home \in [Users -> Servers]
    /\ NoOne \notin Users \cup Servers
    /\ Retries \in Nat \ {0} /\ MaxCalls \in Nat /\ MaxFaults \in Nat
    /\ Faults \subseteq FaultKinds

VARIABLES
    acce,    \* _acce_user_
    saddr,   \* _cache_saddr_
    sockfd,  \* _cache_sockfd_: -1 or 0 when there is no connection
    conns,   \* the open sockets: descriptor -> its peer, state and streams
    call,    \* the call under way
    last,    \* the calls so far: what each returned
    served,  \* how often the servers executed each request
    faults   \* how many faults of each kind there were

link == <<acce, saddr, sockfd>>
vars == <<acce, saddr, sockfd, conns, call, last, served, faults>>

XmlKinds == {"query", "status"}
ExecKinds == {"anchor", "unlock", "kalive"}
Idle == [stage |-> "idle"]

Init ==
    /\ acce = NoOne /\ saddr = NoOne /\ sockfd = 0
    /\ conns = << >>
    /\ call = Idle
    /\ last = <<>>
    /\ served = [n \in 1 .. MaxCalls |-> 0]
    /\ faults = [kind \in FaultKinds |-> 0]

Fault(kind) ==
    /\ kind \in Faults
    /\ faults["down"] + faults["refuse"] + faults["split"] < MaxFaults
    /\ faults' = [faults EXCEPT ![kind] = @ + 1]

(* socket() takes the lowest free descriptor. *)
FreeFd(open) == CHOOSE f \in 1 .. Cardinality(DOMAIN open) + 1 :
                    f \notin DOMAIN open /\ \A g \in 1 .. f - 1 : g \in DOMAIN open
Opened(open, f, state) ==
    [g \in DOMAIN open \cup {f} |->
        IF g = f THEN [to |-> saddr, state |-> state, in |-> <<>>, out |-> <<>>] ELSE open[g]]
Closed(f) == Restrict(conns, DOMAIN conns \ {f})
Usable(f) == f \in DOMAIN conns /\ conns[f].state # "unconnected"
-----------------------------------------------------------------------------
(* Calls.  The descriptor is passed by value: get_cache_status is given the *)
(* one get_cache_query was given, also when that connected again.           *)
Request(kind, u, fd) ==
    [stage |-> "send", n |-> Len(last) + 1, kind |-> kind, user |-> u,
     arg |-> fd, fd |-> fd, tries |-> 0]

(* Mutant of LockOther: the link of the last user is kept. *)
LockOtherStays(u) ==
    /\ call = Idle /\ u # acce /\ Len(last) < MaxCalls
    /\ acce' = u
    /\ IF saddr # NoOne
       THEN call' = Request("query", u, sockfd) /\ UNCHANGED <<saddr, sockfd, conns>>
       ELSE /\ saddr' = Home[u]
            /\ conns' = Closed(sockfd)
            /\ sockfd' = -1
            /\ call' = [Request("query", u, -1) EXCEPT !.stage = "connect"]
    /\ UNCHANGED <<last, served, faults>>

(* conne_cache_bzl for a user other than the last one: the link moves only  *)
(* when the user's cache server is another; a failed connect is ignored.    *)
LockOther(u) ==
    /\ call = Idle /\ u # acce /\ Len(last) < MaxCalls
    /\ acce' = u
    /\ IF saddr = Home[u]
       THEN call' = Request("query", u, sockfd) /\ UNCHANGED <<saddr, sockfd, conns>>
       ELSE /\ saddr' = Home[u]
            /\ conns' = Closed(sockfd)
            /\ sockfd' = -1
            /\ call' = [Request("query", u, -1) EXCEPT !.stage = "connect"]
    /\ UNCHANGED <<last, served, faults>>

LockSame ==
    /\ call = Idle /\ acce # NoOne /\ Len(last) < MaxCalls
    /\ call' = Request("query", acce, sockfd)
    /\ UNCHANGED <<link, conns, last, served, faults>>

(* unlock_user_space, update_user_anchor, update_anchor_openod, kalive.     *)
Exec(kind) ==
    /\ call = Idle /\ acce # NoOne /\ Len(last) < MaxCalls
    /\ call' = Request(kind, acce, sockfd)
    /\ UNCHANGED <<link, conns, last, served, faults>>

(* The call returns, by the reply to request by; a lock whose query    *)
(* was answered goes on to its status.                                      *)
Return(ret, by) ==
    /\ last' = Append(last, [n |-> call.n, user |-> call.user, kind |-> call.kind,
                             ret |-> ret, by |-> by])
    /\ call' = IF call.kind = "query" /\ ret = "ok" /\ Len(last) + 1 < MaxCalls
               THEN [call EXCEPT !.stage = "send", !.n = Len(last) + 2, !.kind = "status",
                                 !.fd = call.arg, !.tries = 0]
               ELSE Idle
-----------------------------------------------------------------------------
(* Mutant of Reconnect: the descriptor of the call is closed. *)
ReconnectArgument(next) ==
    /\ conns' = Closed(call.fd)
    /\ sockfd' = -1
    /\ call' = [call EXCEPT !.stage = next, !.tries = 0]
    /\ UNCHANGED <<acce, saddr, last, served>>

(* update_cache_server: close, then connect at most Retries times.          *)
Reconnect(next) ==
    /\ conns' = Closed(sockfd)
    /\ sockfd' = -1
    /\ call' = [call EXCEPT !.stage = next, !.tries = 0]
    /\ UNCHANGED <<acce, saddr, last, served>>

AfterConnect == [connect |-> "send", connect1 |-> "resend", connect2 |-> "resend2"]

(* conne_cache_bzl passes the global on: the call then uses what it became. *)
Connects ==
    /\ call.stage \in DOMAIN AfterConnect
    /\ LET f == FreeFd(conns)
       IN  /\ conns' = Opened(conns, f, "up")
           /\ sockfd' = f
           /\ call' = [call EXCEPT !.stage = AfterConnect[call.stage], !.fd = f,
                                   !.arg = IF call.stage = "connect" THEN f ELSE @]
    /\ UNCHANGED <<acce, saddr, last, served, faults>>

(* A refused connect leaves its socket open, and waits before the next. *)
Refused ==
    /\ call.stage \in DOMAIN AfterConnect
    /\ Fault("refuse")
    /\ conns' = Opened(conns, FreeFd(conns), "unconnected")
    /\ \/ /\ call.tries + 1 < Retries
          /\ call' = [call EXCEPT !.tries = @ + 1]
          /\ UNCHANGED last
       \/ /\ call.tries + 1 = Retries
          /\ IF call.stage = "connect"
             THEN call' = [call EXCEPT !.stage = "send", !.fd = -1] /\ UNCHANGED last
             ELSE Return("error", 0)
    /\ UNCHANGED <<link, served>>
-----------------------------------------------------------------------------
(* send_receive_cache. *)
Message == [n |-> call.n, kind |-> call.kind, user |-> call.user]

(* Mutant of AfterSend: the second retry is followed by a third. *)
AfterSendLoops == [send |-> "recv", resend |-> "recv", resend2 |-> "recv"]

AfterSend == [send |-> "recv", resend |-> "recv", resend2 |-> "recv2"]

(* The kernel takes the request: a server that dropped the connection will  *)
(* not read it.                                                             *)
Sent ==
    /\ call.stage \in DOMAIN AfterSend /\ Usable(call.fd)
    /\ conns' = IF conns[call.fd].state = "up"
                THEN [conns EXCEPT ![call.fd].in = Append(@, Message)]
                ELSE conns
    /\ call' = [call EXCEPT !.stage = AfterSend[call.stage]]
    /\ UNCHANGED <<link, last, served, faults>>

Unsendable == call.fd \in DOMAIN conns => conns[call.fd].state # "up"

SendFails ==
    /\ call.stage = "send" /\ Unsendable
    /\ Reconnect("connect1")
    /\ UNCHANGED faults

ResendFails ==
    /\ call.stage \in {"resend", "resend2"} /\ Unsendable
    /\ Return("error", 0)
    /\ UNCHANGED <<link, conns, served, faults>>

(* What the parsers make of the segments one recv returned.                 *)
(* A rest of an earlier reply has no status line: an error or, when it has  *)
(* no blank either, a null pointer.  A head alone has no body, and leaves   *)
(* execute_status, never initialised, to chance; so does a reply to a query *)
(* where an execute status was expected.                                    *)
Outcomes(segs) ==
    LET s == segs[1]
        whole == s.part = "whole" \/ (s.part = "head" /\ Len(segs) > 1)
    IN  IF s.part = "tail" THEN {"error", "dies"}
        ELSE IF ~s.ok /\ whole THEN {"error"}
        ELSE IF call.kind \in XmlKinds THEN {IF whole /\ s.kind = call.kind THEN "ok" ELSE "error"}
        ELSE IF whole /\ s.kind \in ExecKinds THEN {"ok"}
        ELSE {"ok", "error"}

(* The worker dies and another takes its place. *)
Dies ==
    /\ acce' = NoOne /\ saddr' = NoOne /\ sockfd' = 0
    /\ conns' = << >>
    /\ call' = Idle
    /\ last' = Append(last, [n |-> call.n, user |-> call.user, kind |-> call.kind,
                             ret |-> "error", by |-> 0])

Received(k) ==
    /\ call.stage \in {"recv", "recv2"}
    /\ call.fd \in DOMAIN conns /\ k \in DOMAIN conns[call.fd].out
    /\ \E o \in Outcomes(SubSeq(conns[call.fd].out, 1, k)) :
           IF o = "dies" THEN Dies
           ELSE /\ Return(o, conns[call.fd].out[1].n)
                /\ conns' = [conns EXCEPT ![call.fd].out = SubSeq(@, k + 1, Len(@))]
                /\ UNCHANGED link
    /\ UNCHANGED <<served, faults>>

(* Mutants of RecvFails: the request is repeated on the same connection     *)
(* when no reply is there yet; a closed connection is waited on.            *)
RecvFailsEarly ==
    /\ call.stage = "recv" /\ conns[call.fd].out = <<>>
    /\ call' = [call EXCEPT !.stage = "resend2"]
    /\ UNCHANGED <<link, conns, last, served, faults>>
RecvFailsNever == FALSE /\ UNCHANGED vars

(* recv finds the connection closed. *)
RecvFails ==
    /\ call.stage = "recv"
    /\ call.fd \in DOMAIN conns => conns[call.fd].state = "down" /\ conns[call.fd].out = <<>>
    /\ Reconnect("connect2")
    /\ UNCHANGED faults

RecvFailsAgain ==
    /\ call.stage = "recv2"
    /\ conns[call.fd].state = "down" /\ conns[call.fd].out = <<>>
    /\ Return("error", 0)
    /\ UNCHANGED <<link, conns, served, faults>>
-----------------------------------------------------------------------------
(* The cache server: it executes a request and answers, in one segment or   *)
(* in two; it may refuse, and it may drop a connection with what it holds.  *)
Reply(m, ok, part) == [n |-> m.n, kind |-> m.kind, user |-> m.user, ok |-> ok, part |-> part]

Serve(f, ok) ==
    /\ conns[f].state = "up" /\ conns[f].in # <<>>
    /\ LET m == Head(conns[f].in)
       IN  /\ \/ /\ conns' = [conns EXCEPT ![f].in = Tail(@),
                                           ![f].out = Append(@, Reply(m, ok, "whole"))]
                 /\ UNCHANGED faults
              \/ /\ Fault("split")
                 /\ conns' = [conns EXCEPT ![f].in = Tail(@),
                                  ![f].out = @ \o <<Reply(m, ok, "head"), Reply(m, ok, "tail")>>]
           /\ served' = [served EXCEPT ![m.n] = @ + 1]
    /\ UNCHANGED <<link, call, last>>

Drop(f) ==
    /\ conns[f].state = "up"
    /\ Fault("down")
    /\ \E out \in {<<>>, conns[f].out} :
           conns' = [conns EXCEPT ![f].state = "down", ![f].in = <<>>, ![f].out = out]
    /\ UNCHANGED <<link, call, last, served>>
-----------------------------------------------------------------------------
Worker ==
    \/ Connects \/ Refused
    \/ Sent \/ SendFails \/ ResendFails
    \/ \E k \in 1 .. 2 * MaxCalls : Received(k)
    \/ RecvFails \/ RecvFailsAgain
Server == \E f \in DOMAIN conns, ok \in BOOLEAN : Serve(f, ok)

Next ==
    \/ \E u \in Users : LockOther(u)
    \/ LockSame
    \/ \E kind \in ExecKinds : Exec(kind)
    \/ Worker
    \/ Server
    \/ \E f \in DOMAIN conns : Drop(f)

Spec == Init /\ [][Next]_vars
(* The worker runs on, and a server that keeps a connection answers on it.  *)
FairSpec == Spec /\ WF_vars(Worker) /\ WF_vars(Server)
-----------------------------------------------------------------------------
Stages == DOMAIN AfterConnect \cup DOMAIN AfterSend \cup {"recv", "recv2"}
Kinds == XmlKinds \cup ExecKinds
Messages == [n : 1 .. MaxCalls, kind : Kinds, user : Users]
Segments == [n : 1 .. MaxCalls, kind : Kinds, user : Users, ok : BOOLEAN,
             part : {"whole", "head", "tail"}]

(* The type of every variable. *)
TypeOK ==
    /\ acce \in Users \cup {NoOne} /\ saddr \in Servers \cup {NoOne} /\ sockfd \in Nat \cup {-1}
    /\ DOMAIN conns \subseteq Nat \ {0}
    /\ \A f \in DOMAIN conns :
           conns[f] \in [to : Servers, state : {"unconnected", "up", "down"},
                         in : Seq(Messages), out : Seq(Segments)]
    /\ \/ call = Idle
       \/ call \in [stage : Stages, n : 1 .. MaxCalls, kind : Kinds, user : Users,
                    arg : Nat \cup {-1}, fd : Nat \cup {-1}, tries : 0 .. Retries - 1]
    /\ last \in Seq([n : 1 .. MaxCalls, user : Users, kind : Kinds, ret : {"ok", "error"},
                     by : 0 .. MaxCalls])
    /\ served \in [1 .. MaxCalls -> Nat] /\ faults \in [FaultKinds -> 0 .. MaxFaults]

(* Every reply so far arrived in one segment. *)
Whole == faults["split"] = 0

(* auth_socks.c:318 says "-1:error 0x00:ok": a call that returns 0 read     *)
(* the reply to its own request.                                            *)
OkIsMine == \A i \in DOMAIN last : last[i].ret = "ok" => last[i].by = last[i].n

(* As long as replies arrive in one segment that is so across lost          *)
(* connections, and never is the validation, anchor or location of another  *)
(* user taken.                                                              *)
OwnReply == Whole => OkIsMine

(* A request that reports success was then executed, and none is executed   *)
(* more than twice: the retries of send and of recv never add up.           *)
ServedOnceOrTwice ==
    /\ \A n \in 1 .. MaxCalls : served[n] <= 2
    /\ Whole => \A i \in DOMAIN last : last[i].ret = "ok" => served[last[i].n] >= 1

(* What is sent about a user goes to the cache server of that user, after   *)
(* any switch of users and any number of reconnections.                     *)
RequestsGoHome ==
    \A f \in DOMAIN conns : \A i \in DOMAIN conns[f].in :
        conns[f].to = Home[conns[f].in[i].user]

(* Every connection that was made and not closed is the one of              *)
(* _cache_sockfd_: reconnecting leaves no second one behind.  (The sockets  *)
(* of refused connects do stay open.)                                       *)
OneConnection == \A f \in DOMAIN conns : Usable(f) => f = sockfd

(* With replies in pieces a call may take a foreign reply, but only after   *)
(* an earlier call reported an error and left the link as it was.           *)
StaleOnlyAfterError ==
    \A i \in DOMAIN last : last[i].ret = "ok" /\ last[i].by # last[i].n
        => \E j \in 1 .. i - 1 : last[j].ret = "error"

(* A reply answers the call that takes it, but for what is left over from   *)
(* an earlier error.                                                        *)
RepliesSound == TypeOK /\ OwnReply /\ StaleOnlyAfterError

(* A call returns, as the server answers or closes the connection. *)
Returns == call # Idle ~> call = Idle
=============================================================================
