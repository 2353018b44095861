--------------------------- MODULE CacheLinkProofs ---------------------------
(***************************************************************************)
(* The link of a worker to the cache servers, for any servers, users,      *)
(* retries and bounds and under every fault: one connection (LinkInv), and *)
(* each call gets its own answer and is not repeated too often (FlowInv).  *)
(***************************************************************************)
EXTENDS CacheLink, FiniteSetTheorems, SequenceTheorems, WellFoundedInduction, TLAPS

ConnType == [to : Servers, state : {"unconnected", "up", "down"},
             in : Seq(Messages), out : Seq(Segments)]
FdType == Nat \cup {-1}
CallType == [stage : Stages, n : 1 .. MaxCalls, kind : Kinds, user : Users,
             arg : FdType, fd : FdType, tries : 0 .. Retries - 1]
LastType == [n : 1 .. MaxCalls, user : Users, kind : Kinds, ret : {"ok", "error"}, by : 0 .. MaxCalls]

(* The open sockets, and the call under way, have their types. *)
ConnsTyped ==
    /\ DOMAIN conns \subseteq Nat \ {0} /\ IsFiniteSet(DOMAIN conns)
    /\ \A f \in DOMAIN conns : conns[f] \in ConnType

(* The call under way is about the user the worker remembers. *)
CallKept ==
    /\ last \in Seq(LastType)
    /\ sockfd \in FdType /\ saddr \in Servers \cup {NoOne}
    /\ acce \in Users \cup {NoOne}
    /\ call = Idle \/ (call \in CallType /\ call.user = acce)

(* The worker remembers the server of its user, and every connection it has *)
(* is to that one; a socket whose connect was refused carries nothing.      *)
LinkHome ==
    /\ acce \in Users => saddr = Home[acce]
    /\ \A f \in DOMAIN conns : /\ Usable(f) => conns[f].to = saddr
                               /\ ~Usable(f) => conns[f].in = <<>>

(* Nothing is connected while a connect is under way. *)
NotTwice == call.stage \in DOMAIN AfterConnect => \A f \in DOMAIN conns : ~Usable(f)

LinkInv == ConnsTyped /\ CallKept /\ LinkHome /\ NotTwice /\ OneConnection /\ RequestsGoHome

-----------------------------------------------------------------------------
(* Descriptors *)

(* A set of numbers that is not empty has a least one. *)
LEMMA LeastNumber ==
    ASSUME NEW S \in SUBSET Nat, S # {}
    PROVE  \E n \in S : \A m \in S : n <= m
<1>1. \E n \in S : \A m \in S : <<m, n>> \notin OpToRel(<, Nat)
  BY NatLessThanWellFounded, WFMin
<1>2. PICK n \in S : \A m \in S : <<m, n>> \notin OpToRel(<, Nat)
  BY <1>1
<1>3. \A m \in S : ~(m < n)
  BY <1>2 DEF OpToRel
<1>4. QED
  BY <1>3

(* There is a free descriptor not above the number of open ones plus one,   *)
(* so that the choice of the lowest is a choice of something.               *)
LEMMA FreeFdType ==
    ASSUME ConnsTyped
    PROVE  FreeFd(conns) \in Nat \ {0}
<1> DEFINE n == Cardinality(DOMAIN conns)
           S == {f \in 1 .. n + 1 : f \notin DOMAIN conns}
<1>1. n \in Nat
  BY FS_CardinalityType DEF ConnsTyped
<1>2. S # {}
  <2> SUFFICES ASSUME S = {} PROVE FALSE
    OBVIOUS
  <2>1. 1 .. n + 1 \subseteq DOMAIN conns
    OBVIOUS
  <2>2. Cardinality(1 .. n + 1) <= n
    BY <2>1, FS_Subset DEF ConnsTyped
  <2>3. Cardinality(1 .. n + 1) = n + 1
    BY <1>1, FS_Interval
  <2>4. QED
    BY <1>1, <2>2, <2>3
<1>3. PICK f \in S : \A g \in S : f <= g
  <2>1. S \in SUBSET Nat
    BY <1>1
  <2> HIDE DEF S
  <2>2. QED
    BY <1>2, <2>1, LeastNumber
<1>4. \E g \in 1 .. n + 1 : g \notin DOMAIN conns /\ \A h \in 1 .. g - 1 : h \in DOMAIN conns
  <2>1. \A h \in 1 .. f - 1 : h \in DOMAIN conns
    BY <1>1, <1>3
  <2>2. QED
    BY <1>3, <2>1
<1>5. FreeFd(conns) \in 1 .. n + 1
  BY <1>4 DEF FreeFd
<1>6. QED
  BY <1>1, <1>5

-----------------------------------------------------------------------------
(* What a step does to the sockets *)

ConnsInv == ConnsTyped /\ LinkHome /\ OneConnection /\ RequestsGoHome

(* Reconnecting closes the one connection, whoever the next one is for. *)
LEMMA CloseLeavesNone ==
    ASSUME ConnsInv, conns' = Closed(sockfd), acce' \in Users => saddr' = Home[acce']
    PROVE  ConnsInv' /\ \A f \in DOMAIN conns' : ~Usable(f)'
<1>1. /\ DOMAIN conns' = DOMAIN conns \ {sockfd}
      /\ \A f \in DOMAIN conns' : conns'[f] = conns[f]
  BY DEF Closed, Restrict
<1>2. IsFiniteSet(DOMAIN conns')
  BY <1>1, FS_RemoveElement DEF ConnsInv, ConnsTyped
<1>3. \A f \in DOMAIN conns' : ~Usable(f)' /\ ~Usable(f)
  BY <1>1 DEF ConnsInv, OneConnection, Usable
<1>4. ConnsTyped'
  BY <1>1, <1>2 DEF ConnsInv, ConnsTyped
<1>5. LinkHome' /\ OneConnection' /\ RequestsGoHome'
  BY <1>1, <1>3 DEF ConnsInv, LinkHome, OneConnection, RequestsGoHome
<1>6. QED
  BY <1>3, <1>4, <1>5 DEF ConnsInv

(* A socket is opened where nothing is connected: the new connection is the *)
(* one that is kept, a refused one is none.                                 *)
LEMMA OpenKeepsOne ==
    ASSUME ConnsInv, saddr \in Servers, \A f \in DOMAIN conns : ~Usable(f),
           UNCHANGED <<acce, saddr>>,
           NEW state \in {"unconnected", "up"}, conns' = Opened(conns, FreeFd(conns), state),
           state = "up" => sockfd' = FreeFd(conns)
    PROVE  ConnsInv' /\ (state = "unconnected" => \A f \in DOMAIN conns' : ~Usable(f)')
<1> DEFINE fd == FreeFd(conns)
           fresh == [to |-> saddr, state |-> state, in |-> <<>>, out |-> <<>>]
<1>1. fd \in Nat \ {0}
  BY FreeFdType DEF ConnsInv
<1> HIDE DEF fd
<1>2. /\ DOMAIN conns' = DOMAIN conns \cup {fd} /\ conns'[fd] = fresh
      /\ \A f \in DOMAIN conns' \ {fd} : f \in DOMAIN conns /\ conns'[f] = conns[f]
  BY DEF Opened, fd
<1>3. fresh \in ConnType
  BY DEF ConnType
<1>4. ConnsTyped'
  <2>1. IsFiniteSet(DOMAIN conns')
    BY <1>2, FS_AddElement DEF ConnsInv, ConnsTyped
  <2> HIDE DEF fresh
  <2>2. QED
    BY <1>1, <1>2, <1>3, <2>1 DEF ConnsInv, ConnsTyped
<1>5. \A f \in DOMAIN conns' \ {fd} : ~Usable(f)'
  BY <1>2 DEF Usable
<1>6. LinkHome' /\ OneConnection' /\ RequestsGoHome'
  <2>1. LinkHome'
    BY <1>2, <1>5 DEF ConnsInv, LinkHome, Usable
  <2>2. OneConnection'
    BY <1>2, <1>5 DEF OneConnection, Usable, fd
  <2>3. RequestsGoHome'
    BY <1>2 DEF ConnsInv, RequestsGoHome
  <2>4. QED
    BY <2>1, <2>2, <2>3
<1>7. state = "unconnected" => \A f \in DOMAIN conns' : ~Usable(f)'
  BY <1>2, <1>5 DEF Usable
<1>8. QED
  BY <1>4, <1>6, <1>7 DEF ConnsInv

(* Only what one usable socket f holds changes: it has the same peer, and    *)
(* every request in it is for that peer.                                     *)
Rewired(f) ==
    /\ DOMAIN conns' = DOMAIN conns
    /\ \A g \in DOMAIN conns \ {f} : conns'[g] = conns[g]
    /\ f \in DOMAIN conns => /\ conns'[f] \in ConnType /\ conns'[f].to = conns[f].to
                             /\ conns'[f].state = "unconnected" <=> conns[f].state = "unconnected"
                             /\ conns'[f].in = <<>> \/ Usable(f)
                             /\ \A i \in DOMAIN conns'[f].in :
                                    conns[f].to = Home[conns'[f].in[i].user]

LEMMA RewiredKeepsOne ==
    ASSUME ConnsInv, NEW f, Rewired(f), UNCHANGED link
    PROVE  ConnsInv' /\ \A g \in DOMAIN conns : Usable(g)' <=> Usable(g)
<1>1. DOMAIN conns' = DOMAIN conns
  BY DEF Rewired
<1>2. \A g \in DOMAIN conns : Usable(g)' <=> Usable(g)
  BY DEF Rewired, Usable
<1>3. ConnsTyped'
  BY DEF Rewired, ConnsInv, ConnsTyped
<1>4. LinkHome'
  <2>1. acce' \in Users => saddr' = Home[acce']
    BY DEF ConnsInv, LinkHome, link
  <2>2. ASSUME NEW g \in DOMAIN conns
        PROVE  (Usable(g)' => conns'[g].to = saddr') /\ (~Usable(g)' => conns'[g].in = <<>>)
    BY <1>2 DEF ConnsInv, LinkHome, link, Rewired
  <2>3. QED
    BY <1>1, <2>1, <2>2 DEF LinkHome
<1>5. OneConnection'
  BY <1>1, <1>2 DEF ConnsInv, OneConnection, link
<1>6. RequestsGoHome'
  BY DEF Rewired, ConnsInv, RequestsGoHome
<1>7. QED
  BY <1>2, <1>3, <1>4, <1>5, <1>6 DEF ConnsInv

(* The user may change as long as its server is the one connected to. *)
LEMMA UserChanges ==
    ASSUME ConnsInv, UNCHANGED <<conns, saddr, sockfd>>, acce' \in Users => saddr = Home[acce']
    PROVE  ConnsInv' /\ \A f \in DOMAIN conns' : Usable(f)' <=> Usable(f)
  BY DEF ConnsInv, ConnsTyped, LinkHome, OneConnection, RequestsGoHome, Usable

-----------------------------------------------------------------------------
(* What a step does to the call *)

LEMMA StageNames ==
    /\ DOMAIN AfterConnect = {"connect", "connect1", "connect2"}
    /\ DOMAIN AfterSend = {"send", "resend", "resend2"}
    /\ \A s \in DOMAIN AfterConnect : AfterConnect[s] \in {"send", "resend", "resend2"}
    /\ \A s \in DOMAIN AfterSend : AfterSend[s] \in {"recv", "recv2"}
    /\ Stages = {"connect", "connect1", "connect2", "send", "resend", "resend2", "recv", "recv2"}
  BY DEF AfterConnect, AfterSend, Stages

LEMMA Numbers ==
    /\ 0 \in 0 .. Retries - 1 /\ 0 \in 0 .. MaxCalls
    /\ -1 \in FdType /\ 0 \in FdType /\ Nat \subseteq FdType
  BY LinkAssumption DEF FdType

(* A call under way is a typed record about the remembered user. *)
LEMMA CallUnderWay ==
    ASSUME LinkInv, call.stage \in Stages
    PROVE  call \in CallType /\ call.user = acce /\ acce \in Users /\ saddr = Home[acce]
  BY StageNames DEF LinkInv, CallKept, LinkHome, Idle, CallType

(* A new call has the next number. *)
LEMMA RequestKeeps ==
    ASSUME CallKept, NEW u \in Users, NEW kind \in Kinds, NEW fd \in FdType, Len(last) < MaxCalls
    PROVE  Request(kind, u, fd) \in CallType
<1>1. Len(last) + 1 \in 1 .. MaxCalls
  BY LinkAssumption DEF CallKept
<1>2. 0 \in 0 .. Retries - 1
  BY LinkAssumption
<1>3. QED
  BY <1>1, <1>2, StageNames DEF Request, CallType

(* A call that returns ends, or a query goes on to the status.              *)
LEMMA ReturnKeeps ==
    ASSUME CallKept, call \in CallType, call.user = acce,
           NEW ret \in {"ok", "error"}, NEW by \in 0 .. MaxCalls, Return(ret, by), UNCHANGED link
    PROVE  CallKept' /\ call'.stage \notin DOMAIN AfterConnect
<1>1. last' \in Seq(LastType)
  BY DEF Return, CallKept, CallType, LastType
<1>2. CASE call' = Idle
  BY <1>1, <1>2, StageNames DEF CallKept, Idle, link
<1>3. CASE /\ Len(last) + 1 < MaxCalls
           /\ call' = [call EXCEPT !.stage = "send", !.n = Len(last) + 2, !.kind = "status",
                                   !.fd = call.arg, !.tries = 0]
  <2>1. Len(last) + 2 \in 1 .. MaxCalls
    BY <1>3, LinkAssumption DEF CallKept
  <2>2. call' \in CallType /\ call'.user = acce /\ call'.stage = "send"
    BY <1>3, <2>1, StageNames, Numbers DEF CallType, Kinds, XmlKinds
  <2>3. QED
    BY <1>1, <2>2, StageNames DEF CallKept, link
<1>4. QED
  BY <1>2, <1>3 DEF Return

-----------------------------------------------------------------------------
(* The actions *)

LEMMA LockOtherStep ==
    ASSUME LinkInv, NEW u \in Users, LockOther(u)
    PROVE  LinkInv'
<1>1. acce' = u /\ last' = last /\ Home[u] \in Servers
  BY LinkAssumption DEF LockOther
<1>2. CASE saddr = Home[u]
  <2>1. call' = Request("query", u, sockfd) /\ UNCHANGED <<saddr, sockfd, conns>>
    BY <1>2 DEF LockOther
  <2>2. ConnsInv'
    BY <1>1, <1>2, <2>1, UserChanges DEF LinkInv, ConnsInv
  <2>3. call' \in CallType /\ call'.user = u /\ call'.stage = "send"
    BY <2>1, RequestKeeps DEF LockOther, LinkInv, CallKept, Request, Kinds, XmlKinds
  <2>4. QED
    BY <1>1, <2>1, <2>2, <2>3, StageNames DEF LinkInv, ConnsInv, CallKept, NotTwice
<1>3. CASE saddr # Home[u]
  <2>1. /\ saddr' = Home[u] /\ conns' = Closed(sockfd) /\ sockfd' = -1
        /\ call' = [Request("query", u, -1) EXCEPT !.stage = "connect"]
    BY <1>3 DEF LockOther
  <2>2. ConnsInv' /\ \A f \in DOMAIN conns' : ~Usable(f)'
    BY <1>1, <2>1, CloseLeavesNone DEF LinkInv, ConnsInv
  <2>3. call' \in CallType /\ call'.user = u
    <3>1. Request("query", u, -1) \in CallType
      BY RequestKeeps, Numbers DEF LockOther, LinkInv, Kinds, XmlKinds
    <3>2. QED
      BY <2>1, <3>1, StageNames DEF CallType, Request
  <2>4. QED
    BY <1>1, <2>1, <2>2, <2>3, Numbers DEF LinkInv, ConnsInv, CallKept, NotTwice
<1>4. QED
  BY <1>2, <1>3

LEMMA CallStep ==
    ASSUME LinkInv, LockSame \/ \E kind \in ExecKinds : Exec(kind)
    PROVE  LinkInv'
<1>1. PICK kind \in Kinds : call' = Request(kind, acce, sockfd)
  BY DEF LockSame, Exec, Kinds, XmlKinds
<1>2. UNCHANGED <<link, conns, last>> /\ acce \in Users /\ Len(last) < MaxCalls
  BY DEF LockSame, Exec, LinkInv, CallKept
<1>3. call' \in CallType /\ call'.user = acce /\ call'.stage = "send"
  BY <1>1, <1>2, RequestKeeps DEF LinkInv, CallKept, Request
<1>4. ConnsInv'
  BY <1>2, UserChanges DEF LinkInv, ConnsInv, LinkHome, link
<1>5. QED
  BY <1>2, <1>3, <1>4, StageNames DEF LinkInv, ConnsInv, CallKept, NotTwice, link

(* send or recv failed: the one connection is closed, the call connects. *)
LEMMA ReconnectStep ==
    ASSUME LinkInv, NEW next \in DOMAIN AfterConnect, call.stage \in Stages, Reconnect(next)
    PROVE  LinkInv'
<1>1. call \in CallType /\ call.user = acce /\ saddr = Home[acce]
  BY CallUnderWay
<1>2. ConnsInv' /\ \A f \in DOMAIN conns' : ~Usable(f)'
  BY <1>1, CloseLeavesNone DEF LinkInv, ConnsInv, Reconnect
<1>3. call' \in CallType /\ call'.user = acce
  BY <1>1, StageNames, Numbers DEF Reconnect, CallType
<1>4. QED
  BY <1>2, <1>3, Numbers DEF LinkInv, ConnsInv, CallKept, NotTwice, Reconnect

LEMMA ConnectsStep ==
    ASSUME LinkInv, Connects
    PROVE  LinkInv'
<1>1. call.stage \in DOMAIN AfterConnect /\ call.stage \in Stages /\ UNCHANGED <<acce, saddr, last>>
  BY StageNames DEF Connects
<1>2. call \in CallType /\ call.user = acce /\ saddr \in Servers
  BY <1>1, CallUnderWay, LinkAssumption
<1>3. /\ conns' = Opened(conns, FreeFd(conns), "up") /\ sockfd' = FreeFd(conns)
      /\ call' = [call EXCEPT !.stage = AfterConnect[call.stage], !.fd = FreeFd(conns),
                              !.arg = IF call.stage = "connect" THEN FreeFd(conns) ELSE @]
  BY DEF Connects
<1>4. FreeFd(conns) \in FdType
  BY FreeFdType DEF LinkInv, FdType
<1>5. ConnsInv'
  BY <1>1, <1>2, <1>3, OpenKeepsOne DEF LinkInv, ConnsInv, NotTwice
<1>6. call' \in CallType /\ call'.user = acce /\ call'.stage \notin DOMAIN AfterConnect
  <2>1. AfterConnect[call.stage] \in {"send", "resend", "resend2"}
    BY <1>1, StageNames
  <2>2. QED
    BY <1>2, <1>3, <1>4, <2>1, StageNames DEF CallType
<1>7. QED
  BY <1>1, <1>3, <1>4, <1>5, <1>6 DEF LinkInv, ConnsInv, CallKept, NotTwice

LEMMA RefusedStep ==
    ASSUME LinkInv, Refused
    PROVE  LinkInv'
<1>1. /\ call.stage \in DOMAIN AfterConnect /\ call.stage \in Stages /\ UNCHANGED link
      /\ conns' = Opened(conns, FreeFd(conns), "unconnected")
  BY StageNames DEF Refused
<1>2. call \in CallType /\ call.user = acce /\ saddr \in Servers
  BY <1>1, CallUnderWay, LinkAssumption
<1>3. ConnsInv' /\ \A f \in DOMAIN conns' : ~Usable(f)'
  BY <1>1, <1>2, OpenKeepsOne DEF LinkInv, ConnsInv, NotTwice, link
<1>4. CallKept'
  <2>1. CASE /\ call.tries + 1 < Retries /\ call' = [call EXCEPT !.tries = @ + 1]
             /\ UNCHANGED last
    <3>1. call.tries + 1 \in 0 .. Retries - 1
      BY <1>2, <2>1, LinkAssumption DEF CallType
    <3>2. call' \in CallType /\ call'.user = acce
      BY <1>2, <2>1, <3>1 DEF CallType
    <3>3. QED
      BY <1>1, <2>1, <3>2 DEF LinkInv, CallKept, link
  <2>2. CASE call' = [call EXCEPT !.stage = "send", !.fd = -1] /\ UNCHANGED last
    <3>1. call' \in CallType /\ call'.user = acce
      <4> DEFINE none == -1
      <4>1. "send" \in Stages /\ none \in FdType
        BY StageNames, Numbers
      <4>2. call' = [call EXCEPT !.stage = "send", !.fd = none]
        BY <2>2
      <4> HIDE DEF none
      <4>3. QED
        BY <1>2, <4>1, <4>2 DEF CallType
    <3>2. QED
      BY <1>1, <2>2, <3>1 DEF LinkInv, CallKept, link
  <2>3. CASE Return("error", 0)
    BY <1>1, <1>2, <2>3, ReturnKeeps, Numbers DEF LinkInv
  <2>4. QED
    BY <2>1, <2>2, <2>3 DEF Refused
<1>5. QED
  BY <1>3, <1>4 DEF LinkInv, ConnsInv, NotTwice

(* A request joins the stream to the server of its user. *)
LEMMA SentStep ==
    ASSUME LinkInv, Sent
    PROVE  LinkInv'
<1> PICK f : f = call.fd
  OBVIOUS
<1>1. call.stage \in DOMAIN AfterSend /\ call.stage \in Stages /\ Usable(f) /\ UNCHANGED <<link, last>>
  BY StageNames DEF Sent
<1>2. call \in CallType /\ call.user = acce /\ acce \in Users /\ saddr = Home[acce]
  BY <1>1, CallUnderWay
<1>3. Rewired(f)
  <2>1. CASE UNCHANGED conns
    <3>1. conns'[f] \in ConnType /\ \A i \in DOMAIN conns'[f].in :
                                       conns[f].to = Home[conns'[f].in[i].user]
      BY <1>1, <2>1 DEF LinkInv, ConnsTyped, RequestsGoHome, Usable
    <3>2. QED
      BY <1>1, <2>1, <3>1 DEF Rewired
  <2>2. CASE conns' = [conns EXCEPT ![f].in = Append(@, Message)]
    <3>1. Message \in Messages /\ Message.user = acce
      BY <1>2 DEF Message, CallType, Messages
    <3>2. f \in DOMAIN conns /\ conns[f] \in ConnType /\ conns[f].to = Home[acce]
      BY <1>1, <1>2 DEF Usable, LinkInv, ConnsTyped, LinkHome
    <3>3. conns[f].in \in Seq(Messages) /\ Append(conns[f].in, Message) \in Seq(Messages)
      BY <3>1, <3>2 DEF ConnType
    <3>4. /\ DOMAIN conns' = DOMAIN conns
          /\ \A g \in DOMAIN conns \ {f} : conns'[g] = conns[g]
          /\ conns'[f] = [conns[f] EXCEPT !.in = Append(conns[f].in, Message)]
      BY <2>2, <3>2
    <3>5. /\ conns'[f] \in ConnType /\ conns'[f].to = conns[f].to
          /\ conns'[f].state = conns[f].state /\ conns'[f].in = Append(conns[f].in, Message)
      BY <3>2, <3>3, <3>4 DEF ConnType
    <3>6. \A i \in DOMAIN conns'[f].in : conns[f].to = Home[conns'[f].in[i].user]
      <4> SUFFICES ASSUME NEW i \in DOMAIN Append(conns[f].in, Message)
                   PROVE  conns[f].to = Home[Append(conns[f].in, Message)[i].user]
        BY <3>5
      <4>1. CASE i \in DOMAIN conns[f].in
        BY <3>2, <3>3, <4>1 DEF LinkInv, RequestsGoHome
      <4>2. CASE i = Len(conns[f].in) + 1
        BY <3>1, <3>2, <3>3, <4>2
      <4>3. QED
        BY <3>3, <4>1, <4>2
    <3>7. QED
      BY <1>1, <3>4, <3>5, <3>6 DEF Rewired
  <2>3. QED
    BY <2>1, <2>2 DEF Sent
<1>4. ConnsInv'
  BY <1>1, <1>3, RewiredKeepsOne DEF LinkInv, ConnsInv, link
<1>5. call' \in CallType /\ call'.user = acce /\ call'.stage \notin DOMAIN AfterConnect
  <2>1. AfterSend[call.stage] \in {"recv", "recv2"}
    BY <1>1, StageNames
  <2>2. call' = [call EXCEPT !.stage = AfterSend[call.stage]]
    BY DEF Sent
  <2>3. QED
    BY <1>2, <2>1, <2>2, StageNames DEF CallType
<1>6. QED
  BY <1>1, <1>4, <1>5 DEF LinkInv, ConnsInv, CallKept, NotTwice, link

(* A retry fails as well: the call returns. *)
LEMMA GivesUpStep ==
    ASSUME LinkInv, ResendFails \/ RecvFailsAgain
    PROVE  LinkInv'
<1>1. call.stage \in Stages /\ Return("error", 0) /\ UNCHANGED <<link, conns>>
  BY StageNames DEF ResendFails, RecvFailsAgain
<1>2. CallKept' /\ call'.stage \notin DOMAIN AfterConnect
  BY <1>1, CallUnderWay, ReturnKeeps, Numbers DEF LinkInv
<1>3. ConnsInv'
  BY <1>1, UserChanges DEF LinkInv, ConnsInv, LinkHome, link
<1>4. QED
  BY <1>2, <1>3 DEF LinkInv, ConnsInv, NotTwice

(* The worker dies with its sockets. *)
LEMMA DiesStep ==
    ASSUME LinkInv, call.stage \in Stages, Dies
    PROVE  LinkInv'
<1>1. call \in CallType
  BY CallUnderWay
<1>2. last' \in Seq(LastType)
  BY <1>1, Numbers DEF Dies, LinkInv, CallKept, CallType, LastType
<1>3. DOMAIN conns' = {}
  BY DEF Dies
<1>4. IsFiniteSet(DOMAIN conns')
  BY <1>3, FS_EmptySet
<1>5. ConnsTyped' /\ OneConnection' /\ RequestsGoHome'
  BY <1>3, <1>4 DEF ConnsTyped, OneConnection, RequestsGoHome
<1>6. LinkHome' /\ CallKept' /\ NotTwice'
  BY <1>2, <1>3, LinkAssumption, StageNames, Numbers DEF Dies, LinkHome, CallKept, NotTwice, Idle
<1>7. QED
  BY <1>5, <1>6 DEF LinkInv

LEMMA ReceivedStep ==
    ASSUME LinkInv, NEW k \in 1 .. 2 * MaxCalls, Received(k)
    PROVE  LinkInv'
<1> PICK f : f = call.fd
  OBVIOUS
<1>1. call.stage \in Stages /\ f \in DOMAIN conns /\ k \in DOMAIN conns[f].out
  BY StageNames DEF Received
<1>2. call \in CallType /\ call.user = acce
  BY <1>1, CallUnderWay
<1>3. conns[f] \in ConnType /\ conns[f].out \in Seq(Segments)
  BY <1>1 DEF LinkInv, ConnsTyped, ConnType
<1>4. PICK o \in Outcomes(SubSeq(conns[f].out, 1, k)) :
          IF o = "dies" THEN Dies
          ELSE /\ Return(o, conns[f].out[1].n)
               /\ conns' = [conns EXCEPT ![f].out = SubSeq(@, k + 1, Len(@))]
               /\ UNCHANGED link
  BY DEF Received
<1>5. o \in {"ok", "error", "dies"}
  BY DEF Outcomes
<1>6. CASE o = "dies"
  BY <1>1, <1>4, <1>6, DiesStep
<1>7. CASE o # "dies"
  <2>1. UNCHANGED link /\ Return(o, conns[f].out[1].n)
    BY <1>4, <1>7
  <2>2. conns[f].out[1].n \in 0 .. MaxCalls
    <3>1. 1 \in DOMAIN conns[f].out
      BY <1>1, <1>3
    <3>2. conns[f].out[1] \in Segments
      BY <1>3, <3>1
    <3>3. QED
      BY <3>2 DEF Segments
  <2>3. CallKept' /\ call'.stage \notin DOMAIN AfterConnect
    BY <1>2, <1>5, <1>7, <2>1, <2>2, ReturnKeeps DEF LinkInv
  <2>4. SubSeq(conns[f].out, k + 1, Len(conns[f].out)) \in Seq(Segments)
    BY <1>1, <1>3, SubSeqProperties
  <2>5. /\ DOMAIN conns' = DOMAIN conns
        /\ \A g \in DOMAIN conns \ {f} : conns'[g] = conns[g]
        /\ conns'[f] = [conns[f] EXCEPT !.out = SubSeq(conns[f].out, k + 1, Len(conns[f].out))]
    BY <1>1, <1>4, <1>7
  <2>6. /\ conns'[f] \in ConnType /\ conns'[f].to = conns[f].to
        /\ conns'[f].state = conns[f].state /\ conns'[f].in = conns[f].in
    BY <1>3, <2>4, <2>5 DEF ConnType
  <2>7. Rewired(f)
    BY <1>1, <2>5, <2>6 DEF Rewired, LinkInv, LinkHome, RequestsGoHome
  <2>8. ConnsInv'
    BY <2>1, <2>7, RewiredKeepsOne DEF LinkInv, ConnsInv
  <2>9. QED
    BY <2>3, <2>8 DEF LinkInv, ConnsInv, NotTwice
<1>8. QED
  BY <1>6, <1>7

(* What the server does changes neither the worker nor its call. *)
LEMMA CallStays ==
    ASSUME LinkInv, UNCHANGED <<link, call, last>>, ConnsInv', DOMAIN conns' = DOMAIN conns,
           \A g \in DOMAIN conns : Usable(g)' <=> Usable(g)
    PROVE  LinkInv'
<1>1. CallKept' /\ NotTwice'
  BY DEF LinkInv, CallKept, NotTwice, link
<1>2. QED
  BY <1>1 DEF LinkInv, ConnsInv

(* The server takes the first request of a stream and answers it. *)
LEMMA ServeStep ==
    ASSUME LinkInv, NEW f \in DOMAIN conns, NEW ok \in BOOLEAN, Serve(f, ok)
    PROVE  LinkInv'
<1>1. /\ conns[f] \in ConnType /\ conns[f].in \in Seq(Messages) /\ conns[f].in # <<>>
      /\ conns[f].out \in Seq(Segments) /\ conns[f].state = "up" /\ UNCHANGED <<link, call, last>>
  BY DEF LinkInv, ConnsTyped, ConnType, Serve
<1> DEFINE m == Head(conns[f].in)
<1>2. /\ m \in Messages /\ Tail(conns[f].in) \in Seq(Messages)
      /\ \A i \in DOMAIN Tail(conns[f].in) : /\ Tail(conns[f].in)[i] = conns[f].in[i + 1]
                                            /\ i + 1 \in DOMAIN conns[f].in
  BY <1>1, HeadTailProperties
<1>3. \A part \in {"whole", "head", "tail"} : Reply(m, ok, part) \in Segments
  BY <1>2 DEF Reply, Messages, Segments
<1>4. PICK out \in Seq(Segments) :
          conns' = [conns EXCEPT ![f].in = Tail(@), ![f].out = out]
  <2>1. CASE conns' = [conns EXCEPT ![f].in = Tail(@), ![f].out = Append(@, Reply(m, ok, "whole"))]
    <3>1. Append(conns[f].out, Reply(m, ok, "whole")) \in Seq(Segments)
      BY <1>1, <1>3
    <3>2. conns' = [conns EXCEPT ![f].in = Tail(@), ![f].out = Append(conns[f].out, Reply(m, ok, "whole"))]
      BY <2>1
    <3>3. QED
      BY <3>1, <3>2
  <2>2. CASE conns' = [conns EXCEPT ![f].in = Tail(@),
                           ![f].out = @ \o <<Reply(m, ok, "head"), Reply(m, ok, "tail")>>]
    <3>1. conns[f].out \o <<Reply(m, ok, "head"), Reply(m, ok, "tail")>> \in Seq(Segments)
      BY <1>1, <1>3
    <3>2. conns' = [conns EXCEPT ![f].in = Tail(@),
                        ![f].out = conns[f].out \o <<Reply(m, ok, "head"), Reply(m, ok, "tail")>>]
      BY <2>2
    <3>3. QED
      BY <3>1, <3>2
  <2>3. QED
    BY <2>1, <2>2 DEF Serve
<1>5. /\ DOMAIN conns' = DOMAIN conns
      /\ \A g \in DOMAIN conns \ {f} : conns'[g] = conns[g]
      /\ conns'[f] = [conns[f] EXCEPT !.in = Tail(conns[f].in), !.out = out]
  BY <1>4
<1>6. /\ conns'[f] \in ConnType /\ conns'[f].to = conns[f].to
      /\ conns'[f].state = conns[f].state /\ conns'[f].in = Tail(conns[f].in)
  BY <1>1, <1>2, <1>5 DEF ConnType
<1>7. \A i \in DOMAIN conns'[f].in : conns[f].to = Home[conns'[f].in[i].user]
  BY <1>2, <1>6 DEF LinkInv, RequestsGoHome
<1>8. Rewired(f)
  BY <1>1, <1>5, <1>6, <1>7 DEF Rewired, Usable
<1>9. QED
  BY <1>1, <1>5, <1>8, RewiredKeepsOne, CallStays DEF LinkInv, ConnsInv

LEMMA DropStep ==
    ASSUME LinkInv, NEW f \in DOMAIN conns, Drop(f)
    PROVE  LinkInv'
<1>1. /\ conns[f] \in ConnType /\ conns[f].out \in Seq(Segments) /\ conns[f].state = "up"
      /\ UNCHANGED <<link, call, last>>
  BY DEF LinkInv, ConnsTyped, ConnType, Drop
<1>2. PICK out \in {<<>>, conns[f].out} :
          conns' = [conns EXCEPT ![f].state = "down", ![f].in = <<>>, ![f].out = out]
  BY DEF Drop
<1>3. /\ DOMAIN conns' = DOMAIN conns
      /\ \A g \in DOMAIN conns \ {f} : conns'[g] = conns[g]
      /\ conns'[f] = [conns[f] EXCEPT !.state = "down", !.in = <<>>, !.out = out]
  BY <1>2
<1>4. /\ conns'[f] \in ConnType /\ conns'[f].to = conns[f].to
      /\ conns'[f].state = "down" /\ conns'[f].in = <<>>
  <2>1. out \in Seq(Segments)
    <3>1. CASE out = <<>>
      BY <3>1, EmptySeq
    <3>2. CASE out = conns[f].out
      BY <1>1, <3>2
    <3>3. QED
      BY <1>2, <3>1, <3>2
  <2> DEFINE none == <<>>
  <2>2. none \in Seq(Messages) /\ none = <<>>
    OBVIOUS
  <2>3. conns'[f] = [conns[f] EXCEPT !.state = "down", !.in = none, !.out = out]
    BY <1>3
  <2> HIDE DEF none
  <2>4. QED
    BY <1>1, <2>1, <2>2, <2>3 DEF ConnType
<1>5. Rewired(f)
  BY <1>1, <1>3, <1>4 DEF Rewired
<1>6. QED
  BY <1>1, <1>3, <1>5, RewiredKeepsOne, CallStays DEF LinkInv, ConnsInv

-----------------------------------------------------------------------------

LEMMA LinkStart ==
    ASSUME Init
    PROVE  LinkInv
<1>1. DOMAIN conns = {} /\ IsFiniteSet(DOMAIN conns)
  BY FS_EmptySet DEF Init
<1>2. ConnsTyped /\ OneConnection /\ RequestsGoHome
  BY <1>1 DEF ConnsTyped, OneConnection, RequestsGoHome
<1>3. LinkHome /\ CallKept /\ NotTwice
  BY <1>1, LinkAssumption, StageNames, Numbers DEF Init, LinkHome, CallKept, NotTwice, Idle
<1>4. QED
  BY <1>2, <1>3 DEF LinkInv

LEMMA LinkStep ==
    ASSUME LinkInv, [Next]_vars
    PROVE  LinkInv'
<1>1. CASE \E u \in Users : LockOther(u)
  BY <1>1, LockOtherStep
<1>2. CASE LockSame \/ \E kind \in ExecKinds : Exec(kind)
  BY <1>2, CallStep
<1>3. CASE Connects \/ Refused
  BY <1>3, ConnectsStep, RefusedStep
<1>4. CASE Sent \/ ResendFails \/ RecvFailsAgain
  BY <1>4, SentStep, GivesUpStep
<1>5. CASE SendFails \/ RecvFails
  BY <1>5, ReconnectStep, StageNames DEF SendFails, RecvFails
<1>6. CASE \E k \in 1 .. 2 * MaxCalls : Received(k)
  BY <1>6, ReceivedStep
<1>7. CASE Server
  BY <1>7, ServeStep DEF Server
<1>8. CASE \E f \in DOMAIN conns : Drop(f)
  BY <1>8, DropStep
<1>9. CASE UNCHANGED vars
  <2>1. ConnsInv' /\ \A f \in DOMAIN conns' : Usable(f)' <=> Usable(f)
    BY <1>9, UserChanges DEF vars, LinkInv, ConnsInv, LinkHome
  <2>2. QED
    BY <1>9, <2>1, CallStays DEF vars, link
<1>10. QED
  BY <1>1, <1>2, <1>3, <1>4, <1>5, <1>6, <1>7, <1>8, <1>9 DEF Next, Worker

(* Whatever fails and however often the users change, the only connection   *)
(* of a worker is the one of _cache_sockfd_.                                 *)
THEOREM OneConnectionAlways == Spec => []OneConnection
<1>1. LinkInv => OneConnection
  BY DEF LinkInv
<1>2. QED
  BY LinkStart, LinkStep, <1>1, PTL DEF Spec

(* Every request in a stream is for the cache server that the stream leads   *)
(* to, also one that is sent again over a new connection.                    *)
THEOREM RequestsGoHomeAlways == Spec => []RequestsGoHome
<1>1. LinkInv => RequestsGoHome
  BY DEF LinkInv
<1>2. QED
  BY LinkStart, LinkStep, <1>1, PTL DEF Spec

-----------------------------------------------------------------------------
(* What is asked and answered *)

Recv == {"recv", "recv2"}
Busy == call.stage \in Stages

FlowTyped == served \in [1 .. MaxCalls -> Nat] /\ faults \in [FaultKinds -> 0 .. MaxFaults]

(* The calls are numbered as they return. *)
Numbered ==
    /\ Len(last) <= MaxCalls
    /\ \A i \in DOMAIN last : last[i].n = i
    /\ Busy => call.n = Len(last) + 1 /\ Len(last) < MaxCalls

(* A request waits once, and that of the call under way only while an       *)
(* answer is waited for; on a connection that is down nothing waits.        *)
Distinct ==
    \A f \in DOMAIN conns :
        /\ \A i, j \in DOMAIN conns[f].in : conns[f].in[i].n = conns[f].in[j].n => i = j
        /\ \A i \in DOMAIN conns[f].in : conns[f].in[i].n <= Len(last)
                                          \/ (call.stage \in Recv /\ conns[f].in[i].n = Len(last) + 1)
        /\ conns[f].state # "up" => conns[f].in = <<>>

(* How often a request was executed, whether it waits and how often it may  *)
(* yet be sent make two together.                                           *)
Waiting(n) == \E f \in DOMAIN conns : \E i \in DOMAIN conns[f].in : conns[f].in[i].n = n
StageLeft == [connect |-> 2, send |-> 2, connect1 |-> 2, resend |-> 2, recv |-> 1,
              connect2 |-> 1, resend2 |-> 1, recv2 |-> 0]
SendsLeft(n) == IF n <= Len(last) THEN 0
                ELSE IF n = Len(last) + 1 /\ Busy THEN StageLeft[call.stage] ELSE 2
Sends == \A n \in 1 .. MaxCalls : served[n] + (IF Waiting(n) THEN 1 ELSE 0) + SendsLeft(n) <= 2

(* Only what was executed is answered. *)
OutAnswered == \A f \in DOMAIN conns : \A i \in DOMAIN conns[f].out : served[conns[f].out[i].n] >= 1
LastAnswered == \A i \in DOMAIN last : last[i].ret = "ok" => last[i].by # 0 /\ served[last[i].by] >= 1

(* While replies were whole, or until the first error, a connection holds   *)
(* at most the end of an earlier reply, but for the request of the call     *)
(* that waits on it and its reply.                                          *)
Clean == \A i \in DOMAIN last : last[i].ret = "ok"
Rest(out) == out = <<>> \/ (Len(out) = 1 /\ out[1].part = "tail")
Own(out) == \/ Len(out) = 1 /\ out[1].part = "whole" /\ out[1].n = call.n
            \/ Len(out) = 2 /\ out[1].part = "head" /\ out[1].n = call.n /\ out[2].part = "tail"
            \/ out # <<>> /\ out[1].part = "tail"
Empty(f) == conns[f].in = <<>> /\ Rest(conns[f].out)
Mine(f) == /\ call.stage \in Recv /\ call.fd = f
           /\ \/ /\ Len(conns[f].in) = 1 /\ conns[f].in[1].n = call.n /\ Rest(conns[f].out)
              \/ /\ conns[f].in = <<>> /\ Own(conns[f].out)
InOrder == Whole \/ Clean => \A f \in DOMAIN conns : Empty(f) \/ Mine(f)
Settled == Whole \/ Clean => \A f \in DOMAIN conns : Empty(f)
AllWhole == Whole => \A f \in DOMAIN conns : \A i \in DOMAIN conns[f].out : conns[f].out[i].part = "whole"

FlowInv ==
    /\ FlowTyped /\ Numbered /\ Distinct /\ Sends /\ OutAnswered /\ LastAnswered
    /\ InOrder /\ AllWhole /\ OwnReply /\ StaleOnlyAfterError

-----------------------------------------------------------------------------
(* The calls and what they returned *)

LEMMA BusyIs ==
    ASSUME LinkInv
    PROVE  (Busy <=> call # Idle) /\ (Busy => call \in CallType) /\ last \in Seq(LastType)
           /\ (call = Idle => call.stage = "idle") /\ Recv \subseteq Stages
  BY StageNames DEF LinkInv, CallKept, Busy, Idle, CallType, Recv

(* The three ways a step changes the call: it starts, goes on, or returns. *)
Starts == /\ call = Idle /\ Len(last) < MaxCalls /\ last' = last
          /\ call'.n = Len(last) + 1 /\ call'.stage \in {"send", "connect"}
GoesOn == Busy /\ last' = last /\ call'.n = call.n /\ call'.stage \in Stages
Ends(ret, by) ==
    /\ Busy /\ last' = Append(last, [n |-> call.n, user |-> call.user, kind |-> call.kind,
                                     ret |-> ret, by |-> by])
    /\ \/ call' = Idle
       \/ call'.stage = "send" /\ call'.n = Len(last) + 2 /\ Len(last) + 1 < MaxCalls

LEMMA NumberedKeeps ==
    ASSUME LinkInv, Numbered, \/ Starts \/ GoesOn \/ UNCHANGED <<call, last>>
                              \/ \E ret, by : Ends(ret, by)
    PROVE  Numbered'
<1>1. last \in Seq(LastType) /\ (Busy <=> call # Idle) /\ Idle.stage \notin Stages
  BY BusyIs, StageNames DEF Idle
<1>2. CASE Starts
  BY <1>1, <1>2 DEF Starts, Numbered, Busy
<1>3. CASE GoesOn
  BY <1>1, <1>3 DEF GoesOn, Numbered, Busy
<1>4. CASE UNCHANGED <<call, last>>
  BY <1>4 DEF Numbered, Busy
<1>5. ASSUME NEW ret, NEW by, Ends(ret, by)
      PROVE  Numbered'
  <2>1. call.n = Len(last) + 1 /\ Len(last) < MaxCalls /\ \A i \in DOMAIN last : last[i].n = i
    BY <1>5 DEF Ends, Numbered
  <2> DEFINE e == [n |-> call.n, user |-> call.user, kind |-> call.kind, ret |-> ret, by |-> by]
  <2>2. last' = Append(last, e) /\ e.n = call.n
    BY <1>5 DEF Ends
  <2> HIDE DEF e
  <2>3. Len(last') = Len(last) + 1 /\ \A i \in DOMAIN last' : last'[i].n = i
    BY <1>1, <2>1, <2>2
  <2>4. MaxCalls \in Nat /\ Len(last) \in Nat
    BY <1>1, LinkAssumption
  <2>5. Busy' => call'.n = Len(last') + 1 /\ Len(last') < MaxCalls
    BY <1>1, <1>5, <2>3, <2>4 DEF Ends, Busy
  <2>6. QED
    BY <2>1, <2>3, <2>4, <2>5 DEF Numbered
<1>6. QED
  BY <1>2, <1>3, <1>4, <1>5

(* What may yet be sent does not grow, but where a retry goes on from an     *)
(* earlier stage.                                                            *)
LEMMA LeftType ==
    ASSUME LinkInv, NEW n \in 1 .. MaxCalls
    PROVE  SendsLeft(n) \in 0 .. 2
<1>1. \A s \in Stages : StageLeft[s] \in 0 .. 2
  BY StageNames DEF StageLeft
<1>2. QED
  BY <1>1 DEF SendsLeft, Busy

LEMMA LeftKeeps ==
    ASSUME LinkInv, Numbered, NEW n \in 1 .. MaxCalls,
           \/ Starts \/ UNCHANGED <<call, last>> \/ \E ret, by : Ends(ret, by)
           \/ GoesOn /\ StageLeft[call'.stage] <= StageLeft[call.stage]
    PROVE  SendsLeft(n)' <= SendsLeft(n)
<1>1. last \in Seq(LastType) /\ (Busy <=> call # Idle) /\ Idle.stage \notin Stages /\ SendsLeft(n) \in 0 .. 2
  BY BusyIs, StageNames, LeftType DEF Idle
<1>2. CASE Starts
  <2>1. StageLeft[call'.stage] = 2 /\ ~Busy
    BY <1>1, <1>2 DEF StageLeft, Starts
  <2>2. QED
    BY <1>1, <1>2, <2>1 DEF Starts, SendsLeft
<1>3. CASE UNCHANGED <<call, last>>
  BY <1>1, <1>3 DEF SendsLeft, Busy
<1>4. CASE GoesOn /\ StageLeft[call'.stage] <= StageLeft[call.stage]
  <2>1. Busy' /\ Busy
    BY <1>4 DEF GoesOn, Busy
  <2>2. QED
    BY <1>1, <1>4, <2>1 DEF GoesOn, SendsLeft
<1>5. ASSUME NEW ret, NEW by, Ends(ret, by)
      PROVE  SendsLeft(n)' <= SendsLeft(n)
  <2>1. Len(last') = Len(last) + 1 /\ Len(last) \in Nat
    BY <1>1, <1>5 DEF Ends
  <2>2. StageLeft["send"] = 2
    BY DEF StageLeft
  <2>3. n > Len(last) + 1 => SendsLeft(n) = 2 /\ SendsLeft(n)' = 2
    BY <1>1, <1>5, <2>1, <2>2 DEF Ends, SendsLeft, Busy
  <2>4. n <= Len(last) + 1 => SendsLeft(n)' = 0
    BY <2>1 DEF SendsLeft
  <2>5. QED
    BY <1>1, <2>1, <2>3, <2>4
<1>6. QED
  BY <1>2, <1>3, <1>4, <1>5

(* One more call has returned. *)
LEMMA HistoryGrows ==
    ASSUME LinkInv, FlowInv, NEW e, e.ret \in {"ok", "error"}, last' = Append(last, e), Whole' => Whole,
           FlowTyped', \A n \in 1 .. MaxCalls : served'[n] >= served[n],
           e.ret = "ok" => /\ e.by # 0 /\ served'[e.by] >= 1
                           /\ Whole \/ Clean => e.by = e.n
    PROVE  OwnReply' /\ StaleOnlyAfterError' /\ LastAnswered' /\ (Clean' => Clean /\ e.ret = "ok")
<1>1. last \in Seq(LastType)
  BY BusyIs
<1>2. /\ DOMAIN last' = DOMAIN last \cup {Len(last) + 1} /\ last'[Len(last) + 1] = e
      /\ \A i \in DOMAIN last : last'[i] = last[i] /\ last[i] \in LastType
      /\ DOMAIN last = 1 .. Len(last) /\ Len(last) \in Nat
  BY <1>1
<1>3. OwnReply'
  BY <1>2 DEF FlowInv, OwnReply, OkIsMine
<1>4. StaleOnlyAfterError'
  <2>1. ASSUME NEW i \in DOMAIN last', last'[i].ret = "ok", last'[i].by # last'[i].n
        PROVE  \E j \in 1 .. i - 1 : last'[j].ret = "error"
    <3>1. CASE i \in DOMAIN last
      <4>1. PICK j \in 1 .. i - 1 : last[j].ret = "error"
        BY <1>2, <2>1, <3>1 DEF FlowInv, StaleOnlyAfterError
      <4>2. j \in DOMAIN last
        BY <1>2, <3>1, <4>1
      <4>3. QED
        BY <1>2, <4>1, <4>2
    <3>2. CASE i = Len(last) + 1
      <4>1. ~Clean
        BY <1>2, <2>1, <3>2
      <4>2. PICK j \in DOMAIN last : last[j].ret # "ok"
        BY <4>1 DEF Clean
      <4>3. last[j].ret = "error"
        BY <1>2, <4>2 DEF LastType
      <4>4. QED
        BY <1>2, <3>2, <4>2, <4>3
    <3>3. QED
      BY <1>2, <2>1, <3>1, <3>2
  <2>2. QED
    BY <2>1 DEF StaleOnlyAfterError
<1>5. LastAnswered'
  <2>1. ASSUME NEW i \in DOMAIN last', last'[i].ret = "ok"
        PROVE  last'[i].by # 0 /\ served'[last'[i].by] >= 1
    <3>1. CASE i \in DOMAIN last
      <4>1. last[i].by # 0 /\ served[last[i].by] >= 1 /\ last[i].by \in 0 .. MaxCalls
        BY <1>2, <2>1, <3>1 DEF FlowInv, LastAnswered, LastType
      <4>2. last[i].by \in 1 .. MaxCalls
        BY <4>1, LinkAssumption
      <4>3. served[last[i].by] \in Nat /\ served'[last[i].by] \in Nat
        BY <4>2 DEF FlowInv, FlowTyped
      <4>4. served'[last[i].by] >= served[last[i].by]
        BY <4>2
      <4>5. QED
        BY <1>2, <3>1, <4>1, <4>3, <4>4
    <3>2. CASE i = Len(last) + 1
      BY <1>2, <2>1, <3>2
    <3>3. QED
      BY <1>2, <2>1, <3>1, <3>2
  <2>2. QED
    BY <2>1 DEF LastAnswered
<1>6. Clean' => Clean /\ e.ret = "ok"
  BY <1>2 DEF Clean
<1>7. QED
  BY <1>3, <1>4, <1>5, <1>6

-----------------------------------------------------------------------------
(* Steps that close sockets and open new ones *)

Fade == \A f \in DOMAIN conns' : \/ f \in DOMAIN conns /\ conns'[f] = conns[f]
                                 \/ conns'[f].in = <<>> /\ conns'[f].out = <<>>

(* A worker that does not wait for an answer has nothing of its own in a    *)
(* stream.                                                                  *)
LEMMA Settles ==
    ASSUME LinkInv, FlowInv, call.stage \notin Recv
    PROVE  Settled
  BY DEF FlowInv, InOrder, Settled, Mine

LEMMA FadeSettles ==
    ASSUME Settled, Fade, Whole' => Whole, Clean' => Clean
    PROVE  Settled'
  BY DEF Settled, Fade, Empty, Rest

(* Such a step keeps the rest, if the call returns at most with an error,   *)
(* and none is sent more often.                                             *)
LEMMA FadeKeeps ==
    ASSUME LinkInv, FlowInv, Fade, FlowTyped', served' = served, faults'["split"] = faults["split"],
           Numbered', Settled',
           \/ last' = last
           \/ \E e : last' = Append(last, e) /\ e.ret = "error",
           \A n \in 1 .. MaxCalls : SendsLeft(n)' \in 0 .. 2 /\ SendsLeft(n)' <= SendsLeft(n),
           call.stage \in Recv => last' # last \/ \A f \in DOMAIN conns' : conns'[f].in = <<>>
    PROVE  FlowInv'
<1>1. Whole' <=> Whole
  BY DEF Whole
<1>2. last \in Seq(LastType) /\ last' \in Seq(LastType \cup {last'[Len(last) + 1]}) /\ Len(last') >= Len(last)
      /\ (last' # last => Len(last') = Len(last) + 1)
  BY BusyIs
<1>3. OwnReply' /\ StaleOnlyAfterError' /\ LastAnswered'
  <2>1. CASE last' = last
    BY <1>1, <2>1 DEF FlowInv, OwnReply, OkIsMine, StaleOnlyAfterError, LastAnswered
  <2>2. ASSUME NEW e, last' = Append(last, e), e.ret = "error"
        PROVE  OwnReply' /\ StaleOnlyAfterError' /\ LastAnswered'
    <3>1. \A n \in 1 .. MaxCalls : served'[n] >= served[n]
      <4>1. \A n \in 1 .. MaxCalls : served[n] \in Nat
        BY DEF FlowInv, FlowTyped
      <4>2. QED
        BY <4>1
    <3>2. e.ret \in {"ok", "error"} /\ e.ret # "ok" /\ (Whole' => Whole)
      BY <1>1, <2>2
    <3>3. QED
      BY <2>2, <3>1, <3>2, HistoryGrows
  <2>3. QED
    BY <2>1, <2>2
<1>4. Distinct'
  <2>1. ASSUME NEW f \in DOMAIN conns', f \in DOMAIN conns, conns'[f] = conns[f],
               NEW i \in DOMAIN conns'[f].in
        PROVE  conns'[f].in[i].n <= Len(last')
    <3>1. conns[f].in[i] \in Messages
      BY <2>1 DEF LinkInv, ConnsTyped, ConnType
    <3>2. conns[f].in[i].n \in 1 .. MaxCalls /\ Len(last) \in Nat /\ Len(last') \in Nat
      BY <1>2, <3>1 DEF Messages
    <3>3. conns[f].in[i].n <= Len(last) \/ (call.stage \in Recv /\ conns[f].in[i].n = Len(last) + 1)
      BY <2>1 DEF FlowInv, Distinct
    <3>4. CASE conns[f].in[i].n <= Len(last)
      BY <1>2, <2>1, <3>2, <3>4
    <3>5. CASE call.stage \in Recv /\ conns[f].in[i].n = Len(last) + 1
      <4>1. last' # last
        BY <2>1, <3>5
      <4>2. QED
        BY <1>2, <2>1, <3>2, <3>5, <4>1
    <3>6. QED
      BY <3>3, <3>4, <3>5
  <2>2. QED
    BY <2>1 DEF FlowInv, Distinct, Fade
<1>5. Sends'
  <2>1. ASSUME NEW n \in 1 .. MaxCalls
        PROVE  served'[n] + (IF Waiting(n)' THEN 1 ELSE 0) + SendsLeft(n)' <= 2
    <3>1. Waiting(n)' => Waiting(n)
      BY DEF Waiting, Fade
    <3>2. served[n] \in Nat /\ SendsLeft(n) \in 0 .. 2 /\ SendsLeft(n)' \in 0 .. 2 /\ SendsLeft(n)' <= SendsLeft(n)
      BY LeftType DEF FlowInv, FlowTyped
    <3>3. served[n] + (IF Waiting(n) THEN 1 ELSE 0) + SendsLeft(n) <= 2
      BY DEF FlowInv, Sends
    <3>4. QED
      BY <3>1, <3>2, <3>3
  <2>2. QED
    BY <2>1 DEF Sends
<1>6. OutAnswered' /\ AllWhole'
  BY <1>1 DEF FlowInv, OutAnswered, AllWhole, Fade
<1>7. InOrder'
  BY DEF InOrder, Settled
<1>8. QED
  BY <1>3, <1>4, <1>5, <1>6, <1>7 DEF FlowInv

LEMMA ReturnEnds ==
    ASSUME LinkInv, Busy, NEW ret, NEW by, Return(ret, by)
    PROVE  Ends(ret, by)
<1>1. call \in CallType
  BY BusyIs
<1>2. CASE call.kind = "query" /\ ret = "ok" /\ Len(last) + 1 < MaxCalls
  <2>1. call' = [call EXCEPT !.stage = "send", !.n = Len(last) + 2, !.kind = "status",
                             !.fd = call.arg, !.tries = 0]
    BY <1>2 DEF Return
  <2>2. call'.stage = "send" /\ call'.n = Len(last) + 2
    BY <1>1, <2>1 DEF CallType
  <2>3. QED
    BY <1>2, <2>2 DEF Return, Ends
<1>3. CASE ~(call.kind = "query" /\ ret = "ok" /\ Len(last) + 1 < MaxCalls)
  BY <1>3 DEF Return, Ends
<1>4. QED
  BY <1>2, <1>3

LEMMA FaultType ==
    ASSUME FlowTyped, NEW kind \in FaultKinds, Fault(kind)
    PROVE  /\ faults' \in [FaultKinds -> 0 .. MaxFaults]
           /\ kind # "split" => faults'["split"] = faults["split"]
           /\ kind = "split" => ~Whole'
<1>1. faults' = [faults EXCEPT ![kind] = @ + 1]
  BY DEF Fault
<1>2. \A k \in FaultKinds : faults[k] \in 0 .. MaxFaults
  BY DEF FlowTyped
<1>3. faults[kind] + 1 \in 0 .. MaxFaults
  <2>1. faults["down"] + faults["refuse"] + faults["split"] < MaxFaults
    BY DEF Fault
  <2>2. faults["down"] \in Nat /\ faults["refuse"] \in Nat /\ faults["split"] \in Nat /\ MaxFaults \in Nat
    BY <1>2, LinkAssumption DEF FaultKinds
  <2>3. QED
    BY <2>1, <2>2 DEF FaultKinds
<1>4. faults' \in [FaultKinds -> 0 .. MaxFaults]
  BY <1>1, <1>3 DEF FlowTyped
<1>5. kind # "split" => faults'["split"] = faults["split"]
  BY <1>1 DEF FlowTyped, FaultKinds
<1>6. kind = "split" => ~Whole'
  BY <1>1, <1>2 DEF Whole, FaultKinds, FlowTyped
<1>7. QED
  BY <1>4, <1>5, <1>6

(* The call of a worker to whom nothing comes any more goes on, starts or   *)
(* gives up.                                                                *)
LEMMA FadeStep ==
    ASSUME LinkInv, FlowInv, Fade, served' = served, faults' \in [FaultKinds -> 0 .. MaxFaults],
           faults'["split"] = faults["split"],
           Settled \/ DOMAIN conns' = {},
           call.stage \in Recv => last' # last \/ \A f \in DOMAIN conns' : conns'[f].in = <<>>,
           \/ Starts
           \/ GoesOn /\ StageLeft[call'.stage] <= StageLeft[call.stage]
           \/ \E by : Ends("error", by)
    PROVE  FlowInv'
<1>1. \/ last' = last
      \/ \E e : last' = Append(last, e) /\ e.ret = "error"
  <2>1. ASSUME NEW by, Ends("error", by)
        PROVE  \E e : last' = Append(last, e) /\ e.ret = "error"
    <3> WITNESS [n |-> call.n, user |-> call.user, kind |-> call.kind, ret |-> "error", by |-> by]
    <3>1. QED
      BY <2>1 DEF Ends
  <2>2. QED
    BY <2>1 DEF Starts, GoesOn
<1>2. Whole' <=> Whole
  BY DEF Whole
<1>3. Clean' => Clean
  <2>1. CASE last' = last
    BY <2>1 DEF Clean
  <2>2. ASSUME NEW e, last' = Append(last, e)
        PROVE  Clean' => Clean
    BY <2>2, BusyIs DEF Clean
  <2>3. QED
    BY <1>1, <2>1, <2>2
<1>4. Settled'
  <2>1. CASE Settled
    BY <1>2, <1>3, <2>1, FadeSettles
  <2>2. CASE DOMAIN conns' = {}
    BY <2>2 DEF Settled
  <2>3. QED
    BY <2>1, <2>2
<1>5. FlowTyped'
  BY DEF FlowInv, FlowTyped
<1>6. Numbered'
  BY NumberedKeeps DEF FlowInv
<1>7. ASSUME NEW n \in 1 .. MaxCalls
      PROVE  SendsLeft(n)' \in 0 .. 2 /\ SendsLeft(n)' <= SendsLeft(n)
  <2>1. \A st \in Stages : StageLeft[st] \in 0 .. 2
    BY StageNames DEF StageLeft
  <2>2. SendsLeft(n)' \in 0 .. 2
    BY <2>1 DEF SendsLeft, Busy
  <2>3. SendsLeft(n)' <= SendsLeft(n)
    BY LeftKeeps DEF FlowInv
  <2>4. QED
    BY <2>2, <2>3
<1>8. QED
  BY <1>1, <1>4, <1>5, <1>6, <1>7, FadeKeeps

LEMMA StartFlows ==
    ASSUME LinkInv, FlowInv, \/ \E u \in Users : LockOther(u)
                             \/ LockSame \/ \E kind \in ExecKinds : Exec(kind)
    PROVE  FlowInv'
<1>1. Starts /\ served' = served /\ faults' = faults
  <2>1. ASSUME NEW u \in Users, LockOther(u), saddr # Home[u]
        PROVE  call'.n = Len(last) + 1 /\ call'.stage = "connect"
    <3>1. call' = [Request("query", u, -1) EXCEPT !.stage = "connect"]
      BY <2>1 DEF LockOther
    <3>2. QED
      BY <3>1 DEF Request
  <2>2. ASSUME NEW kind, NEW u, NEW fd, call' = Request(kind, u, fd)
        PROVE  call'.n = Len(last) + 1 /\ call'.stage = "send"
    BY <2>2 DEF Request
  <2>3. call'.n = Len(last) + 1 /\ call'.stage \in {"send", "connect"}
    BY <2>1, <2>2 DEF LockOther, LockSame, Exec
  <2>4. QED
    BY <2>3 DEF LockOther, LockSame, Exec, Starts
<1>2. Fade
  BY DEF LockOther, LockSame, Exec, Fade, Closed, Restrict
<1>3. call.stage \notin Recv
  BY <1>1 DEF Starts, Idle, Recv
<1>4. QED
  BY <1>1, <1>2, <1>3, Settles, FadeStep DEF FlowInv, FlowTyped

LEMMA SendFailsFlows ==
    ASSUME LinkInv, FlowInv, SendFails
    PROVE  FlowInv'
<1>1. Busy /\ call \in CallType
  BY StageNames, BusyIs DEF Busy, SendFails
<1>2. call' = [call EXCEPT !.stage = "connect1", !.tries = 0]
  BY DEF SendFails, Reconnect
<1>3. call'.stage = "connect1" /\ call'.n = call.n
  BY <1>1, <1>2 DEF CallType
<1>4. GoesOn /\ StageLeft[call'.stage] <= StageLeft[call.stage]
  BY <1>1, <1>3, StageNames DEF GoesOn, SendFails, Reconnect, StageLeft
<1>5. Fade
  BY DEF SendFails, Reconnect, Fade, Closed, Restrict
<1>6. QED
  BY <1>4, <1>5, Settles, FadeStep DEF SendFails, Reconnect, Recv, FlowInv, FlowTyped

LEMMA ResendFailsFlows ==
    ASSUME LinkInv, FlowInv, ResendFails
    PROVE  FlowInv'
<1>1. Busy
  BY StageNames DEF Busy, ResendFails
<1>2. Ends("error", 0)
  BY <1>1, ReturnEnds DEF ResendFails
<1>3. Fade
  BY DEF ResendFails, Fade
<1>4. QED
  BY <1>2, <1>3, Settles, FadeStep DEF ResendFails, Recv, FlowInv, FlowTyped

LEMMA ConnectsFlows ==
    ASSUME LinkInv, FlowInv, Connects
    PROVE  FlowInv'
<1> DEFINE f == FreeFd(conns)
<1>1. Busy /\ call \in CallType
  BY StageNames, BusyIs DEF Busy, Connects
<1>2. call' = [call EXCEPT !.stage = AfterConnect[call.stage], !.fd = f,
                           !.arg = IF call.stage = "connect" THEN f ELSE @]
      /\ conns' = Opened(conns, f, "up")
  BY DEF Connects
<1> HIDE DEF f
<1>3. call'.stage = AfterConnect[call.stage] /\ call'.n = call.n
  BY <1>1, <1>2 DEF CallType
<1>4. GoesOn /\ StageLeft[call'.stage] <= StageLeft[call.stage]
  BY <1>1, <1>3, StageNames DEF GoesOn, Connects, StageLeft, AfterConnect
<1>5. Fade
  BY <1>2 DEF Fade, Opened
<1>6. QED
  BY <1>4, <1>5, Settles, FadeStep DEF Connects, AfterConnect, Recv, FlowInv, FlowTyped

LEMMA RefusedFlows ==
    ASSUME LinkInv, FlowInv, Refused
    PROVE  FlowInv'
<1>1. Busy /\ call \in CallType
  BY StageNames, BusyIs DEF Busy, Refused
<1>2. faults' \in [FaultKinds -> 0 .. MaxFaults] /\ faults'["split"] = faults["split"]
  BY FaultType DEF Refused, FaultKinds, FlowInv
<1>3. Fade
  BY DEF Refused, Fade, Opened
<1>4. \/ GoesOn /\ StageLeft[call'.stage] <= StageLeft[call.stage]
      \/ Ends("error", 0)
  <2>1. CASE call' = [call EXCEPT !.tries = @ + 1] /\ UNCHANGED last
    <3>1. call'.stage = call.stage /\ call'.n = call.n
      BY <1>1, <2>1 DEF CallType
    <3>2. StageLeft[call.stage] \in Nat
      BY <1>1, StageNames DEF StageLeft, Busy
    <3>3. QED
      BY <1>1, <2>1, <3>1, <3>2 DEF GoesOn, Busy
  <2>2. CASE call.stage = "connect" /\ call' = [call EXCEPT !.stage = "send", !.fd = -1] /\ UNCHANGED last
    <3>1. call'.stage = "send" /\ call'.n = call.n
      BY <1>1, <2>2 DEF CallType
    <3>2. QED
      BY <1>1, <2>2, <3>1, StageNames DEF GoesOn, StageLeft
  <2>3. CASE Return("error", 0)
    BY <1>1, <2>3, ReturnEnds
  <2>4. QED
    BY <2>1, <2>2, <2>3 DEF Refused
<1>5. QED
  BY <1>2, <1>3, <1>4, Settles, FadeStep DEF Refused, AfterConnect, Recv

(* Nor does anything come to one who finds his connection closed. *)
LEMMA ClosedSettles ==
    ASSUME LinkInv, FlowInv,
           call.fd \in DOMAIN conns => conns[call.fd].state = "down" /\ conns[call.fd].out = <<>>
    PROVE  Settled
<1>1. ASSUME NEW f \in DOMAIN conns, Mine(f)
      PROVE  FALSE
  <2>1. conns[f].in = <<>> /\ conns[f].out = <<>>
    BY <1>1 DEF FlowInv, Distinct, Mine
  <2>2. QED
    BY <1>1, <2>1 DEF Mine, Own
<1>2. QED
  BY <1>1 DEF FlowInv, InOrder, Settled

LEMMA RecvFailsFlows ==
    ASSUME LinkInv, FlowInv, RecvFails
    PROVE  FlowInv'
<1>1. Busy /\ call \in CallType
  BY StageNames, BusyIs DEF Busy, RecvFails
<1>2. call' = [call EXCEPT !.stage = "connect2", !.tries = 0] /\ conns' = Closed(sockfd)
  BY DEF RecvFails, Reconnect
<1>3. call'.stage = "connect2" /\ call'.n = call.n
  BY <1>1, <1>2 DEF CallType
<1>4. GoesOn /\ StageLeft[call'.stage] <= StageLeft[call.stage]
  BY <1>1, <1>3, StageNames DEF GoesOn, RecvFails, Reconnect, StageLeft
<1>5. Fade
  BY DEF RecvFails, Reconnect, Fade, Closed, Restrict
<1>6. Settled
  BY ClosedSettles DEF RecvFails
<1>7. \A f \in DOMAIN conns' : conns'[f].in = <<>>
  <2>1. acce' \in Users => saddr' = Home[acce']
    BY DEF RecvFails, Reconnect, LinkInv, LinkHome
  <2>2. ConnsInv' /\ \A f \in DOMAIN conns' : ~Usable(f)'
    BY <1>2, <2>1, CloseLeavesNone DEF LinkInv, ConnsInv
  <2>3. QED
    BY <2>2 DEF ConnsInv, LinkHome
<1>8. QED
  BY <1>4, <1>5, <1>6, <1>7, FadeStep DEF RecvFails, Reconnect, FlowInv, FlowTyped

LEMMA RecvFailsAgainFlows ==
    ASSUME LinkInv, FlowInv, RecvFailsAgain
    PROVE  FlowInv'
<1>1. Busy
  BY StageNames DEF Busy, RecvFailsAgain
<1>2. Ends("error", 0) /\ last' # last
  BY <1>1, ReturnEnds, BusyIs DEF RecvFailsAgain, Return
<1>3. Fade
  BY DEF RecvFailsAgain, Fade
<1>4. Settled
  BY ClosedSettles DEF RecvFailsAgain
<1>5. QED
  BY <1>2, <1>3, <1>4, FadeStep DEF RecvFailsAgain, FlowInv, FlowTyped

LEMMA DiesFlows ==
    ASSUME LinkInv, FlowInv, Busy, Dies, UNCHANGED <<served, faults>>
    PROVE  FlowInv'
<1>1. Ends("error", 0) /\ last' # last
  BY BusyIs DEF Dies, Ends
<1>2. DOMAIN conns' = {}
  BY DEF Dies
<1>3. Fade
  BY <1>2 DEF Fade
<1>4. QED
  BY <1>1, <1>2, <1>3, FadeStep DEF FlowInv, FlowTyped

-----------------------------------------------------------------------------
(* A request on its way *)

(* The request of the call under way joins the others on its connection,    *)
(* where nothing else waits to be read but the end of an earlier reply.     *)
LEMMA SentFlows ==
    ASSUME LinkInv, FlowInv, Sent
    PROVE  FlowInv'
<1> DEFINE fd == call.fd
<1>1. Busy /\ call \in CallType /\ last \in Seq(LastType) /\ call.stage \notin Recv
  BY StageNames, BusyIs DEF Busy, Sent, AfterSend, Recv
<1>2. call' = [call EXCEPT !.stage = AfterSend[call.stage]]
  BY DEF Sent
<1>3. call'.stage = AfterSend[call.stage] /\ call'.n = call.n /\ call'.fd = fd
  BY <1>1, <1>2 DEF CallType
<1>4. /\ call'.stage \in Recv /\ GoesOn /\ Busy'
      /\ StageLeft[call.stage] \in 1 .. 2 /\ StageLeft[call'.stage] = StageLeft[call.stage] - 1
  BY <1>1, <1>3, StageNames DEF GoesOn, Sent, StageLeft, AfterSend, Recv, Busy
<1>5. UNCHANGED <<last, served, faults>>
  BY DEF Sent
<1>6. Numbered' /\ FlowTyped' /\ OwnReply' /\ StaleOnlyAfterError' /\ LastAnswered'
  BY <1>4, <1>5, NumberedKeeps DEF FlowInv, FlowTyped, OwnReply, OkIsMine, StaleOnlyAfterError, LastAnswered, Whole
<1>7. call.n = Len(last) + 1 /\ Len(last) \in Nat /\ call.n \in 1 .. MaxCalls
  BY <1>1 DEF FlowInv, Numbered, CallType
<1>8. Settled
  BY <1>1, Settles
<1>9. fd \in DOMAIN conns /\ conns[fd] \in ConnType
  BY DEF Sent, Usable, LinkInv, ConnsTyped
<1> HIDE DEF fd
<1>10. \A f \in DOMAIN conns : \A i \in DOMAIN conns[f].in : conns[f].in[i].n \in Nat /\ conns[f].in[i].n <= Len(last)
  <2>1. ASSUME NEW f \in DOMAIN conns, NEW i \in DOMAIN conns[f].in
        PROVE  conns[f].in[i].n \in Nat /\ conns[f].in[i].n <= Len(last)
    <3>1. conns[f].in[i] \in Messages
      BY <2>1 DEF LinkInv, ConnsTyped, ConnType
    <3>2. QED
      BY <1>1, <2>1, <3>1 DEF FlowInv, Distinct, Messages
  <2>2. QED
    BY <2>1
<1>11. ~Waiting(call.n)
  BY <1>7, <1>10 DEF Waiting
<1>12. \A n \in 1 .. MaxCalls : /\ n # call.n => SendsLeft(n)' = SendsLeft(n)
                                /\ n = call.n => SendsLeft(n)' = SendsLeft(n) - 1 /\ SendsLeft(n) \in 1 .. 2
  BY <1>1, <1>3, <1>4, <1>5, <1>7 DEF SendsLeft
<1>13. ASSUME \A n : n # call.n => (Waiting(n)' => Waiting(n))
       PROVE  Sends'
  <2>1. ASSUME NEW n \in 1 .. MaxCalls
        PROVE  served'[n] + (IF Waiting(n)' THEN 1 ELSE 0) + SendsLeft(n)' <= 2
    <3>1. served'[n] = served[n] /\ served[n] \in Nat
      BY <1>5 DEF FlowInv, FlowTyped
    <3>2. served[n] + (IF Waiting(n) THEN 1 ELSE 0) + SendsLeft(n) <= 2
      BY DEF FlowInv, Sends
    <3>3. SendsLeft(n) \in 0 .. 2
      BY LeftType
    <3>4. CASE n = call.n
      BY <1>11, <1>12, <3>1, <3>2, <3>3, <3>4
    <3>5. CASE n # call.n
      BY <1>12, <1>13, <3>1, <3>2, <3>3, <3>5
    <3>6. QED
      BY <3>4, <3>5
  <2>2. QED
    BY <2>1 DEF Sends
<1>14. CASE conns[fd].state # "up"
  <2>1. conns' = conns
    BY <1>14 DEF Sent, fd
  <2>2. Sends'
    BY <1>13, <2>1 DEF Waiting
  <2>3. Distinct'
    BY <1>5, <1>10, <2>1 DEF FlowInv, Distinct
  <2>4. OutAnswered' /\ AllWhole'
    BY <1>5, <2>1 DEF FlowInv, OutAnswered, AllWhole, Whole
  <2>5. InOrder'
    BY <1>5, <1>8, <2>1 DEF Settled, InOrder, Empty, Whole, Clean
  <2>6. QED
    BY <1>6, <2>2, <2>3, <2>4, <2>5 DEF FlowInv
<1>15. CASE conns[fd].state = "up"
  <2> DEFINE q == Message
  <2>1. conns' = [conns EXCEPT ![fd].in = Append(@, q)] /\ q.n = call.n
    BY <1>15 DEF Sent, fd, Message
  <2> HIDE DEF q
  <2>2. /\ DOMAIN conns' = DOMAIN conns
        /\ \A f \in DOMAIN conns \ {fd} : conns'[f] = conns[f]
        /\ conns'[fd] = [conns[fd] EXCEPT !.in = Append(@, q)]
    BY <1>9, <2>1
  <2>3. conns'[fd].in = Append(conns[fd].in, q) /\ conns'[fd].out = conns[fd].out /\ conns'[fd].state = "up"
        /\ conns[fd].in \in Seq(Messages)
    BY <1>9, <1>15, <2>2 DEF ConnType
  <2>4. /\ DOMAIN conns'[fd].in = DOMAIN conns[fd].in \cup {Len(conns[fd].in) + 1}
        /\ conns'[fd].in[Len(conns[fd].in) + 1] = q
        /\ \A i \in DOMAIN conns[fd].in : conns'[fd].in[i] = conns[fd].in[i]
    BY <2>3
  <2>5. Sends'
    <3>1. \A n : n # call.n => (Waiting(n)' => Waiting(n))
      BY <1>9, <2>1, <2>2, <2>4 DEF Waiting
    <3>2. QED
      BY <1>13, <3>1
  <2>6. Distinct'
    <3>1. ASSUME NEW f \in DOMAIN conns'
          PROVE  /\ \A i, j \in DOMAIN conns'[f].in : conns'[f].in[i].n = conns'[f].in[j].n => i = j
                 /\ \A i \in DOMAIN conns'[f].in : conns'[f].in[i].n <= Len(last')
                                                  \/ (call'.stage \in Recv /\ conns'[f].in[i].n = Len(last') + 1)
                 /\ conns'[f].state # "up" => conns'[f].in = <<>>
      <4>1. CASE f = fd
        <5>1. \A i, j \in DOMAIN conns[fd].in : conns[fd].in[i].n = conns[fd].in[j].n => i = j
          BY <1>9 DEF FlowInv, Distinct
        <5>2. \A i \in DOMAIN conns[fd].in : conns[fd].in[i].n # q.n
          BY <1>7, <1>9, <1>10, <2>1
        <5>3. \A i, j \in DOMAIN conns'[f].in : conns'[f].in[i].n = conns'[f].in[j].n => i = j
          BY <2>4, <4>1, <5>1, <5>2
        <5>4. \A i \in DOMAIN conns'[f].in : conns'[f].in[i].n <= Len(last')
                                                  \/ (call'.stage \in Recv /\ conns'[f].in[i].n = Len(last') + 1)
          BY <1>4, <1>5, <1>7, <1>9, <1>10, <2>1, <2>4, <4>1
        <5>5. QED
          BY <2>3, <4>1, <5>3, <5>4
      <4>2. CASE f # fd
        BY <1>5, <1>10, <2>2, <3>1, <4>2 DEF FlowInv, Distinct
      <4>3. QED
        BY <4>1, <4>2
    <3>2. QED
      BY <3>1 DEF Distinct
  <2>7. \A f \in DOMAIN conns' : conns'[f].out = conns[f].out
    BY <2>2, <2>3
  <2>8. OutAnswered' /\ AllWhole'
    BY <1>5, <2>2, <2>7 DEF FlowInv, OutAnswered, AllWhole, Whole
  <2>9. InOrder'
    <3>1. ASSUME Whole' \/ Clean', NEW f \in DOMAIN conns'
          PROVE  Empty(f)' \/ Mine(f)'
      <4>1. Empty(f)
        BY <1>5, <1>8, <2>2, <3>1 DEF Settled, Whole, Clean
      <4>2. CASE f # fd
        BY <2>2, <3>1, <4>1, <4>2 DEF Empty
      <4>3. CASE f = fd
        <5>1. Len(conns'[f].in) = 1 /\ conns'[f].in[1] = q
          <6>1. conns[fd].in = <<>>
            BY <4>1, <4>3 DEF Empty
          <6>2. Len(conns'[fd].in) = Len(conns[fd].in) + 1 /\ Len(conns[fd].in) = 0
            BY <2>3, <6>1
          <6>3. QED
            BY <2>4, <4>3, <6>2
        <5>2. Rest(conns'[f].out)
          BY <2>3, <4>1, <4>3 DEF Empty
        <5>3. QED
          BY <1>3, <1>4, <2>1, <4>3, <5>1, <5>2 DEF Mine, Rest
      <4>4. QED
        BY <4>2, <4>3
    <3>2. QED
      BY <3>1 DEF InOrder
  <2>10. QED
    BY <1>6, <2>5, <2>6, <2>8, <2>9 DEF FlowInv
<1>16. QED
  BY <1>14, <1>15

-----------------------------------------------------------------------------
(* A reply on its way back *)

(* The end of an earlier reply never counts as an answer. *)
LEMMA EndIsNoAnswer ==
    ASSUME NEW segs, NEW o \in Outcomes(segs)
    PROVE  /\ o \in {"ok", "error", "dies"}
           /\ segs[1].part = "tail" => o # "ok"
  BY DEF Outcomes

(* The call takes what one recv returns. *)
LEMMA ReceivedFlows ==
    ASSUME LinkInv, FlowInv, NEW k \in 1 .. 2 * MaxCalls, Received(k)
    PROVE  FlowInv'
<1> PICK fd : fd = call.fd
  OBVIOUS
<1>1. Busy /\ call.stage \in Recv /\ last \in Seq(LastType) /\ UNCHANGED <<served, faults>>
  BY StageNames, BusyIs DEF Busy, Received, Recv
<1>2. fd \in DOMAIN conns /\ conns[fd] \in ConnType /\ conns[fd].out \in Seq(Segments)
      /\ k \in DOMAIN conns[fd].out
  BY DEF Received, LinkInv, ConnsTyped, ConnType
<1>3. PICK out : out = conns[fd].out
  OBVIOUS
<1>4. out \in Seq(Segments) /\ k \in 1 .. Len(out) /\ Len(out) \in Nat
      /\ 1 \in DOMAIN out /\ out[1] \in Segments /\ out # <<>>
  BY <1>2, <1>3
<1>5. PICK o \in Outcomes(SubSeq(out, 1, k)) :
          IF o = "dies" THEN Dies
          ELSE /\ Return(o, out[1].n)
               /\ conns' = [conns EXCEPT ![fd].out = SubSeq(@, k + 1, Len(@))]
               /\ UNCHANGED link
  BY <1>3 DEF Received
<1>6. SubSeq(out, 1, k)[1] = out[1]
  <2>1. \A i \in 1 .. k : out[i] \in Segments
    BY <1>4
  <2>2. \A i \in 1 .. k - 1 + 1 : SubSeq(out, 1, k)[i] = out[1 + i - 1]
    BY <1>4, <2>1, SubSeqProperties
  <2>3. 1 \in 1 .. k - 1 + 1 /\ 1 + 1 - 1 = 1
    BY <1>4
  <2>4. QED
    BY <2>2, <2>3
<1>7. o \in {"ok", "error", "dies"} /\ (out[1].part = "tail" => o # "ok")
  BY <1>5, <1>6, EndIsNoAnswer
<1>8. CASE o = "dies"
  BY <1>1, <1>5, <1>8, DiesFlows
<1>9. CASE o # "dies"
  <2> PICK e : e = [n |-> call.n, user |-> call.user, kind |-> call.kind, ret |-> o, by |-> out[1].n]
    OBVIOUS
  <2> DEFINE by == out[1].n
             left == SubSeq(out, k + 1, Len(out))
  <2>1. Return(o, by) /\ UNCHANGED <<acce, saddr, sockfd>>
    BY <1>5, <1>9 DEF link
  <2>2. /\ DOMAIN conns' = DOMAIN conns
        /\ \A f \in DOMAIN conns \ {fd} : conns'[f] = conns[f]
        /\ conns'[fd] = [conns[fd] EXCEPT !.out = left]
    BY <1>2, <1>3, <1>5, <1>9
  <2>3. conns'[fd].in = conns[fd].in /\ conns'[fd].state = conns[fd].state /\ conns'[fd].out = left
    BY <1>2, <2>2 DEF ConnType
  <2>4. by \in 1 .. MaxCalls
    BY <1>4 DEF Segments
  <2>5. /\ last' = Append(last, e) /\ e.ret = o /\ e.by = by /\ e.n = call.n
        /\ (call' = Idle \/ call'.stage = "send") /\ Ends(o, by)
    BY <1>1, <2>1, ReturnEnds DEF Return, Ends
  <2>6. left \in Seq(Segments) /\ Len(left) = Len(out) - k /\ \A i \in 1 .. Len(left) : left[i] = out[k + i]
    <3>1. \A i \in k + 1 .. Len(out) : out[i] \in Segments
      BY <1>4
    <3>2. /\ left \in Seq(Segments)
          /\ Len(left) = IF k + 1 <= Len(out) THEN Len(out) - (k + 1) + 1 ELSE 0
          /\ \A i \in 1 .. Len(out) - (k + 1) + 1 : left[i] = out[k + 1 + i - 1]
      BY <1>4, <3>1, SubSeqProperties
    <3>3. Len(left) = Len(out) - k
      BY <1>4, <3>2
    <3>4. \A i \in 1 .. Len(left) : i \in 1 .. Len(out) - (k + 1) + 1 /\ k + 1 + i - 1 = k + i
      BY <1>4, <3>3
    <3>5. QED
      BY <3>2, <3>3, <3>4
  <2> HIDE DEF by, left
  <2>7. \A f \in DOMAIN conns' : conns'[f].in = conns[f].in /\ conns'[f].state = conns[f].state
    BY <2>2, <2>3
  <2>8. Numbered' /\ FlowTyped'
    BY <1>1, <2>5, NumberedKeeps DEF FlowInv, FlowTyped
  <2>9. Whole \/ Clean => \/ out[1].part = "tail"
                          \/ Mine(fd) /\ conns[fd].in = <<>> /\ Own(out)
    BY <1>2, <1>3, <1>4 DEF FlowInv, InOrder, Empty, Mine, Rest
  <2>10. Whole \/ Clean => (o = "ok" => by = call.n)
    BY <1>7, <2>9 DEF Own, by
  <2>11. \A n \in 1 .. MaxCalls : served'[n] >= served[n]
    BY <1>1 DEF FlowInv, FlowTyped
  <2>12. served'[by] >= 1 /\ by # 0
    BY <1>1, <1>2, <1>3, <1>4, <2>4 DEF FlowInv, OutAnswered, by
  <2>13. OwnReply' /\ StaleOnlyAfterError' /\ LastAnswered' /\ (Clean' => Clean /\ o = "ok")
    <3>1. Whole' => Whole
      BY <1>1 DEF Whole
    <3>2. e.ret \in {"ok", "error"} /\ last' = Append(last, e)
      BY <1>7, <1>9, <2>5
    <3>3. e.ret = "ok" => /\ e.by # 0 /\ served'[e.by] >= 1
                          /\ Whole \/ Clean => e.by = e.n
      BY <2>5, <2>10, <2>12
    <3>4. OwnReply' /\ StaleOnlyAfterError' /\ LastAnswered' /\ (Clean' => Clean /\ e.ret = "ok")
      BY <2>8, <2>11, <3>1, <3>2, <3>3, HistoryGrows
    <3>5. QED
      BY <2>5, <3>4
  <2>14. Distinct'
    <3>1. Len(last') = Len(last) + 1 /\ Len(last) \in Nat
      BY <1>1, <2>5
    <3>2. ASSUME NEW f \in DOMAIN conns', NEW i \in DOMAIN conns'[f].in
          PROVE  conns'[f].in[i].n <= Len(last')
      <4>1. conns[f].in[i] \in Messages
        BY <2>2, <2>7, <3>2 DEF LinkInv, ConnsTyped, ConnType
      <4>2. conns[f].in[i].n \in Nat /\ conns[f].in[i].n <= Len(last) + 1
        BY <2>2, <2>7, <3>1, <3>2, <4>1 DEF FlowInv, Distinct, Messages
      <4>3. QED
        BY <2>7, <3>1, <3>2, <4>2
    <3>3. QED
      BY <2>2, <2>7, <3>2 DEF FlowInv, Distinct
  <2>15. Sends'
    <3>1. ASSUME NEW n \in 1 .. MaxCalls
          PROVE  served'[n] + (IF Waiting(n)' THEN 1 ELSE 0) + SendsLeft(n)' <= 2
      <4>1. Waiting(n)' => Waiting(n)
        BY <2>2, <2>7 DEF Waiting
      <4>2. SendsLeft(n)' <= SendsLeft(n)
        BY <2>5, LeftKeeps DEF FlowInv
      <4>3. SendsLeft(n)' \in 0 .. 2 /\ SendsLeft(n) \in 0 .. 2 /\ served[n] \in Nat
        <5>1. \A st \in Stages : StageLeft[st] \in 0 .. 2
          BY StageNames DEF StageLeft
        <5>2. SendsLeft(n)' \in 0 .. 2
          BY <5>1 DEF SendsLeft, Busy
        <5>3. QED
          BY <5>2, LeftType DEF FlowInv, FlowTyped
      <4>4. served[n] + (IF Waiting(n) THEN 1 ELSE 0) + SendsLeft(n) <= 2
        BY DEF FlowInv, Sends
      <4>5. QED
        BY <1>1, <4>1, <4>2, <4>3, <4>4
    <3>2. QED
      BY <3>1 DEF Sends
  <2>16. OutAnswered' /\ AllWhole'
    <3>1. ASSUME NEW f \in DOMAIN conns', NEW i \in DOMAIN conns'[f].out
          PROVE  \E j \in DOMAIN conns[f].out : conns'[f].out[i] = conns[f].out[j]
      <4>1. CASE f = fd
        <5>1. i \in 1 .. Len(left)
          BY <2>3, <2>6, <3>1, <4>1
        <5>2. k + i \in DOMAIN out
          BY <1>4, <2>6, <5>1
        <5>3. QED
          BY <1>3, <2>3, <2>6, <4>1, <5>1, <5>2
      <4>2. CASE f # fd
        BY <2>2, <3>1, <4>2
      <4>3. QED
        BY <4>1, <4>2
    <3>2. QED
      BY <1>1, <2>2, <3>1 DEF FlowInv, OutAnswered, AllWhole, Whole
  <2>17. InOrder'
    <3>1. ASSUME Whole' \/ Clean', NEW f \in DOMAIN conns'
          PROVE  Empty(f)'
      <4>1. Whole \/ Clean
        BY <1>1, <2>13, <3>1 DEF Whole
      <4>2. out[1].part # "tail"
        BY <1>1, <1>2, <1>3, <1>4, <1>7, <2>13, <3>1 DEF FlowInv, AllWhole, Whole
      <4>3. CASE f # fd
        BY <2>2, <3>1, <4>1, <4>3 DEF FlowInv, InOrder, Mine, Empty
      <4>4. CASE f = fd
        <5>1. conns[fd].in = <<>> /\ Own(out)
          BY <2>9, <4>1, <4>2
        <5>2. left = <<>> \/ (Len(left) = 1 /\ left[1].part = "tail")
          <6>1. CASE Len(out) = 1
            BY <1>4, <2>6, <6>1
          <6>2. CASE Len(out) = 2 /\ out[2].part = "tail"
            BY <1>4, <2>6, <6>2
          <6>3. QED
            BY <4>2, <5>1, <6>1, <6>2 DEF Own
        <5>3. QED
          BY <2>3, <4>4, <5>1, <5>2 DEF Empty, Rest
      <4>5. QED
        BY <4>3, <4>4
    <3>2. QED
      BY <3>1 DEF InOrder
  <2>18. QED
    BY <2>8, <2>13, <2>14, <2>15, <2>16, <2>17 DEF FlowInv
<1>10. QED
  BY <1>8, <1>9

(* The server executes the first request of a connection and answers it. *)
LEMMA ServeFlows ==
    ASSUME LinkInv, FlowInv, NEW f \in DOMAIN conns, NEW ok \in BOOLEAN, Serve(f, ok)
    PROVE  FlowInv'
<1>1. /\ conns[f] \in ConnType /\ conns[f].state = "up"
      /\ conns[f].in \in Seq(Messages) /\ conns[f].in # <<>> /\ conns[f].out \in Seq(Segments)
      /\ UNCHANGED <<acce, saddr, sockfd, call, last>>
  BY DEF LinkInv, ConnsTyped, ConnType, Serve, link
<1>2. PICK m : m = Head(conns[f].in)
  OBVIOUS
<1>3. /\ m \in Messages /\ m = conns[f].in[1] /\ 1 \in DOMAIN conns[f].in
      /\ Tail(conns[f].in) \in Seq(Messages)
      /\ \A i \in DOMAIN Tail(conns[f].in) : /\ Tail(conns[f].in)[i] = conns[f].in[i + 1]
                                            /\ i + 1 \in DOMAIN conns[f].in /\ i \in Nat \ {0}
  BY <1>1, <1>2, HeadTailProperties
<1>4. PICK new : /\ \/ new = <<Reply(m, ok, "whole")>> /\ UNCHANGED faults
                    \/ new = <<Reply(m, ok, "head"), Reply(m, ok, "tail")>> /\ Fault("split")
                 /\ conns' = [conns EXCEPT ![f].in = Tail(@), ![f].out = @ \o new]
  <2>1. CASE conns' = [conns EXCEPT ![f].in = Tail(@), ![f].out = Append(@, Reply(m, ok, "whole"))]
             /\ UNCHANGED faults
    <3>1. Append(conns[f].out, Reply(m, ok, "whole")) = conns[f].out \o <<Reply(m, ok, "whole")>>
      BY <1>1, AppendIsConcat
    <3>2. conns' = [conns EXCEPT ![f].in = Tail(@), ![f].out = Append(conns[f].out, Reply(m, ok, "whole"))]
      BY <2>1
    <3>3. conns' = [conns EXCEPT ![f].in = Tail(@), ![f].out = conns[f].out \o <<Reply(m, ok, "whole")>>]
      BY <3>1, <3>2
    <3>4. QED
      BY <2>1, <3>3
  <2>2. CASE Fault("split")
             /\ conns' = [conns EXCEPT ![f].in = Tail(@),
                              ![f].out = @ \o <<Reply(m, ok, "head"), Reply(m, ok, "tail")>>]
    BY <2>2
  <2>3. QED
    BY <1>2, <2>1, <2>2 DEF Serve
<1>5. /\ DOMAIN conns' = DOMAIN conns
      /\ \A g \in DOMAIN conns \ {f} : conns'[g] = conns[g]
      /\ conns'[f] = [conns[f] EXCEPT !.in = Tail(conns[f].in), !.out = conns[f].out \o new]
  BY <1>4
<1>6. /\ conns'[f].state = "up" /\ conns'[f].in = Tail(conns[f].in)
      /\ conns'[f].out = conns[f].out \o new
  BY <1>1, <1>5 DEF ConnType
<1>7. /\ new \in Seq(Segments) /\ \A i \in DOMAIN new : new[i].n = m.n
      /\ new # <<>> /\ m.n \in 1 .. MaxCalls
  <2>1. \A part \in {"whole", "head", "tail"} : Reply(m, ok, part) \in Segments /\ Reply(m, ok, part).n = m.n
    BY <1>3 DEF Reply, Messages, Segments
  <2>2. m.n \in 1 .. MaxCalls
    BY <1>3 DEF Messages
  <2>3. CASE new = <<Reply(m, ok, "whole")>>
    BY <2>1, <2>2, <2>3
  <2>4. CASE new = <<Reply(m, ok, "head"), Reply(m, ok, "tail")>>
    <3>1. new \in Seq(Segments) /\ DOMAIN new = {1, 2}
      BY <2>1, <2>4
    <3>2. new[1] = Reply(m, ok, "head") /\ new[2] = Reply(m, ok, "tail")
      BY <2>4
    <3>3. QED
      BY <2>1, <2>2, <2>4, <3>1, <3>2
  <2>5. QED
    BY <1>4, <2>3, <2>4
<1>8. Whole' => Whole /\ new = <<Reply(m, ok, "whole")>>
  BY <1>4, FaultType DEF FlowInv, Whole, FaultKinds
<1>9. /\ served' = [served EXCEPT ![m.n] = @ + 1]
      /\ served'[m.n] = served[m.n] + 1 /\ \A n \in 1 .. MaxCalls \ {m.n} : served'[n] = served[n]
      /\ \A n \in 1 .. MaxCalls : served[n] \in Nat
  BY <1>2, <1>7 DEF Serve, FlowInv, FlowTyped
<1>10. FlowTyped' /\ Numbered'
  <2>1. faults' \in [FaultKinds -> 0 .. MaxFaults]
    BY <1>4, FaultType DEF FlowInv, FlowTyped, FaultKinds
  <2>2. served' \in [1 .. MaxCalls -> Nat]
    BY <1>7, <1>9 DEF FlowInv, FlowTyped
  <2>3. QED
    BY <1>1, <2>1, <2>2, NumberedKeeps DEF FlowInv, FlowTyped
<1>11. OwnReply' /\ StaleOnlyAfterError' /\ LastAnswered'
  <2>1. OwnReply' /\ StaleOnlyAfterError'
    BY <1>1, <1>8 DEF FlowInv, OwnReply, OkIsMine, StaleOnlyAfterError
  <2>2. ASSUME NEW i \in DOMAIN last, last[i].ret = "ok"
        PROVE  last[i].by # 0 /\ served'[last[i].by] >= 1
    <3>1. last[i].by # 0 /\ served[last[i].by] >= 1
      BY <2>2 DEF FlowInv, LastAnswered
    <3>2. last[i].by \in 1 .. MaxCalls
      <4>1. last[i] \in LastType
        BY <2>2, BusyIs
      <4>2. QED
        BY <3>1, <4>1, LinkAssumption DEF LastType
    <3>3. QED
      BY <1>9, <3>1, <3>2
  <2>3. QED
    BY <1>1, <2>1, <2>2 DEF LastAnswered
<1>12. \A i \in DOMAIN conns'[f].out : \/ i \in DOMAIN conns[f].out /\ conns'[f].out[i] = conns[f].out[i]
                                      \/ \E j \in DOMAIN new : conns'[f].out[i] = new[j]
  <2>1. ASSUME NEW i \in DOMAIN conns'[f].out
        PROVE  \/ i \in DOMAIN conns[f].out /\ conns'[f].out[i] = conns[f].out[i]
               \/ \E j \in DOMAIN new : conns'[f].out[i] = new[j]
    <3>1. CASE i <= Len(conns[f].out)
      BY <1>1, <1>6, <1>7, <2>1, <3>1
    <3>2. CASE i > Len(conns[f].out)
      <4>1. i - Len(conns[f].out) \in DOMAIN new /\ conns'[f].out[i] = new[i - Len(conns[f].out)]
        BY <1>1, <1>6, <1>7, <2>1, <3>2
      <4>2. QED
        BY <4>1
    <3>3. QED
      BY <1>1, <1>6, <1>7, <2>1, <3>1, <3>2
  <2>2. QED
    BY <2>1
<1>13. OutAnswered'
  <2>1. ASSUME NEW g \in DOMAIN conns', NEW i \in DOMAIN conns'[g].out
        PROVE  served'[conns'[g].out[i].n] >= 1
    <3>1. ASSUME i \in DOMAIN conns[g].out, conns'[g].out[i] = conns[g].out[i]
          PROVE  served'[conns'[g].out[i].n] >= 1
      <4>1. conns[g].out[i] \in Segments
        BY <1>5, <2>1, <3>1 DEF LinkInv, ConnsTyped, ConnType
      <4>2. conns[g].out[i].n \in 1 .. MaxCalls /\ served[conns[g].out[i].n] >= 1
        BY <1>5, <2>1, <3>1, <4>1 DEF FlowInv, OutAnswered, Segments
      <4>3. QED
        BY <1>9, <3>1, <4>2
    <3>2. CASE g = f
      <4>1. ASSUME NEW j \in DOMAIN new, conns'[f].out[i] = new[j]
            PROVE  served'[conns'[g].out[i].n] >= 1
        BY <1>7, <1>9, <3>2, <4>1
      <4>2. QED
        BY <1>12, <2>1, <3>1, <3>2, <4>1
    <3>3. CASE g # f
      BY <1>5, <2>1, <3>1, <3>3
    <3>4. QED
      BY <3>2, <3>3
  <2>2. QED
    BY <2>1 DEF OutAnswered
<1>14. AllWhole'
  <2>1. ASSUME Whole', NEW g \in DOMAIN conns', NEW i \in DOMAIN conns'[g].out
        PROVE  conns'[g].out[i].part = "whole"
    <3>1. ASSUME i \in DOMAIN conns[g].out, conns'[g].out[i] = conns[g].out[i]
          PROVE  conns'[g].out[i].part = "whole"
      BY <1>5, <1>8, <2>1, <3>1 DEF FlowInv, AllWhole
    <3>2. CASE g = f
      <4>1. \A j \in DOMAIN new : new[j].part = "whole"
        BY <1>8, <2>1 DEF Reply
      <4>2. QED
        BY <1>12, <2>1, <3>1, <3>2, <4>1
    <3>3. CASE g # f
      BY <1>5, <2>1, <3>1, <3>3
    <3>4. QED
      BY <3>2, <3>3
  <2>2. QED
    BY <2>1 DEF AllWhole
<1>15. Distinct'
  <2>1. ASSUME NEW g \in DOMAIN conns'
        PROVE  /\ \A i, j \in DOMAIN conns'[g].in : conns'[g].in[i].n = conns'[g].in[j].n => i = j
               /\ \A i \in DOMAIN conns'[g].in : conns'[g].in[i].n <= Len(last)
                                                \/ (call.stage \in Recv /\ conns'[g].in[i].n = Len(last) + 1)
               /\ conns'[g].state # "up" => conns'[g].in = <<>>
    <3>1. CASE g = f
      <4>1. ASSUME NEW i \in DOMAIN conns'[f].in, NEW j \in DOMAIN conns'[f].in,
                   conns'[f].in[i].n = conns'[f].in[j].n
            PROVE  i = j
        <5>1. i + 1 = j + 1
          BY <1>3, <1>6, <4>1 DEF FlowInv, Distinct
        <5>2. QED
          BY <1>3, <1>6, <4>1, <5>1
      <4>2. \A i \in DOMAIN conns'[f].in : conns'[f].in[i].n <= Len(last)
                                          \/ (call.stage \in Recv /\ conns'[f].in[i].n = Len(last) + 1)
        BY <1>3, <1>6 DEF FlowInv, Distinct
      <4>3. QED
        BY <1>6, <3>1, <4>1, <4>2
    <3>2. CASE g # f
      BY <1>5, <2>1, <3>2 DEF FlowInv, Distinct
    <3>3. QED
      BY <3>1, <3>2
  <2>2. QED
    BY <1>1, <2>1 DEF Distinct
<1>16. Sends'
  <2>1. ASSUME NEW g \in DOMAIN conns', NEW i \in DOMAIN conns'[g].in
        PROVE  conns'[g].in[i].n # m.n /\ \E j \in DOMAIN conns[g].in : conns[g].in[j] = conns'[g].in[i]
    <3>1. CASE g = f
      <4>1. i + 1 \in DOMAIN conns[f].in /\ conns'[f].in[i] = conns[f].in[i + 1] /\ i + 1 # 1
        <5>1. i \in DOMAIN Tail(conns[f].in) /\ conns'[f].in[i] = Tail(conns[f].in)[i]
          BY <1>6, <2>1, <3>1
        <5>2. i \in Nat \ {0} /\ i + 1 \in DOMAIN conns[f].in /\ Tail(conns[f].in)[i] = conns[f].in[i + 1]
          BY <1>3, <5>1
        <5>3. QED
          BY <5>1, <5>2
      <4>2. conns[f].in[i + 1].n # conns[f].in[1].n
        BY <1>3, <4>1 DEF FlowInv, Distinct
      <4>3. QED
        BY <1>3, <3>1, <4>1, <4>2
    <3>2. CASE g # f
      <4>1. conns[g].in # <<>> /\ conns'[g] = conns[g] /\ g \in DOMAIN conns
        BY <1>5, <2>1, <3>2
      <4>2. Usable(g) /\ Usable(f)
        BY <1>1, <4>1 DEF LinkInv, LinkHome, Usable
      <4>3. g = sockfd /\ f = sockfd
        BY <4>1, <4>2 DEF LinkInv, OneConnection
      <4>4. QED
        BY <3>2, <4>3
    <3>3. QED
      BY <3>1, <3>2
  <2>2. ~Waiting(m.n)' /\ Waiting(m.n)
    BY <1>3, <2>1 DEF Waiting
  <2>3. ASSUME NEW n
        PROVE  Waiting(n)' => Waiting(n)
    BY <1>5, <2>1 DEF Waiting
  <2>4. ASSUME NEW n \in 1 .. MaxCalls
        PROVE  served'[n] + (IF Waiting(n)' THEN 1 ELSE 0) + SendsLeft(n)' <= 2
    <3>1. SendsLeft(n)' = SendsLeft(n) /\ SendsLeft(n) \in 0 .. 2
      BY <1>1, LeftType DEF SendsLeft, Busy
    <3>2. served[n] + (IF Waiting(n) THEN 1 ELSE 0) + SendsLeft(n) <= 2 /\ served[n] \in Nat
      BY <1>9 DEF FlowInv, Sends
    <3>3. CASE n = m.n
      BY <1>9, <2>2, <3>1, <3>2, <3>3
    <3>4. CASE n # m.n
      BY <1>9, <2>3, <3>1, <3>2, <3>4
    <3>5. QED
      BY <3>3, <3>4
  <2>5. QED
    BY <2>4 DEF Sends
<1>17. InOrder'
  <2>1. ASSUME Whole' \/ Clean', NEW g \in DOMAIN conns'
        PROVE  Empty(g)' \/ Mine(g)'
    <3>1. Empty(g) \/ Mine(g)
      BY <1>1, <1>5, <1>8, <2>1 DEF FlowInv, InOrder, Clean
    <3>2. CASE g # f
      BY <1>1, <1>5, <2>1, <3>1, <3>2 DEF Empty, Mine, Own, Rest
    <3>3. CASE g = f
      <4>1. call.stage \in Recv /\ call.fd = f /\ Len(conns[f].in) = 1 /\ m.n = call.n /\ Rest(conns[f].out)
        BY <1>1, <1>3, <3>1, <3>3 DEF Empty, Mine
      <4>2. conns'[f].in = <<>>
        BY <1>1, <1>3, <1>6, <4>1, HeadTailProperties
      <4>3. Own(conns'[f].out)
        <5>1. CASE conns[f].out = <<>>
          <6>1. conns'[f].out = new
            BY <1>6, <1>7, <5>1
          <6>2. QED
            BY <1>4, <1>7, <4>1, <6>1 DEF Own, Reply
        <5>2. CASE Len(conns[f].out) = 1 /\ conns[f].out[1].part = "tail"
          <6>1. conns'[f].out[1] = conns[f].out[1] /\ conns'[f].out # <<>>
            BY <1>1, <1>6, <1>7, <5>2
          <6>2. QED
            BY <5>2, <6>1 DEF Own
        <5>3. QED
          BY <4>1, <5>1, <5>2 DEF Rest
      <4>4. QED
        BY <1>1, <3>3, <4>1, <4>2, <4>3 DEF Mine, Own
    <3>4. QED
      BY <3>2, <3>3
  <2>2. QED
    BY <2>1 DEF InOrder
<1>18. QED
  BY <1>10, <1>11, <1>13, <1>14, <1>15, <1>16, <1>17 DEF FlowInv

(* The server drops a connection, with its replies or without. *)
LEMMA DropFlows ==
    ASSUME LinkInv, FlowInv, NEW f \in DOMAIN conns, Drop(f)
    PROVE  FlowInv'
<1>1. conns[f] \in ConnType /\ UNCHANGED <<acce, saddr, sockfd, call, last, served>> /\ Fault("down")
  BY DEF LinkInv, ConnsTyped, Drop, link
<1>2. PICK out \in {<<>>, conns[f].out} :
          conns' = [conns EXCEPT ![f].state = "down", ![f].in = <<>>, ![f].out = out]
  BY DEF Drop
<1>3. /\ DOMAIN conns' = DOMAIN conns
      /\ \A g \in DOMAIN conns \ {f} : conns'[g] = conns[g]
      /\ conns'[f] = [conns[f] EXCEPT !.state = "down", !.in = <<>>, !.out = out]
  BY <1>2
<1>4. /\ conns'[f].state = "down" /\ conns'[f].in = <<>> /\ conns'[f].out = out
      /\ DOMAIN conns'[f].in = {}
  BY <1>1, <1>3 DEF ConnType
<1>5. FlowTyped' /\ Numbered' /\ (Whole' <=> Whole)
  BY <1>1, FaultType, NumberedKeeps DEF FlowInv, FlowTyped, FaultKinds, Whole
<1>6. OwnReply' /\ StaleOnlyAfterError' /\ LastAnswered'
  BY <1>1, <1>5 DEF FlowInv, OwnReply, OkIsMine, StaleOnlyAfterError, LastAnswered
<1>7. Distinct'
  <2>1. ASSUME NEW g \in DOMAIN conns'
        PROVE  /\ \A i, j \in DOMAIN conns'[g].in : conns'[g].in[i].n = conns'[g].in[j].n => i = j
               /\ \A i \in DOMAIN conns'[g].in : conns'[g].in[i].n <= Len(last)
                                                \/ (call.stage \in Recv /\ conns'[g].in[i].n = Len(last) + 1)
               /\ conns'[g].state # "up" => conns'[g].in = <<>>
    <3>1. CASE g = f
      BY <1>4, <3>1
    <3>2. CASE g # f
      BY <1>3, <2>1, <3>2 DEF FlowInv, Distinct
    <3>3. QED
      BY <3>1, <3>2
  <2>2. QED
    BY <1>1, <2>1 DEF Distinct
<1>8. Sends'
  <2>1. ASSUME NEW n \in 1 .. MaxCalls
        PROVE  served'[n] + (IF Waiting(n)' THEN 1 ELSE 0) + SendsLeft(n)' <= 2
    <3>1. Waiting(n)' => Waiting(n)
      <4>1. ASSUME NEW g \in DOMAIN conns', NEW i \in DOMAIN conns'[g].in
            PROVE  g \in DOMAIN conns /\ conns'[g] = conns[g]
        BY <1>3, <1>4, <4>1
      <4>2. QED
        BY <4>1 DEF Waiting
    <3>2. SendsLeft(n)' = SendsLeft(n) /\ SendsLeft(n) \in 0 .. 2 /\ served[n] \in Nat
      BY <1>1, LeftType DEF SendsLeft, Busy, FlowInv, FlowTyped
    <3>3. served[n] + (IF Waiting(n) THEN 1 ELSE 0) + SendsLeft(n) <= 2
      BY DEF FlowInv, Sends
    <3>4. QED
      BY <1>1, <3>1, <3>2, <3>3
  <2>2. QED
    BY <2>1 DEF Sends
<1>9. OutAnswered' /\ AllWhole'
  <2>1. \A g \in DOMAIN conns' : \A i \in DOMAIN conns'[g].out :
            i \in DOMAIN conns[g].out /\ conns'[g].out[i] = conns[g].out[i]
    BY <1>2, <1>3, <1>4
  <2>2. QED
    BY <1>1, <1>3, <1>5, <2>1 DEF FlowInv, OutAnswered, AllWhole
<1>10. InOrder'
  <2>1. ASSUME Whole' \/ Clean', NEW g \in DOMAIN conns'
        PROVE  Empty(g)' \/ Mine(g)'
    <3>1. Empty(g) \/ Mine(g)
      BY <1>1, <1>3, <1>5, <2>1 DEF FlowInv, InOrder, Clean
    <3>2. CASE g # f
      BY <1>1, <1>3, <2>1, <3>1, <3>2 DEF Empty, Mine, Own, Rest
    <3>3. CASE g = f
      BY <1>1, <1>2, <1>4, <3>1, <3>3 DEF Empty, Mine, Own, Rest
    <3>4. QED
      BY <3>2, <3>3
  <2>2. QED
    BY <2>1 DEF InOrder
<1>11. QED
  BY <1>5, <1>6, <1>7, <1>8, <1>9, <1>10 DEF FlowInv

-----------------------------------------------------------------------------

LEMMA FlowStart ==
    ASSUME Init
    PROVE  FlowInv
<1>1. DOMAIN conns = {} /\ last = <<>> /\ ~Busy /\ DOMAIN last = {} /\ Len(last) = 0
  BY StageNames DEF Init, Busy, Idle
<1>2. FlowTyped
  BY LinkAssumption DEF Init, FlowTyped
<1>3. Sends
  <2>1. ASSUME NEW n \in 1 .. MaxCalls
        PROVE  served[n] + (IF Waiting(n) THEN 1 ELSE 0) + SendsLeft(n) <= 2
    <3>1. ~Waiting(n) /\ SendsLeft(n) = 2
      BY <1>1, LinkAssumption DEF Waiting, SendsLeft
    <3>2. QED
      BY <3>1 DEF Init
  <2>2. QED
    BY <2>1 DEF Sends
<1>4. Numbered /\ Distinct /\ OutAnswered /\ LastAnswered /\ InOrder /\ AllWhole
  BY <1>1, LinkAssumption DEF Numbered, Distinct, OutAnswered, LastAnswered, InOrder, AllWhole
<1>5. OwnReply /\ StaleOnlyAfterError
  BY <1>1 DEF OwnReply, OkIsMine, StaleOnlyAfterError
<1>6. QED
  BY <1>2, <1>3, <1>4, <1>5 DEF FlowInv

LEMMA FlowStays ==
    ASSUME FlowInv, UNCHANGED vars
    PROVE  FlowInv'
<1>1. FlowTyped' /\ Numbered' /\ Distinct' /\ OutAnswered' /\ LastAnswered' /\ AllWhole'
  BY DEF vars, link, FlowInv, FlowTyped, Numbered, Busy, Distinct, OutAnswered, LastAnswered, AllWhole, Whole
<1>2. Sends'
  BY DEF vars, link, FlowInv, Sends, Waiting, SendsLeft, Busy
<1>3. InOrder'
  BY DEF vars, link, FlowInv, InOrder, Whole, Clean, Empty, Mine, Own, Rest
<1>4. OwnReply' /\ StaleOnlyAfterError'
  BY DEF vars, FlowInv, OwnReply, OkIsMine, Whole, StaleOnlyAfterError
<1>5. QED
  BY <1>1, <1>2, <1>3, <1>4 DEF FlowInv

LEMMA FlowStep ==
    ASSUME LinkInv, FlowInv, [Next]_vars
    PROVE  FlowInv'
<1>1. CASE \/ \E u \in Users : LockOther(u)
           \/ LockSame \/ \E kind \in ExecKinds : Exec(kind)
  BY <1>1, StartFlows
<1>2. CASE Connects \/ Refused
  BY <1>2, ConnectsFlows, RefusedFlows
<1>3. CASE Sent \/ SendFails \/ ResendFails
  BY <1>3, SentFlows, SendFailsFlows, ResendFailsFlows
<1>4. CASE \E k \in 1 .. 2 * MaxCalls : Received(k)
  BY <1>4, ReceivedFlows
<1>5. CASE RecvFails \/ RecvFailsAgain
  BY <1>5, RecvFailsFlows, RecvFailsAgainFlows
<1>6. CASE Server
  BY <1>6, ServeFlows DEF Server
<1>7. CASE \E f \in DOMAIN conns : Drop(f)
  BY <1>7, DropFlows
<1>8. CASE UNCHANGED vars
  BY <1>8, FlowStays
<1>9. QED
  BY <1>1, <1>2, <1>3, <1>4, <1>5, <1>6, <1>7, <1>8 DEF Next, Worker

LEMMA FlowAlways == Spec => [](LinkInv /\ FlowInv)
<1>1. Init => LinkInv /\ FlowInv
  BY LinkStart, FlowStart
<1>2. LinkInv /\ FlowInv /\ [Next]_vars => (LinkInv /\ FlowInv)'
  BY LinkStep, FlowStep
<1>3. QED
  BY <1>1, <1>2, PTL DEF Spec

(* As long as replies arrive in one segment a call that reports success read *)
(* the reply to its own request, across lost connections and other users;   *)
(* with replies in pieces it may read another's only after an earlier call  *)
(* reported an error.                                                       *)
THEOREM RepliesSoundAlways == Spec => []RepliesSound
<1>1. LinkInv /\ FlowInv => TypeOK
  BY StageNames DEF LinkInv, ConnsTyped, ConnType, CallKept, CallType, FdType, LastType,
                    FlowInv, FlowTyped, TypeOK
<1>2. LinkInv /\ FlowInv => RepliesSound
  BY <1>1 DEF FlowInv, RepliesSound
<1>3. QED
  BY <1>2, FlowAlways, PTL

(* The retries of send and of recv never add up: no request is executed     *)
(* more than twice, and one that reported success was.                      *)
THEOREM ServedAlways == Spec => []ServedOnceOrTwice
<1>1. ASSUME LinkInv, FlowInv
      PROVE  ServedOnceOrTwice
  <2>1. ASSUME NEW n \in 1 .. MaxCalls
        PROVE  served[n] <= 2
    <3>1. served[n] + (IF Waiting(n) THEN 1 ELSE 0) + SendsLeft(n) <= 2
      BY <1>1 DEF FlowInv, Sends
    <3>2. served[n] \in Nat /\ SendsLeft(n) \in 0 .. 2
      BY <1>1, LeftType DEF FlowInv, FlowTyped
    <3>3. QED
      BY <3>1, <3>2
  <2>2. ASSUME Whole, NEW i \in DOMAIN last, last[i].ret = "ok"
        PROVE  served[last[i].n] >= 1
    BY <1>1, <2>2 DEF FlowInv, OwnReply, OkIsMine, LastAnswered
  <2>3. QED
    BY <2>1, <2>2 DEF ServedOnceOrTwice
<1>2. LinkInv /\ FlowInv => ServedOnceOrTwice
  BY <1>1
<1>3. QED
  BY <1>2, FlowAlways, PTL
=============================================================================
