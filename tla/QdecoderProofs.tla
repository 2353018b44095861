-------------------------- MODULE QdecoderProofs --------------------------
(* Sessions: none gets the properties of another (MixedInv), and the files  *)
(* of the directory stay paired, but for what a process yet sees to         *)
(* (CalmInv): for any processes, ids and interval, with overlapping         *)
(* requests and with processes that die.  Answers: their headers stay       *)
(* whole (ResInv), for pages of any length.  Lists: the links, a walk and   *)
(* the reads of qentry.c stay sound (EntryInv), for any names, values and   *)
(* number of objects.  Requests: none waits for a body that is whole, and   *)
(* uploads are written whole (ReqInv), for any bodies and size of a buffer. *)
EXTENDS QSession, QResponse, QEntry, QRequest, SequenceTheorems, FiniteSetTheorems,
        WellFoundedInduction, TLAPS

Session == [id : Sid \cup {NoSid}, interval : Nat]
Places == {"idle", "new", "check", "load", "drop1", "drop2", "page", "save1", "save2",
           "time1", "time2", "clear", "clear1", "clear2", "destroy1", "destroy2"}
SessionRequest == [at : Places, id : Sid \cup {NoSid}, sess : Session,
                   todo : SUBSET Sid, victim : Sid \cup {NoSid}]

\* What is stored and what the processes have in hand.
SessionTyped ==
    /\ storage \in [Sid -> Session \cup {Absent}]
    /\ drawn \subseteq Sid
    /\ req \in [Page -> SessionRequest]

\* A request that looks at the files of its client's session knows its id.
IdKnown == \A p \in Page : req[p].at \in {"check", "load", "drop1", "drop2"} => req[p].id \in Sid

\* NoneMixed alone would let load read the file of no id.
MixedInv == SessionTyped /\ IdKnown /\ NoneMixed

\* The request r may be one of a process: its session is its client's.
Allowed(r) ==
    /\ r \in SessionRequest
    /\ r.at \in {"check", "load", "drop1", "drop2"} => r.id \in Sid
    /\ r.sess.id \in {NoSid, r.id}

\* What the file of the session s may hold.
Storable(s, x) == x \in Session \cup {Absent} /\ (x # Absent => x.id \in {NoSid, s})

-----------------------------------------------------------------------------
LEMMA NoRequestAllowed == Allowed(NoRequest) /\ NoRequest \in SessionRequest
BY DEF Allowed, NoRequest, NoSession, SessionRequest, Session, Places

\* A step that gives one process another request, and leaves the files alone.
LEMMA RequestChanges ==
  ASSUME MixedInv, NEW p \in Page, NEW r, Allowed(r), req' = [req EXCEPT ![p] = r],
         storage' = storage, drawn' \subseteq Sid
  PROVE  MixedInv'
BY DEF MixedInv, SessionTyped, IdKnown, NoneMixed, Allowed

\* A step that also changes one file, to nothing or to what it may hold.
LEMMA FileChanges ==
  ASSUME MixedInv, NEW p \in Page, NEW r, Allowed(r), req' = [req EXCEPT ![p] = r],
         NEW s, NEW x, Storable(s, x), storage' = [storage EXCEPT ![s] = x],
         drawn' \subseteq Sid
  PROVE  MixedInv'
BY DEF MixedInv, SessionTyped, IdKnown, NoneMixed, Allowed, Storable

\* The requests there are.
LEMMA RequestAllowed ==
  ASSUME MixedInv, NEW p \in Page
  PROVE  req[p] \in SessionRequest /\ req[p].sess.id \in {NoSid, req[p].id}
BY DEF MixedInv, SessionTyped, NoneMixed

\* A request that only goes to another place of its handler.
LEMMA GoChanges ==
  ASSUME MixedInv, NEW p \in Page, NEW at \in Places, Go(p, at),
         at \in {"check", "load", "drop1", "drop2"} => req[p].id \in Sid
  PROVE  \E r : Allowed(r) /\ req' = [req EXCEPT ![p] = r]
<1>1. Allowed([req[p] EXCEPT !.at = at])
  BY DEF MixedInv, SessionTyped, IdKnown, NoneMixed, Allowed, SessionRequest
<1>2. QED
  BY <1>1 DEF Go

-----------------------------------------------------------------------------
LEMMA BeginStep ==
  ASSUME MixedInv, NEW p \in Page, NEW s \in Sid \cup {NoSid}, Begin(p, s)
  PROVE  MixedInv'
<1> DEFINE r == [NoRequest EXCEPT !.at = IF s = NoSid THEN "new" ELSE "check", !.id = s]
<1>1. Allowed(r)
  BY DEF Allowed, NoRequest, NoSession, SessionRequest, Session, Places
<1>2. req' = [req EXCEPT ![p] = r] /\ storage' = storage /\ drawn' \subseteq Sid
  BY DEF Begin, MixedInv, SessionTyped
<1>3. QED
  BY <1>1, <1>2, RequestChanges

LEMMA NewStep ==
  ASSUME MixedInv, NEW p \in Page, NewSession(p)
  PROVE  MixedInv'
<1>1. PICK s \in Sid \ drawn :
        /\ drawn' = drawn \cup {s}
        /\ req' = [req EXCEPT ![p] = [NoRequest EXCEPT
              !.at = "page", !.id = s, !.sess = [id |-> s, interval |-> Interval]]]
  BY DEF NewSession
<1> DEFINE r == [NoRequest EXCEPT !.at = "page", !.id = s,
                                  !.sess = [id |-> s, interval |-> Interval]]
<1>2. Allowed(r)
  BY SessionAssumption DEF Allowed, NoRequest, NoSession, SessionRequest, Session, Places
<1>3. req' = [req EXCEPT ![p] = r] /\ storage' = storage /\ drawn' \subseteq Sid
  BY <1>1 DEF NewSession, MixedInv, SessionTyped
<1>4. QED
  BY <1>2, <1>3, RequestChanges

LEMMA CheckStep ==
  ASSUME MixedInv, NEW p \in Page, CheckSession(p)
  PROVE  MixedInv'
<1>1. PICK at \in {"load", "drop1", "new"} : Go(p, at)
  BY DEF CheckSession, Valid
<1>2. \E r : Allowed(r) /\ req' = [req EXCEPT ![p] = r]
  BY <1>1, GoChanges DEF CheckSession, MixedInv, IdKnown, Places
<1>3. storage' = storage /\ drawn' \subseteq Sid
  BY DEF CheckSession, MixedInv, SessionTyped
<1>4. QED
  BY <1>2, <1>3, RequestChanges

LEMMA DropStep ==
  ASSUME MixedInv, NEW p \in Page, DropExpired(p)
  PROVE  MixedInv'
<1>1. PICK at \in {"drop2", "new"} : Go(p, at)
  BY DEF DropExpired
<1>2. PICK r : Allowed(r) /\ req' = [req EXCEPT ![p] = r]
  BY <1>1, GoChanges DEF DropExpired, MixedInv, IdKnown, Places
<1>3. drawn' \subseteq Sid
  BY DEF DropExpired, MixedInv, SessionTyped
<1>4. CASE storage' = storage
  BY <1>2, <1>3, <1>4, RequestChanges
<1>5. CASE storage' = [storage EXCEPT ![req[p].id] = Absent]
  <2>1. Storable(req[p].id, Absent)
    BY DEF Storable
  <2>2. QED
    BY <1>2, <1>3, <1>5, <2>1, FileChanges
<1>6. QED
  BY <1>4, <1>5 DEF DropExpired, Unlink

LEMMA LoadStep ==
  ASSUME MixedInv, NEW p \in Page, LoadSession(p)
  PROVE  MixedInv'
<1> DEFINE found == IF storage[req[p].id] = Absent THEN NoSession ELSE storage[req[p].id]
           r == [req[p] EXCEPT !.at = "page", !.sess = found]
<1>1. req[p] \in SessionRequest /\ req[p].id \in Sid
  BY DEF LoadSession, MixedInv, IdKnown, SessionTyped
<1>2. found \in Session /\ found.id \in {NoSid, req[p].id}
  BY <1>1 DEF MixedInv, SessionTyped, NoneMixed, Session, NoSession
<1>3. Allowed(r)
  BY <1>1, <1>2 DEF Allowed, SessionRequest, Places
<1>4. req' = [req EXCEPT ![p] = r] /\ storage' = storage /\ drawn' \subseteq Sid
  BY DEF LoadSession, MixedInv, SessionTyped
<1>5. QED
  BY <1>3, <1>4, RequestChanges

LEMMA PageStep ==
  ASSUME MixedInv, NEW p \in Page, PageEnds(p)
  PROVE  MixedInv'
<1>1. storage' = storage /\ drawn' \subseteq Sid
  BY DEF PageEnds, MixedInv, SessionTyped
<1>2. \E r : Allowed(r) /\ req' = [req EXCEPT ![p] = r]
  BY NoRequestAllowed, GoChanges DEF PageEnds, Places
<1>3. QED
  BY <1>1, <1>2, RequestChanges

LEMMA SaveStep ==
  ASSUME MixedInv, NEW p \in Page, SaveStorage(p)
  PROVE  MixedInv'
<1>1. PICK r : Allowed(r) /\ req' = [req EXCEPT ![p] = r]
  BY NoRequestAllowed, GoChanges DEF SaveStorage, Places
<1>2. drawn' \subseteq Sid
  BY DEF SaveStorage, MixedInv, SessionTyped
<1>3. req[p].sess \in Session
  BY DEF MixedInv, SessionTyped, SessionRequest
<1>4. CASE storage' = storage
  BY <1>1, <1>2, <1>4, RequestChanges
<1>5. CASE storage' = [storage EXCEPT ![req[p].sess.id] = NoSession]
  <2>1. Storable(req[p].sess.id, NoSession)
    BY DEF Storable, NoSession, Session
  <2>2. QED
    BY <1>1, <1>2, <1>5, <2>1, FileChanges
<1>6. CASE storage' = [storage EXCEPT ![req[p].sess.id] = req[p].sess]
  <2>1. Storable(req[p].sess.id, req[p].sess)
    BY <1>3 DEF Storable
  <2>2. QED
    BY <1>1, <1>2, <1>6, <2>1, FileChanges
<1>7. QED
  BY <1>4, <1>5, <1>6 DEF SaveStorage

LEMMA TimeStep ==
  ASSUME MixedInv, NEW p \in Page, SaveTimeout(p)
  PROVE  MixedInv'
<1>1. storage' = storage /\ drawn' \subseteq Sid
  BY DEF SaveTimeout, MixedInv, SessionTyped
<1>2. CASE Go(p, "time2")
  <2>1. \E r : Allowed(r) /\ req' = [req EXCEPT ![p] = r]
    BY <1>2, GoChanges DEF Places
  <2>2. QED
    BY <1>1, <2>1, RequestChanges
<1>3. CASE req' = [req EXCEPT ![p].at = "clear", ![p].todo = Sid]
  <2> DEFINE r == [req[p] EXCEPT !.at = "clear", !.todo = Sid]
  <2>1. Allowed(r)
    BY RequestAllowed DEF Allowed, SessionRequest, Places
  <2>2. req' = [req EXCEPT ![p] = r]
    BY <1>3 DEF MixedInv, SessionTyped
  <2>3. QED
    BY <1>1, <2>1, <2>2, RequestChanges
<1>4. QED
  BY <1>2, <1>3 DEF SaveTimeout

LEMMA ClearStep ==
  ASSUME MixedInv, NEW p \in Page,
         (\E s \in Sid : ClearStarts(p, s)) \/ ClearOne(p) \/ ClearEnds(p)
  PROVE  MixedInv'
<1>1. drawn' \subseteq Sid
  BY DEF ClearStarts, ClearOne, ClearEnds, MixedInv, SessionTyped
<1>2. CASE \E s \in Sid : ClearStarts(p, s)
  <2>1. PICK s \in Sid : ClearStarts(p, s)
    BY <1>2
  <2> DEFINE expired == timeout[s] # Absent /\ Valid(s) <= 0
             r == [req[p] EXCEPT !.todo = @ \ {s}, !.at = IF expired THEN "clear1" ELSE "clear",
                                 !.victim = IF expired THEN s ELSE NoSid]
  <2>2. Allowed(r)
    BY ZenonT(40), RequestAllowed DEF Allowed, SessionRequest, Places
  <2>3. req' = [req EXCEPT ![p] = r] /\ storage' = storage
    BY <2>1 DEF ClearStarts, MixedInv, SessionTyped
  <2>4. QED
    BY <1>1, <2>2, <2>3, RequestChanges
<1>3. CASE ClearOne(p)
  <2>1. CASE Go(p, "clear2") /\ storage' = storage
    <3>1. \E r : Allowed(r) /\ req' = [req EXCEPT ![p] = r]
      BY <2>1, GoChanges DEF Places
    <3>2. QED
      BY <1>1, <2>1, <3>1, RequestChanges
  <2>2. CASE /\ req' = [req EXCEPT ![p].at = "clear", ![p].victim = NoSid]
             /\ storage' = [storage EXCEPT ![req[p].victim] = Absent]
    <3> DEFINE r == [req[p] EXCEPT !.at = "clear", !.victim = NoSid]
    <3>1. Allowed(r)
      BY RequestAllowed DEF Allowed, SessionRequest, Places
    <3>2. req' = [req EXCEPT ![p] = r] /\ Storable(req[p].victim, Absent)
      BY <2>2 DEF MixedInv, SessionTyped, Storable
    <3>3. QED
      BY <1>1, <2>2, <3>1, <3>2, FileChanges
  <2>3. QED
    BY <1>3, <2>1, <2>2 DEF ClearOne, Unlink
<1>4. CASE ClearEnds(p)
  BY <1>1, <1>4, NoRequestAllowed, RequestChanges DEF ClearEnds
<1>5. QED
  BY <1>2, <1>3, <1>4

LEMMA DestroyStep ==
  ASSUME MixedInv, NEW p \in Page, DestroySession(p)
  PROVE  MixedInv'
<1>1. PICK r : Allowed(r) /\ req' = [req EXCEPT ![p] = r]
  BY NoRequestAllowed, GoChanges DEF DestroySession, Places
<1>2. drawn' \subseteq Sid /\ Storable(req[p].sess.id, Absent)
  BY DEF DestroySession, MixedInv, SessionTyped, Storable
<1>3. CASE storage' = storage
  BY <1>1, <1>2, <1>3, RequestChanges
<1>4. CASE storage' = [storage EXCEPT ![req[p].sess.id] = Absent]
  BY <1>1, <1>2, <1>4, FileChanges
<1>5. QED
  BY <1>3, <1>4 DEF DestroySession, Unlink

-----------------------------------------------------------------------------
LEMMA MixedStep == MixedInv /\ [SessNext]_sessVars => MixedInv'
<1>1. SUFFICES ASSUME MixedInv, [SessNext]_sessVars PROVE MixedInv'
  OBVIOUS
<1>2. CASE UNCHANGED sessVars \/ Tick
  BY <1>1, <1>2 DEF sessVars, Tick, MixedInv, SessionTyped, IdKnown, NoneMixed
<1>3. ASSUME NEW p \in Page, HandleSession(p) PROVE MixedInv'
  BY <1>1, <1>3, NewStep, CheckStep, DropStep, LoadStep, PageStep, SaveStep, TimeStep,
     ClearStep, DestroyStep DEF HandleSession
<1>4. ASSUME NEW p \in Page, SessionDies(p) PROVE MixedInv'
  <2>1. req' = [req EXCEPT ![p] = NoRequest] /\ storage' = storage /\ drawn' \subseteq Sid
    BY <1>1, <1>4 DEF SessionDies, MixedInv, SessionTyped
  <2>2. QED
    BY <1>1, <2>1, NoRequestAllowed, RequestChanges
<1>5. ASSUME NEW p \in Page, NEW s \in Sid \cup {NoSid}, Begin(p, s) PROVE MixedInv'
  BY <1>1, <1>5, BeginStep
<1>6. QED
  BY <1>1, <1>2, <1>3, <1>4, <1>5 DEF SessNext

(* Whoever holds a session holds the one its client asked for, and no file   *)
(* of a session ever has the properties of another.                          *)
THEOREM NoneMixedAlways == SessSpec => []NoneMixed
<1>1. SessInit => MixedInv
  BY NoRequestAllowed
     DEF SessInit, MixedInv, SessionTyped, IdKnown, NoneMixed, NoRequest, NoSession
<1>2. MixedInv => NoneMixed
  BY DEF MixedInv
<1>3. QED
  BY <1>1, <1>2, MixedStep, PTL DEF SessSpec

-----------------------------------------------------------------------------
(* What stays in the directory *)

\* While no client sends two requests at once and no process dies.
Calm == ~mode.overlap /\ ~mode.crash

\* A session that is saved or destroyed has its id and the interval of its page.
Own(r) ==
    /\ r.at \in {"save1", "save2", "time1", "time2", "destroy1", "destroy2"} => r.sess.id # NoSid
    /\ r.sess.id # NoSid => r.sess.interval = Interval
InStorage(x) == x # Absent /\ x.id # NoSid => x.interval = Interval

\* The request r is about to write the timeout file of s, or to remove its storage.
SeesTo(r, s) == \/ r.at = "clear2" /\ r.victim = s
                \/ r.at \in {"save2", "time1"} /\ r.id = s

OwnInv ==
    /\ \A p \in Page : Own(req[p]) /\ req[p].id \in drawn \cup {NoSid}
    /\ \A s \in Sid : InStorage(storage[s])
    /\ ~mode.overlap => \A p, q \in Page : req[p].id = req[q].id /\ req[p].id # NoSid => p = q

\* Storage without a timeout file is seen to by a process that has not finished:
\* the one that saves the session writes the file next, or one that cleared the
\* file removes the storage, whatever was written in between.
SeenTo ==
    /\ \A p \in Page : req[p].at \in {"drop2", "destroy2"} => storage[req[p].id] = Absent
    /\ \A s \in Sid : storage[s] # Absent /\ timeout[s] = Absent => \E p \in Page : SeesTo(req[p], s)

FilesTyped == timeout \in [Sid -> Nat \cup {Absent}] /\ clock \in Nat

CalmInv == FilesTyped /\ OwnInv /\ (Calm => SeenTo)

\* What a step does to the files, that makes p go on with the request r.
FilesMove(p, r) ==
    /\ \A s \in Sid : storage'[s] # Absent => storage[s] # Absent \/ s = req[p].id
    /\ r.at \in {"drop2", "destroy2"} => storage'[r.id] = Absent
    /\ \A s \in Sid : storage'[s] # Absent /\ timeout'[s] = Absent =>
           \/ SeesTo(r, s)
           \/ storage[s] # Absent /\ timeout[s] = Absent /\ ~SeesTo(req[p], s)

LEMMA CalmChanges ==
  ASSUME MixedInv, CalmInv, NEW p \in Page, NEW r, req' = [req EXCEPT ![p] = r], mode' = mode, FilesTyped',
         Own(r), drawn \subseteq drawn', r.id \in drawn' \cup {NoSid},
         ~mode.overlap => r.id = NoSid \/ r.id = req[p].id \/ \A q \in Page : req[q].id # r.id,
         \A s \in Sid : InStorage(storage'[s]), Calm => FilesMove(p, r)
  PROVE  CalmInv'
<1>1. req'[p] = r /\ \A q \in Page : q # p => req'[q] = req[q]
  BY DEF MixedInv, SessionTyped
<1>2. /\ OwnInv
      /\ \A q \in Page : Own(req'[q]) /\ req'[q].id \in drawn' \cup {NoSid}
  <2>1. OwnInv /\ \A q \in Page : Own(req[q]) /\ req[q].id \in drawn \cup {NoSid}
    BY DEF CalmInv, OwnInv
  <2>2. QED
    BY <1>1, <2>1
<1>3. ~mode.overlap => \A q1, q2 \in Page : req'[q1].id = req'[q2].id /\ req'[q1].id # NoSid => q1 = q2
  <2>1. SUFFICES ASSUME ~mode.overlap, NEW q1 \in Page, NEW q2 \in Page,
                        req'[q1].id = req'[q2].id, req'[q1].id # NoSid, q1 # q2
                 PROVE  FALSE
    OBVIOUS
  <2>2. \A q3, q4 \in Page : req[q3].id = req[q4].id /\ req[q3].id # NoSid => q3 = q4
    BY <1>2, <2>1 DEF OwnInv
  <2>3. CASE q1 # p /\ q2 # p
    BY <1>1, <2>1, <2>2, <2>3
  <2>4. CASE q1 = p
    BY <1>1, <2>1, <2>2, <2>4
  <2>5. CASE q2 = p
    BY <1>1, <2>1, <2>2, <2>5
  <2>6. QED
    BY <2>3, <2>4, <2>5
<1>4. OwnInv'
  BY <1>2, <1>3 DEF OwnInv
<1>5. ASSUME Calm PROVE SeenTo'
  <2>1. FilesMove(p, r) /\ SeenTo
    BY <1>5 DEF CalmInv
  <2>2. ASSUME NEW q \in Page, req'[q].at \in {"drop2", "destroy2"}
        PROVE  storage'[req'[q].id] = Absent
    <3>1. CASE q = p
      BY <1>1, <2>1, <2>2, <3>1 DEF FilesMove
    <3>2. CASE q # p
      <4>1. req'[q] = req[q] /\ storage[req[q].id] = Absent
        BY <1>1, <2>1, <2>2, <3>2 DEF SeenTo
      <4>2. req[q].id \in Sid /\ req[q].id # NoSid
        BY <2>2, <4>1, <1>2, SessionAssumption, RequestAllowed
           DEF MixedInv, IdKnown, OwnInv, Own, SessionRequest
      <4>3. req[q].id # req[p].id
        BY <1>2, <1>5, <3>2, <4>2 DEF OwnInv, Calm
      <4>4. QED
        BY <2>1, <4>1, <4>2, <4>3 DEF FilesMove
    <3>3. QED
      BY <3>1, <3>2
  <2>3. ASSUME NEW s \in Sid, storage'[s] # Absent, timeout'[s] = Absent
        PROVE  \E q \in Page : SeesTo(req'[q], s)
    <3>1. CASE SeesTo(r, s)
      BY <1>1, <3>1
    <3>2. CASE storage[s] # Absent /\ timeout[s] = Absent /\ ~SeesTo(req[p], s)
      <4>1. PICK q \in Page : SeesTo(req[q], s)
        BY <2>1, <3>2 DEF SeenTo
      <4>2. q # p
        BY <3>2, <4>1
      <4>3. QED
        BY <1>1, <4>1, <4>2
    <3>3. QED
      BY <2>1, <2>3, <3>1, <3>2 DEF FilesMove
  <2>4. QED
    BY <2>2, <2>3 DEF SeenTo
<1>6. QED
  BY <1>4, <1>5 DEF CalmInv, Calm

\* A step that leaves the files alone, at places that see to nothing.
LEMMA CalmMoves ==
  ASSUME MixedInv, CalmInv, NEW p \in Page, NEW r, req' = [req EXCEPT ![p] = r],
         UNCHANGED <<storage, timeout, mode, clock>>, Own(r), drawn \subseteq drawn',
         r.id \in drawn' \cup {NoSid},
         ~mode.overlap => r.id = NoSid \/ r.id = req[p].id \/ \A q \in Page : req[q].id # r.id,
         r.at \notin {"drop2", "destroy2"}, req[p].at \notin {"clear2", "save2", "time1"}
  PROVE  CalmInv'
<1>1. FilesMove(p, r)
  BY DEF FilesMove, SeesTo
<1>2. FilesTyped' /\ \A s \in Sid : InStorage(storage'[s])
  BY DEF CalmInv, FilesTyped, OwnInv
<1>3. QED
  BY <1>1, <1>2, CalmChanges

\* What is known of a request that is under way.
LEMMA Known ==
  ASSUME MixedInv, CalmInv, NEW p \in Page
  PROVE  /\ req[p] \in SessionRequest /\ Own(req[p]) /\ req[p].id \in drawn \cup {NoSid}
         /\ req[p].sess.id \in {NoSid, req[p].id}
         /\ req[p].sess.id # NoSid => req[p].sess.id = req[p].id /\ req[p].id \in Sid
         /\ req[p].at \in {"check", "load", "drop1", "drop2"} => req[p].id \in Sid
         /\ storage \in [Sid -> Session \cup {Absent}] /\ timeout \in [Sid -> Nat \cup {Absent}]
         /\ clock \in Nat /\ Absent \notin Nat /\ \A s \in Sid : InStorage(storage[s])
BY RequestAllowed, SessionAssumption
   DEF MixedInv, CalmInv, SessionTyped, OwnInv, IdKnown, FilesTyped, SessionRequest, Session

\* The request of p at another place.
At(p, at) == [req[p] EXCEPT !.at = at]
LEMMA AtIs ==
  ASSUME MixedInv, CalmInv, NEW p \in Page, NEW at \in Places
  PROVE  /\ At(p, at).at = at /\ At(p, at).id = req[p].id /\ At(p, at).sess = req[p].sess
         /\ At(p, at).victim = req[p].victim
         /\ Go(p, at) <=> req' = [req EXCEPT ![p] = At(p, at)]
<1>1. req[p] \in SessionRequest
  BY Known
<1>2. req' = [req EXCEPT ![p].at = at] <=> req' = [req EXCEPT ![p] = [req[p] EXCEPT !.at = at]]
  OBVIOUS
<1>3. QED
  BY <1>1, <1>2 DEF At, Go, SessionRequest

LEMMA EmptyOwn == Own(NoRequest) /\ NoRequest.id = NoSid /\ NoRequest.at = "idle"
BY DEF Own, NoRequest, NoSession

LEMMA BeginCalm ==
  ASSUME MixedInv, CalmInv, NEW p \in Page, NEW s \in Sid \cup {NoSid}, Begin(p, s)
  PROVE  CalmInv'
<1> DEFINE r == [NoRequest EXCEPT !.at = IF s = NoSid THEN "new" ELSE "check", !.id = s]
<1>1. Own(r) /\ r.id = s /\ r.at \in {"new", "check"}
  BY DEF Own, NoRequest, NoSession
<1> HIDE DEF r
<1>2. req' = [req EXCEPT ![p] = r] /\ UNCHANGED <<storage, timeout, mode, clock>> /\ drawn' = drawn
  BY DEF Begin, r
<1>3. req[p].at = "idle" /\ s \in drawn \cup {NoSid}
      /\ (~mode.overlap => s = NoSid \/ \A q \in Page : req[q].id # s)
  BY DEF Begin
<1>4. QED
  BY <1>1, <1>2, <1>3, CalmMoves

LEMMA NewCalm ==
  ASSUME MixedInv, CalmInv, NEW p \in Page, NewSession(p)
  PROVE  CalmInv'
<1>1. PICK s \in Sid \ drawn :
        /\ drawn' = drawn \cup {s}
        /\ req' = [req EXCEPT ![p] = [NoRequest EXCEPT
              !.at = "page", !.id = s, !.sess = [id |-> s, interval |-> Interval]]]
  BY DEF NewSession
<1> DEFINE r == [NoRequest EXCEPT !.at = "page", !.id = s,
                                  !.sess = [id |-> s, interval |-> Interval]]
<1>2. Own(r) /\ r.id = s /\ r.at = "page"
  BY DEF Own, NoRequest, NoSession
<1>3. req' = [req EXCEPT ![p] = r]
  BY <1>1
<1> HIDE DEF r
<1>4. \A q \in Page : req[q].id # s
  BY <1>1, Known, SessionAssumption
<1>5. req[p].at = "new" /\ UNCHANGED <<storage, timeout, mode, clock>>
  BY DEF NewSession
<1>6. QED
  BY <1>1, <1>2, <1>3, <1>4, <1>5, CalmMoves

LEMMA CheckCalm ==
  ASSUME MixedInv, CalmInv, NEW p \in Page, CheckSession(p)
  PROVE  CalmInv'
<1>1. PICK at \in {"load", "drop1", "new"} : Go(p, at)
  BY DEF CheckSession, Valid
<1>2. req' = [req EXCEPT ![p] = At(p, at)] /\ Own(At(p, at))
  BY <1>1, AtIs, Known DEF Places, Own
<1>3. req[p].at = "check" /\ UNCHANGED <<storage, timeout, mode, clock, drawn>>
  BY DEF CheckSession
<1>4. At(p, at).id = req[p].id /\ At(p, at).at = at
  BY AtIs DEF Places
<1>5. QED
  BY <1>2, <1>3, <1>4, Known, CalmMoves

LEMMA DropCalm ==
  ASSUME MixedInv, CalmInv, NEW p \in Page, DropExpired(p)
  PROVE  CalmInv'
<1>1. /\ req[p].id \in Sid /\ UNCHANGED <<mode, clock, drawn>>
      /\ \/ /\ req[p].at = "drop1" /\ Go(p, "drop2") /\ timeout' = timeout
            /\ storage' = [storage EXCEPT ![req[p].id] = Absent]
         \/ /\ req[p].at = "drop2" /\ Go(p, "new") /\ storage' = storage
            /\ timeout' = [timeout EXCEPT ![req[p].id] = Absent]
  BY Known DEF DropExpired, Unlink
<1>2. PICK at \in {"drop2", "new"} : Go(p, at) /\ (at = "drop2" <=> req[p].at = "drop1")
  BY <1>1
<1>3. /\ req' = [req EXCEPT ![p] = At(p, at)] /\ At(p, at).id = req[p].id /\ At(p, at).at = at
      /\ Own(At(p, at))
  BY <1>2, AtIs, Known DEF Places, Own
<1>4. FilesTyped' /\ \A s \in Sid : InStorage(storage'[s])
  BY <1>1, Known DEF FilesTyped, InStorage
<1>5. Calm => FilesMove(p, At(p, at))
  <2>1. SUFFICES ASSUME Calm PROVE FilesMove(p, At(p, at))
    OBVIOUS
  <2>2. req[p].at = "drop2" => storage[req[p].id] = Absent
    BY <2>1 DEF CalmInv, SeenTo
  <2>3. \A s \in Sid : ~SeesTo(req[p], s)
    BY <1>1 DEF SeesTo
  <2>4. QED
    BY <1>1, <1>2, <1>3, <2>2, <2>3, Known DEF FilesMove
<1>6. QED
  BY <1>1, <1>3, <1>4, <1>5, Known, CalmChanges

LEMMA LoadCalm ==
  ASSUME MixedInv, CalmInv, NEW p \in Page, LoadSession(p)
  PROVE  CalmInv'
<1> DEFINE found == IF storage[req[p].id] = Absent THEN NoSession ELSE storage[req[p].id]
           r == [req[p] EXCEPT !.at = "page", !.sess = found]
<1>1. req[p].at = "load" /\ req[p].id \in Sid /\ UNCHANGED <<storage, timeout, mode, clock, drawn>>
  BY Known DEF LoadSession
<1>2. found.id # NoSid => found.interval = Interval
  BY <1>1, Known DEF InStorage, NoSession
<1>3. r.at = "page" /\ r.id = req[p].id /\ r.sess = found
  BY Known DEF SessionRequest
<1>4. req' = [req EXCEPT ![p] = r]
  BY DEF LoadSession, MixedInv, SessionTyped
<1> HIDE DEF found, r
<1>5. Own(r)
  BY <1>2, <1>3 DEF Own
<1>6. QED
  BY <1>1, <1>3, <1>4, <1>5, Known, CalmMoves

LEMMA PageCalm ==
  ASSUME MixedInv, CalmInv, NEW p \in Page, PageEnds(p)
  PROVE  CalmInv'
<1>1. req[p].at = "page" /\ UNCHANGED <<storage, timeout, mode, clock, drawn>>
  BY DEF PageEnds
<1>2. CASE req' = [req EXCEPT ![p] = NoRequest]
  BY <1>1, <1>2, EmptyOwn, CalmMoves
<1>3. ASSUME req[p].sess.id # NoSid, NEW at \in {"save1", "destroy1"}, Go(p, at)
      PROVE  CalmInv'
  <2>1. /\ req' = [req EXCEPT ![p] = At(p, at)] /\ At(p, at).id = req[p].id /\ At(p, at).at = at
        /\ At(p, at).sess = req[p].sess
    BY <1>3, AtIs DEF Places
  <2>2. Own(At(p, at))
    BY <1>3, <2>1, Known DEF Own
  <2>3. QED
    BY <1>1, <2>1, <2>2, Known, CalmMoves
<1>4. QED
  BY <1>2, <1>3 DEF PageEnds

LEMMA SaveCalm ==
  ASSUME MixedInv, CalmInv, NEW p \in Page, SaveStorage(p)
  PROVE  CalmInv'
<1>1. /\ req[p].at \in {"save1", "save2"} /\ UNCHANGED <<timeout, mode, clock, drawn>>
      /\ req[p].at = "save1" => Go(p, "save2") /\ storage' = [storage EXCEPT ![req[p].sess.id] = NoSession]
      /\ req[p].at = "save2" =>
            /\ storage' \in {storage, [storage EXCEPT ![req[p].sess.id] = req[p].sess]}
            /\ storage' = storage \/ storage[req[p].sess.id] # Absent
            /\ req[p].sess.interval # 0 => Go(p, "time1")
  BY DEF SaveStorage
<1>2. /\ req[p].sess.id = req[p].id /\ req[p].id \in Sid /\ req[p].sess.interval = Interval
      /\ Interval # 0 /\ req[p].sess \in Session
  BY <1>1, Known, SessionAssumption DEF Own, SessionRequest
<1>3. PICK at \in {"save2", "time1"} : Go(p, at) /\ (at = "save2" <=> req[p].at = "save1")
  BY <1>1, <1>2
<1>4. /\ req' = [req EXCEPT ![p] = At(p, at)] /\ At(p, at).id = req[p].id /\ At(p, at).at = at
      /\ At(p, at).sess = req[p].sess
  BY <1>3, AtIs DEF Places
<1>5. Own(At(p, at))
  BY <1>2, <1>4, SessionAssumption DEF Own
<1>6. \A s \in Sid : s # req[p].id => storage'[s] = storage[s]
  BY <1>1, <1>2, Known
<1>7. \A s \in Sid : InStorage(storage'[s])
  <2>1. NoSession.id = NoSid
    BY DEF NoSession
  <2>2. storage'[req[p].id] \in {storage[req[p].id], NoSession, req[p].sess}
    BY <1>1, <1>2, Known
  <2>3. InStorage(storage'[req[p].id])
    BY <1>2, <2>1, <2>2, Known DEF InStorage
  <2>4. QED
    BY <1>6, <2>3, Known
<1>8. FilesMove(p, At(p, at))
  <2>1. SeesTo(At(p, at), req[p].id) /\ \A s \in Sid : s # req[p].id => ~SeesTo(req[p], s)
    BY <1>1, <1>4 DEF SeesTo
  <2>2. QED
    BY <1>1, <1>4, <1>6, <2>1 DEF FilesMove
<1>9. FilesTyped'
  BY <1>1 DEF CalmInv, FilesTyped
<1>10. QED
  BY <1>1, <1>4, <1>5, <1>7, <1>8, <1>9, Known, CalmChanges

LEMMA TimeCalm ==
  ASSUME MixedInv, CalmInv, NEW p \in Page, SaveTimeout(p)
  PROVE  CalmInv'
<1>1. /\ req[p].at \in {"time1", "time2"} /\ UNCHANGED <<storage, mode, clock, drawn>>
      /\ req[p].at = "time1" => Go(p, "time2") /\ timeout' = [timeout EXCEPT ![req[p].sess.id] = 0]
      /\ req[p].at = "time2" =>
            /\ timeout' = IF timeout[req[p].sess.id] = Absent THEN timeout
                          ELSE [timeout EXCEPT ![req[p].sess.id] = clock + req[p].sess.interval]
            /\ req' = [req EXCEPT ![p].at = "clear", ![p].todo = Sid]
  BY DEF SaveTimeout
<1>2. /\ req[p].sess.id = req[p].id /\ req[p].id \in Sid /\ req[p].sess.interval = Interval /\ Interval \in Nat
  BY <1>1, Known, SessionAssumption DEF Own
<1>3. PICK r : /\ req' = [req EXCEPT ![p] = r] /\ r.id = req[p].id /\ r.sess = req[p].sess
               /\ r.at \in {"time2", "clear"}
  <2>1. CASE req[p].at = "time1"
    BY <1>1, <2>1, AtIs DEF Places
  <2>2. CASE req[p].at = "time2"
    <3> DEFINE r == [req[p] EXCEPT !.at = "clear", !.todo = Sid]
    <3>1. r.at = "clear" /\ r.id = req[p].id /\ r.sess = req[p].sess
      BY Known DEF SessionRequest
    <3>2. req' = [req EXCEPT ![p] = r]
      BY <1>1, <2>2 DEF MixedInv, SessionTyped
    <3>3. QED
      BY <3>1, <3>2
  <2>3. QED
    BY <1>1, <2>1, <2>2
<1>4. Own(r)
  BY <1>2, <1>3, SessionAssumption DEF Own
<1>5. /\ timeout' \in [Sid -> Nat \cup {Absent}]
      /\ \A s \in Sid : s # req[p].id => timeout'[s] = timeout[s]
      /\ timeout'[req[p].id] = Absent => req[p].at = "time2" /\ timeout[req[p].id] = Absent
  <2>1. clock + req[p].sess.interval \in Nat
    BY <1>2, Known
  <2>2. QED
    BY <1>1, <1>2, <2>1, Known
<1>6. FilesMove(p, r)
  <2>1. \A s \in Sid : s # req[p].id \/ req[p].at = "time2" => ~SeesTo(req[p], s)
    BY <1>1 DEF SeesTo
  <2>2. QED
    BY <1>1, <1>3, <1>5, <2>1 DEF FilesMove
<1>7. FilesTyped' /\ \A s \in Sid : InStorage(storage'[s])
  BY <1>1, <1>5, Known DEF FilesTyped
<1>8. QED
  BY <1>1, <1>3, <1>4, <1>6, <1>7, Known, CalmChanges

LEMMA ClearCalm ==
  ASSUME MixedInv, CalmInv, NEW p \in Page,
         (\E s \in Sid : ClearStarts(p, s)) \/ ClearOne(p) \/ ClearEnds(p)
  PROVE  CalmInv'
<1>1. UNCHANGED <<mode, clock, drawn>>
  BY DEF ClearStarts, ClearOne, ClearEnds
<1>2. CASE \E s \in Sid : ClearStarts(p, s)
  <2>1. PICK s \in Sid : ClearStarts(p, s)
    BY <1>2
  <2> DEFINE expired == timeout[s] # Absent /\ Valid(s) <= 0
             r == [req[p] EXCEPT !.todo = @ \ {s}, !.at = IF expired THEN "clear1" ELSE "clear",
                                 !.victim = IF expired THEN s ELSE NoSid]
  <2>2. r.at \in {"clear", "clear1"} /\ r.id = req[p].id /\ r.sess = req[p].sess
    BY Known DEF SessionRequest
  <2>3. req' = [req EXCEPT ![p] = r] /\ UNCHANGED <<storage, timeout>> /\ req[p].at = "clear"
    BY <2>1 DEF ClearStarts, MixedInv, SessionTyped
  <2> HIDE DEF r
  <2>4. Own(r)
    BY <2>2, Known DEF Own
  <2>5. QED
    BY <1>1, <2>2, <2>3, <2>4, Known, CalmMoves
<1>3. CASE ClearOne(p) /\ req[p].at = "clear1"
  <2>1. Go(p, "clear2") /\ storage' = storage /\ timeout' = [timeout EXCEPT ![req[p].victim] = Absent]
    BY <1>3 DEF ClearOne, Unlink
  <2>2. /\ req' = [req EXCEPT ![p] = At(p, "clear2")] /\ At(p, "clear2").id = req[p].id
        /\ At(p, "clear2").at = "clear2" /\ At(p, "clear2").victim = req[p].victim
        /\ At(p, "clear2").sess = req[p].sess
    BY <2>1, AtIs DEF Places
  <2>3. Own(At(p, "clear2"))
    BY <2>2, Known DEF Own
  <2>4. FilesTyped' /\ \A s \in Sid : InStorage(storage'[s])
    BY <1>1, <2>1, Known DEF FilesTyped
  <2>5. FilesMove(p, At(p, "clear2"))
    <3>1. \A s \in Sid : ~SeesTo(req[p], s) /\ (s = req[p].victim => SeesTo(At(p, "clear2"), s))
      BY <1>3, <2>2 DEF SeesTo
    <3>2. \A s \in Sid : s # req[p].victim => timeout'[s] = timeout[s]
      BY <2>1, Known
    <3>3. QED
      BY <2>1, <2>2, <3>1, <3>2 DEF FilesMove
  <2>6. QED
    BY <1>1, <2>2, <2>3, <2>4, <2>5, Known, CalmChanges
<1>4. CASE ClearOne(p) /\ req[p].at = "clear2"
  <2> DEFINE r == [req[p] EXCEPT !.at = "clear", !.victim = NoSid]
  <2>1. /\ req' = [req EXCEPT ![p].at = "clear", ![p].victim = NoSid]
        /\ storage' = [storage EXCEPT ![req[p].victim] = Absent] /\ timeout' = timeout
    BY <1>4 DEF ClearOne, Unlink
  <2>2. req' = [req EXCEPT ![p] = r]
    BY <2>1 DEF MixedInv, SessionTyped
  <2>3. r.at = "clear" /\ r.id = req[p].id /\ r.sess = req[p].sess
    BY Known DEF SessionRequest
  <2> HIDE DEF r
  <2>4. Own(r)
    BY <2>3, Known DEF Own
  <2>5. \A s \in Sid : storage'[s] \in {storage[s], Absent} /\ (s = req[p].victim => storage'[s] = Absent)
    BY <2>1, Known
  <2>6. FilesTyped' /\ \A s \in Sid : InStorage(storage'[s])
    BY <1>1, <2>1, <2>5, Known DEF FilesTyped, InStorage
  <2>7. FilesMove(p, r)
    <3>1. \A s \in Sid : SeesTo(req[p], s) => s = req[p].victim
      BY <1>4 DEF SeesTo
    <3>2. QED
      BY <2>1, <2>3, <2>5, <3>1 DEF FilesMove
  <2>8. QED
    BY <1>1, <2>2, <2>3, <2>4, <2>6, <2>7, Known, CalmChanges
<1>5. CASE ClearEnds(p)
  BY <1>1, <1>5, EmptyOwn, CalmMoves DEF ClearEnds
<1>6. QED
  BY <1>2, <1>3, <1>4, <1>5 DEF ClearOne

LEMMA DestroyCalm ==
  ASSUME MixedInv, CalmInv, NEW p \in Page, DestroySession(p)
  PROVE  CalmInv'
<1>1. req[p].sess.id = req[p].id /\ req[p].id \in Sid /\ UNCHANGED <<mode, clock, drawn>>
  BY Known DEF DestroySession, Own
<1>2. \A s \in Sid : ~SeesTo(req[p], s)
  BY DEF DestroySession, SeesTo
<1>3. CASE req[p].at = "destroy1"
  <2>1. Go(p, "destroy2") /\ timeout' = timeout /\ storage' = [storage EXCEPT ![req[p].id] = Absent]
    BY <1>1, <1>3 DEF DestroySession, Unlink
  <2>2. /\ req' = [req EXCEPT ![p] = At(p, "destroy2")] /\ At(p, "destroy2").id = req[p].id
        /\ At(p, "destroy2").sess = req[p].sess
    BY <2>1, AtIs DEF Places
  <2>3. Own(At(p, "destroy2"))
    BY <1>1, <1>3, <2>2, Known DEF Own
  <2>4. \A s \in Sid : storage'[s] \in {storage[s], Absent} /\ (s = req[p].id => storage'[s] = Absent)
    BY <2>1, Known
  <2>5. FilesTyped' /\ \A s \in Sid : InStorage(storage'[s])
    BY <1>1, <2>1, <2>4, Known DEF FilesTyped, InStorage
  <2>6. FilesMove(p, At(p, "destroy2"))
    BY <1>1, <1>2, <2>1, <2>2, <2>4 DEF FilesMove
  <2>7. QED
    BY <1>1, <2>2, <2>3, <2>5, <2>6, Known, CalmChanges
<1>4. CASE req[p].at = "destroy2"
  <2>1. /\ req' = [req EXCEPT ![p] = NoRequest] /\ storage' = storage
        /\ timeout' = [timeout EXCEPT ![req[p].id] = Absent]
    BY <1>1, <1>4 DEF DestroySession, Unlink
  <2>2. FilesTyped' /\ \A s \in Sid : InStorage(storage'[s])
    BY <1>1, <2>1, Known DEF FilesTyped
  <2>3. ASSUME Calm PROVE FilesMove(p, NoRequest)
    <3>1. storage[req[p].id] = Absent
      BY <1>4, <2>3 DEF CalmInv, SeenTo
    <3>2. \A s \in Sid : s # req[p].id => timeout'[s] = timeout[s]
      BY <2>1, Known
    <3>3. QED
      BY <1>2, <2>1, <3>1, <3>2, EmptyOwn DEF FilesMove
  <2>4. QED
    BY <1>1, <2>1, <2>2, <2>3, EmptyOwn, CalmChanges
<1>5. QED
  BY <1>3, <1>4 DEF DestroySession

LEMMA DiesCalm ==
  ASSUME MixedInv, CalmInv, NEW p \in Page, SessionDies(p)
  PROVE  CalmInv'
<1>1. /\ req' = [req EXCEPT ![p] = NoRequest] /\ UNCHANGED <<storage, timeout, mode, clock, drawn>>
      /\ ~Calm
  BY DEF SessionDies, Calm
<1>2. FilesTyped' /\ \A s \in Sid : InStorage(storage'[s])
  BY <1>1, Known DEF FilesTyped
<1>3. QED
  BY <1>1, <1>2, EmptyOwn, CalmChanges

LEMMA CalmStep == MixedInv /\ CalmInv /\ [SessNext]_sessVars => CalmInv'
<1>1. SUFFICES ASSUME MixedInv, CalmInv, [SessNext]_sessVars PROVE CalmInv'
  OBVIOUS
<1>2. CASE UNCHANGED sessVars \/ Tick
  <2>1. UNCHANGED <<storage, timeout, drawn, req, mode>> /\ clock' \in Nat
    BY <1>1, <1>2 DEF sessVars, Tick, CalmInv, FilesTyped
  <2>2. QED
    BY <1>1, <2>1 DEF CalmInv, FilesTyped, OwnInv, SeenTo, Calm
<1>3. ASSUME NEW p \in Page, HandleSession(p) PROVE CalmInv'
  BY <1>1, <1>3, NewCalm, CheckCalm, DropCalm, LoadCalm, PageCalm, SaveCalm, TimeCalm, ClearCalm,
     DestroyCalm DEF HandleSession
<1>4. ASSUME NEW p \in Page, SessionDies(p) PROVE CalmInv'
  BY <1>1, <1>4, DiesCalm
<1>5. ASSUME NEW p \in Page, NEW s \in Sid \cup {NoSid}, Begin(p, s) PROVE CalmInv'
  BY <1>1, <1>5, BeginCalm
<1>6. QED
  BY <1>1, <1>2, <1>3, <1>4, <1>5 DEF SessNext

(* While clients wait for their answers and no process dies, the properties  *)
(* of a session never stay in the directory without the file that            *)
(* _clear_repo looks for, whatever saves, clears and destroys it meanwhile;  *)
(* and NoneMixed, always.                                                    *)
THEOREM SessionFilesAlways == SessSpec => []SessionFiles
<1>1. SessInit => MixedInv /\ CalmInv
  <2>1. SUFFICES ASSUME SessInit PROVE MixedInv /\ CalmInv
    OBVIOUS
  <2>2. MixedInv
    BY <2>1, NoRequestAllowed
       DEF SessInit, MixedInv, SessionTyped, IdKnown, NoneMixed, NoRequest, NoSession
  <2>3. FilesTyped /\ \A s \in Sid : storage[s] = Absent
    BY <2>1 DEF SessInit, FilesTyped
  <2>4. \A p \in Page : req[p] = NoRequest
    BY <2>1 DEF SessInit
  <2>5. OwnInv
    <3>1. \A s \in Sid : InStorage(storage[s])
      BY <2>3 DEF InStorage
    <3>2. QED
      BY <2>4, <3>1, EmptyOwn DEF OwnInv
  <2>6. SeenTo
    BY <2>3, <2>4, EmptyOwn DEF SeenTo
  <2>7. QED
    BY <2>2, <2>3, <2>5, <2>6 DEF CalmInv
<1>2. MixedInv /\ CalmInv => SessionFiles
  <2>1. SUFFICES ASSUME MixedInv, CalmInv PROVE Collectable /\ NoneMixed
    BY DEF SessionFiles
  <2>2. \A p \in Page, s \in Sid : SeesTo(req[p], s) => Concerns(p, s)
    BY DEF SeesTo, Concerns
  <2>3. Calm => SeenTo
    BY <2>1 DEF CalmInv
  <2>4. QED
    BY <2>1, <2>2, <2>3 DEF Collectable, SeenTo, Calm, MixedInv
<1>3. QED
  BY <1>1, <1>2, MixedStep, CalmStep, PTL DEF SessSpec

-----------------------------------------------------------------------------
(* The headers of an answer *)

Pieces == {<<"Set-Cookie", "line">>, <<"Set-Cookie", "within">>, <<"Content-Type", "headers">>,
           <<"Default-Type", "headers">>, <<"Location", "headers">>, <<"text", "within">>}
Prints == {<<"Content-Disposition", "line">>, <<"file", "within">>, <<"Content-Type", "headers">>,
           <<"text", "line">>}

\* After the page's own content type there is only text.
TypeLast == \A i, j \in DOMAIN recon :
               i < j /\ recon[i][1] = "Content-Type" => recon[j][1] = "text"
\* The buffer has one content type, of spc or of the page, which knows its own.
TypeOnce ==
    /\ \A i, j \in DOMAIN recon : recon[i][1] \in Types /\ recon[j][1] \in Types => i = j
    /\ Sets("Content-Type") => contenttype
\* What was printed describes a file once, and then the buffer has its type.
FileOnce ==
    \A i \in DOMAIN stdout : stdout[i][1] = "Content-Disposition" =>
       /\ Sets("Content-Type")
       /\ \A j \in DOMAIN stdout : stdout[j][1] = "Content-Disposition" => i = j
CutCookie == \A i \in DOMAIN recon : recon[i] = <<"Set-Cookie", "within">> => "cookie" \in refused

ResInv == /\ recon \in Seq(Pieces) /\ stdout \in Seq(Prints)
          /\ TypeLast /\ TypeOnce /\ FileOnce /\ CutCookie

LEMMA PieceEnds ==
    ASSUME NEW x \in Pieces
    PROVE  /\ x[2] = "headers" => x[1] \in {"Content-Type", "Default-Type", "Location"}
           /\ x[2] = "within" => x[1] = "text" \/ x = <<"Set-Cookie", "within">>
           /\ x[1] # "Content-Disposition"
  BY DEF Pieces

LEMMA PrintEnds ==
    ASSUME NEW x \in Prints
    PROVE  x[2] = "within" => x[1] = "file"
  BY DEF Prints

\* Where a piece of the answer comes from.
LEMMA AnswerParts ==
    ASSUME ResInv
    PROVE  /\ Len(stdout) \in Nat /\ Len(recon) \in Nat
           /\ DOMAIN stdout = 1 .. Len(stdout) /\ DOMAIN recon = 1 .. Len(recon)
           /\ DOMAIN Answer = 1 .. Len(stdout) + Len(recon)
           /\ \A i \in DOMAIN stdout : stdout[i] \in Prints /\ Answer[i] = stdout[i]
           /\ \A i \in DOMAIN recon : recon[i] \in Pieces /\ Answer[Len(stdout) + i] = recon[i]
  BY DEF ResInv, Answer

LEMMA AnswerPlace ==
    ASSUME ResInv, NEW i \in DOMAIN Answer
    PROVE  /\ i \in Int
           /\ ~Past(i) => i \in DOMAIN stdout /\ Answer[i] = stdout[i] /\ Answer[i] \in Prints
           /\ Past(i) => /\ i - Len(stdout) \in DOMAIN recon
                         /\ Answer[i] = recon[i - Len(stdout)] /\ Answer[i] \in Pieces
<1>1. CASE ~Past(i)
  <2>1. i \in DOMAIN stdout
    BY <1>1, AnswerParts DEF Past
  <2>2. QED
    BY <1>1, <2>1, AnswerParts
<1>2. CASE Past(i)
  <2>1. i - Len(stdout) \in DOMAIN recon /\ i = Len(stdout) + (i - Len(stdout))
    BY <1>2, AnswerParts DEF Past
  <2>2. i \in Int
    BY AnswerParts
  <2>3. QED
    BY <1>2, <2>1, <2>2, AnswerParts
<1>3. QED
  BY <1>1, <1>2

LEMMA ResSays ==
    ASSUME ResInv
    PROVE  HeadersWhole
<1>1. AfterEnd
  <2>1. SUFFICES ASSUME NEW i \in DOMAIN Answer, NEW j \in DOMAIN Answer, i < j,
                        Answer[i][2] = "headers", IsHeader(j), Past(i),
                        Answer[i][1] \notin {"Location", "Default-Type"}
                 PROVE  FALSE
    BY DEF AfterEnd
  <2>2. Past(j) /\ i - Len(stdout) < j - Len(stdout)
    BY <2>1, AnswerPlace, AnswerParts DEF Past
  <2>3. Answer[i][1] = "Content-Type"
    BY <2>1, AnswerPlace, PieceEnds
  <2>4. Answer[j][1] = "text"
    BY <2>1, <2>2, <2>3, AnswerPlace DEF ResInv, TypeLast
  <2>5. QED
    BY <2>1, <2>4 DEF IsHeader, Headers, Types
<1>2. OneType
  <2>1. SUFFICES ASSUME NEW i \in DOMAIN Answer, NEW j \in DOMAIN Answer, i < j, Past(i),
                        Answer[i][1] \in Types, Answer[j][1] \in Types
                 PROVE  FALSE
    BY DEF OneType
  <2>2. Past(j) /\ i - Len(stdout) # j - Len(stdout)
    BY <2>1, AnswerPlace, AnswerParts DEF Past
  <2>3. QED
    BY <2>1, <2>2, AnswerPlace DEF ResInv, TypeOnce
<1>3. OwnLine
  <2>1. SUFFICES ASSUME NEW i \in DOMAIN Answer, IsHeader(i), Answer[i][2] = "within"
                 PROVE  "cookie" \in refused
    BY DEF OwnLine
  <2>2. Answer[i][1] \notin {"text", "file"}
    BY <2>1 DEF IsHeader, Headers, Types
  <2>3. Past(i)
    BY <2>1, <2>2, AnswerPlace, PrintEnds
  <2>4. Answer[i] = <<"Set-Cookie", "within">>
    BY <2>1, <2>2, <2>3, AnswerPlace, PieceEnds
  <2>5. QED
    BY <2>3, <2>4, AnswerPlace DEF ResInv, CutCookie
<1>4. FileThenType
  <2>1. SUFFICES ASSUME NEW i \in DOMAIN Answer, Answer[i][1] = "Content-Disposition"
                 PROVE  /\ \A j \in DOMAIN Answer :
                              Answer[j][1] = "Content-Disposition" => i = j
                        /\ \E j \in DOMAIN Answer :
                              i < j /\ Past(j) /\ Answer[j][1] = "Content-Type"
    BY DEF FileThenType
  <2>2. \A j \in DOMAIN Answer : Answer[j][1] = "Content-Disposition" =>
           j \in DOMAIN stdout /\ Answer[j] = stdout[j]
    BY AnswerPlace, PieceEnds
  <2>3. \A j \in DOMAIN Answer : Answer[j][1] = "Content-Disposition" => i = j
    BY <2>1, <2>2 DEF ResInv, FileOnce
  <2>4. PICK k \in DOMAIN recon : recon[k][1] = "Content-Type"
    BY <2>1, <2>2 DEF ResInv, FileOnce, Sets
  <2>5. Len(stdout) + k \in DOMAIN Answer /\ i < Len(stdout) + k /\ Past(Len(stdout) + k)
    BY <2>1, <2>2, AnswerParts DEF Past
  <2>6. Answer[Len(stdout) + k][1] = "Content-Type"
    BY <2>4, AnswerParts
  <2>7. QED
    BY <2>3, <2>5, <2>6
<1>5. QED
  BY <1>1, <1>2, <1>3, <1>4 DEF HeadersWhole

\* The buffer after a piece more.
LEMMA BufferGrows ==
    ASSUME recon \in Seq(Pieces), NEW x \in Pieces, recon' = Append(recon, x)
    PROVE  /\ recon' \in Seq(Pieces) /\ Len(recon) \in Nat
           /\ DOMAIN recon = 1 .. Len(recon) /\ DOMAIN recon' = 1 .. Len(recon) + 1
           /\ recon'[Len(recon) + 1] = x /\ \A i \in 1 .. Len(recon) : recon'[i] = recon[i]
  OBVIOUS

\* What the buffer keeps when it has a piece more; a header only without the page's own type.
LEMMA PiecePut ==
    ASSUME ResInv, NEW what, NEW end, <<what, end>> \in Pieces, Put(what, end),
           what # "text" => ~Sets("Content-Type"), what = "Content-Type" => contenttype',
           what \in Types => ~Sets("Default-Type"),
           contenttype => contenttype', refused \subseteq refused',
           <<what, end>> = <<"Set-Cookie", "within">> => "cookie" \in refused'
    PROVE  /\ (recon \in Seq(Pieces))' /\ TypeLast' /\ TypeOnce' /\ CutCookie'
           /\ Sets("Content-Type") => Sets("Content-Type")'
           /\ what = "Content-Type" => Sets("Content-Type")'
<1> DEFINE n == Len(recon)
           x == <<what, end>>
<1>1. /\ recon' \in Seq(Pieces) /\ n \in Nat /\ DOMAIN recon = 1 .. n
      /\ DOMAIN recon' = 1 .. n + 1
      /\ recon'[n + 1] = x /\ \A i \in 1 .. n : recon'[i] = recon[i]
  BY BufferGrows DEF ResInv, Put
<1>2. x[1] = what /\ x[2] = end
  OBVIOUS
<1>3. HIDE DEF x
<1>4. \A i \in 1 .. n + 1 : i \in 1 .. n \/ i = n + 1
  BY <1>1
<1>5. \A i \in 1 .. n : i \in 1 .. n + 1 /\ i # n + 1 /\ ~(n + 1 < i)
  BY <1>1
<1>6. Sets("Content-Type") => Sets("Content-Type")'
  BY <1>1, <1>5 DEF Sets
<1>7. what = "Content-Type" => Sets("Content-Type")'
  BY <1>1, <1>2 DEF Sets
<1>8. TypeLast'
  <2>1. SUFFICES ASSUME NEW i \in 1 .. n + 1, NEW j \in 1 .. n + 1, i < j,
                        recon'[i][1] = "Content-Type"
                 PROVE  recon'[j][1] = "text"
    BY <1>1 DEF TypeLast
  <2>2. i \in 1 .. n
    BY <1>1, <2>1
  <2>3. Sets("Content-Type")
    BY <1>1, <2>1, <2>2 DEF Sets
  <2>4. CASE j = n + 1
    BY <1>1, <1>2, <2>3, <2>4
  <2>5. CASE j \in 1 .. n
    BY <1>1, <2>1, <2>2, <2>5 DEF ResInv, TypeLast
  <2>6. QED
    BY <1>4, <2>4, <2>5
<1>9. TypeOnce'
  <2>1. ASSUME what \in Types, NEW i \in 1 .. n PROVE recon[i][1] \notin Types
    <3>1. what # "text"
      BY <2>1 DEF Types
    <3>2. QED
      BY <1>1, <2>1, <3>1 DEF Sets, Types
  <2>2. ASSUME NEW i \in 1 .. n + 1, NEW j \in 1 .. n + 1,
               recon'[i][1] \in Types, recon'[j][1] \in Types
        PROVE  i = j
    BY <1>1, <1>2, <1>4, <2>1, <2>2 DEF ResInv, TypeOnce
  <2>3. Sets("Content-Type")' => contenttype'
    <3>1. ASSUME NEW i \in 1 .. n + 1, recon'[i][1] = "Content-Type" PROVE contenttype'
      BY <1>1, <1>2, <1>4, <3>1 DEF ResInv, TypeOnce, Sets
    <3>2. QED
      BY <1>1, <3>1 DEF Sets
  <2>4. QED
    BY <1>1, <2>2, <2>3 DEF TypeOnce
<1>10. CutCookie'
  BY <1>1, <1>4 DEF ResInv, CutCookie, x
<1>11. QED
  BY <1>1, <1>6, <1>7, <1>8, <1>9, <1>10

LEMMA PagesPieces ==
    /\ <<"Set-Cookie", "line">> \in Pieces /\ <<"Set-Cookie", "within">> \in Pieces
    /\ <<"Content-Type", "headers">> \in Pieces /\ <<"Location", "headers">> \in Pieces
    /\ <<"Default-Type", "headers">> \in Pieces /\ <<"text", "within">> \in Pieces
    /\ <<"Set-Cookie", "line">> # <<"Set-Cookie", "within">>
  BY DEF Pieces

\* A piece more in the buffer and nothing printed.
LEMMA HeaderPutKeeps ==
    ASSUME ResInv, NEW what, NEW end, <<what, end>> \in Pieces, Put(what, end),
           what # "text" => ~Sets("Content-Type"), what = "Content-Type" => contenttype',
           what \in Types => ~Sets("Default-Type"),
           contenttype => contenttype', refused \subseteq refused',
           <<what, end>> = <<"Set-Cookie", "within">> => "cookie" \in refused',
           stdout' = stdout
    PROVE  ResInv'
<1>1. /\ (recon \in Seq(Pieces))' /\ TypeLast' /\ TypeOnce' /\ CutCookie'
      /\ Sets("Content-Type") => Sets("Content-Type")'
  BY PiecePut
<1>2. FileOnce'
  BY <1>1 DEF ResInv, FileOnce
<1>3. QED
  BY <1>1, <1>2 DEF ResInv

\* A call that puts nothing into the buffer and prints no description.
LEMMA NothingPut ==
    ASSUME ResInv, recon' = recon, refused \subseteq refused', contenttype => contenttype',
           stdout' = stdout
    PROVE  ResInv'
  BY DEF ResInv, TypeLast, TypeOnce, FileOnce, CutCookie, Sets

LEMMA PrintKeeps ==
    ASSUME ResInv, NEW s \in Seq(Prints), stdout' = stdout \o s,
           \A i \in DOMAIN s : s[i][1] # "Content-Disposition",
           Sets("Content-Type") => Sets("Content-Type")'
    PROVE  (stdout \in Seq(Prints))' /\ FileOnce'
<1>1. /\ Len(stdout) \in Nat /\ Len(s) \in Nat /\ stdout' \in Seq(Prints)
      /\ DOMAIN stdout = 1 .. Len(stdout) /\ DOMAIN s = 1 .. Len(s)
      /\ DOMAIN stdout' = 1 .. Len(stdout) + Len(s)
      /\ \A i \in DOMAIN stdout : stdout'[i] = stdout[i]
      /\ \A i \in DOMAIN s : stdout'[Len(stdout) + i] = s[i]
  BY DEF ResInv
<1>2. ASSUME NEW i \in DOMAIN stdout', stdout'[i][1] = "Content-Disposition"
      PROVE  i \in DOMAIN stdout /\ stdout'[i] = stdout[i]
  <2>1. CASE i > Len(stdout)
    <3>1. i - Len(stdout) \in DOMAIN s /\ i = Len(stdout) + (i - Len(stdout))
      BY <1>1, <2>1
    <3>2. QED
      BY <1>1, <1>2, <3>1
  <2>2. QED
    BY <1>1, <2>1
<1>3. QED
  BY <1>1, <1>2 DEF ResInv, FileOnce

LEMMA PrintsOneMore ==
    ASSUME NEW s \in Seq(Prints), NEW x \in Prints
    PROVE  /\ Append(s, x) = s \o <<x>> /\ s \o <<x>> \in Seq(Prints)
           /\ Len(s \o <<x>>) = Len(s) + 1 /\ DOMAIN (s \o <<x>>) = 1 .. Len(s) + 1
           /\ (s \o <<x>>)[Len(s) + 1] = x
           /\ \A i \in DOMAIN s : (s \o <<x>>)[i] = s[i]
<1> DEFINE t == Append(s, x)
<1>1. /\ Len(s) \in Nat /\ t \in Seq(Prints) /\ Len(t) = Len(s) + 1 /\ t[Len(s) + 1] = x
      /\ DOMAIN t = 1 .. Len(s) + 1 /\ \A i \in DOMAIN s : t[i] = s[i]
  OBVIOUS
<1>2. t = s \o <<x>>
  OBVIOUS
<1>3. HIDE DEF t
<1>4. QED
  BY <1>1, <1>2 DEF t

LEMMA PrintsTwoMore ==
    ASSUME NEW s \in Seq(Prints), NEW x \in Prints, NEW y \in Prints
    PROVE  /\ s \o <<x>> \o <<y>> \in Seq(Prints)
           /\ DOMAIN (s \o <<x>> \o <<y>>) = 1 .. Len(s) + 2
           /\ (s \o <<x>> \o <<y>>)[Len(s) + 2] = y
           /\ \A i \in DOMAIN s : (s \o <<x>> \o <<y>>)[i] = s[i]
<1> DEFINE t == s \o <<x>>
<1>1. /\ t \in Seq(Prints) /\ Len(t) = Len(s) + 1 /\ DOMAIN t = 1 .. Len(s) + 1
      /\ \A i \in DOMAIN s : t[i] = s[i]
  BY PrintsOneMore
<1>2. Len(s) \in Nat /\ DOMAIN s = 1 .. Len(s)
  OBVIOUS
<1>3. HIDE DEF t
<1>4. /\ t \o <<y>> \in Seq(Prints) /\ DOMAIN (t \o <<y>>) = 1 .. Len(t) + 1
      /\ (t \o <<y>>)[Len(t) + 1] = y /\ \A i \in DOMAIN t : (t \o <<y>>)[i] = t[i]
  BY <1>1, PrintsOneMore
<1>5. Len(t) + 1 = Len(s) + 2
  BY <1>1, <1>2
<1>6. \A i \in DOMAIN s : (t \o <<y>>)[i] = s[i]
  BY <1>1, <1>2, <1>4
<1>7. QED
  BY <1>4, <1>5, <1>6 DEF t

\* A download: its description, perhaps its file, and the content type.
LEMMA DownloadKeeps ==
    ASSUME ResInv, ~Sets("Default-Type"), ~contenttype, Put("Content-Type", "headers"),
           contenttype', UNCHANGED refused,
           NEW sent \in {<<>>, <<<<"file", "within">>>>},
           stdout' = stdout \o <<<<"Content-Disposition", "line">>>> \o sent
    PROVE  ResInv'
<1> DEFINE d == <<"Content-Disposition", "line">>
           f == <<"file", "within">>
<1>1. ~Sets("Content-Type")
  BY DEF ResInv, TypeOnce
<1>2. /\ (recon \in Seq(Pieces))' /\ TypeLast' /\ TypeOnce' /\ CutCookie'
      /\ Sets("Content-Type")'
  BY <1>1, PiecePut, PagesPieces, "Content-Type" # "Set-Cookie", "Content-Type" # "text"
<1>3. d \in Prints /\ f \in Prints /\ f[1] # "Content-Disposition"
  BY DEF Prints
<1>4. HIDE DEF d, f
<1>5. \A i \in DOMAIN stdout : stdout[i][1] # "Content-Disposition"
  BY <1>1 DEF ResInv, FileOnce
<1>6. /\ Len(stdout) \in Nat /\ stdout \in Seq(Prints) /\ DOMAIN stdout = 1 .. Len(stdout)
  BY DEF ResInv
<1>7. stdout' = stdout \o <<d>> \/ stdout' = stdout \o <<d>> \o <<f>>
  <2>1. sent = <<>> => stdout \o <<d>> \o sent = stdout \o <<d>>
    BY <1>3, <1>6
  <2>2. QED
    BY <2>1 DEF d, f
<1>8. CASE stdout' = stdout \o <<d>>
  <2>1. /\ stdout' \in Seq(Prints) /\ DOMAIN stdout' = 1 .. Len(stdout) + 1
        /\ \A i \in DOMAIN stdout : stdout'[i] = stdout[i]
    <3>1. /\ stdout \o <<d>> \in Seq(Prints) /\ DOMAIN (stdout \o <<d>>) = 1 .. Len(stdout) + 1
          /\ \A i \in DOMAIN stdout : (stdout \o <<d>>)[i] = stdout[i]
      BY <1>3, <1>6, PrintsOneMore, Zenon
    <3>2. QED
      BY <1>8, <3>1, Zenon
  <2>2. \A i \in DOMAIN stdout' : i \in DOMAIN stdout \/ i = Len(stdout) + 1
    BY <1>6, <2>1
  <2>3. FileOnce'
    BY <1>2, <1>5, <2>1, <2>2 DEF FileOnce
  <2>4. QED
    BY <1>2, <2>1, <2>3 DEF ResInv
<1>9. CASE stdout' = stdout \o <<d>> \o <<f>>
  <2>1. /\ stdout' \in Seq(Prints) /\ DOMAIN stdout' = 1 .. Len(stdout) + 2
        /\ stdout'[Len(stdout) + 2] = f
        /\ \A i \in DOMAIN stdout : stdout'[i] = stdout[i]
    <3>1. /\ stdout \o <<d>> \o <<f>> \in Seq(Prints)
          /\ DOMAIN (stdout \o <<d>> \o <<f>>) = 1 .. Len(stdout) + 2
          /\ (stdout \o <<d>> \o <<f>>)[Len(stdout) + 2] = f
          /\ \A i \in DOMAIN stdout : (stdout \o <<d>> \o <<f>>)[i] = stdout[i]
      BY <1>3, <1>6, PrintsTwoMore, Zenon
    <3>2. QED
      BY <1>9, <3>1, Zenon
  <2>2. \A i \in DOMAIN stdout' :
           i \in DOMAIN stdout \/ i = Len(stdout) + 1 \/ i = Len(stdout) + 2
    BY <1>6, <2>1
  <2>3. FileOnce'
    BY <1>2, <1>3, <1>5, <2>1, <2>2 DEF FileOnce
  <2>4. QED
    BY <1>2, <2>1, <2>3 DEF ResInv
<1>10. QED
  BY <1>7, <1>8, <1>9

LEMMA ResStep ==
    ASSUME ResInv, [ResNext]_resVars
    PROVE  ResInv'
<1>0. ~contenttype => ~Sets("Content-Type")
  BY DEF ResInv, TypeOnce
<1>1. CASE Parsed
  BY <1>1, NothingPut DEF Parsed
<1>2. CASE DefaultType
  BY <1>2, HeaderPutKeeps, PagesPieces DEF DefaultType
<1>3. CASE qcgires_setcookie
  BY <1>0, <1>3, NothingPut, HeaderPutKeeps, PagesPieces
     DEF qcgires_setcookie, Rejects, BeforeType, Types
<1>4. CASE qcgires_setcontenttype
  BY <1>0, <1>4, NothingPut, HeaderPutKeeps, PagesPieces DEF qcgires_setcontenttype, Rejects
<1>5. CASE qcgires_redirect
  BY <1>0, <1>5, NothingPut, HeaderPutKeeps, PagesPieces DEF qcgires_redirect, Rejects, Types
<1>6. CASE qcgires_download
  BY <1>6, NothingPut, DownloadKeeps DEF qcgires_download, Rejects
<1>7. CASE qcgires_error
  <2>1. PICK s \in {<<<<"Content-Type", "headers">>, <<"text", "line">>>>, <<<<"text", "line">>>>} :
           stdout' = stdout \o s
    BY <1>7 DEF qcgires_error, ResInv
  <2>2. s \in Seq(Prints) /\ \A i \in DOMAIN s : s[i][1] # "Content-Disposition"
    <3>1. /\ <<"Content-Type", "headers">> \in Prints /\ <<"text", "line">> \in Prints
      BY DEF Prints
    <3>2. CASE s = <<<<"Content-Type", "headers">>, <<"text", "line">>>>
      <4>1. DOMAIN s = {1, 2} /\ s[1][1] = "Content-Type" /\ s[2][1] = "text"
        BY <3>2
      <4>2. s \in Seq(Prints)
        BY <3>1, <3>2
      <4>3. QED
        BY <4>1, <4>2
    <3>3. CASE s = <<<<"text", "line">>>>
      <4>1. DOMAIN s = {1} /\ s[1][1] = "text"
        BY <3>3
      <4>2. s \in Seq(Prints)
        BY <3>1, <3>3
      <4>3. QED
        BY <4>1, <4>2
    <3>4. QED
      BY <3>2, <3>3
  <2>3. recon' = recon /\ contenttype' = contenttype /\ refused' = refused
    BY <1>7 DEF qcgires_error
  <2>4. Sets("Content-Type") => Sets("Content-Type")'
    BY <2>3 DEF Sets
  <2>5. (stdout \in Seq(Prints))' /\ FileOnce'
    BY <2>1, <2>2, <2>4, PrintKeeps
  <2>6. QED
    BY <2>3, <2>5 DEF ResInv, TypeLast, TypeOnce, CutCookie, Sets
<1>8. CASE Echo
  BY <1>8, HeaderPutKeeps, PagesPieces DEF Echo, Types
<1>9. CASE UNCHANGED resVars
  BY <1>9, NothingPut DEF resVars
<1>10. QED
  BY <1>1, <1>2, <1>3, <1>4, <1>5, <1>6, <1>7, <1>8, <1>9 DEF ResNext

(* Whatever a page calls, however often: what is out of place in its answer *)
(* comes from an error page, a redirect, the content type of spc, a cookie  *)
(* that was refused or a file that goes before its content type, and from    *)
(* no other call.                                                           *)
THEOREM HeadersWholeAlways == ResSpec => []HeadersWhole
<1>1. ResInit => ResInv
  <2>1. ASSUME NEW s, s = <<>> PROVE DOMAIN s = {} /\ s \in Seq(Pieces) /\ s \in Seq(Prints)
    BY <2>1
  <2>2. QED
    BY <2>1 DEF ResInit, ResInv, TypeLast, TypeOnce, FileOnce, CutCookie, Sets
<1>2. ResInv /\ [ResNext]_resVars => ResInv'
  BY ResStep
<1>3. ResInv => HeadersWhole
  BY ResSays
<1>4. QED
  BY <1>1, <1>2, <1>3, PTL DEF ResSpec

-----------------------------------------------------------------------------
(* Induction over numbers, and what Only picks *)

LEMMA Induction ==
    ASSUME NEW T, T \subseteq Nat, 0 \in T, \A n \in T : n + 1 \in T
    PROVE  T = Nat
<1> SUFFICES ASSUME Nat \ T # {} PROVE FALSE
  OBVIOUS
<1>1. PICK n \in Nat \ T : \A k \in Nat \ T : ~(<<k, n>> \in OpToRel(<, Nat))
  BY NatLessThanWellFounded, WFMin
<1>2. n # 0 /\ n - 1 \in Nat
  OBVIOUS
<1>3. n - 1 \notin T
  BY <1>2
<1>4. <<n - 1, n>> \in OpToRel(<, Nat)
  BY <1>2 DEF OpToRel
<1>5. QED
  BY <1>1, <1>2, <1>3, <1>4

LEMMA InductionUpTo ==
    ASSUME NEW n \in Nat, NEW T, 0 \in T, \A k \in 0 .. n - 1 : k \in T => k + 1 \in T
    PROVE  \A k \in 0 .. n : k \in T
<1> DEFINE S == {k \in Nat : k <= n => k \in T}
<1>1. 0 \in S
  OBVIOUS
<1>2. ASSUME NEW k \in S
      PROVE  k + 1 \in S
  <2>1. ASSUME k + 1 <= n PROVE k + 1 \in T
    <3>1. k \in 0 .. n - 1 /\ k <= n
      BY <2>1
    <3>2. QED
      BY <3>1
  <2>2. QED
    BY <2>1
<1>3. S = Nat
  <2>1. S \subseteq Nat
    OBVIOUS
  <2> HIDE DEF S
  <2>2. QED
    BY <1>1, <1>2, <2>1, Induction
<1>4. QED
  BY <1>3

(* What Only picks from the first elements of a sequence.                    *)
Picks(s, S, p) ==
    /\ p[0] = <<>>
    /\ \A k \in 1 .. Len(s) : p[k] = IF s[k] \in S THEN Append(p[k - 1], s[k]) ELSE p[k - 1]

PickOf(s, S, p, k) ==
    IF k = 0 THEN <<>> ELSE IF s[k] \in S THEN Append(p[k - 1], s[k]) ELSE p[k - 1]

LEMMA PicksUpTo ==
    ASSUME NEW X, NEW s \in Seq(X), NEW S, NEW n \in 0 .. Len(s)
    PROVE  \E p : p = [k \in 0 .. n |-> PickOf(s, S, p, k)]
<1> DEFINE W(p, k) == PickOf(s, S, p, k)
           T == {k \in Nat : \E p : p = [j \in 0 .. k |-> W(p, j)]}
<1>1. 0 \in T
  <2> DEFINE p == [j \in 0 .. 0 |-> <<>>]
  <2>1. \A j \in 0 .. 0 : j = 0
    OBVIOUS
  <2>2. p = [j \in 0 .. 0 |-> W(p, j)]
    BY <2>1 DEF PickOf
  <2> HIDE DEF p, W
  <2>3. QED
    BY <2>2
<1>2. ASSUME NEW k \in T
      PROVE  k + 1 \in T
  <2>1. PICK p : p = [j \in 0 .. k |-> W(p, j)]
    OBVIOUS
  <2> DEFINE q == [j \in 0 .. k + 1 |-> IF j \in 0 .. k THEN p[j] ELSE W(p, j)]
  <2>2. ASSUME NEW j \in 0 .. k + 1
        PROVE  W(q, j) = W(p, j)
    <3>1. CASE j = 0
      BY <3>1 DEF PickOf
    <3>2. CASE j # 0
      <4>1. j - 1 \in 0 .. k /\ j - 1 \in 0 .. k + 1
        BY <3>2
      <4>2. q[j - 1] = p[j - 1]
        BY <4>1
      <4>3. HIDE DEF q
      <4>4. QED
        BY <4>2 DEF PickOf
    <3>3. QED
      BY <3>1, <3>2
  <2>3. \A j \in 0 .. k : p[j] = W(p, j)
    BY <2>1
  <2>4. q = [j \in 0 .. k + 1 |-> W(q, j)]
    <3> HIDE DEF W
    <3>1. QED
      BY <2>2, <2>3
  <2> HIDE DEF q, W
  <2>5. QED
    BY <2>4
<1>3. T = Nat
  <2>1. T \subseteq Nat
    OBVIOUS
  <2> HIDE DEF T
  <2>2. QED
    BY <1>1, <1>2, <2>1, Induction
<1>4. n \in T
  <2>1. n \in Nat
    OBVIOUS
  <2> HIDE DEF T
  <2>2. QED
    BY <1>3, <2>1
<1>5. QED
  BY <1>4

LEMMA OnlyIs ==
    ASSUME NEW X, NEW s \in Seq(X), NEW S
    PROVE  \E p : /\ \A k \in 0 .. Len(s) : p[k] \in Seq(X)
                  /\ Picks(s, S, p)
                  /\ Only(s, S) = p[Len(s)]
<1> DEFINE n == Len(s)
           W(q) == [k \in 0 .. n |-> PickOf(s, S, q, k)]
           p == CHOOSE q : q = W(q)
<1>1. n \in Nat /\ n \in 0 .. n /\ \A k \in 1 .. n : s[k] \in X
  OBVIOUS
<1>2. p = W(p)
  <2>1. \E q : q = W(q)
    BY <1>1, PicksUpTo
  <2> HIDE DEF W
  <2>2. QED
    BY <2>1
<1>3. Only(s, S) = p[n]
  BY DEF Only, PickOf
<1> HIDE DEF p
<1>4. /\ p[0] = <<>>
      /\ \A k \in 1 .. n : p[k] = IF s[k] \in S THEN Append(p[k - 1], s[k]) ELSE p[k - 1]
  <2>1. W(p)[0] = <<>>
    BY <1>1 DEF PickOf
  <2>2. ASSUME NEW k \in 1 .. n
        PROVE  W(p)[k] = IF s[k] \in S THEN Append(p[k - 1], s[k]) ELSE p[k - 1]
    <3>1. k \in 0 .. n /\ k # 0
      BY <1>1
    <3>2. QED
      BY <3>1 DEF PickOf
  <2> HIDE DEF W
  <2>3. QED
    BY <1>2, <2>1, <2>2
<1> HIDE DEF W
<1>5. \A k \in 0 .. n : p[k] \in Seq(X)
  <2> DEFINE T == {k \in 0 .. n : p[k] \in Seq(X)}
  <2>1. 0 \in T
    <3>1. <<>> \in Seq(X)
      OBVIOUS
    <3>2. p[0] \in Seq(X) /\ 0 \in 0 .. n
      BY <1>1, <1>4, <3>1
    <3>3. QED
      BY <3>2
  <2>2. ASSUME NEW k \in 0 .. n - 1, k \in T
        PROVE  k + 1 \in T
    <3>1. k + 1 \in 1 .. n /\ (k + 1) - 1 = k /\ k + 1 \in 0 .. n
      BY <1>1
    <3>2. p[k + 1] = IF s[k + 1] \in S THEN Append(p[k], s[k + 1]) ELSE p[k]
      BY <1>4, <3>1
    <3>3. p[k] \in Seq(X) /\ s[k + 1] \in X
      BY <1>1, <2>2, <3>1
    <3>4. p[k + 1] \in Seq(X)
      BY <3>2, <3>3
    <3>5. QED
      BY <3>1, <3>4
  <2> HIDE DEF T, n
  <2>3. \A k \in 0 .. n : k \in T
    BY <1>1, <2>1, <2>2, InductionUpTo
  <2>4. QED
    BY <2>3 DEF T
<1>6. Picks(s, S, p)
  BY <1>4 DEF Picks
<1>7. QED
  BY <1>3, <1>5, <1>6

\* Two picks from beginnings that are the same are the same.
LEMMA PicksAlike ==
    ASSUME NEW s, NEW S, NEW p, NEW t, NEW U, NEW q, NEW j \in Nat,
           Len(s) \in Nat, Len(t) \in Nat, j <= Len(s), j <= Len(t),
           Picks(s, S, p), Picks(t, U, q),
           \A k \in 1 .. j : s[k] = t[k] /\ (s[k] \in S <=> t[k] \in U)
    PROVE  \A k \in 0 .. j : p[k] = q[k]
<1> DEFINE T == {k \in 0 .. j : p[k] = q[k]}
<1>1. 0 \in T
  BY DEF Picks
<1>2. ASSUME NEW k \in 0 .. j - 1, k \in T
      PROVE  k + 1 \in T
  <2>1. /\ k + 1 \in 1 .. j /\ k + 1 \in 1 .. Len(s) /\ k + 1 \in 1 .. Len(t)
        /\ (k + 1) - 1 = k /\ k + 1 \in 0 .. j
    OBVIOUS
  <2>2. /\ p[k + 1] = IF s[k + 1] \in S THEN Append(p[k], s[k + 1]) ELSE p[k]
        /\ q[k + 1] = IF t[k + 1] \in U THEN Append(q[k], t[k + 1]) ELSE q[k]
    BY <2>1 DEF Picks
  <2>3. p[k + 1] = q[k + 1]
    BY <1>2, <2>1, <2>2
  <2>4. QED
    BY <2>1, <2>3
<1> HIDE DEF T
<1>3. \A k \in 0 .. j : k \in T
  BY <1>1, <1>2, InductionUpTo
<1>4. QED
  BY <1>3 DEF T

\* Without an element of S from j to k the pick stays; with one at k it ends there.
LEMMA PicksNone ==
    ASSUME NEW s, NEW S, NEW p, Len(s) \in Nat, Picks(s, S, p),
           NEW j \in 0 .. Len(s), NEW k \in j .. Len(s), \A i \in j + 1 .. k : s[i] \notin S
    PROVE  p[k] = p[j]
<1> DEFINE m == k - j
           T == {i \in 0 .. m : p[j + i] = p[j]}
<1>1. m \in Nat /\ j + m = k /\ j \in Nat /\ k \in Nat
  OBVIOUS
<1>2. 0 \in T
  <2>1. j + 0 = j
    OBVIOUS
  <2>2. QED
    BY <1>1, <2>1
<1> HIDE DEF m
<1>3. ASSUME NEW i \in 0 .. m - 1, i \in T
      PROVE  i + 1 \in T
  <2>1. /\ j + (i + 1) \in 1 .. Len(s) /\ j + (i + 1) \in j + 1 .. k
        /\ (j + (i + 1)) - 1 = j + i /\ i + 1 \in 0 .. m
    BY <1>1
  <2>2. p[j + (i + 1)] = p[j + i]
    BY <2>1 DEF Picks
  <2>3. QED
    BY <1>3, <2>1, <2>2
<1> HIDE DEF T
<1>4. \A i \in 0 .. m : i \in T
  BY <1>1, <1>2, <1>3, InductionUpTo
<1>5. m \in T
  BY <1>1, <1>4
<1>6. QED
  BY <1>1, <1>5 DEF T

\* An earlier pick is the beginning of a later one.
LEMMA PicksGrow ==
    ASSUME NEW X, NEW s \in Seq(X), NEW S, NEW p, Picks(s, S, p),
           \A k \in 0 .. Len(s) : p[k] \in Seq(X),
           NEW j \in 0 .. Len(s), NEW k \in j .. Len(s)
    PROVE  /\ Len(p[j]) <= Len(p[k])
           /\ \A i \in 1 .. Len(p[j]) : p[k][i] = p[j][i]
<1> DEFINE m == k - j
           Within(a, b) == Len(a) <= Len(b) /\ \A i \in 1 .. Len(a) : b[i] = a[i]
           T == {i \in 0 .. m : Within(p[j], p[j + i])}
<1>1. m \in Nat /\ j + m = k /\ j \in Nat /\ k \in Nat /\ Len(s) \in Nat
  OBVIOUS
<1>2. 0 \in T
  <2>1. j + 0 = j /\ p[j] \in Seq(X)
    OBVIOUS
  <2>2. Within(p[j], p[j + 0])
    <3>1. Len(p[j]) \in Nat
      BY <2>1
    <3>2. QED
      BY <2>1, <3>1
  <2> HIDE DEF Within
  <2>3. QED
    BY <1>1, <2>2
<1> HIDE DEF m
<1>3. ASSUME NEW i \in 0 .. m - 1, i \in T
      PROVE  i + 1 \in T
  <2>1. /\ j + (i + 1) \in 1 .. Len(s) /\ j + i \in 0 .. Len(s)
        /\ (j + (i + 1)) - 1 = j + i /\ i + 1 \in 0 .. m
    BY <1>1
  <2> DEFINE a == p[j]
             b == p[j + i]
             x == s[j + (i + 1)]
             c == p[j + (i + 1)]
  <2>2. a \in Seq(X) /\ b \in Seq(X) /\ x \in X /\ (c = b \/ c = Append(b, x))
    <3>1. a \in Seq(X) /\ b \in Seq(X) /\ x \in X
      BY <1>1, <2>1
    <3>2. c = IF x \in S THEN Append(b, x) ELSE b
      BY <2>1 DEF Picks
    <3>3. QED
      BY <3>1, <3>2
  <2>3. Within(a, b)
    BY <1>3
  <2> HIDE DEF a, b, c, x
  <2>4. Within(a, c)
    <3>1. Len(a) \in Nat /\ Len(b) \in Nat /\ Len(a) <= Len(b)
      BY <2>2, <2>3
    <3>2. CASE c = b
      BY <2>3, <3>2
    <3>3. CASE c = Append(b, x)
      <4>1. Len(c) = Len(b) + 1 /\ \A n \in 1 .. Len(b) : c[n] = b[n]
        BY <2>2, <3>1, <3>3
      <4>2. \A n \in 1 .. Len(a) : n \in 1 .. Len(b)
        BY <3>1
      <4>3. QED
        BY <2>3, <3>1, <4>1, <4>2
    <3>4. QED
      BY <2>2, <3>2, <3>3
  <2> HIDE DEF Within
  <2>5. QED
    BY <2>1, <2>4 DEF a, c
<1> HIDE DEF T
<1>4. \A i \in 0 .. m : i \in T
  BY <1>1, <1>2, <1>3, InductionUpTo
<1>5. m \in T
  BY <1>1, <1>4
<1>6. QED
  BY <1>1, <1>5 DEF T

LEMMA AppendElems ==
    ASSUME NEW X, NEW q \in Seq(X), NEW x \in X
    PROVE  /\ Append(q, x) \in Seq(X) /\ Len(Append(q, x)) = Len(q) + 1
           /\ Append(q, x)[Len(q) + 1] = x /\ \A i \in 1 .. Len(q) : Append(q, x)[i] = q[i]
           /\ Len(q) \in Nat /\ DOMAIN q = 1 .. Len(q) /\ DOMAIN Append(q, x) = 1 .. Len(q) + 1
           /\ \A i \in 1 .. Len(q) + 1 : i \in 1 .. Len(q) \/ i = Len(q) + 1
<1>1. Len(q) \in Nat /\ DOMAIN q = 1 .. Len(q)
  OBVIOUS
<1>2. /\ Append(q, x) \in Seq(X) /\ Len(Append(q, x)) = Len(q) + 1
      /\ Append(q, x)[Len(q) + 1] = x /\ \A i \in 1 .. Len(q) : Append(q, x)[i] = q[i]
  BY <1>1
<1>3. DOMAIN Append(q, x) = 1 .. Len(q) + 1
  BY <1>2
<1>4. \A i \in 1 .. Len(q) + 1 : i \in 1 .. Len(q) \/ i = Len(q) + 1
  BY <1>1
<1>5. QED
  BY <1>1, <1>2, <1>3, <1>4

\* The values of a sequence.
Values(s) == {s[i] : i \in DOMAIN s}
Once(s)   == \A i, j \in DOMAIN s : s[i] = s[j] => i = j

LEMMA AppendValues ==
    ASSUME NEW X, NEW q \in Seq(X), NEW x \in X
    PROVE  /\ Values(Append(q, x)) = Values(q) \cup {x}
           /\ Once(q) /\ x \notin Values(q) => Once(Append(q, x))
<1> DEFINE n == Len(q)
           a == Append(q, x)
<1>1. /\ n \in Nat /\ DOMAIN q = 1 .. n /\ DOMAIN a = 1 .. n + 1
      /\ a[n + 1] = x /\ (\A i \in 1 .. n : a[i] = q[i])
      /\ \A i \in 1 .. n + 1 : i \in 1 .. n \/ i = n + 1
  BY AppendElems
<1>2. n + 1 \in 1 .. n + 1 /\ \A i \in 1 .. n : i \in 1 .. n + 1
  BY <1>1
<1> HIDE DEF n, a
<1>3. Values(a) = Values(q) \cup {x}
  BY <1>1, <1>2 DEF Values
<1>4. ASSUME Once(q), x \notin Values(q)
      PROVE  Once(a)
  BY <1>1, <1>4 DEF Once, Values
<1>5. QED
  BY <1>3, <1>4 DEF a

\* The first k values of a sequence.
FirstOnes(s, k) == {s[i] : i \in 1 .. k}

LEMMA PicksValues ==
    ASSUME NEW X, NEW s \in Seq(X), NEW S, NEW p, Picks(s, S, p),
           \A k \in 0 .. Len(s) : p[k] \in Seq(X)
    PROVE  \A k \in 0 .. Len(s) : Values(p[k]) = FirstOnes(s, k) \cap S
<1> DEFINE n == Len(s)
           T == {k \in 0 .. n : Values(p[k]) = FirstOnes(s, k) \cap S}
<1>1. n \in Nat
  OBVIOUS
<1>2. 0 \in T
  <2>1. p[0] = <<>> /\ 0 \in 0 .. n
    BY <1>1 DEF Picks
  <2>2. Values(<<>>) = {}
    BY DEF Values
  <2>3. FirstOnes(s, 0) = {}
    BY DEF FirstOnes
  <2>4. QED
    BY <2>1, <2>2, <2>3
<1>3. ASSUME NEW k \in 0 .. n - 1, k \in T
      PROVE  k + 1 \in T
  <2>1. k + 1 \in 1 .. n /\ (k + 1) - 1 = k /\ k + 1 \in 0 .. n /\ k \in 0 .. n
    BY <1>1
  <2>2. p[k + 1] = IF s[k + 1] \in S THEN Append(p[k], s[k + 1]) ELSE p[k]
    BY <2>1 DEF Picks
  <2>3. FirstOnes(s, k + 1) = FirstOnes(s, k) \cup {s[k + 1]}
    <3>1. \A i \in 1 .. k + 1 : i \in 1 .. k \/ i = k + 1
      BY <2>1
    <3>2. k + 1 \in 1 .. k + 1 /\ \A i \in 1 .. k : i \in 1 .. k + 1
      BY <2>1
    <3>3. QED
      BY <3>1, <3>2 DEF FirstOnes
  <2>4. p[k] \in Seq(X) /\ s[k + 1] \in X
    BY <2>1
  <2>5. Values(p[k]) = FirstOnes(s, k) \cap S
    BY <1>3
  <2>6. Values(p[k + 1]) = FirstOnes(s, k + 1) \cap S
    <3>1. CASE s[k + 1] \in S
      <4>1. Values(p[k + 1]) = Values(p[k]) \cup {s[k + 1]}
        BY <2>2, <2>4, <3>1, AppendValues
      <4>2. QED
        BY <2>3, <2>5, <3>1, <4>1
    <3>2. CASE s[k + 1] \notin S
      BY <2>2, <2>3, <2>5, <3>2
    <3>3. QED
      BY <3>1, <3>2
  <2>7. QED
    BY <2>1, <2>6
<1> HIDE DEF T, n
<1>4. \A k \in 0 .. n : k \in T
  BY <1>1, <1>2, <1>3, InductionUpTo
<1>5. QED
  BY <1>4 DEF T, n

LEMMA PicksOnce ==
    ASSUME NEW X, NEW s \in Seq(X), NEW S, NEW p, Picks(s, S, p), Once(s),
           \A k \in 0 .. Len(s) : p[k] \in Seq(X)
    PROVE  \A k \in 0 .. Len(s) : Once(p[k])
<1> DEFINE n == Len(s)
           T == {k \in 0 .. n : Once(p[k])}
<1>1. n \in Nat /\ DOMAIN s = 1 .. n
  OBVIOUS
<1>2. 0 \in T
  <2>1. p[0] = <<>> /\ 0 \in 0 .. n
    BY <1>1 DEF Picks
  <2>2. Once(<<>>)
    BY DEF Once
  <2>3. QED
    BY <2>1, <2>2
<1>3. ASSUME NEW k \in 0 .. n - 1, k \in T
      PROVE  k + 1 \in T
  <2>1. k + 1 \in 1 .. n /\ (k + 1) - 1 = k /\ k + 1 \in 0 .. n /\ k \in 0 .. n
    BY <1>1
  <2>2. p[k + 1] = IF s[k + 1] \in S THEN Append(p[k], s[k + 1]) ELSE p[k]
    BY <2>1 DEF Picks
  <2>3. p[k] \in Seq(X) /\ s[k + 1] \in X
    BY <2>1
  <2>4. s[k + 1] \notin Values(p[k])
    <3>1. Values(p[k]) = FirstOnes(s, k) \cap S
      BY <2>1, PicksValues
    <3>2. \A i \in 1 .. k : i \in 1 .. n /\ i # k + 1
      BY <2>1
    <3>3. \A i \in 1 .. k : s[i] # s[k + 1]
      BY <1>1, <2>1, <3>2 DEF Once
    <3>4. QED
      BY <3>1, <3>3 DEF FirstOnes
  <2>5. Once(p[k + 1])
    BY <1>3, <2>2, <2>3, <2>4, AppendValues
  <2>6. QED
    BY <2>1, <2>5
<1> HIDE DEF T, n
<1>4. \A k \in 0 .. n : k \in T
  BY <1>1, <1>2, <1>3, InductionUpTo
<1>5. QED
  BY <1>4 DEF T, n

LEMMA OnlySet ==
    ASSUME NEW X, NEW s \in Seq(X), NEW S
    PROVE  /\ Only(s, S) \in Seq(X) /\ Values(Only(s, S)) = Values(s) \cap S
           /\ Once(s) => Once(Only(s, S))
<1>1. PICK p : /\ \A k \in 0 .. Len(s) : p[k] \in Seq(X)
               /\ Picks(s, S, p)
               /\ Only(s, S) = p[Len(s)]
  BY OnlyIs
<1>2. Len(s) \in 0 .. Len(s) /\ DOMAIN s = 1 .. Len(s)
  OBVIOUS
<1>3. Values(p[Len(s)]) = FirstOnes(s, Len(s)) \cap S
  <2>1. \A k \in 0 .. Len(s) : Values(p[k]) = FirstOnes(s, k) \cap S
    BY <1>1, PicksValues
  <2>2. QED
    BY <1>2, <2>1
<1>4. Once(s) => Once(p[Len(s)])
  BY <1>1, <1>2, PicksOnce
<1>5. QED
  BY <1>1, <1>2, <1>3, <1>4 DEF Values, FirstOnes

LEMMA SameSeq ==
    ASSUME NEW X, NEW s \in Seq(X), NEW t \in Seq(X), Len(s) = Len(t),
           \A i \in 1 .. Len(s) : s[i] = t[i]
    PROVE  s = t
  OBVIOUS

LEMMA OnlyAll ==
    ASSUME NEW X, NEW s \in Seq(X), NEW S, \A i \in DOMAIN s : s[i] \in S
    PROVE  Only(s, S) = s
<1>1. PICK p : /\ \A k \in 0 .. Len(s) : p[k] \in Seq(X)
               /\ Picks(s, S, p)
               /\ Only(s, S) = p[Len(s)]
  BY OnlyIs
<1> DEFINE n == Len(s)
           Same(k) == Len(p[k]) = k /\ \A i \in 1 .. k : p[k][i] = s[i]
           T == {k \in 0 .. n : Same(k)}
<1>2. n \in Nat /\ DOMAIN s = 1 .. n
  OBVIOUS
<1>3. 0 \in T
  <2>1. p[0] = <<>> /\ 0 \in 0 .. n
    BY <1>1, <1>2 DEF Picks
  <2>2. Len(<<>>) = 0
    OBVIOUS
  <2>3. Same(0)
    BY <2>1, <2>2
  <2> HIDE DEF Same
  <2>4. QED
    BY <2>1, <2>3
<1>4. ASSUME NEW k \in 0 .. n - 1, k \in T
      PROVE  k + 1 \in T
  <2>1. k + 1 \in 1 .. n /\ (k + 1) - 1 = k /\ k + 1 \in 0 .. n /\ k \in 0 .. n
    BY <1>2
  <2>2. p[k + 1] = Append(p[k], s[k + 1]) /\ p[k] \in Seq(X) /\ s[k + 1] \in X
    <3>1. p[k] \in Seq(X) /\ s[k + 1] \in X /\ s[k + 1] \in S
      BY <1>1, <1>2, <2>1
    <3>2. p[k + 1] = IF s[k + 1] \in S THEN Append(p[k], s[k + 1]) ELSE p[k]
      BY <1>1, <2>1 DEF Picks
    <3>3. QED
      BY <3>1, <3>2
  <2>3. Same(k)
    BY <1>4
  <2>4. Same(k + 1)
    BY <2>2, <2>3, AppendElems
  <2> HIDE DEF Same
  <2>5. QED
    BY <2>1, <2>4
<1> HIDE DEF T, n, Same
<1>5. \A k \in 0 .. n : k \in T
  BY <1>2, <1>3, <1>4, InductionUpTo
<1>6. Same(n)
  <2>1. n \in 0 .. n
    BY <1>2
  <2>2. QED
    BY <1>5, <2>1 DEF T
<1>7. p[n] \in Seq(X)
  BY <1>1, <1>2 DEF n
<1>8. p[n] = s
  BY <1>6, <1>7, SameSeq DEF Same, n
<1>9. QED
  BY <1>1, <1>8 DEF n

\* What is picked from the beginning of a sequence.
LEMMA OnlyBegin ==
    ASSUME NEW X, NEW s \in Seq(X), NEW S, NEW p, Picks(s, S, p),
           NEW t \in Seq(X), NEW U, Len(t) <= Len(s),
           \A k \in 1 .. Len(t) : s[k] = t[k] /\ (s[k] \in S <=> t[k] \in U)
    PROVE  Only(t, U) = p[Len(t)]
<1>1. PICK q : Picks(t, U, q) /\ Only(t, U) = q[Len(t)]
  BY OnlyIs
<1> DEFINE j == Len(t)
           n == Len(s)
<1>2. j \in Nat /\ n \in Nat /\ j <= n /\ j \in 0 .. j
  OBVIOUS
<1>3. \A k \in 1 .. j : s[k] = t[k] /\ (s[k] \in S <=> t[k] \in U)
  OBVIOUS
<1>4. \A k \in 0 .. j : p[k] = q[k]
  BY <1>1, <1>2, <1>3, PicksAlike
<1>5. QED
  BY <1>1, <1>2, <1>4

LEMMA OnlyAlike ==
    ASSUME NEW X, NEW s \in Seq(X), NEW S, NEW U, \A k \in DOMAIN s : s[k] \in S <=> s[k] \in U
    PROVE  Only(s, S) = Only(s, U)
<1>1. PICK p : Picks(s, S, p) /\ Only(s, S) = p[Len(s)]
  BY OnlyIs
<1>2. Len(s) <= Len(s) /\ \A k \in 1 .. Len(s) : s[k] \in S <=> s[k] \in U
  OBVIOUS
<1>3. QED
  BY <1>1, <1>2, OnlyBegin

\* The first one that is picked.
LEMMA OnlyFirst ==
    ASSUME NEW X, NEW s \in Seq(X), NEW S, Only(s, S) # <<>>
    PROVE  \E i \in DOMAIN s : /\ Only(s, S)[1] = s[i] /\ s[i] \in S
                               /\ \A k \in DOMAIN s : k < i => s[k] \notin S
<1>1. PICK p : /\ \A k \in 0 .. Len(s) : p[k] \in Seq(X)
               /\ Picks(s, S, p)
               /\ Only(s, S) = p[Len(s)]
  BY OnlyIs
<1> DEFINE n == Len(s)
           has == {i \in 1 .. n : s[i] \in S}
<1>2. n \in Nat /\ DOMAIN s = 1 .. n /\ n \in 0 .. n
  OBVIOUS
<1>3. has # {}
  <2>1. ASSUME has = {} PROVE FALSE
    <3>1. \A i \in 0 + 1 .. n : s[i] \notin S
      BY <2>1
    <3>2. 0 \in 0 .. n /\ n \in 0 .. n
      BY <1>2
    <3>3. p[n] = p[0]
      BY <1>1, <1>2, <3>1, <3>2, PicksNone
    <3>4. QED
      BY <1>1, <3>3 DEF Picks
  <2>2. QED
    BY <2>1
<1>4. PICK i \in has : \A k \in has : ~(<<k, i>> \in OpToRel(<, Nat))
  <2>1. has \subseteq Nat
    OBVIOUS
  <2> HIDE DEF has
  <2>2. QED
    BY <1>3, <2>1, NatLessThanWellFounded, WFMin
<1>5. \A k \in 1 .. n : k < i => s[k] \notin S
  <2>1. has \subseteq Nat
    OBVIOUS
  <2> HIDE DEF has
  <2>2. \A k \in has : ~(k < i)
    BY <1>4, <2>1 DEF OpToRel
  <2>3. QED
    BY <2>2 DEF has
<1>6. i \in 1 .. n /\ s[i] \in S /\ i - 1 \in 0 .. n /\ i \in i .. n /\ n \in i .. n /\ i \in 0 .. n
      /\ i - 1 \in 0 .. i - 1
  BY <1>2
<1>7. p[i - 1] = <<>>
  <2>1. \A k \in 0 + 1 .. i - 1 : s[k] \notin S
    BY <1>2, <1>5
  <2>2. 0 \in 0 .. n
    BY <1>2
  <2>3. p[i - 1] = p[0]
    BY <1>1, <1>2, <1>6, <2>1, <2>2, PicksNone
  <2>4. QED
    BY <1>1, <2>3 DEF Picks
<1>8. p[i] = <<s[i]>>
  <2>1. p[i] = Append(p[i - 1], s[i])
    BY <1>1, <1>6 DEF Picks
  <2>2. Append(<<>>, s[i]) = <<s[i]>>
    OBVIOUS
  <2>3. QED
    BY <1>7, <2>1, <2>2
<1>9. p[n][1] = s[i]
  <2>1. Len(p[i]) = 1 /\ p[i][1] = s[i]
    BY <1>8
  <2>2. \A k \in 1 .. Len(p[i]) : p[n][k] = p[i][k]
    BY <1>1, <1>6, PicksGrow
  <2>3. QED
    BY <2>1, <2>2
<1>10. QED
  BY <1>1, <1>2, <1>5, <1>6, <1>9

LEMMA OnlyEmpty ==
    ASSUME NEW X, NEW s \in Seq(X), NEW S
    PROVE  Only(s, S) = <<>> <=> Values(s) \cap S = {}
<1>1. Only(s, S) \in Seq(X) /\ Values(Only(s, S)) = Values(s) \cap S
  BY OnlySet
<1>2. \A q \in Seq(X) : q = <<>> <=> Values(q) = {}
  <2>1. ASSUME NEW q \in Seq(X), q # <<>>
        PROVE  q[1] \in Values(q)
    BY <2>1 DEF Values
  <2>2. Values(<<>>) = {}
    BY DEF Values
  <2>3. QED
    BY <2>1, <2>2
<1>3. QED
  BY <1>1, <1>2

-----------------------------------------------------------------------------
(* The chain of the links *)

Object == [name : Name, data : Value, next : Nat \cup {NoObject}]

\* The links lead from id along c and to their end.
IsChain(h, id, c) ==
    /\ c \in Seq(Nat) /\ Values(c) \subseteq DOMAIN h
    /\ id = IF c = <<>> THEN NoObject ELSE c[1]
    /\ \A k \in DOMAIN c : h[c[k]].next = IF k = Len(c) THEN NoObject ELSE c[k + 1]

NextOf(h, id, w) ==
    LET i == IF w = <<>> THEN id ELSE h[w[Len(w)]].next
    IN IF i \in DOMAIN h THEN Append(w, i) ELSE w
WalkOf(h, id, w, n) == IF n = 0 THEN <<>> ELSE NextOf(h, id, w[n - 1])
Upto(c, n) == [k \in 1 .. (IF n <= Len(c) THEN n ELSE Len(c)) |-> c[k]]

LEMMA UptoIs ==
    ASSUME NEW c, c \in Seq(Nat), NEW n \in Nat
    PROVE  /\ n <= Len(c) => Upto(c, n) = [k \in 1 .. n |-> c[k]]
           /\ ~(n < Len(c)) => Upto(c, n) = c
<1> DEFINE u == IF n <= Len(c) THEN n ELSE Len(c)
<1>1. Upto(c, n) = [k \in 1 .. u |-> c[k]]
  BY DEF Upto
<1>2. n <= Len(c) => u = n
  OBVIOUS
<1>3. ~(n < Len(c)) => u = Len(c)
  OBVIOUS
<1>4. c = [k \in 1 .. Len(c) |-> c[k]]
  OBVIOUS
<1> HIDE DEF u
<1>5. QED
  BY <1>1, <1>2, <1>3, <1>4

LEMMA NextIs ==
    ASSUME NEW h, NEW id, NEW c, IsChain(h, id, c), NoObject \notin DOMAIN h, NEW n \in Nat
    PROVE  NextOf(h, id, Upto(c, n)) = Upto(c, n + 1)
<1> DEFINE L == Len(c)
           w == Upto(c, n)
<1>1. c \in Seq(Nat) /\ L \in Nat /\ DOMAIN c = 1 .. L
  BY DEF IsChain
<1>2. \A k \in 1 .. L : c[k] \in Nat /\ c[k] \in DOMAIN h
  BY <1>1 DEF IsChain, Values
<1>3. CASE n = 0
  <2>1. w = <<>>
    <3>1. w = [k \in 1 .. 0 |-> c[k]]
      BY <1>1, <1>3, UptoIs
    <3>2. QED
      BY <3>1
  <2>2. NextOf(h, id, w) = IF id \in DOMAIN h THEN Append(<<>>, id) ELSE <<>>
    BY <2>1 DEF NextOf
  <2>3. CASE c = <<>>
    <3>1. Upto(c, n + 1) = <<>>
      <4>1. ~(n + 1 < Len(c)) /\ n + 1 \in Nat
        BY <1>3, <2>3
      <4>2. QED
        BY <1>1, <2>3, <4>1, UptoIs
    <3>2. QED
      BY <2>2, <2>3, <3>1 DEF IsChain
  <2>4. CASE c # <<>>
    <3>1. L >= 1 /\ id = c[1]
      BY <1>1, <2>4 DEF IsChain
    <3>2. id \in DOMAIN h
      BY <1>1, <1>2, <3>1
    <3>3. Upto(c, n + 1) = <<c[1]>>
      <4>1. Upto(c, n + 1) = [k \in 1 .. 1 |-> c[k]]
        <5>1. n + 1 = 1 /\ 1 \in Nat /\ 1 <= L
          BY <1>1, <1>3, <3>1
        <5>2. Upto(c, 1) = [k \in 1 .. 1 |-> c[k]]
          BY <1>1, <5>1, UptoIs
        <5>3. QED
          BY <5>1, <5>2
      <4>2. QED
        BY <4>1
    <3>4. Append(<<>>, id) = <<id>>
      OBVIOUS
    <3>5. QED
      BY <2>2, <3>1, <3>2, <3>3, <3>4
  <2>5. QED
    BY <2>3, <2>4
<1>4. CASE n # 0 /\ n < L
  <2>1. w = [k \in 1 .. n |-> c[k]] /\ Upto(c, n + 1) = [k \in 1 .. n + 1 |-> c[k]]
    <3>1. n <= L /\ n + 1 \in Nat /\ n + 1 <= L
      BY <1>1, <1>4
    <3>2. w = [k \in 1 .. n |-> c[k]]
      BY <1>1, <3>1, UptoIs
    <3>3. Upto(c, n + 1) = [k \in 1 .. n + 1 |-> c[k]]
      BY <1>1, <3>1, UptoIs
    <3>4. QED
      BY <3>2, <3>3
  <2>2. w \in Seq(Nat) /\ Len(w) = n /\ w # <<>> /\ w[n] = c[n]
    <3> HIDE DEF w
    <3>1. \A k \in 1 .. n : k \in 1 .. L
      BY <1>1, <1>4
    <3>2. w \in [1 .. n -> Nat]
      BY <1>2, <2>1, <3>1
    <3>3. n \in 1 .. n
      BY <1>4
    <3>4. w \in Seq(Nat) /\ Len(w) = n
      BY <3>2
    <3>5. QED
      BY <1>4, <2>1, <3>3, <3>4
  <2>3. h[c[n]].next = c[n + 1] /\ c[n + 1] \in DOMAIN h /\ c[n + 1] \in Nat
    <3>0. L \in Nat /\ n # 0 /\ n < L /\ DOMAIN c = 1 .. L
      BY <1>1, <1>4
    <3>2. \A k \in DOMAIN c : h[c[k]].next = IF k = L THEN NoObject ELSE c[k + 1]
      BY DEF IsChain
    <3> HIDE DEF L
    <3>1. n \in 1 .. L /\ n + 1 \in 1 .. L /\ n # L
      BY <3>0
    <3>3. h[c[n]].next = c[n + 1]
      BY <3>0, <3>1, <3>2
    <3>4. QED
      BY <1>2, <3>1, <3>3
  <2> HIDE DEF w
  <2>4. NextOf(h, id, w) = Append(w, c[n + 1])
    BY <2>2, <2>3 DEF NextOf
  <2>5. Append(w, c[n + 1]) = [k \in 1 .. n + 1 |-> c[k]]
    <3> DEFINE t == [k \in 1 .. n + 1 |-> c[k]]
    <3>1. \A k \in 1 .. n + 1 : k \in 1 .. L
      BY <1>1, <1>4
    <3>2. t \in Seq(Nat) /\ Len(t) = n + 1 /\ \A k \in 1 .. n + 1 : t[k] = c[k]
      BY <1>2, <3>1
    <3>3. /\ Append(w, c[n + 1]) \in Seq(Nat) /\ Len(Append(w, c[n + 1])) = n + 1
          /\ Append(w, c[n + 1])[n + 1] = c[n + 1]
          /\ \A k \in 1 .. n : Append(w, c[n + 1])[k] = w[k]
      BY <2>2, <2>3, AppendElems
    <3>4. \A k \in 1 .. n : w[k] = c[k]
      BY <2>1
    <3>5. \A k \in 1 .. n + 1 : k \in 1 .. n \/ k = n + 1
      OBVIOUS
    <3> HIDE DEF t
    <3>6. \A k \in 1 .. n + 1 : Append(w, c[n + 1])[k] = t[k]
      BY <3>2, <3>3, <3>4, <3>5
    <3>7. Append(w, c[n + 1]) = t
      BY <3>2, <3>3, <3>6, SameSeq
    <3>8. QED
      BY <3>7 DEF t
  <2>6. QED
    BY <2>1, <2>4, <2>5 DEF w
<1>5. CASE n # 0 /\ ~(n < L)
  <2>1. ~(n + 1 < L) /\ n + 1 \in Nat
    BY <1>1, <1>5
  <2>2. w = c
    BY <1>1, <1>5, UptoIs
  <2>3. Upto(c, n + 1) = c
    BY <1>1, <2>1, UptoIs
  <2>4. NextOf(h, id, c) = c
    <3>1. CASE c = <<>>
      BY <3>1 DEF NextOf, IsChain
    <3>2. CASE c # <<>>
      <4>1. L \in DOMAIN c
        BY <1>1, <3>2
      <4>2. h[c[L]].next = NoObject
        BY <4>1 DEF IsChain
      <4>3. QED
        BY <3>2, <4>2 DEF NextOf
    <3>3. QED
      BY <3>1, <3>2
  <2>5. QED
    BY <2>2, <2>3, <2>4
<1>6. QED
  BY <1>1, <1>3, <1>4, <1>5

LEMMA ChainIs ==
    ASSUME NEW h, NEW id, NEW c, IsChain(h, id, c), NoObject \notin DOMAIN h,
           Len(c) <= MaxObjects
    PROVE  Chain(h, id) = c
<1> DEFINE m == MaxObjects
           W(w) == [n \in 0 .. m |-> WalkOf(h, id, w, n)]
           g == [n \in 0 .. m |-> Upto(c, n)]
           walk == CHOOSE w : w = W(w)
<1>1. m \in Nat /\ Len(c) \in Nat /\ c \in Seq(Nat) /\ Len(c) <= m
  BY EntryAssumption DEF IsChain
<1>2. Upto(c, 0) = <<>>
  BY <1>1 DEF Upto
<1>3. g = W(g)
  <2>1. ASSUME NEW n \in 0 .. m
        PROVE  WalkOf(h, id, g, n) = Upto(c, n)
    <3>1. CASE n = 0
      BY <1>2, <3>1 DEF WalkOf
    <3>2. CASE n # 0
      <4>1. n - 1 \in 0 .. m /\ n - 1 \in Nat /\ (n - 1) + 1 = n
        BY <1>1, <3>2
      <4>2. g[n - 1] = Upto(c, n - 1)
        BY <4>1
      <4> HIDE DEF g
      <4>3. WalkOf(h, id, g, n) = NextOf(h, id, Upto(c, n - 1))
        BY <3>2, <4>2 DEF WalkOf
      <4>4. NextOf(h, id, Upto(c, n - 1)) = Upto(c, (n - 1) + 1)
        BY <4>1, NextIs
      <4>5. QED
        BY <4>1, <4>3, <4>4
    <3>3. QED
      BY <3>1, <3>2
  <2>2. QED
    BY <2>1
<1>4. walk = W(walk)
  <2>1. \E w : w = W(w)
    <3> HIDE DEF g, W
    <3>1. QED
      BY <1>3
  <2> HIDE DEF W
  <2>2. QED
    BY <2>1
<1>5. Chain(h, id) = walk[m]
  BY DEF Chain, WalkOf, NextOf
<1> HIDE DEF walk
<1>6. \A n \in 0 .. m : walk[n] = Upto(c, n)
  <2> DEFINE T == {n \in 0 .. m : walk[n] = Upto(c, n)}
  <2>1. 0 \in T
    <3>1. 0 \in 0 .. m /\ W(walk)[0] = <<>>
      BY <1>1 DEF WalkOf
    <3> HIDE DEF W
    <3>2. QED
      BY <1>2, <1>4, <3>1
  <2>2. ASSUME NEW n \in 0 .. m - 1, n \in T
        PROVE  n + 1 \in T
    <3>1. n + 1 \in 0 .. m /\ n + 1 # 0 /\ (n + 1) - 1 = n /\ n \in Nat
      BY <1>1
    <3>2. W(walk)[n + 1] = NextOf(h, id, walk[n])
      BY <3>1 DEF WalkOf
    <3>3. walk[n + 1] = NextOf(h, id, walk[n])
      <4> HIDE DEF W
      <4>1. QED
        BY <1>4, <3>2
    <3>4. walk[n] = Upto(c, n)
      BY <2>2
    <3>5. walk[n + 1] = Upto(c, n + 1)
      BY <3>1, <3>3, <3>4, NextIs
    <3>6. QED
      BY <3>1, <3>5
  <2> HIDE DEF T, m
  <2>3. \A n \in 0 .. m : n \in T
    BY <1>1, <2>1, <2>2, InductionUpTo
  <2>4. QED
    BY <2>3 DEF T
<1>7. Upto(c, m) = c
  <2>1. ~(m < Len(c))
    BY <1>1
  <2>2. QED
    BY <1>1, <2>1, UptoIs
<1>8. m \in 0 .. m
  BY <1>1
<1>9. QED
  BY <1>5, <1>6, <1>7, <1>8

-----------------------------------------------------------------------------
\* The list l has the objects c, in this order.
Holds(l, c) ==
    /\ IsChain(l.objs, l.first, c)
    /\ Once(c) /\ DOMAIN l.objs = Values(c)
    /\ l.last = IF c = <<>> THEN NoObject ELSE c[Len(c)]
    /\ \A i \in DOMAIN l.objs : l.objs[i] \in Object

\* The objects of l are in m as well, but for their links.
KeptIn(l, m, S) ==
    \A i \in S : /\ i \in DOMAIN l.objs /\ i \in DOMAIN m.objs
                 /\ m.objs[i].name = l.objs[i].name /\ m.objs[i].data = l.objs[i].data

LEMMA HoldsMeans ==
    ASSUME NEW l, NEW c, Holds(l, c)
    PROVE  /\ c \in Seq(Nat) /\ Len(c) \in Nat /\ DOMAIN c = 1 .. Len(c)
           /\ NoObject \notin DOMAIN l.objs
           /\ \A k \in DOMAIN c : c[k] \in Nat /\ c[k] \in DOMAIN l.objs
           /\ DOMAIN l.objs \subseteq Nat
<1>1. c \in Seq(Nat) /\ Len(c) \in Nat /\ DOMAIN c = 1 .. Len(c)
  BY DEF Holds, IsChain
<1>2. \A k \in DOMAIN c : c[k] \in Nat
  BY <1>1
<1>3. DOMAIN l.objs = Values(c)
  BY DEF Holds
<1>4. QED
  BY <1>1, <1>2, <1>3, EntryAssumption DEF Values

LEMMA LinkChanged ==
    ASSUME NEW o \in Object, NEW n \in Nat \cup {NoObject}
    PROVE  /\ [o EXCEPT !.next = n] \in Object
           /\ [o EXCEPT !.next = n].next = n
           /\ [o EXCEPT !.next = n].name = o.name /\ [o EXCEPT !.next = n].data = o.data
  BY DEF Object

LEMMA LinkedHolds ==
    ASSUME NEW l, NEW c, Holds(l, c), NEW id \in Nat, id \notin DOMAIN l.objs,
           NEW name \in Name, NEW data \in Value
    PROVE  /\ Holds(Linked(l, id, name, data), Append(c, id))
           /\ KeptIn(l, Linked(l, id, name, data), DOMAIN l.objs)
<1> DEFINE new == [name |-> name, data |-> data, next |-> NoObject]
           heap == [i \in DOMAIN l.objs \cup {id} |-> IF i = id THEN new ELSE l.objs[i]]
           m == Linked(l, id, name, data)
           d == Append(c, id)
           n == Len(c)
<1>1. /\ c \in Seq(Nat) /\ n \in Nat /\ DOMAIN c = 1 .. n /\ NoObject \notin DOMAIN l.objs
      /\ \A k \in 1 .. n : c[k] \in Nat /\ c[k] \in DOMAIN l.objs /\ c[k] # id
  BY HoldsMeans
<1>2. /\ d \in Seq(Nat) /\ Len(d) = n + 1 /\ DOMAIN d = 1 .. n + 1 /\ d[n + 1] = id
      /\ (\A k \in 1 .. n : d[k] = c[k]) /\ (\A k \in 1 .. n + 1 : k \in 1 .. n \/ k = n + 1)
  BY <1>1, AppendElems
<1>3. /\ Values(d) = Values(c) \cup {id} /\ Once(d)
      /\ DOMAIN l.objs = Values(c)
  <2>1. id \notin Values(c) /\ Once(c) /\ DOMAIN l.objs = Values(c)
    BY DEF Holds
  <2>2. QED
    BY <1>1, <2>1, AppendValues
<1>4. new \in Object /\ new.next = NoObject
  BY DEF Object
<1>5. \A i \in DOMAIN l.objs : l.objs[i] \in Object
  BY DEF Holds
<1>6. /\ DOMAIN heap = Values(d) /\ heap[id] = new
      /\ \A i \in DOMAIN l.objs : heap[i] = l.objs[i]
  BY <1>3
<1> HIDE DEF new, heap, d, n
<1>7. d # <<>>
  BY <1>1, <1>2
<1>8. CASE c = <<>>
  <2>1. l.first = NoObject /\ n = 0
    BY <1>8 DEF Holds, IsChain, n
  <2>2. m = [objs |-> heap, first |-> id, last |-> id]
    BY <2>1 DEF Linked, heap, new
  <2> HIDE DEF m
  <2>3. m.objs = heap /\ m.first = id /\ m.last = id
    BY <2>2
  <2>4. Len(d) = 1 /\ DOMAIN d = 1 .. 1 /\ d[1] = id
    BY <1>2, <2>1
  <2>5. IsChain(m.objs, m.first, d)
    <3>1. \A k \in DOMAIN d : k = 1
      BY <2>4
    <3>2. \A k \in DOMAIN d : heap[d[k]].next = IF k = Len(d) THEN NoObject ELSE d[k + 1]
      BY <1>4, <1>6, <2>4, <3>1
    <3>3. QED
      BY <1>2, <1>6, <1>7, <2>3, <2>4, <3>2 DEF IsChain
  <2>6. \A i \in DOMAIN m.objs : m.objs[i] \in Object
    BY <1>3, <1>4, <1>5, <1>6, <2>3
  <2>7. Holds(m, d)
    BY <1>3, <1>6, <1>7, <2>3, <2>4, <2>5, <2>6 DEF Holds
  <2>8. KeptIn(l, m, DOMAIN l.objs)
    BY <1>3, <1>6, <2>3 DEF KeptIn
  <2>9. QED
    BY <2>7, <2>8 DEF m, d
<1>9. CASE c # <<>>
  <2> DEFINE e == l.last
  <2>1. /\ n >= 1 /\ n \in 1 .. n /\ e = c[n] /\ e \in DOMAIN l.objs /\ e # id
        /\ l.first = c[1] /\ l.first # NoObject
    <3>1. n >= 1 /\ n \in 1 .. n /\ 1 \in 1 .. n
      BY <1>1, <1>9 DEF n
    <3>2. e = c[n] /\ l.first = c[1]
      BY <1>9 DEF Holds, IsChain, n
    <3>3. QED
      BY <1>1, <3>1, <3>2
  <2>2. m = [objs |-> [heap EXCEPT ![e].next = id], first |-> l.first, last |-> id]
    BY <2>1 DEF Linked, heap, new
  <2> HIDE DEF m, e
  <2>3. /\ m.first = c[1] /\ m.last = id /\ DOMAIN m.objs = Values(d)
        /\ m.objs[e] = [l.objs[e] EXCEPT !.next = id]
        /\ m.objs[id] = new
        /\ \A i \in DOMAIN l.objs : i # e => m.objs[i] = l.objs[i]
    <3>1. m.first = c[1] /\ m.last = id /\ m.objs = [heap EXCEPT ![e].next = id]
      BY <2>1, <2>2
    <3>2. e \in DOMAIN heap /\ heap[e] = l.objs[e] /\ id \in DOMAIN heap
      BY <1>3, <1>6, <2>1
    <3>3. QED
      BY <1>3, <1>6, <2>1, <3>1, <3>2
  <2>4. /\ m.objs[e] \in Object /\ m.objs[e].next = id
        /\ m.objs[e].name = l.objs[e].name /\ m.objs[e].data = l.objs[e].data
    BY <1>5, <2>1, <2>3, LinkChanged
  <2>5. \A k \in DOMAIN d : m.objs[d[k]].next = IF k = Len(d) THEN NoObject ELSE d[k + 1]
    <3>1. m.objs[d[n + 1]].next = NoObject
      BY <1>2, <1>4, <2>3
    <3>2. ASSUME NEW k \in 1 .. n
          PROVE  m.objs[d[k]].next = d[k + 1]
      <4>1. d[k] = c[k] /\ c[k] \in DOMAIN l.objs
        BY <1>1, <1>2
      <4>2. CASE k = n
        BY <1>2, <2>1, <2>4, <4>1, <4>2
      <4>3. CASE k # n
        <5>1. k + 1 \in 1 .. n
          BY <1>1, <4>3
        <5>2. l.objs[c[k]].next = c[k + 1]
          BY <1>1, <4>3 DEF Holds, IsChain, n
        <5>3. c[k] # e
          BY <1>1, <2>1, <4>3 DEF Holds, Once
        <5>4. QED
          BY <1>2, <2>3, <4>1, <5>1, <5>2, <5>3
      <4>4. QED
        BY <4>2, <4>3
    <3>3. \A k \in 1 .. n : k # n + 1
      BY <1>1
    <3>4. QED
      BY <1>2, <3>1, <3>2, <3>3
  <2>6. m.first = d[1] /\ m.last = d[Len(d)]
    <3>1. 1 \in 1 .. n
      BY <2>1, <1>1
    <3>2. QED
      BY <1>2, <2>3, <3>1
  <2>7. IsChain(m.objs, m.first, d)
    BY <1>2, <1>7, <2>3, <2>5, <2>6 DEF IsChain
  <2>8. \A i \in DOMAIN m.objs : m.objs[i] \in Object
    BY <1>3, <1>4, <1>5, <2>3, <2>4
  <2>9. Holds(m, d)
    BY <1>3, <1>7, <2>3, <2>6, <2>7, <2>8 DEF Holds
  <2>10. KeptIn(l, m, DOMAIN l.objs)
    <3>1. ASSUME NEW i \in DOMAIN l.objs
          PROVE  i \in DOMAIN m.objs /\ m.objs[i].name = l.objs[i].name /\ m.objs[i].data = l.objs[i].data
      BY <1>3, <2>3, <2>4
    <3>2. QED
      BY <3>1 DEF KeptIn
  <2>11. QED
    BY <2>9, <2>10 DEF m, d
<1>10. QED
  BY <1>8, <1>9

\* The objects of kept, linked anew.
LEMMA RelinkedHolds ==
    ASSUME NEW c, Holds(Here, c), NEW kept \in Seq(Nat), Once(kept), Values(kept) \subseteq DOMAIN objs
    PROVE  Holds(Relinked(kept), kept) /\ KeptIn(Here, Relinked(kept), Values(kept))
<1> DEFINE n == Len(kept)
           m == Relinked(kept)
           place(i) == CHOOSE k \in 1 .. n : kept[k] = i
           link(i) == IF place(i) = n THEN NoObject ELSE kept[place(i) + 1]
<1>1. n \in Nat /\ DOMAIN kept = 1 .. n /\ \A k \in 1 .. n : kept[k] \in Nat /\ kept[k] \in DOMAIN objs
  BY DEF Values
<1>2. Values(kept) = {kept[k] : k \in 1 .. n}
  BY <1>1 DEF Values
<1>3. /\ m.objs = [i \in {kept[k] : k \in 1 .. n} |-> [objs[i] EXCEPT !.next = link(i)]]
      /\ m.first = (IF n = 0 THEN NoObject ELSE kept[1])
      /\ m.last = (IF n = 0 THEN NoObject ELSE kept[n])
  BY DEF Relinked
<1>4. \A i \in DOMAIN objs : objs[i] \in Object
  BY DEF Holds, Here
<1>5. \A k \in 1 .. n : place(kept[k]) = k
  BY <1>1 DEF Once
<1> HIDE DEF n, m, place
<1>6. ASSUME NEW k \in 1 .. n
      PROVE  /\ link(kept[k]) = IF k = n THEN NoObject ELSE kept[k + 1]
             /\ link(kept[k]) \in Nat \cup {NoObject}
  <2>1. link(kept[k]) = IF k = n THEN NoObject ELSE kept[k + 1]
    BY <1>5
  <2>2. k # n => k + 1 \in 1 .. n
    BY <1>1
  <2>3. QED
    BY <1>1, <2>1, <2>2
<1> HIDE DEF link
<1>7. ASSUME NEW k \in 1 .. n
      PROVE  /\ kept[k] \in DOMAIN m.objs /\ m.objs[kept[k]] \in Object
             /\ m.objs[kept[k]].next = IF k = n THEN NoObject ELSE kept[k + 1]
             /\ m.objs[kept[k]].name = objs[kept[k]].name
             /\ m.objs[kept[k]].data = objs[kept[k]].data
  <2>1. m.objs[kept[k]] = [objs[kept[k]] EXCEPT !.next = link(kept[k])]
    BY <1>3
  <2>2. objs[kept[k]] \in Object
    BY <1>1, <1>4
  <2> DEFINE o == objs[kept[k]]
             x == link(kept[k])
             y == m.objs[kept[k]]
  <2>3. o \in Object /\ x \in Nat \cup {NoObject} /\ y = [o EXCEPT !.next = x]
    BY <1>6, <2>1, <2>2
  <2> HIDE DEF o, x, y
  <2>4. y \in Object /\ y.next = x /\ y.name = o.name /\ y.data = o.data
    BY <2>3, LinkChanged
  <2>5. kept[k] \in DOMAIN m.objs
    BY <1>3
  <2>6. QED
    BY <1>6, <2>4, <2>5 DEF o, x, y
<1>8. DOMAIN m.objs = Values(kept)
  BY <1>2, <1>3
<1>9. kept = <<>> <=> n = 0
  BY <1>1 DEF n
<1>10. IsChain(m.objs, m.first, kept)
  BY <1>1, <1>3, <1>7, <1>8, <1>9 DEF IsChain, n
<1>11. Holds(m, kept)
  BY <1>1, <1>2, <1>3, <1>7, <1>8, <1>9, <1>10 DEF Holds, n
<1>12. KeptIn(Here, m, Values(kept))
  BY <1>1, <1>2, <1>7 DEF KeptIn, Here
<1>13. QED
  BY <1>11, <1>12 DEF m

\* As many values as places, when each value is there once.
LEMMA OnceCard ==
    ASSUME NEW X, NEW c \in Seq(X), Once(c)
    PROVE  IsFiniteSet(Values(c)) /\ Cardinality(Values(c)) = Len(c)
<1> DEFINE n == Len(c)
           V == Values(c)
<1>1. n \in Nat /\ DOMAIN c = 1 .. n /\ c = [k \in 1 .. n |-> c[k]]
  OBVIOUS
<1>2. V = {c[k] : k \in 1 .. n}
  BY <1>1 DEF Values
<1> HIDE DEF n, V
<1>3. c \in [1 .. n -> V]
  BY <1>1, <1>2
<1>4. c \in Bijection(1 .. n, V)
  <2>1. \A a, b \in 1 .. n : c[a] = c[b] => a = b
    BY <1>1 DEF Once
  <2>2. c \in Injection(1 .. n, V)
    BY <1>1, <1>3, <2>1 DEF Injection, IsInjective
  <2>3. \A v \in V : \E k \in 1 .. n : c[k] = v
    BY <1>2
  <2>4. c \in Surjection(1 .. n, V)
    BY <1>3, <2>3 DEF Surjection
  <2>5. QED
    BY <2>2, <2>4 DEF Bijection
<1>5. IsFiniteSet(1 .. n) /\ Cardinality(1 .. n) = n
  <2>1. IsFiniteSet(1 .. n) /\ Cardinality(1 .. n) = IF 1 > n THEN 0 ELSE n - 1 + 1
    <3>1. 1 \in Int /\ n \in Int
      BY <1>1
    <3>2. QED
      BY <3>1, FS_Interval
  <2>2. QED
    BY <1>1, <2>1
<1>6. ExistsBijection(1 .. n, V)
  BY <1>4 DEF ExistsBijection
<1>7. IsFiniteSet(V) /\ Cardinality(V) = Cardinality(1 .. n)
  BY <1>5, <1>6, FS_Bijection
<1>8. QED
  BY <1>5, <1>7 DEF n, V

\* The links lead on from any object of the list along the rest of it.
LEMMA RestIsChain ==
    ASSUME NEW h, NEW id, NEW c, IsChain(h, id, c), NEW j \in 0 .. Len(c), j < Len(c)
    PROVE  /\ IsChain(h, c[j + 1], SubSeq(c, j + 1, Len(c)))
           /\ Len(SubSeq(c, j + 1, Len(c))) = Len(c) - j
           /\ \A k \in 1 .. Len(c) - j : SubSeq(c, j + 1, Len(c))[k] = c[j + k] /\ j + k \in DOMAIN c
<1> DEFINE n == Len(c)
           s == SubSeq(c, j + 1, n)
           m == n - j
<1>1. c \in Seq(Nat) /\ n \in Nat /\ DOMAIN c = 1 .. n
  BY DEF IsChain
<1>2. m \in Nat /\ m >= 1 /\ j + m = n /\ j \in Nat /\ j + 1 \in 1 .. n /\ m \in 1 .. m /\ 1 \in 1 .. m
  BY <1>1
<1>3. \A k \in 1 .. m : j + k \in 1 .. n /\ (j + 1) + k - 1 = j + k
  BY <1>1, <1>2
<1>4. s \in Seq(Nat) /\ Len(s) = m /\ \A k \in 1 .. m : s[k] = c[j + k]
  <2>1. /\ s \in Seq(Nat)
        /\ Len(s) = IF j + 1 <= n THEN n - (j + 1) + 1 ELSE 0
        /\ \A k \in 1 .. n - (j + 1) + 1 : s[k] = c[(j + 1) + k - 1]
    <3>1. j + 1 \in 1 .. n + 1 /\ n \in 0 .. n
      BY <1>1, <1>2
    <3>2. QED
      BY <1>1, <3>1, SubSeqProperties
  <2>2. n - (j + 1) + 1 = m /\ j + 1 <= n
    BY <1>1, <1>2
  <2>3. QED
    BY <1>3, <2>1, <2>2
<1>5. \A k \in DOMAIN c : c[k] \in DOMAIN h /\ h[c[k]].next = IF k = n THEN NoObject ELSE c[k + 1]
  BY DEF IsChain, Values
<1> HIDE DEF s, n, m
<1>6. DOMAIN s = 1 .. m
  BY <1>4
<1>7. Values(s) \subseteq DOMAIN h
  <2>1. \A k \in 1 .. m : s[k] \in DOMAIN h
    BY <1>1, <1>3, <1>4, <1>5
  <2>2. QED
    BY <1>6, <2>1 DEF Values
<1>8. c[j + 1] = s[1] /\ s # <<>>
  <2>1. c[j + 1] = s[1]
    BY <1>2, <1>4
  <2>2. s # <<>>
    BY <1>2, <1>6
  <2>3. QED
    BY <2>1, <2>2
<1>9. ASSUME NEW k \in DOMAIN s
      PROVE  h[s[k]].next = IF k = Len(s) THEN NoObject ELSE s[k + 1]
  <2>1. /\ k \in 1 .. m /\ s[k] = c[j + k] /\ j + k \in 1 .. n
    BY <1>3, <1>4, <1>6
  <2>2. (k = m <=> j + k = n) /\ (k # m => k + 1 \in 1 .. m /\ (j + k) + 1 = j + (k + 1))
    <3>1. n \in Nat /\ m \in Nat /\ j \in Nat /\ j + m = n /\ k \in 1 .. m
      BY <1>1, <1>2, <2>1
    <3>2. k = m <=> j + k = n
      BY <3>1
    <3>3. k # m => k + 1 \in 1 .. m /\ (j + k) + 1 = j + (k + 1)
      BY <3>1
    <3>4. QED
      BY <3>2, <3>3
  <2>3. h[c[j + k]].next = IF j + k = n THEN NoObject ELSE c[(j + k) + 1]
    BY <1>1, <1>5, <2>1
  <2>4. k # m => s[k + 1] = c[(j + k) + 1]
    BY <1>4, <2>2
  <2>5. QED
    BY <1>4, <2>1, <2>2, <2>3, <2>4
<1>10. IsChain(h, c[j + 1], s)
  BY <1>4, <1>7, <1>8, <1>9 DEF IsChain
<1>11. QED
  BY <1>1, <1>3, <1>4, <1>10 DEF n, s, m

\* The list c is the beginning of the list d.
Begins(c, d) == Len(c) <= Len(d) /\ \A k \in DOMAIN c : d[k] = c[k]

-----------------------------------------------------------------------------
SavedLine == [name : Name, data : Value]

AfterOf(l, lines, n, after, k) ==
    IF k = 0 THEN l ELSE Linked(after[k - 1], n + k, lines[k].name, lines[k].data)

AfterAll(l, lines, n, after, m) == [k \in 0 .. m |-> AfterOf(l, lines, n, after, k)]

LEMMA AfterUpTo ==
    ASSUME NEW l, NEW lines, NEW n, NEW m \in Nat
    PROVE  \E p : p = AfterAll(l, lines, n, p, m)
<1> DEFINE W(p, k) == AfterOf(l, lines, n, p, k)
           T == {k \in Nat : \E p : p = [j \in 0 .. k |-> W(p, j)]}
<1>1. 0 \in T
  <2> DEFINE p == [j \in 0 .. 0 |-> l]
  <2>1. \A j \in 0 .. 0 : j = 0
    OBVIOUS
  <2>2. p = [j \in 0 .. 0 |-> W(p, j)]
    BY <2>1 DEF AfterOf
  <2> HIDE DEF p, W
  <2>3. QED
    BY <2>2
<1>2. ASSUME NEW k \in T
      PROVE  k + 1 \in T
  <2>1. PICK p : p = [j \in 0 .. k |-> W(p, j)]
    OBVIOUS
  <2> DEFINE q == [j \in 0 .. k + 1 |-> IF j \in 0 .. k THEN p[j] ELSE W(p, j)]
  <2>2. ASSUME NEW j \in 0 .. k + 1
        PROVE  W(q, j) = W(p, j)
    <3>1. CASE j = 0
      BY <3>1 DEF AfterOf
    <3>2. CASE j # 0
      <4>1. j - 1 \in 0 .. k /\ j - 1 \in 0 .. k + 1
        BY <3>2
      <4>2. q[j - 1] = p[j - 1]
        BY <4>1
      <4>3. HIDE DEF q
      <4>4. QED
        BY <4>2 DEF AfterOf
    <3>3. QED
      BY <3>1, <3>2
  <2>3. \A j \in 0 .. k : p[j] = W(p, j)
    BY <2>1
  <2>4. q = [j \in 0 .. k + 1 |-> W(q, j)]
    <3> HIDE DEF W
    <3>1. QED
      BY <2>2, <2>3
  <2> HIDE DEF q, W
  <2>5. QED
    BY <2>4
<1>3. T = Nat
  <2>1. T \subseteq Nat
    OBVIOUS
  <2> HIDE DEF T
  <2>2. QED
    BY <1>1, <1>2, <2>1, Induction
<1>4. m \in T
  <2> HIDE DEF T
  <2>1. QED
    BY <1>3
<1>5. QED
  BY <1>4 DEF AfterAll

\* The list l continued: its objects are as they were, those added are new.
Continued(l, c, m, d, a, b) ==
    /\ Holds(m, d) /\ Begins(c, d) /\ KeptIn(l, m, DOMAIN l.objs)
    /\ Len(d) = Len(c) + b - a /\ Values(d) \subseteq 1 .. b

LEMMA OneMore ==
    ASSUME NEW l, NEW c, NEW m, NEW d, NEW a \in Nat, NEW b \in Nat, a <= b,
           Continued(l, c, m, d, a, b), Len(c) \in Nat, DOMAIN c = 1 .. Len(c),
           NEW name \in Name, NEW data \in Value
    PROVE  Continued(l, c, Linked(m, b + 1, name, data), Append(d, b + 1), a, b + 1)
<1> DEFINE id == b + 1
           e == Append(d, id)
           x == Linked(m, id, name, data)
<1>1. Holds(m, d) /\ Begins(c, d) /\ KeptIn(l, m, DOMAIN l.objs) /\ Len(d) = Len(c) + b - a /\ Values(d) \subseteq 1 .. b
  BY DEF Continued
<1>2. d \in Seq(Nat) /\ Len(d) \in Nat /\ DOMAIN d = 1 .. Len(d)
  BY <1>1, HoldsMeans
<1>3. id \in Nat /\ id \notin 1 .. b /\ id \in 1 .. b + 1 /\ 1 .. b \subseteq 1 .. b + 1
  OBVIOUS
<1> HIDE DEF id
<1>4. id \notin DOMAIN m.objs
  BY <1>1, <1>3 DEF Holds
<1>5. Holds(x, e) /\ KeptIn(m, x, DOMAIN m.objs)
  BY <1>1, <1>3, <1>4, LinkedHolds
<1>6. Len(e) = Len(d) + 1 /\ (\A k \in 1 .. Len(d) : e[k] = d[k]) /\ Values(e) = Values(d) \cup {id}
  BY <1>2, <1>3, AppendElems, AppendValues
<1> HIDE DEF e, x
<1>7. KeptIn(l, x, DOMAIN l.objs)
  BY <1>1, <1>5 DEF KeptIn
<1>8. Begins(c, e)
  <2>1. Len(c) <= Len(d) /\ \A k \in DOMAIN c : d[k] = c[k]
    BY <1>1 DEF Begins
  <2>2. Len(c) <= Len(e) /\ \A k \in DOMAIN c : k \in 1 .. Len(d)
    BY <1>2, <1>6, <2>1
  <2>3. QED
    BY <1>6, <2>1, <2>2 DEF Begins
<1>9. Len(e) = Len(c) + (b + 1) - a
  BY <1>1, <1>2, <1>6
<1>10. Values(e) \subseteq 1 .. b + 1
  BY <1>1, <1>3, <1>6
<1>11. QED
  BY <1>5, <1>7, <1>8, <1>9, <1>10 DEF Continued, e, x, id

LEMMA LinkedAllHolds ==
    ASSUME NEW l, NEW c, Holds(l, c), NEW n \in Nat, Values(c) \subseteq 1 .. n,
           NEW lines \in Seq(SavedLine)
    PROVE  \E d : Continued(l, c, LinkedAll(l, lines, n), d, n, n + Len(lines))
<1> DEFINE m == Len(lines)
           W(p) == AfterAll(l, lines, n, p, m)
           after == CHOOSE p : p = W(p)
<1>1. m \in Nat /\ m \in 0 .. m /\ \A k \in 1 .. m : lines[k] \in SavedLine
  OBVIOUS
<1>2. after = W(after)
  <2>1. \E p : p = W(p)
    <3>1. m \in Nat
      BY <1>1
    <3> HIDE DEF m
    <3>2. QED
      BY <3>1, AfterUpTo
  <2> HIDE DEF W
  <2>2. QED
    BY <2>1
<1>3. LinkedAll(l, lines, n) = after[m]
  BY DEF LinkedAll, AfterOf, AfterAll
<1> HIDE DEF after
<1>4. Len(c) \in Nat /\ DOMAIN c = 1 .. Len(c)
  BY HoldsMeans
<1> DEFINE Good(k) == \E d : Continued(l, c, after[k], d, n, n + k)
           T == {k \in 0 .. m : Good(k)}
<1>5. 0 \in T
  <2>1. 0 \in 0 .. m /\ W(after)[0] = l
    BY <1>1 DEF AfterOf, AfterAll
  <2>2. after[0] = l
    <3> HIDE DEF W
    <3>1. QED
      BY <1>2, <2>1
  <2>3. KeptIn(l, l, DOMAIN l.objs) /\ Begins(c, c)
    BY <1>4 DEF KeptIn, Begins
  <2>4. Len(c) = Len(c) + n - n /\ n + 0 = n
    BY <1>4
  <2>5. Continued(l, c, l, c, n, n)
    BY <2>3, <2>4 DEF Continued
  <2>6. QED
    BY <2>1, <2>2, <2>4, <2>5
<1>6. ASSUME NEW k \in 0 .. m - 1, k \in T
      PROVE  k + 1 \in T
  <2>1. /\ k + 1 \in 0 .. m /\ k + 1 # 0 /\ (k + 1) - 1 = k /\ k + 1 \in 1 .. m
        /\ n + k \in Nat /\ n <= n + k /\ n + (k + 1) = (n + k) + 1
    BY <1>1
  <2>2. W(after)[k + 1] = Linked(after[k], n + (k + 1), lines[k + 1].name, lines[k + 1].data)
    BY <2>1 DEF AfterOf, AfterAll
  <2>3. after[k + 1] = Linked(after[k], n + (k + 1), lines[k + 1].name, lines[k + 1].data)
    <3> HIDE DEF W
    <3>1. QED
      BY <1>2, <2>2
  <2>4. lines[k + 1].name \in Name /\ lines[k + 1].data \in Value
    BY <1>1, <2>1 DEF SavedLine
  <2>5. PICK d : Continued(l, c, after[k], d, n, n + k)
    BY <1>6
  <2> DEFINE b == n + k
             name == lines[k + 1].name
             data == lines[k + 1].data
             p == after[k]
  <2>6. b \in Nat /\ n <= b /\ name \in Name /\ data \in Value /\ Continued(l, c, p, d, n, b)
    BY <2>1, <2>4, <2>5
  <2>7. after[k + 1] = Linked(p, b + 1, name, data) /\ n + (k + 1) = b + 1
    BY <2>1, <2>3
  <2> HIDE DEF b, name, data, p
  <2>8. Continued(l, c, Linked(p, b + 1, name, data), Append(d, b + 1), n, b + 1)
    BY <1>4, <2>6, OneMore
  <2>9. Continued(l, c, after[k + 1], Append(d, b + 1), n, n + (k + 1))
    BY <2>7, <2>8
  <2>10. QED
    BY <2>1, <2>9
<1> HIDE DEF T, m
<1>7. \A k \in 0 .. m : k \in T
  BY <1>1, <1>5, <1>6, InductionUpTo
<1>8. QED
  BY <1>1, <1>3, <1>7 DEF T, m

-----------------------------------------------------------------------------
(* The list and a walk over it *)

Cursor == [on : BOOLEAN, fresh : BOOLEAN, next : Nat \cup {NoObject}, name : Name \cup {All}]

\* The objects of the list l that a walk for a name is to meet.
SetOf(l, name) == IF name = All THEN DOMAIN l.objs ELSE {i \in DOMAIN l.objs : l.objs[i].name = name}

\* The walk has met what it looks for in a beginning of the list c, and goes on there.
WalkAt(l, c, cur, seen) ==
    IF cur.fresh THEN seen = <<>>
    ELSE \E j \in DOMAIN c :
            /\ cur.next = NoObject \/ (j < Len(c) /\ cur.next = c[j + 1])
            /\ seen = Only(SubSeq(c, 1, j), SetOf(l, cur.name))

Counted(l, c, n, m) == Holds(l, c) /\ Values(c) \subseteq 1 .. m /\ n = Len(c)

EntryTyped ==
    /\ made \in 0 .. MaxObjects /\ disk \in Seq(SavedLine) /\ disturbed \in BOOLEAN
    /\ cursor \in Cursor

EntryInv ==
    /\ EntryTyped
    /\ \E c : /\ Counted(Here, c, num, made)
              /\ cursor.on /\ ~disturbed => WalkAt(Here, c, cursor, met)

LEMMA WantedIs == Wanted = SetOf(Here, cursor.name)
  BY DEF Wanted, SetOf, Here, Matching

LEMMA CountedMeans ==
    ASSUME EntryTyped, NEW c, Counted(Here, c, num, made)
    PROVE  /\ c \in Seq(Nat) /\ Len(c) \in Nat /\ DOMAIN c = 1 .. Len(c) /\ Len(c) <= made
           /\ num = Len(c) /\ Once(c) /\ Values(c) = DOMAIN objs
           /\ IsFiniteSet(DOMAIN objs) /\ Cardinality(DOMAIN objs) = num
           /\ IsChain(objs, first, c) /\ NoObject \notin DOMAIN objs
           /\ Chain(objs, first) = c
           /\ \A i \in DOMAIN objs : objs[i] \in Object
<1>1. Holds(Here, c) /\ num = Len(c) /\ Values(c) \subseteq 1 .. made
  BY DEF Counted
<1>2. c \in Seq(Nat) /\ Len(c) \in Nat /\ DOMAIN c = 1 .. Len(c) /\ NoObject \notin DOMAIN objs
  BY <1>1, HoldsMeans DEF Here
<1>3. /\ Once(c) /\ Values(c) = DOMAIN objs /\ IsChain(objs, first, c)
      /\ \A i \in DOMAIN objs : objs[i] \in Object
  BY <1>1 DEF Holds, Here
<1>4. IsFiniteSet(Values(c)) /\ Cardinality(Values(c)) = Len(c)
  BY <1>2, <1>3, OnceCard
<1>5. made \in Nat /\ made <= MaxObjects /\ MaxObjects \in Nat
  BY EntryAssumption DEF EntryTyped
<1>6. IsFiniteSet(1 .. made) /\ Cardinality(1 .. made) = made
  <2>1. 1 \in Int /\ made \in Int
    BY <1>5
  <2>2. IsFiniteSet(1 .. made) /\ Cardinality(1 .. made) = IF 1 > made THEN 0 ELSE made - 1 + 1
    BY <2>1, FS_Interval
  <2>3. QED
    BY <1>5, <2>2
<1>7. Len(c) <= made
  <2>1. Values(c) \in SUBSET (1 .. made)
    BY <1>1
  <2>2. Cardinality(Values(c)) <= Cardinality(1 .. made)
    BY <1>6, <2>1, FS_Subset
  <2>3. QED
    BY <1>4, <1>6, <2>2
<1>8. Len(c) <= MaxObjects
  BY <1>2, <1>5, <1>7
<1>9. Chain(objs, first) = c
  BY <1>2, <1>3, <1>8, ChainIs
<1>10. QED
  BY <1>1, <1>2, <1>3, <1>4, <1>7, <1>9

\* The beginning of a list, as far as the list goes.
LEMMA FrontIs ==
    ASSUME NEW X, NEW c \in Seq(X), NEW j \in 0 .. Len(c)
    PROVE  /\ SubSeq(c, 1, j) \in Seq(X) /\ Len(SubSeq(c, 1, j)) = j
           /\ \A k \in 1 .. j : SubSeq(c, 1, j)[k] = c[k] /\ k \in DOMAIN c
<1> DEFINE n == Len(c)
<1>1. n \in Nat /\ DOMAIN c = 1 .. n /\ j \in 0 .. n /\ 1 \in 1 .. n + 1
  OBVIOUS
<1>2. /\ SubSeq(c, 1, j) \in Seq(X)
      /\ Len(SubSeq(c, 1, j)) = IF 1 <= j THEN j - 1 + 1 ELSE 0
      /\ \A k \in 1 .. j - 1 + 1 : SubSeq(c, 1, j)[k] = c[1 + k - 1]
  BY <1>1, SubSeqProperties
<1>3. (IF 1 <= j THEN j - 1 + 1 ELSE 0) = j
  BY <1>1
<1>4. \A k \in 1 .. j : k \in 1 .. j - 1 + 1 /\ 1 + k - 1 = k /\ k \in 1 .. n
  BY <1>1
<1>5. QED
  BY <1>1, <1>2, <1>3, <1>4

\* A walk goes on where it was over a list that has grown.
LEMMA WalkGoesOn ==
    ASSUME NEW l, NEW c, NEW m, NEW d, NEW cur, NEW seen, Holds(l, c), Holds(m, d),
           Begins(c, d), KeptIn(l, m, DOMAIN l.objs), WalkAt(l, c, cur, seen)
    PROVE  WalkAt(m, d, cur, seen)
<1>1. CASE cur.fresh
  BY <1>1 DEF WalkAt
<1>2. CASE ~cur.fresh
  <2>1. PICK j \in DOMAIN c : /\ cur.next = NoObject \/ (j < Len(c) /\ cur.next = c[j + 1])
                              /\ seen = Only(SubSeq(c, 1, j), SetOf(l, cur.name))
    BY <1>2 DEF WalkAt
  <2>2. /\ c \in Seq(Nat) /\ Len(c) \in Nat /\ DOMAIN c = 1 .. Len(c)
        /\ \A k \in DOMAIN c : c[k] \in DOMAIN l.objs
    BY HoldsMeans
  <2>3. d \in Seq(Nat) /\ Len(d) \in Nat /\ DOMAIN d = 1 .. Len(d)
    BY HoldsMeans
  <2>4. Len(c) <= Len(d) /\ \A k \in DOMAIN c : d[k] = c[k]
    BY DEF Begins
  <2>5. j \in 0 .. Len(c) /\ j \in 0 .. Len(d) /\ j \in DOMAIN d
    BY <2>2, <2>3, <2>4
  <2> DEFINE a == SubSeq(c, 1, j)
             b == SubSeq(d, 1, j)
             S == SetOf(l, cur.name)
             U == SetOf(m, cur.name)
  <2>6. a \in Seq(Nat) /\ Len(a) = j /\ \A k \in 1 .. j : a[k] = c[k] /\ k \in DOMAIN c
    BY <2>2, <2>5, FrontIs
  <2>7. b \in Seq(Nat) /\ Len(b) = j /\ \A k \in 1 .. j : b[k] = d[k]
    BY <2>3, <2>5, FrontIs
  <2> HIDE DEF a, b
  <2>8. a = b
    BY <2>4, <2>6, <2>7, SameSeq
  <2>9. \A i \in DOMAIN l.objs : i \in S <=> i \in U
    BY DEF SetOf, KeptIn
  <2> HIDE DEF S, U
  <2>10. \A k \in DOMAIN a : a[k] \in S <=> a[k] \in U
    BY <2>2, <2>6, <2>9
  <2>11. Only(a, S) = Only(a, U)
    BY <2>6, <2>10, OnlyAlike
  <2>12. seen = Only(b, U)
    BY <2>1, <2>8, <2>11 DEF a, S
  <2>13. cur.next = NoObject \/ (j < Len(d) /\ cur.next = d[j + 1])
    <3>1. j < Len(c) => j + 1 \in DOMAIN c /\ j < Len(d)
      BY <2>2, <2>3, <2>4, <2>5
    <3>2. QED
      BY <2>1, <2>4, <3>1
  <2>14. QED
    BY <1>2, <2>5, <2>12, <2>13 DEF WalkAt, b, U
<1>3. QED
  BY <1>1, <1>2

-----------------------------------------------------------------------------
(* Every call keeps the list *)

LEMMA SameList ==
    ASSUME NEW l, NEW m, l.objs = m.objs, l.first = m.first, l.last = m.last
    PROVE  /\ \A c : Holds(l, c) => Holds(m, c)
           /\ \A k, S : KeptIn(k, l, S) => KeptIn(k, m, S)
<1>1. ASSUME NEW c, Holds(l, c)
      PROVE  Holds(m, c)
  BY <1>1 DEF Holds
<1>2. ASSUME NEW k, NEW S, KeptIn(k, l, S)
      PROVE  KeptIn(k, m, S)
  BY <1>2 DEF KeptIn
<1>3. QED
  BY <1>1, <1>2

LEMMA BecomeIs ==
    ASSUME NEW l, Become(l)
    PROVE  /\ \A c : Holds(l, c) => Holds(Here', c)
           /\ \A k, S : KeptIn(k, l, S) => KeptIn(k, Here', S)
<1> DEFINE m == [objs |-> objs', first |-> first', last |-> last']
<1>1. l.objs = m.objs /\ l.first = m.first /\ l.last = m.last
  BY DEF Become
<1>2. Here' = m
  BY DEF Here
<1> HIDE DEF m
<1>3. QED
  BY <1>1, <1>2, SameList

\* A call that does no more than add to the list leaves a walk sound.
LEMMA CutsKeeps ==
    ASSUME EntryTyped, cursor' = cursor, NEW ids, Cuts(ids), NEW c, Holds(Here, c),
           cursor.on /\ ~disturbed => WalkAt(Here, c, cursor, met),
           NEW d, Holds(Here', d),
           ids = {} => Begins(c, d) /\ KeptIn(Here, Here', DOMAIN objs)
    PROVE  /\ disturbed' \in BOOLEAN
           /\ cursor'.on /\ ~disturbed' => WalkAt(Here', d, cursor', met')
<1>1. disturbed' = (disturbed \/ (cursor.on /\ ids # {})) /\ met' = IF disturbed' THEN <<>> ELSE met
  BY DEF Cuts
<1>2. disturbed' \in BOOLEAN
  BY <1>1
<1>3. ASSUME cursor.on, ~disturbed'
      PROVE  WalkAt(Here', d, cursor, met)
  <2>1. ~disturbed /\ ids = {}
    BY <1>1, <1>3
  <2>2. WalkAt(Here, c, cursor, met) /\ Begins(c, d) /\ KeptIn(Here, Here', DOMAIN objs)
    BY <1>3, <2>1
  <2>3. DOMAIN Here.objs = DOMAIN objs
    BY DEF Here
  <2>4. QED
    BY <2>2, <2>3, WalkGoesOn
<1>4. QED
  BY <1>1, <1>2, <1>3

\* What is left when the objects of a name are removed.
LEMMA RemovedIs ==
    ASSUME EntryTyped, NEW c, Counted(Here, c, num, made), NEW name
    PROVE  \E d :
             /\ Holds(Removed(name), d) /\ Values(d) \subseteq 1 .. made
             /\ Cardinality(Matching(name)) \in Nat /\ Len(d) = num - Cardinality(Matching(name))
             /\ Matching(name) = {} => d = c /\ KeptIn(Here, Removed(name), DOMAIN objs)
<1> DEFINE M == Matching(name)
           D == DOMAIN objs
           d == Only(c, D \ M)
<1>1. /\ c \in Seq(Nat) /\ Len(c) \in Nat /\ num = Len(c) /\ Once(c) /\ Values(c) = D
      /\ IsFiniteSet(D) /\ Cardinality(D) = num /\ Chain(objs, first) = c
  BY CountedMeans
<1>2. Removed(name) = Relinked(d)
  BY <1>1 DEF Removed, Others
<1>3. M \subseteq D
  BY DEF Matching
<1> HIDE DEF M, D
<1>4. d \in Seq(Nat) /\ Values(d) = D \ M /\ Once(d)
  <2>1. d \in Seq(Nat) /\ Values(d) = Values(c) \cap (D \ M) /\ Once(d)
    BY <1>1, OnlySet
  <2>2. QED
    BY <1>1, <2>1
<1>5. M = {} => d = c
  <2>1. ASSUME M = {}
        PROVE  \A k \in DOMAIN c : c[k] \in D \ M
    BY <1>1, <2>1 DEF Values
  <2>2. QED
    BY <1>1, <2>1, OnlyAll
<1> HIDE DEF d
<1>6. Holds(Here, c) /\ Values(c) \subseteq 1 .. made
  BY DEF Counted
<1>7. Holds(Relinked(d), d) /\ KeptIn(Here, Relinked(d), Values(d))
  <2>1. Values(d) \subseteq DOMAIN objs
    BY <1>4 DEF D
  <2>2. QED
    BY <1>4, <1>6, <2>1, RelinkedHolds
<1>8. Cardinality(M) \in Nat /\ Len(d) = num - Cardinality(M)
  <2>1. Cardinality(Values(d)) = Len(d)
    BY <1>4, OnceCard
  <2>2. Cardinality(D \ M) = Cardinality(D) - Cardinality(D \cap M)
    BY <1>1, FS_Difference
  <2>3. D \cap M = M
    BY <1>3
  <2>4. IsFiniteSet(M)
    BY <1>1, <1>3, FS_Subset
  <2>5. Cardinality(M) \in Nat
    BY <2>4, FS_CardinalityType
  <2>6. QED
    BY <1>1, <1>4, <2>1, <2>2, <2>3, <2>5
<1>9. M = {} => KeptIn(Here, Relinked(d), DOMAIN objs)
  BY <1>4, <1>7 DEF D
<1>10. Values(d) \subseteq 1 .. made
  BY <1>1, <1>4, <1>6
<1>11. QED
  BY <1>2, <1>5, <1>7, <1>8, <1>9, <1>10 DEF M

LEMMA EntryInvMeans ==
    ASSUME EntryInv
    PROVE  /\ EntryTyped
           /\ \E c : /\ Counted(Here, c, num, made) /\ Holds(Here, c)
                     /\ cursor.on /\ ~disturbed => WalkAt(Here, c, cursor, met)
  BY DEF EntryInv, Counted

LEMMA PutKeeps ==
    ASSUME EntryInv, NEW name \in Name, NEW data \in Value, NEW replace \in BOOLEAN,
           _put(name, data, replace)
    PROVE  EntryInv'
<1>1. EntryTyped
  BY EntryInvMeans
<1>2. PICK c : /\ Counted(Here, c, num, made) /\ Holds(Here, c)
               /\ cursor.on /\ ~disturbed => WalkAt(Here, c, cursor, met)
  BY EntryInvMeans
<1> DEFINE gone == IF replace THEN Matching(name) ELSE {}
           l == IF replace THEN Removed(name) ELSE Here
           less == IF replace THEN Cardinality(gone) ELSE 0
           id == made + 1
           m == Linked(l, id, name, data)
<1>3. /\ made < MaxObjects /\ Become(m) /\ made' = id /\ num' = num - less + 1
      /\ Cuts(gone) /\ cursor' = cursor /\ disk' = disk
  BY DEF _put
<1>4. made \in 0 .. MaxObjects /\ MaxObjects \in Nat /\ made \in Nat /\ id \in Nat
  BY <1>1, EntryAssumption DEF EntryTyped
<1>5. num = Len(c) /\ num \in Nat /\ c \in Seq(Nat) /\ Values(c) = DOMAIN objs /\ Values(c) \subseteq 1 .. made
  BY <1>1, <1>2, CountedMeans DEF Counted
<1>6. \E d : /\ Holds(l, d) /\ Values(d) \subseteq 1 .. made /\ less \in Nat /\ Len(d) = num - less
             /\ gone = {} => d = c /\ KeptIn(Here, l, DOMAIN objs)
  <2>1. CASE replace
    <3>1. l = Removed(name) /\ gone = Matching(name) /\ less = Cardinality(Matching(name))
      BY <2>1
    <3> HIDE DEF l, gone, less
    <3>2. QED
      BY <1>1, <1>2, <3>1, RemovedIs
  <2>2. CASE ~replace
    <3>1. l = Here /\ gone = {} /\ less = 0
      BY <2>2
    <3> HIDE DEF l, gone, less
    <3>2. KeptIn(Here, Here, DOMAIN objs)
      BY DEF KeptIn, Here
    <3>3. Len(c) = num - 0
      BY <1>5
    <3>4. QED
      BY <1>2, <1>5, <3>1, <3>2, <3>3
  <2>3. QED
    BY <2>1, <2>2
<1> HIDE DEF l, gone, less
<1>7. PICK d : /\ Holds(l, d) /\ Values(d) \subseteq 1 .. made /\ less \in Nat /\ Len(d) = num - less
               /\ gone = {} => d = c /\ KeptIn(Here, l, DOMAIN objs)
  BY <1>6
<1> DEFINE e == Append(d, id)
<1>8. d \in Seq(Nat) /\ Len(d) \in Nat /\ DOMAIN d = 1 .. Len(d) /\ Values(d) = DOMAIN l.objs
  BY <1>7, HoldsMeans DEF Holds
<1>9. id \notin DOMAIN l.objs
  <2>1. id \notin 1 .. made
    BY <1>4
  <2>2. QED
    BY <1>7, <1>8, <2>1
<1> HIDE DEF id
<1>10. Holds(m, e) /\ KeptIn(l, m, DOMAIN l.objs)
  BY <1>4, <1>7, <1>9, LinkedHolds
<1>11. Len(e) = Len(d) + 1 /\ (\A k \in 1 .. Len(d) : e[k] = d[k]) /\ Values(e) = Values(d) \cup {id}
  BY <1>4, <1>8, AppendElems, AppendValues
<1> HIDE DEF e
<1>12. Holds(Here', e) /\ \A k, S : KeptIn(k, m, S) => KeptIn(k, Here', S)
  <2> HIDE DEF m
  <2>1. QED
    BY <1>3, <1>10, BecomeIs
<1>13. ASSUME gone = {}
       PROVE  Begins(c, e) /\ KeptIn(Here, Here', DOMAIN objs)
  <2>1. d = c /\ KeptIn(Here, l, DOMAIN objs)
    BY <1>7, <1>13
  <2>2. Begins(c, e)
    BY <1>8, <1>11, <2>1 DEF Begins
  <2>3. KeptIn(l, Here', DOMAIN l.objs) /\ DOMAIN l.objs = DOMAIN objs
    BY <1>5, <1>8, <1>10, <1>12, <2>1
  <2>4. KeptIn(Here, Here', DOMAIN objs)
    BY <2>1, <2>3 DEF KeptIn
  <2>5. QED
    BY <2>2, <2>4
<1>14. disturbed' \in BOOLEAN /\ (cursor'.on /\ ~disturbed' => WalkAt(Here', e, cursor', met'))
  BY <1>1, <1>2, <1>3, <1>12, <1>13, CutsKeeps
<1>15. Counted(Here', e, num', made')
  <2>1. num' = Len(e)
    BY <1>3, <1>5, <1>7, <1>8, <1>11
  <2>2. 1 .. made \subseteq 1 .. id /\ id \in 1 .. id
    BY <1>4 DEF id
  <2>3. Values(e) \subseteq 1 .. made'
    BY <1>3, <1>7, <1>11, <2>2
  <2>4. QED
    BY <1>12, <2>1, <2>3 DEF Counted
<1>16. EntryTyped'
  <2>1. made' \in 0 .. MaxObjects
    BY <1>3, <1>4 DEF id
  <2>2. QED
    BY <1>1, <1>3, <1>14, <2>1 DEF EntryTyped
<1>17. QED
  BY <1>14, <1>15, <1>16 DEF EntryInv

LEMMA RemoveKeeps ==
    ASSUME EntryInv, NEW name \in Name, _remove(name)
    PROVE  EntryInv'
<1>1. EntryTyped
  BY EntryInvMeans
<1>2. PICK c : /\ Counted(Here, c, num, made) /\ Holds(Here, c)
               /\ cursor.on /\ ~disturbed => WalkAt(Here, c, cursor, met)
  BY EntryInvMeans
<1>3. /\ Become(Removed(name)) /\ num' = num - Cardinality(Matching(name)) /\ Cuts(Matching(name))
      /\ made' = made /\ cursor' = cursor /\ disk' = disk
  BY DEF _remove
<1>4. PICK d :
        /\ Holds(Removed(name), d) /\ Values(d) \subseteq 1 .. made
        /\ Cardinality(Matching(name)) \in Nat /\ Len(d) = num - Cardinality(Matching(name))
        /\ Matching(name) = {} => d = c /\ KeptIn(Here, Removed(name), DOMAIN objs)
  BY <1>1, <1>2, RemovedIs
<1>5. Holds(Here', d) /\ \A k, S : KeptIn(k, Removed(name), S) => KeptIn(k, Here', S)
  BY <1>3, <1>4, BecomeIs
<1>6. Matching(name) = {} => Begins(c, d) /\ KeptIn(Here, Here', DOMAIN objs)
  <2>1. Begins(c, c)
    <3>1. Len(c) \in Nat
      BY <1>2, HoldsMeans
    <3>2. QED
      BY <3>1 DEF Begins
  <2>2. QED
    BY <1>4, <1>5, <2>1
<1>7. disturbed' \in BOOLEAN /\ (cursor'.on /\ ~disturbed' => WalkAt(Here', d, cursor', met'))
  BY <1>1, <1>2, <1>3, <1>5, <1>6, CutsKeeps
<1>8. Counted(Here', d, num', made')
  BY <1>3, <1>4, <1>5 DEF Counted
<1>9. EntryTyped'
  BY <1>1, <1>3, <1>7 DEF EntryTyped
<1>10. QED
  BY <1>7, <1>8, <1>9 DEF EntryInv

\* The empty list.
LEMMA EmptyHolds ==
    ASSUME NEW l, l.objs = <<>>, l.first = NoObject, l.last = NoObject
    PROVE  Holds(l, <<>>) /\ DOMAIN l.objs = {} /\ Values(<<>>) = {} /\ Len(<<>>) = 0
<1>1. DOMAIN l.objs = {} /\ Values(<<>>) = {} /\ Len(<<>>) = 0 /\ <<>> \in Seq(Nat) /\ DOMAIN <<>> = {}
  BY DEF Values
<1>2. IsChain(l.objs, l.first, <<>>)
  BY <1>1 DEF IsChain
<1>3. QED
  BY <1>1, <1>2 DEF Holds, Once

LEMMA TruncateKeeps ==
    ASSUME EntryInv, _truncate
    PROVE  EntryInv'
<1>1. EntryTyped
  BY EntryInvMeans
<1>2. PICK c : /\ Counted(Here, c, num, made) /\ Holds(Here, c)
               /\ cursor.on /\ ~disturbed => WalkAt(Here, c, cursor, met)
  BY EntryInvMeans
<1>3. /\ objs' = <<>> /\ first' = NoObject /\ last' = NoObject /\ num' = 0
      /\ Cuts(DOMAIN objs) /\ made' = made /\ cursor' = cursor /\ disk' = disk
  BY DEF _truncate
<1>4. Holds(Here', <<>>) /\ Values(<<>>) = {} /\ Len(<<>>) = 0
  <2> DEFINE m == [objs |-> objs', first |-> first', last |-> last']
  <2>1. m.objs = <<>> /\ m.first = NoObject /\ m.last = NoObject
    BY <1>3
  <2>2. Here' = m
    BY DEF Here
  <2> HIDE DEF m
  <2>3. QED
    BY <2>1, <2>2, EmptyHolds
<1>5. ASSUME DOMAIN objs = {}
      PROVE  Begins(c, <<>>) /\ KeptIn(Here, Here', DOMAIN objs)
  <2>1. Values(c) = {} /\ Len(c) \in Nat /\ DOMAIN c = 1 .. Len(c)
    BY <1>1, <1>2, <1>5, CountedMeans
  <2>2. DOMAIN c = {}
    BY <2>1 DEF Values
  <2>3. Len(c) = 0
    BY <2>1, <2>2
  <2>4. Begins(c, <<>>)
    BY <1>4, <2>2, <2>3 DEF Begins
  <2>5. KeptIn(Here, Here', DOMAIN objs)
    BY <1>5 DEF KeptIn
  <2>6. QED
    BY <2>4, <2>5
<1>6. disturbed' \in BOOLEAN /\ (cursor'.on /\ ~disturbed' => WalkAt(Here', <<>>, cursor', met'))
  BY <1>1, <1>2, <1>3, <1>4, <1>5, CutsKeeps
<1>7. Counted(Here', <<>>, num', made')
  BY <1>3, <1>4 DEF Counted
<1>8. EntryTyped'
  BY <1>1, <1>3, <1>6 DEF EntryTyped
<1>9. QED
  BY <1>6, <1>7, <1>8 DEF EntryInv

\* The objects with their links turned round.
Turned(c) ==
    [i \in DOMAIN objs |->
        LET k == CHOOSE k \in DOMAIN c : c[k] = i
        IN [objs[i] EXCEPT !.next = IF k = 1 THEN NoObject ELSE c[k - 1]]]

LEMMA ReverseKeeps ==
    ASSUME EntryInv, _reverse
    PROVE  EntryInv'
<1>1. EntryTyped
  BY EntryInvMeans
<1>2. PICK c : /\ Counted(Here, c, num, made) /\ Holds(Here, c)
               /\ cursor.on /\ ~disturbed => WalkAt(Here, c, cursor, met)
  BY EntryInvMeans
<1> DEFINE n == Len(c)
           D == DOMAIN objs
           place(i) == CHOOSE k \in DOMAIN c : c[k] = i
           link(i) == IF place(i) = 1 THEN NoObject ELSE c[place(i) - 1]
           d == [k \in 1 .. n |-> c[n + 1 - k]]
<1>3. /\ c \in Seq(Nat) /\ n \in Nat /\ DOMAIN c = 1 .. n /\ num = n /\ Once(c) /\ Values(c) = D
      /\ Chain(objs, first) = c /\ NoObject \notin D /\ \A i \in D : objs[i] \in Object
  BY <1>1, <1>2, CountedMeans
<1>4. /\ objs' = [i \in D |-> [objs[i] EXCEPT !.next = link(i)]]
      /\ last' = first /\ first' = (IF c = <<>> THEN NoObject ELSE c[n])
      /\ Cuts({0}) /\ num' = num /\ made' = made /\ cursor' = cursor /\ disk' = disk
  <2>1. /\ objs' = Turned(Chain(objs, first)) /\ last' = first
        /\ first' = (IF Chain(objs, first) = <<>> THEN NoObject
                     ELSE Chain(objs, first)[Len(Chain(objs, first))])
        /\ Cuts({0}) /\ num' = num /\ made' = made /\ cursor' = cursor /\ disk' = disk
    BY DEF _reverse, Turned
  <2>2. objs' = Turned(c)
    BY <1>3, <2>1
  <2>3. Turned(c) = [i \in D |-> [objs[i] EXCEPT !.next = link(i)]]
    BY DEF Turned
  <2> HIDE DEF place, D, link
  <2>4. QED
    BY <1>3, <2>1, <2>2, <2>3
<1>5. \A k \in 1 .. n : c[k] \in Nat /\ c[k] \in D /\ place(c[k]) = k
  BY <1>3 DEF Values, Once
<1>6. first = IF c = <<>> THEN NoObject ELSE c[1]
  BY <1>2 DEF Holds, IsChain, Here
<1> HIDE DEF place, D, n
<1>7. \A k \in 1 .. n : n + 1 - k \in 1 .. n /\ n + 1 - (n + 1 - k) = k
  BY <1>3
<1>8. /\ d \in Seq(Nat) /\ Len(d) = n /\ DOMAIN d = 1 .. n /\ \A k \in 1 .. n : d[k] = c[n + 1 - k]
  <2>1. d \in [1 .. n -> Nat]
    BY <1>5, <1>7
  <2>2. DOMAIN d = 1 .. n /\ \A k \in 1 .. n : d[k] = c[n + 1 - k]
    OBVIOUS
  <2>3. n \in Nat
    BY <1>3
  <2> HIDE DEF d
  <2>4. d \in Seq(Nat) /\ Len(d) = n
    BY <2>1, <2>3
  <2>5. QED
    BY <2>2, <2>4
<1> HIDE DEF d
<1>9. Values(d) = D
  <2>1. ASSUME NEW i \in D
        PROVE  i \in Values(d)
    <3>1. PICK k \in 1 .. n : c[k] = i
      BY <1>3 DEF Values
    <3>2. n + 1 - k \in 1 .. n /\ d[n + 1 - k] = c[n + 1 - (n + 1 - k)]
      BY <1>7, <1>8
    <3>3. d[n + 1 - k] = i
      BY <1>7, <3>1, <3>2
    <3>4. QED
      BY <1>8, <3>2, <3>3 DEF Values
  <2>2. ASSUME NEW k \in 1 .. n
        PROVE  d[k] \in D
    BY <1>5, <1>7, <1>8
  <2>3. QED
    BY <1>8, <2>1, <2>2 DEF Values
<1>10. Once(d)
  <2>1. ASSUME NEW a \in 1 .. n, NEW b \in 1 .. n, d[a] = d[b]
        PROVE  a = b
    <3>1. c[n + 1 - a] = c[n + 1 - b] /\ n + 1 - a \in 1 .. n /\ n + 1 - b \in 1 .. n
      BY <1>7, <1>8, <2>1
    <3>2. n + 1 - a = n + 1 - b
      BY <1>3, <3>1 DEF Once
    <3>3. QED
      BY <1>7, <3>2
  <2>2. QED
    BY <1>8, <2>1 DEF Once
<1>11. ASSUME NEW k \in 1 .. n
       PROVE  /\ objs'[d[k]] \in Object
              /\ objs'[d[k]].next = IF k = n THEN NoObject ELSE d[k + 1]
  <2> DEFINE q == n + 1 - k
             i == c[q]
             o == objs[i]
             x == link(i)
             y == objs'[i]
  <2>1. q \in 1 .. n /\ d[k] = c[q] /\ (q = 1 <=> k = n)
    BY <1>3, <1>7, <1>8
  <2>2. k # n => k + 1 \in 1 .. n /\ q - 1 = n + 1 - (k + 1) /\ q - 1 \in 1 .. n
    BY <1>3
  <2>3. k # n => d[k + 1] = c[q - 1]
    BY <1>8, <2>2
  <2> HIDE DEF q
  <2>4. i \in D /\ place(i) = q /\ o \in Object
    BY <1>3, <1>5, <2>1
  <2>5. x = IF k = n THEN NoObject ELSE d[k + 1]
    BY <2>1, <2>3, <2>4
  <2>6. x \in Nat \cup {NoObject}
    BY <1>5, <2>2, <2>3, <2>5
  <2>7. y = [o EXCEPT !.next = x]
    BY <1>4, <2>4
  <2> HIDE DEF i, o, x, y
  <2>8. y \in Object /\ y.next = x
    BY <2>4, <2>6, <2>7, LinkChanged
  <2>9. QED
    BY <2>1, <2>5, <2>8 DEF y, i
<1>12. DOMAIN objs' = D
  BY <1>4
<1>13. (c = <<>> <=> n = 0) /\ (d = <<>> <=> n = 0)
  BY <1>3, <1>8 DEF n
<1>14. n # 0 => d[1] = c[n] /\ d[n] = c[1]
  <2>1. n # 0 => 1 \in 1 .. n /\ n \in 1 .. n /\ n + 1 - 1 = n /\ n + 1 - n = 1
    BY <1>3
  <2>2. QED
    BY <1>8, <2>1
<1> DEFINE m == [objs |-> objs', first |-> first', last |-> last']
<1>15. m.objs = objs' /\ m.first = first' /\ m.last = last' /\ Here' = m
  BY DEF Here
<1> HIDE DEF m, link
<1>16. IsChain(objs', first', d)
  <2>1. first' = IF d = <<>> THEN NoObject ELSE d[1]
    BY <1>4, <1>13, <1>14
  <2>2. \A k \in DOMAIN d : objs'[d[k]].next = IF k = Len(d) THEN NoObject ELSE d[k + 1]
    BY <1>8, <1>11
  <2>3. QED
    BY <1>8, <1>9, <1>12, <2>1, <2>2 DEF IsChain
<1>17. Holds(Here', d)
  <2>1. last' = IF d = <<>> THEN NoObject ELSE d[Len(d)]
    BY <1>4, <1>6, <1>8, <1>13, <1>14
  <2>2. \A i \in DOMAIN objs' : objs'[i] \in Object
    <3>1. ASSUME NEW i \in DOMAIN objs'
          PROVE  objs'[i] \in Object
      <4>1. PICK k \in 1 .. n : d[k] = i
        BY <1>8, <1>9, <1>12, <3>1 DEF Values
      <4>2. QED
        BY <1>11, <4>1
    <3>2. QED
      BY <3>1
  <2>3. Holds(m, d)
    BY <1>9, <1>10, <1>12, <1>15, <1>16, <2>1, <2>2 DEF Holds
  <2>4. QED
    BY <1>15, <2>3
<1>18. disturbed' \in BOOLEAN /\ (cursor'.on /\ ~disturbed' => WalkAt(Here', d, cursor', met'))
  <2>1. {0} # {}
    OBVIOUS
  <2>2. QED
    BY <1>1, <1>2, <1>4, <1>17, <2>1, CutsKeeps
<1>19. Counted(Here', d, num', made')
  <2>1. Values(d) \subseteq 1 .. made'
    BY <1>2, <1>3, <1>4, <1>9 DEF Counted
  <2>2. QED
    BY <1>3, <1>4, <1>8, <1>17, <2>1 DEF Counted
<1>20. EntryTyped'
  BY <1>1, <1>4, <1>18 DEF EntryTyped
<1>21. QED
  BY <1>18, <1>19, <1>20 DEF EntryInv

LEMMA StartKeeps ==
    ASSUME EntryInv, NEW name \in Name \cup {All}, StartWalk(name)
    PROVE  EntryInv'
<1>1. EntryTyped
  BY EntryInvMeans
<1>2. PICK c : Counted(Here, c, num, made)
  BY EntryInvMeans
<1>3. /\ cursor' = [Off EXCEPT !.on = TRUE, !.name = name] /\ met' = <<>> /\ disturbed' = FALSE
      /\ objs' = objs /\ first' = first /\ last' = last /\ num' = num /\ made' = made /\ disk' = disk
  BY DEF StartWalk
<1>4. cursor' \in Cursor /\ cursor'.fresh
  BY <1>3 DEF Cursor, Off
<1>5. Here' = Here
  BY <1>3 DEF Here
<1>6. WalkAt(Here', c, cursor', met')
  BY <1>3, <1>4 DEF WalkAt
<1>7. Counted(Here', c, num', made')
  BY <1>2, <1>3, <1>5
<1>8. EntryTyped'
  BY <1>1, <1>3, <1>4 DEF EntryTyped
<1>9. QED
  BY <1>6, <1>7, <1>8 DEF EntryInv

LEMMA SaveKeeps ==
    ASSUME EntryInv, _save
    PROVE  EntryInv'
<1>1. EntryTyped
  BY EntryInvMeans
<1>2. PICK c : /\ Counted(Here, c, num, made)
               /\ cursor.on /\ ~disturbed => WalkAt(Here, c, cursor, met)
  BY EntryInvMeans
<1>3. /\ disk' = [k \in 1 .. Len(Chain(objs, first)) |->
                    LET o == objs[Chain(objs, first)[k]] IN [name |-> o.name, data |-> o.data]]
      /\ objs' = objs /\ first' = first /\ last' = last /\ num' = num /\ made' = made
      /\ cursor' = cursor /\ met' = met /\ disturbed' = disturbed
  BY DEF _save, listVars
<1>4. disk' \in Seq(SavedLine)
  <2> DEFINE n == Len(c)
             f == [k \in 1 .. n |-> [name |-> objs[c[k]].name, data |-> objs[c[k]].data]]
  <2>1. /\ n \in Nat /\ DOMAIN c = 1 .. n /\ Chain(objs, first) = c /\ Values(c) = DOMAIN objs
        /\ \A i \in DOMAIN objs : objs[i] \in Object
    BY <1>1, <1>2, CountedMeans
  <2>2. disk' = f
    BY <1>3, <2>1
  <2>3. \A k \in 1 .. n : objs[c[k]] \in Object
    BY <2>1 DEF Values
  <2> HIDE DEF n
  <2>4. \A k \in 1 .. n : [name |-> objs[c[k]].name, data |-> objs[c[k]].data] \in SavedLine
    BY <2>3 DEF Object, SavedLine
  <2>5. f \in [1 .. n -> SavedLine]
    BY <2>4
  <2> HIDE DEF f
  <2>6. f \in Seq(SavedLine)
    BY <2>1, <2>5
  <2>7. QED
    BY <2>2, <2>6
<1>5. Here' = Here
  BY <1>3 DEF Here
<1>6. EntryTyped'
  BY <1>1, <1>3, <1>4 DEF EntryTyped
<1>7. Counted(Here', c, num', made') /\ (cursor'.on /\ ~disturbed' => WalkAt(Here', c, cursor', met'))
  BY <1>2, <1>3, <1>5
<1>8. QED
  BY <1>6, <1>7 DEF EntryInv

LEMMA LoadKeeps ==
    ASSUME EntryInv, _load
    PROVE  EntryInv'
<1>1. EntryTyped
  BY EntryInvMeans
<1>2. PICK c : /\ Counted(Here, c, num, made) /\ Holds(Here, c)
               /\ cursor.on /\ ~disturbed => WalkAt(Here, c, cursor, met)
  BY EntryInvMeans
<1> DEFINE l == LinkedAll(Here, disk, made)
           b == made + Len(disk)
<1>3. /\ b <= MaxObjects /\ Become(l) /\ made' = b /\ num' = num + Len(disk)
      /\ cursor' = cursor /\ met' = met /\ disturbed' = disturbed /\ disk' = disk
  BY DEF _load
<1>4. disk \in Seq(SavedLine) /\ Len(disk) \in Nat /\ made \in Nat /\ MaxObjects \in Nat
  BY <1>1, EntryAssumption DEF EntryTyped
<1>5. num = Len(c) /\ Len(c) \in Nat /\ DOMAIN c = 1 .. Len(c) /\ Values(c) \subseteq 1 .. made
  BY <1>1, <1>2, CountedMeans DEF Counted
<1>6. PICK d : Continued(Here, c, l, d, made, b)
  BY <1>2, <1>4, <1>5, LinkedAllHolds
<1> HIDE DEF l, b
<1>7. /\ Holds(l, d) /\ Begins(c, d) /\ KeptIn(Here, l, DOMAIN Here.objs)
      /\ Len(d) = Len(c) + b - made /\ Values(d) \subseteq 1 .. b
  BY <1>6 DEF Continued
<1>8. Holds(Here', d) /\ KeptIn(Here, Here', DOMAIN Here.objs)
  BY <1>3, <1>7, BecomeIs
<1>9. ASSUME cursor.on, ~disturbed
      PROVE  WalkAt(Here', d, cursor, met)
  BY <1>2, <1>7, <1>8, <1>9, WalkGoesOn
<1>10. Counted(Here', d, num', made')
  <2>1. num' = Len(d)
    BY <1>3, <1>4, <1>5, <1>7 DEF b
  <2>2. QED
    BY <1>3, <1>7, <1>8, <2>1 DEF Counted
<1>11. EntryTyped'
  <2>1. made' \in 0 .. MaxObjects
    BY <1>3, <1>4 DEF b
  <2>2. QED
    BY <1>1, <1>3, <2>1 DEF EntryTyped
<1>12. QED
  BY <1>3, <1>9, <1>10, <1>11 DEF EntryInv

\* What is picked from the first k elements.
LEMMA PicksFront ==
    ASSUME NEW X, NEW s \in Seq(X), NEW S, NEW p, Picks(s, S, p), NEW k \in 0 .. Len(s)
    PROVE  Only(SubSeq(s, 1, k), S) = p[k]
<1> DEFINE t == SubSeq(s, 1, k)
<1>1. t \in Seq(X) /\ Len(t) = k /\ \A q \in 1 .. k : t[q] = s[q]
  BY FrontIs
<1> HIDE DEF t
<1>2. Len(t) <= Len(s) /\ \A q \in 1 .. Len(t) : s[q] = t[q] /\ (s[q] \in S <=> t[q] \in S)
  BY <1>1
<1>3. Only(t, S) = p[Len(t)]
  BY <1>1, <1>2, OnlyBegin
<1>4. QED
  BY <1>1, <1>3 DEF t

\* The sequence s is what follows the first j elements of c.
IsRest(c, j, s) ==
    /\ s \in Seq(Nat) /\ Len(s) = Len(c) - j
    /\ \A k \in 1 .. Len(c) - j : s[k] = c[j + k]

\* After j elements the next one of S in c is x.
MeetsNext(c, S, j, x) ==
    \E i \in DOMAIN c :
        /\ x = c[i]
        /\ Only(SubSeq(c, 1, i), S) = Append(Only(SubSeq(c, 1, j), S), c[i])

\* What is ahead of a walk in the rest of a list: the first one wanted ends what is met.
LEMMA AheadIs ==
    ASSUME NEW c, c \in Seq(Nat), NEW S, NEW j \in 0 .. Len(c), j < Len(c),
           NEW s, IsRest(c, j, s), Only(s, S) # <<>>
    PROVE  MeetsNext(c, S, j, Only(s, S)[1])
<1> DEFINE n == Len(c)
           m == n - j
<1>1. n \in Nat /\ DOMAIN c = 1 .. n /\ j \in Nat /\ m \in Nat /\ j + m = n
  OBVIOUS
<1>2. /\ s \in Seq(Nat) /\ Len(s) = m /\ DOMAIN s = 1 .. m
      /\ \A k \in 1 .. m : s[k] = c[j + k]
  BY DEF IsRest
<1>3. PICK a \in DOMAIN s : /\ Only(s, S)[1] = s[a] /\ s[a] \in S
                            /\ \A k \in DOMAIN s : k < a => s[k] \notin S
  BY <1>2, OnlyFirst
<1>4. PICK p : /\ \A k \in 0 .. Len(c) : p[k] \in Seq(Nat)
               /\ Picks(c, S, p)
               /\ Only(c, S) = p[Len(c)]
  BY OnlyIs
<1> HIDE DEF n, m
<1> DEFINE i == j + a
<1>5. /\ a \in 1 .. m /\ i \in 1 .. n /\ i - 1 = j + (a - 1) /\ i - 1 \in j .. n /\ j \in 0 .. n
      /\ i \in 0 .. n /\ i - 1 \in 0 .. n
  <2>1. a \in 1 .. m
    BY <1>2
  <2>2. n \in Nat /\ j \in Nat /\ m \in Nat /\ j + m = n /\ a \in 1 .. m
    BY <1>1, <2>1
  <2>3. i \in 1 .. n /\ i - 1 = j + (a - 1)
    BY ONLY <2>2
  <2>4. i - 1 \in j .. n /\ j \in 0 .. n /\ i \in 0 .. n /\ i - 1 \in 0 .. n
    BY ONLY <2>2
  <2>5. QED
    BY <2>1, <2>3, <2>4
<1>6. s[a] = c[i]
  <2>1. s[a] = c[j + a]
    BY ONLY <1>2, <1>5
  <2>2. QED
    BY <2>1
<1>7. ASSUME NEW k \in j + 1 .. i - 1
      PROVE  c[k] \notin S
  <2>1. k - j \in 1 .. m /\ k - j < a /\ j + (k - j) = k
    <3>1. k \in j + 1 .. i - 1 /\ i - 1 = j + (a - 1) /\ a \in 1 .. m /\ j \in Nat /\ m \in Nat
      BY <1>1, <1>5
    <3> HIDE DEF i
    <3>2. k \in Int /\ k >= j + 1 /\ k <= j + (a - 1) /\ a \in Int /\ a <= m
      BY ONLY <3>1
    <3>3. QED
      BY ONLY <3>1, <3>2
  <2>2. s[k - j] = c[j + (k - j)] /\ s[k - j] \notin S
    BY <1>2, <1>3, <2>1
  <2>3. QED
    BY <2>1, <2>2
<1> HIDE DEF i
<1>8. p[i - 1] = p[j]
  <2>1. i - 1 \in j .. Len(c) /\ j \in 0 .. Len(c) /\ Len(c) \in Nat
    BY <1>1, <1>5 DEF n
  <2> DEFINE e == i - 1
  <2>2. e \in j .. Len(c) /\ \A k \in j + 1 .. e : c[k] \notin S
    BY <1>7, <2>1
  <2> HIDE DEF e
  <2>3. p[e] = p[j]
    BY ONLY <1>4, <2>1, <2>2, PicksNone
  <2>4. QED
    BY <2>3 DEF e
<1>9. p[i] = Append(p[i - 1], c[i])
  <2>1. i \in 1 .. Len(c) /\ c[i] \in S
    BY <1>3, <1>5, <1>6 DEF n
  <2>2. QED
    BY <1>4, <2>1 DEF Picks
<1>10. ASSUME NEW k \in 0 .. n
       PROVE  Only(SubSeq(c, 1, k), S) = p[k]
  BY ONLY <1>4, <1>10, c \in Seq(Nat), PicksFront DEF n
<1>11. Only(SubSeq(c, 1, i), S) = Append(Only(SubSeq(c, 1, j), S), c[i])
  BY <1>5, <1>8, <1>9, <1>10
<1>12. QED
  <2>1. i \in DOMAIN c /\ Only(s, S)[1] = c[i]
    BY <1>1, <1>3, <1>5, <1>6
  <2>2. QED
    BY <1>11, <2>1 DEF MeetsNext

\* Where the walk is when it asks for the next one.
LEMMA FromIs ==
    ASSUME EntryTyped, NEW c, Counted(Here, c, num, made), From \in DOMAIN objs,
           cursor.on /\ ~disturbed => WalkAt(Here, c, cursor, met), cursor.on
    PROVE  \E j \in 0 .. Len(c) : /\ j < Len(c) /\ From = c[j + 1]
                                  /\ ~disturbed => met = Only(SubSeq(c, 1, j), Wanted)
<1>1. /\ c \in Seq(Nat) /\ Len(c) \in Nat /\ DOMAIN c = 1 .. Len(c) /\ Values(c) = DOMAIN objs
      /\ IsChain(objs, first, c) /\ NoObject \notin DOMAIN objs
  BY CountedMeans
<1>2. CASE disturbed
  <2>1. PICK k \in DOMAIN c : c[k] = From
    BY <1>1 DEF Values
  <2>2. k - 1 \in 0 .. Len(c) /\ k - 1 < Len(c) /\ (k - 1) + 1 = k
    BY <1>1
  <2>3. QED
    BY <1>2, <2>1, <2>2
<1>3. CASE ~disturbed /\ cursor.fresh
  <2>1. From = first /\ met = <<>>
    BY <1>3 DEF From, WalkAt
  <2>2. c # <<>> /\ first = c[1]
    BY <1>1, <2>1 DEF IsChain
  <2>3. 0 \in 0 .. Len(c) /\ 0 < Len(c) /\ 0 + 1 = 1
    BY <1>1, <2>2
  <2>4. Only(SubSeq(c, 1, 0), Wanted) = <<>>
    <3> DEFINE t == SubSeq(c, 1, 0)
    <3>1. t \in Seq(Nat) /\ Len(t) = 0
      BY <1>1, <2>3, FrontIs
    <3>2. Values(t) = {}
      BY <3>1 DEF Values
    <3> HIDE DEF t
    <3>3. Only(t, Wanted) = <<>>
      BY <3>1, <3>2, OnlyEmpty
    <3>4. QED
      BY <3>3 DEF t
  <2>5. QED
    BY <2>1, <2>2, <2>3, <2>4
<1>4. CASE ~disturbed /\ ~cursor.fresh
  <2>1. PICK j \in DOMAIN c : /\ cursor.next = NoObject \/ (j < Len(c) /\ cursor.next = c[j + 1])
                              /\ met = Only(SubSeq(c, 1, j), SetOf(Here, cursor.name))
    BY <1>4 DEF WalkAt
  <2>2. From = cursor.next
    BY <1>4 DEF From
  <2>3. j < Len(c) /\ From = c[j + 1]
    BY <1>1, <2>1, <2>2
  <2>4. met = Only(SubSeq(c, 1, j), Wanted)
    BY <2>1, WantedIs
  <2>5. j \in 0 .. Len(c)
    BY <1>1
  <2>6. QED
    BY <2>3, <2>4, <2>5
<1>5. QED
  BY <1>2, <1>3, <1>4

LEMMA GetnextKeeps ==
    ASSUME EntryInv, _getnext
    PROVE  EntryInv'
<1>1. EntryTyped
  BY EntryInvMeans
<1>2. PICK c : /\ Counted(Here, c, num, made)
               /\ cursor.on /\ ~disturbed => WalkAt(Here, c, cursor, met)
  BY EntryInvMeans
<1> DEFINE ahead == Only(Chain(objs, From), Wanted)
<1>3. /\ cursor.on /\ From \in DOMAIN objs \cup {NoObject}
      /\ objs' = objs /\ first' = first /\ last' = last /\ num' = num /\ made' = made
      /\ disturbed' = disturbed /\ disk' = disk
      /\ IF ahead = <<>> THEN cursor' = Off /\ met' = <<>>
         ELSE /\ cursor' = [cursor EXCEPT !.fresh = FALSE, !.next = objs[ahead[1]].next]
              /\ met' = IF disturbed THEN met ELSE Append(met, ahead[1])
  BY DEF _getnext
<1>4. Here' = Here /\ Counted(Here', c, num', made')
  BY <1>2, <1>3 DEF Here
<1>5. CASE ahead = <<>>
  <2>1. cursor' = Off
    BY <1>3, <1>5
  <2>2. cursor' \in Cursor /\ ~cursor'.on
    BY <2>1 DEF Off, Cursor
  <2>3. EntryTyped'
    BY <1>1, <1>3, <2>2 DEF EntryTyped
  <2>4. QED
    BY <1>4, <2>2, <2>3 DEF EntryInv
<1>6. CASE ahead # <<>>
  <2>1. /\ c \in Seq(Nat) /\ Len(c) \in Nat /\ DOMAIN c = 1 .. Len(c) /\ Values(c) = DOMAIN objs
        /\ IsChain(objs, first, c) /\ NoObject \notin DOMAIN objs /\ Len(c) <= made
        /\ \A i \in DOMAIN objs : objs[i] \in Object
    BY <1>1, <1>2, CountedMeans
  <2>2. made \in Nat /\ made <= MaxObjects /\ MaxObjects \in Nat
    BY <1>1, EntryAssumption DEF EntryTyped
  <2>3. From \in DOMAIN objs
    <3>1. ASSUME From = NoObject
          PROVE  FALSE
      <4>1. IsChain(objs, From, <<>>) /\ Len(<<>>) <= MaxObjects
        BY <2>2, <3>1 DEF IsChain, Values
      <4>2. Chain(objs, From) = <<>>
        BY <2>1, <4>1, ChainIs
      <4>3. <<>> \in Seq(Nat) /\ Values(<<>>) = {}
        BY DEF Values
      <4>4. Only(<<>>, Wanted) = <<>>
        BY <4>3, OnlyEmpty
      <4>5. QED
        BY <1>6, <4>2, <4>4
    <3>2. QED
      BY <1>3, <3>1
  <2>4. PICK j \in 0 .. Len(c) : /\ j < Len(c) /\ From = c[j + 1]
                                 /\ ~disturbed => met = Only(SubSeq(c, 1, j), Wanted)
    BY <1>1, <1>2, <1>3, <2>3, FromIs
  <2> DEFINE s == SubSeq(c, j + 1, Len(c))
  <2>5. /\ IsChain(objs, From, s) /\ Len(s) = Len(c) - j
        /\ \A k \in 1 .. Len(c) - j : s[k] = c[j + k]
    <3>1. IsChain(objs, first, c) /\ j \in 0 .. Len(c) /\ j < Len(c) /\ From = c[j + 1]
      BY <2>1, <2>4
    <3>2. /\ IsChain(objs, c[j + 1], s) /\ Len(s) = Len(c) - j
          /\ \A k \in 1 .. Len(c) - j : s[k] = c[j + k]
      BY ONLY <3>1, RestIsChain
    <3>3. QED
      BY <3>1, <3>2
  <2> HIDE DEF s
  <2>6. s \in Seq(Nat) /\ Len(s) <= MaxObjects
    <3>1. s \in Seq(Nat)
      BY <2>5 DEF IsChain
    <3>2. Len(s) <= MaxObjects
      BY <2>1, <2>2, <2>4, <2>5
    <3>3. QED
      BY <3>1, <3>2
  <2>7. ahead = Only(s, Wanted)
    BY <2>1, <2>5, <2>6, ChainIs
  <2>8. PICK i \in DOMAIN c :
          /\ ahead[1] = c[i]
          /\ Only(SubSeq(c, 1, i), Wanted) = Append(Only(SubSeq(c, 1, j), Wanted), c[i])
    <3>1. Only(s, Wanted) # <<>>
      BY <1>6, <2>7
    <3>2. /\ c \in Seq(Nat) /\ s \in Seq(Nat) /\ j \in 0 .. Len(c) /\ j < Len(c)
          /\ IsRest(c, j, s)
      BY <2>1, <2>4, <2>5, <2>6 DEF IsRest
    <3> DEFINE S == Wanted
    <3> HIDE DEF S
    <3>3. Only(s, S) # <<>>
      BY <3>1 DEF S
    <3>4. MeetsNext(c, S, j, Only(s, S)[1])
      BY ONLY <3>2, <3>3, AheadIs
    <3>5. ahead = Only(s, S)
      BY <2>7 DEF S
    <3> HIDE DEF ahead
    <3>6. MeetsNext(c, S, j, ahead[1])
      BY <3>4, <3>5
    <3>7. QED
      BY <3>6 DEF MeetsNext, S
  <2> DEFINE o == objs[c[i]]
  <2>9. o \in Object /\ o.next = IF i = Len(c) THEN NoObject ELSE c[i + 1]
    BY <2>1 DEF IsChain, Values
  <2>10. cursor' = [cursor EXCEPT !.fresh = FALSE, !.next = o.next]
    BY <1>3, <1>6, <2>8
  <2> HIDE DEF o
  <2>11. o.next \in Nat \cup {NoObject}
    BY <2>9 DEF Object
  <2>12. cursor' \in Cursor /\ ~cursor'.fresh /\ cursor'.next = o.next /\ cursor'.name = cursor.name
    BY <1>1, <2>10, <2>11 DEF EntryTyped, Cursor
  <2>13. EntryTyped'
    BY <1>1, <1>3, <2>12 DEF EntryTyped
  <2>14. ASSUME ~disturbed
         PROVE  WalkAt(Here, c, cursor', met')
    <3>1. met' = Only(SubSeq(c, 1, i), Wanted)
      BY <1>3, <1>6, <2>4, <2>8, <2>14
    <3>2. met' = Only(SubSeq(c, 1, i), SetOf(Here, cursor'.name))
      BY <2>12, <3>1, WantedIs
    <3>3. cursor'.next = NoObject \/ (i < Len(c) /\ cursor'.next = c[i + 1])
      BY <2>1, <2>9, <2>12
    <3>4. QED
      BY <2>12, <3>2, <3>3 DEF WalkAt
  <2>15. QED
    BY <1>3, <1>4, <2>13, <2>14 DEF EntryInv
<1>7. QED
  BY <1>5, <1>6

LEMMA EntryInvStarts == EntryInit => EntryInv
<1> SUFFICES ASSUME EntryInit
             PROVE  EntryInv
  OBVIOUS
<1>1. /\ objs = <<>> /\ first = NoObject /\ last = NoObject
      /\ num = 0 /\ made = 0 /\ cursor = Off /\ disturbed = FALSE /\ disk = <<>>
  BY DEF EntryInit
<1>2. cursor \in Cursor /\ ~cursor.on
  BY <1>1 DEF Off, Cursor
<1>3. EntryTyped
  <2>1. made \in 0 .. MaxObjects
    BY <1>1, EntryAssumption
  <2>2. disk \in Seq(SavedLine)
    BY <1>1
  <2>3. QED
    BY <1>1, <1>2, <2>1, <2>2 DEF EntryTyped
<1>4. Holds(Here, <<>>) /\ Values(<<>>) = {} /\ Len(<<>>) = 0
  <2> DEFINE m == [objs |-> objs, first |-> first, last |-> last]
  <2>1. m.objs = <<>> /\ m.first = NoObject /\ m.last = NoObject
    BY <1>1
  <2>2. Here = m
    BY DEF Here
  <2> HIDE DEF m
  <2>3. QED
    BY <2>1, <2>2, EmptyHolds
<1>5. Counted(Here, <<>>, num, made)
  BY <1>1, <1>4 DEF Counted
<1>6. QED
  BY <1>2, <1>3, <1>5 DEF EntryInv

LEMMA EntryInvKept == EntryInv /\ [EntryNext]_entryVars => EntryInv'
<1> SUFFICES ASSUME EntryInv, [EntryNext]_entryVars
             PROVE  EntryInv'
  OBVIOUS
<1>1. ASSUME NEW n \in Name, NEW d \in Value, NEW r \in BOOLEAN, _put(n, d, r)
      PROVE  EntryInv'
  BY <1>1, PutKeeps
<1>2. ASSUME NEW n \in Name, _remove(n)
      PROVE  EntryInv'
  BY <1>2, RemoveKeeps
<1>3. CASE _truncate
  BY <1>3, TruncateKeeps
<1>4. CASE _reverse
  BY <1>4, ReverseKeeps
<1>5. CASE _save
  BY <1>5, SaveKeeps
<1>6. CASE _load
  BY <1>6, LoadKeeps
<1>7. ASSUME NEW n \in Name \cup {All}, StartWalk(n)
      PROVE  EntryInv'
  BY <1>7, StartKeeps
<1>8. CASE _getnext
  BY <1>8, GetnextKeeps
<1>9. CASE UNCHANGED entryVars
  BY <1>9 DEF entryVars, EntryInv, EntryTyped, Here
<1>10. QED
  BY <1>1, <1>2, <1>3, <1>4, <1>5, <1>6, <1>7, <1>8, <1>9 DEF EntryNext

LEMMA ListIsSound == EntryInv => ListSound
<1> SUFFICES ASSUME EntryInv
             PROVE  ListSound
  OBVIOUS
<1>1. EntryTyped
  BY EntryInvMeans
<1>2. PICK c : /\ Counted(Here, c, num, made) /\ Holds(Here, c)
               /\ cursor.on /\ ~disturbed => WalkAt(Here, c, cursor, met)
  BY EntryInvMeans
<1>3. /\ c \in Seq(Nat) /\ Len(c) \in Nat /\ DOMAIN c = 1 .. Len(c) /\ num = Len(c) /\ Once(c)
      /\ Values(c) = DOMAIN objs /\ IsChain(objs, first, c) /\ Chain(objs, first) = c
      /\ \A i \in DOMAIN objs : objs[i] \in Object
  BY <1>1, <1>2, CountedMeans
<1>4. last = IF c = <<>> THEN NoObject ELSE c[Len(c)]
  BY <1>2 DEF Holds, Here
<1>5. ChainSound
  <2>1. c # <<>> => objs[last].next = NoObject
    <3>1. c # <<>> => Len(c) \in DOMAIN c
      BY <1>3
    <3>2. QED
      BY <1>3, <1>4, <3>1 DEF IsChain
  <2>2. {c[k] : k \in DOMAIN c} = DOMAIN objs /\ \A j, k \in DOMAIN c : c[j] = c[k] => j = k
    BY <1>3 DEF Values, Once
  <2>3. QED
    BY <1>3, <1>4, <2>1, <2>2 DEF ChainSound
<1>6. WalkPassesNone
  <2> SUFFICES ASSUME cursor.on, ~disturbed
               PROVE  met = SubSeq(Only(c, Wanted), 1, Len(met))
    BY <1>3 DEF WalkPassesNone
  <2> DEFINE S == Wanted
             w == Only(c, S)
  <2>1. \E p : /\ \A k \in 0 .. Len(c) : p[k] \in Seq(Nat)
               /\ Picks(c, S, p) /\ w = p[Len(c)]
    BY <1>3, OnlyIs
  <2> HIDE DEF S
  <2>2. PICK p : /\ \A k \in 0 .. Len(c) : p[k] \in Seq(Nat)
                 /\ Picks(c, S, p) /\ w = p[Len(c)]
    BY <2>1
  <2>3. \E j \in 0 .. Len(c) : met = p[j]
    <3>1. CASE cursor.fresh
      <4>1. met = <<>> /\ p[0] = <<>> /\ 0 \in 0 .. Len(c)
        BY <1>2, <1>3, <2>2, <3>1 DEF WalkAt, Picks
      <4>2. QED
        BY <4>1
    <3>2. CASE ~cursor.fresh
      <4>1. PICK j \in DOMAIN c : met = Only(SubSeq(c, 1, j), SetOf(Here, cursor.name))
        BY <1>2, <3>2 DEF WalkAt
      <4>2. met = Only(SubSeq(c, 1, j), S)
        BY <4>1, WantedIs DEF S
      <4>3. j \in 0 .. Len(c) /\ c \in Seq(Nat) /\ Picks(c, S, p)
        BY <1>3, <2>2
      <4>4. Only(SubSeq(c, 1, j), S) = p[j]
        BY ONLY <4>3, PicksFront
      <4>5. QED
        BY <4>2, <4>3, <4>4
    <3>3. QED
      BY <3>1, <3>2
  <2>4. PICK j \in 0 .. Len(c) : met = p[j]
    BY <2>3
  <2>5. Len(c) \in j .. Len(c) /\ Len(c) \in 0 .. Len(c)
    BY <1>3
  <2>6. Len(met) <= Len(w) /\ \A i \in 1 .. Len(met) : w[i] = met[i]
    <3>1. /\ c \in Seq(Nat) /\ Picks(c, S, p) /\ (\A k \in 0 .. Len(c) : p[k] \in Seq(Nat))
          /\ j \in 0 .. Len(c) /\ Len(c) \in j .. Len(c)
      BY <1>3, <2>2, <2>5
    <3>2. Len(p[j]) <= Len(p[Len(c)]) /\ \A i \in 1 .. Len(p[j]) : p[Len(c)][i] = p[j][i]
      BY ONLY <3>1, PicksGrow
    <3>3. w = p[Len(c)]
      BY <2>2
    <3> HIDE DEF w
    <3>4. QED
      BY ONLY <2>4, <3>2, <3>3
  <2>7. met \in Seq(Nat) /\ w \in Seq(Nat)
    BY <2>2, <2>4, <2>5
  <2> HIDE DEF w
  <2> DEFINE u == SubSeq(w, 1, Len(met))
  <2>8. Len(met) \in 0 .. Len(w)
    BY <2>6, <2>7
  <2>9. u \in Seq(Nat) /\ Len(u) = Len(met) /\ \A i \in 1 .. Len(met) : u[i] = w[i]
    BY <2>7, <2>8, FrontIs
  <2> HIDE DEF u
  <2>10. met = u
    BY <2>6, <2>7, <2>9, SameSeq
  <2>11. QED
    BY <2>10 DEF u, w, S
<1>7. ReadsAgree
  <2>1. ASSUME NEW S
        PROVE  /\ Only(c, S) = <<>> <=> DOMAIN objs \cap S = {}
               /\ Only(c, S) # <<>> =>
                     /\ Only(c, S)[1] \in DOMAIN objs \cap S
                     /\ Only(c, S)[Len(Only(c, S))] \in DOMAIN objs \cap S
    <3> DEFINE q == Only(c, S)
    <3>1. q \in Seq(Nat) /\ Values(q) = Values(c) \cap S /\ (q = <<>> <=> Values(c) \cap S = {})
      BY <1>3, OnlySet, OnlyEmpty
    <3> HIDE DEF q
    <3>2. q # <<>> => 1 \in DOMAIN q /\ Len(q) \in DOMAIN q
      BY <3>1
    <3>3. q # <<>> => q[1] \in Values(q) /\ q[Len(q)] \in Values(q)
      BY <3>2 DEF Values
    <3>4. QED
      BY <1>3, <3>1, <3>3 DEF q
  <2>2. \A i \in DOMAIN objs : objs[i].data \in Value /\ objs[i].data # NoValue
    BY <1>3, EntryAssumption DEF Object
  <2> SUFFICES ASSUME NEW n \in Name
               PROVE  /\ (_get(n) = NoValue) = (_getlast(n) = NoValue)
                      /\ (_get(n) = NoValue) = (Matching(n) = {})
                      /\ \A i \in Matching(n) : Matching(n) = {i} => _get(n) = _getlast(n)
                      /\ _get(n) # NoValue => _caseget(n) # NoValue
    BY DEF ReadsAgree
  <2> DEFINE M == Matching(n)
             C == {i \in DOMAIN objs : Lower[objs[i].name] = Lower[n]}
             g == Only(c, M)
             k == Only(c, C)
  <2>3. M \subseteq C /\ C \subseteq DOMAIN objs
    BY DEF Matching
  <2>4. /\ _get(n) = (IF g = <<>> THEN NoValue ELSE objs[g[1]].data)
        /\ _caseget(n) = (IF k = <<>> THEN NoValue ELSE objs[k[1]].data)
        /\ _getlast(n) = (IF g = <<>> THEN NoValue ELSE objs[g[Len(g)]].data)
    BY <1>3 DEF _get, _caseget, _getlast, Found
  <2>5. /\ g = <<>> <=> M = {}
        /\ g # <<>> => g[1] \in M /\ g[1] \in DOMAIN objs /\ g[Len(g)] \in M /\ g[Len(g)] \in DOMAIN objs
    BY <2>1, <2>3
  <2>6. (k = <<>> <=> C = {}) /\ (k # <<>> => k[1] \in DOMAIN objs)
    BY <2>1, <2>3
  <2> HIDE DEF M, C, g, k
  <2>7. /\ _get(n) = NoValue <=> M = {}
        /\ _getlast(n) = NoValue <=> M = {}
        /\ _caseget(n) = NoValue <=> C = {}
    BY <2>2, <2>4, <2>5, <2>6
  <2>8. \A i \in M : M = {i} => _get(n) = _getlast(n)
    BY <2>4, <2>5
  <2>9. QED
    BY <2>3, <2>7, <2>8 DEF M
<1>8. QED
  BY <1>5, <1>6, <1>7 DEF ListSound

\* The list of the pages is sound whatever is put, removed, turned, saved and loaded,
\* for any names, values and number of objects: qentry.c.
THEOREM ListSoundAlways == EntrySpec => []ListSound
<1>1. EntryInit => EntryInv
  BY EntryInvStarts
<1>2. EntryInv /\ [EntryNext]_entryVars => EntryInv'
  BY EntryInvKept
<1>3. EntryInv => ListSound
  BY ListIsSound
<1>4. QED
  BY <1>1, <1>2, <1>3, PTL DEF EntrySpec

-----------------------------------------------------------------------------
(* Requests: sequences *)

IsList(s) == \E S : s \in Seq(S)

LEMMA LengthIs ==
    ASSUME NEW s, IsList(s)
    PROVE  Len(s) \in Nat /\ DOMAIN s = 1 .. Len(s)
<1>1. PICK S : s \in Seq(S)
  BY DEF IsList
<1>2. QED
  BY <1>1

\* What is left of a body after its first k lines.
Left(s, body, k) ==
    /\ IsList(s) /\ k \in 0 .. Len(body) /\ Len(s) = Len(body) - k
    /\ \A i \in 1 .. Len(s) : s[i] = body[k + i]

LEMMA LeftAll ==
    ASSUME NEW body, IsList(body)
    PROVE  Left(body, body, 0)
<1>1. Len(body) \in Nat
  BY LengthIs
<1>2. QED
  BY <1>1 DEF Left

LEMMA LeftTail ==
    ASSUME NEW s, NEW body, NEW k, IsList(body), Left(s, body, k), s # <<>>
    PROVE  k \in Nat /\ k + 1 \in 1 .. Len(body) /\ Head(s) = body[k + 1] /\ Left(Tail(s), body, k + 1)
<1> DEFINE n == Len(body)
<1>1. n \in Nat /\ Len(s) = n - k /\ k \in 0 .. n /\ \A i \in 1 .. Len(s) : s[i] = body[k + i]
  BY LengthIs DEF Left
<1>2. PICK S : s \in Seq(S)
  BY DEF Left, IsList
<1> HIDE DEF n
<1>3. Len(s) > 0 /\ Head(s) = s[1]
  BY <1>2
<1>4. Tail(s) \in Seq(S) /\ Len(Tail(s)) = Len(s) - 1 /\ \A i \in 1 .. Len(s) - 1 : Tail(s)[i] = s[i + 1]
  BY <1>2, <1>3
<1>5. k \in Nat /\ k + 1 \in 1 .. n /\ k + 1 \in 0 .. n /\ 1 \in 1 .. Len(s) /\ Len(s) - 1 = n - (k + 1)
  BY <1>1, <1>3
<1>6. \A i \in 1 .. Len(s) - 1 : i + 1 \in 1 .. Len(s) /\ k + (i + 1) = (k + 1) + i
  BY <1>1, <1>3
<1>7. \A i \in 1 .. Len(s) - 1 : Tail(s)[i] = body[(k + 1) + i]
  BY <1>1, <1>4, <1>6
<1>8. Left(Tail(s), body, k + 1)
  BY <1>4, <1>5, <1>7 DEF Left, IsList, n
<1>9. QED
  BY <1>1, <1>3, <1>5, <1>8 DEF n

LEMMA LongerBy ==
    ASSUME NEW s, IsList(s), NEW x
    PROVE  IsList(Append(s, x)) /\ Append(s, x) = s \o <<x>>
<1>1. PICK S : s \in Seq(S)
  BY DEF IsList
<1> DEFINE T == S \cup {x}
<1>2. s \in Seq(T) /\ x \in T
  BY <1>1
<1> HIDE DEF T
<1>3. Append(s, x) \in Seq(T)
  BY <1>2
<1>4. Append(s, x) = s \o <<x>>
  BY <1>2
<1>5. QED
  BY <1>3, <1>4 DEF IsList

LEMMA BothAre ==
    ASSUME NEW s, NEW t, IsList(s), IsList(t)
    PROVE  /\ IsList(s \o t) /\ s \o <<>> = s /\ <<>> \o t = t
           /\ \A x : Append(s \o t, x) = s \o Append(t, x)
<1>1. PICK S : s \in Seq(S)
  BY DEF IsList
<1>2. PICK T : t \in Seq(T)
  BY DEF IsList
<1> DEFINE U == S \cup T
<1>3. s \in Seq(U) /\ t \in Seq(U)
  BY <1>1, <1>2
<1> HIDE DEF U
<1>4. s \o t \in Seq(U) /\ s \o <<>> = s /\ <<>> \o t = t
  BY <1>3
<1>5. ASSUME NEW x
      PROVE  Append(s \o t, x) = s \o Append(t, x)
  <2> DEFINE V == U \cup {x}
  <2>1. s \in Seq(V) /\ t \in Seq(V) /\ x \in V
    BY <1>3
  <2> HIDE DEF V
  <2>2. QED
    BY <2>1
<1>6. QED
  BY <1>4, <1>5 DEF IsList

LEMMA NothingIs == IsList(<<>>)
<1>1. <<>> \in Seq({})
  OBVIOUS
<1>2. QED
  BY <1>1 DEF IsList

-----------------------------------------------------------------------------
(* Requests: what is left of the body, and what is on the disk *)

Fields == {"at", "sent", "dir", "stdin", "entries", "part", "value", "buffer", "upload",
           "finish", "todo"}
Within == {"headers", "open", "memory", "disk", "rest", "broken", "store"}
AtUpload == {"disk", "rest", "broken", "store"}

\* A request has in hand a rest of its body, in which a name comes before it is
\* asked for, and has read a boundary where it goes on to a next part.
LineSound(r) ==
    /\ r.sent \in Requests /\ DOMAIN r.part = {"name", "file", "type"}
    /\ \E k \in 0 .. Len(r.sent.body) :
          /\ Left(r.stdin, r.sent.body, k)
          /\ AllNamed(r.sent.body) =>
                /\ r.at = "headers" /\ r.part.name = None => NameBehind(r.sent.body, k)
                /\ r.at \in {"store", "rest"} /\ ~r.finish =>
                      k \in DOMAIN r.sent.body /\ r.sent.body[k][1] = "mark"
    /\ r.at \notin {"rest", "broken", "store", "get", "parsed"} => ~r.finish

\* Upload and buffer have as many chunks as the value.
Adds(r, file) == /\ IsList(file.data) /\ IsList(r.value)
                 /\ Len(file.data) + Len(r.buffer) = Len(r.value)

\* Between the buffer and the upload the value is whole.
DiskSound(r, ups) ==
    /\ r.upload \in UploadIds \cup {None} /\ (r.at \notin AtUpload => r.upload = None)
    /\ r.at \notin {"disk", "rest", "broken"} => r.buffer = <<>>
    /\ r.at \notin AtUpload \cup {"memory"} => r.value = <<>>
    /\ r.at \in {"disk", "rest", "broken"} => r.upload \in UploadIds /\ IsList(r.buffer)
    /\ r.at \in {"disk", "rest"} /\ "short" \notin r.sent.faults /\ ups[r.upload] # None =>
          IsList(ups[r.upload].data) /\ ups[r.upload].data \o r.buffer = r.value
    /\ r.at \in {"disk", "rest"} /\ ups[r.upload] # None => Adds(r, ups[r.upload])
    /\ r.at = "store" /\ r.upload # None /\ r.value # None /\ ups[r.upload] # None =>
          HasAll(ups[r.upload], r.value, r.sent)

UploadRecords(ups) ==
    \A u \in UploadIds : ups[u] # None => DOMAIN ups[u] = {"mtime", "data"}

ReqInv ==
    /\ DOMAIN qreq = Proc /\ DOMAIN uploads = UploadIds
    /\ \A p \in Proc : /\ DOMAIN qreq[p] = Fields
                       /\ qreq[p].at # "free" => LineSound(qreq[p])
                       /\ DiskSound(qreq[p], uploads)
    /\ UploadRecords(uploads)
    /\ \A p, q \in Proc : qreq[p].upload = qreq[q].upload => p = q \/ qreq[p].upload = None

\* The uploads of other requests are as they were or cleared.
OthersKept(p) ==
    \A u \in UploadIds : \/ uploads'[u] = uploads[u] \/ uploads'[u] = None
                         \/ \A q \in Proc : q # p => qreq[q].upload # u

LEMMA SentIs ==
    ASSUME NEW sent \in Requests
    PROVE  /\ IsList(sent.body) /\ Len(sent.body) \in Nat /\ DOMAIN sent.body = 1 .. Len(sent.body)
           /\ \A i \in DOMAIN sent.body :
                 /\ sent.body[i][1] = "disposition" => sent.body[i][2].name # None
                 /\ AllNamed(sent.body) /\ sent.body[i][1] = "mark" => NameBehind(sent.body, i)
<1>1. IsList(sent.body)
  BY RequestAssumption DEF IsList
<1>2. QED
  BY <1>1, LengthIs, RequestAssumption DEF AllNamed

\* A step of one request.
LEMMA OneMoves ==
    ASSUME ReqInv, NEW p \in Proc, NEW s, DOMAIN s = Fields, qreq' = [qreq EXCEPT ![p] = s],
           s.at # "free" => LineSound(s), DiskSound(s, uploads'),
           DOMAIN uploads' = UploadIds, UploadRecords(uploads'), OthersKept(p),
           s.upload = None \/ \A q \in Proc : q # p => qreq[q].upload # s.upload
    PROVE  ReqInv'
<1>1. DOMAIN qreq' = Proc /\ qreq'[p] = s /\ \A q \in Proc : q # p => qreq'[q] = qreq[q]
  BY DEF ReqInv
<1>2. ASSUME NEW q \in Proc
      PROVE  /\ DOMAIN qreq'[q] = Fields
             /\ qreq'[q].at # "free" => LineSound(qreq'[q])
             /\ DiskSound(qreq'[q], uploads')
  <2>1. CASE q = p
    BY <1>1, <2>1
  <2>2. CASE q # p
    <3> DEFINE r == qreq[q]
    <3>1. qreq'[q] = r /\ DOMAIN r = Fields /\ (r.at # "free" => LineSound(r)) /\ DiskSound(r, uploads)
      BY <1>1, <2>2 DEF ReqInv
    <3>2. r.upload \in UploadIds => uploads'[r.upload] = uploads[r.upload] \/ uploads'[r.upload] = None
      BY <2>2 DEF OthersKept
    <3> HIDE DEF r
    <3>3. DiskSound(r, uploads')
      BY <3>1, <3>2, RequestAssumption DEF DiskSound, AtUpload
    <3>4. QED
      BY <3>1, <3>3
  <2>3. QED
    BY <2>1, <2>2
<1>3. ASSUME NEW a \in Proc, NEW b \in Proc, qreq'[a].upload = qreq'[b].upload
      PROVE  a = b \/ qreq'[a].upload = None
  BY <1>1, <1>3 DEF ReqInv
<1>4. UploadRecords(uploads)'
  BY DEF UploadRecords
<1>5. QED
  BY <1>1, <1>2, <1>3, <1>4 DEF ReqInv

LEMMA SameUploads ==
    ASSUME ReqInv, UNCHANGED uploads, NEW p \in Proc
    PROVE  /\ DOMAIN uploads' = UploadIds /\ UploadRecords(uploads') /\ OthersKept(p)
           /\ qreq[p].upload = None \/ \A q \in Proc : q # p => qreq[q].upload # qreq[p].upload
BY DEF ReqInv, UploadRecords, OthersKept

\* A step outside the body.
LEMMA QuietMoves ==
    ASSUME ReqInv, NEW p \in Proc, NEW s, DOMAIN s = Fields, qreq' = [qreq EXCEPT ![p] = s],
           qreq[p].at \in {"option", "clear", "cookie", "post", "get"},
           s.at \in {"clear", "cookie", "post", "first", "get", "parsed"},
           qreq[p].at = "get" => s.at = "parsed",
           s.sent = qreq[p].sent, s.stdin = qreq[p].stdin, s.part = qreq[p].part,
           s.value = qreq[p].value, s.buffer = qreq[p].buffer, s.upload = qreq[p].upload,
           s.finish = qreq[p].finish,
           DOMAIN uploads' = UploadIds, UploadRecords(uploads'), OthersKept(p)
    PROVE  ReqInv'
<1> DEFINE r == qreq[p]
<1>1. LineSound(r) /\ DiskSound(r, uploads)
  BY DEF ReqInv
<1>2. LineSound(s)
  BY <1>1 DEF LineSound
<1>3. DiskSound(s, uploads') /\ s.upload = None
  BY <1>1 DEF DiskSound, AtUpload
<1>4. QED
  BY <1>2, <1>3, OneMoves

LEMMA FreeFields == DOMAIN Free = Fields /\ Free.at = "free" /\ Free.upload = None
                    /\ Free.buffer = <<>> /\ Free.value = <<>> /\ ~Free.finish /\ Free.part = NoPart
                    /\ DOMAIN NoPart = {"name", "file", "type"} /\ NoPart.name = None
BY DEF Free, Fields, NoPart

LEMMA FreeIs ==
    ASSUME NEW ups
    PROVE  DiskSound(Free, ups)
BY FreeFields DEF DiskSound, AtUpload

LEMMA ReqInitKept ==
    ASSUME QReqInit
    PROVE  ReqInv
<1>1. \A p \in Proc : qreq[p] = Free
  BY DEF QReqInit
<1>2. DOMAIN qreq = Proc /\ DOMAIN uploads = UploadIds /\ \A u \in UploadIds : uploads[u] = None
  BY DEF QReqInit
<1>3. \A p \in Proc : /\ DOMAIN qreq[p] = Fields /\ qreq[p].at = "free" /\ qreq[p].upload = None
                      /\ DiskSound(qreq[p], uploads)
  BY <1>1, FreeIs, FreeFields
<1>4. QED
  BY <1>2, <1>3 DEF ReqInv, UploadRecords

LEMMA ArriveKeeps ==
    ASSUME ReqInv, NEW p \in Proc, NEW sent \in Requests, Arrive(p, sent)
    PROVE  ReqInv'
<1> DEFINE s == [Free EXCEPT !.at = "option", !.sent = sent, !.stdin = sent.body]
<1>1. qreq' = [qreq EXCEPT ![p] = s] /\ UNCHANGED uploads
  BY DEF Arrive
<1>2. /\ DOMAIN s = Fields /\ s.at = "option" /\ s.sent = sent /\ s.stdin = sent.body
      /\ s.upload = None /\ s.buffer = <<>> /\ s.value = <<>> /\ ~s.finish
      /\ s.part = NoPart /\ DOMAIN s.part = {"name", "file", "type"}
  BY FreeFields DEF Fields
<1> HIDE DEF s
<1>3. LineSound(s)
  <2>1. Left(sent.body, sent.body, 0) /\ 0 \in 0 .. Len(sent.body)
    BY SentIs, LeftAll
  <2>2. QED
    BY <1>2, <2>1 DEF LineSound
<1>4. DiskSound(s, uploads')
  BY <1>2 DEF DiskSound, AtUpload
<1>5. QED
  BY <1>1, <1>2, <1>3, <1>4, SameUploads, OneMoves

LEMMA ToIs ==
    ASSUME ReqInv, NEW p \in Proc, NEW place, To(p, place)
    PROVE  \E s : /\ DOMAIN s = Fields /\ qreq' = [qreq EXCEPT ![p] = s] /\ s.at = place
                  /\ s.sent = qreq[p].sent /\ s.stdin = qreq[p].stdin /\ s.part = qreq[p].part
                  /\ s.value = qreq[p].value /\ s.buffer = qreq[p].buffer
                  /\ s.upload = qreq[p].upload /\ s.finish = qreq[p].finish
<1> DEFINE r == qreq[p]
           s == [r EXCEPT !.at = place]
<1>1. qreq' = [qreq EXCEPT ![p] = s] /\ DOMAIN r = Fields
  BY DEF To, ReqInv
<1> HIDE DEF r
<1>2. /\ DOMAIN s = Fields /\ s.at = place /\ s.sent = r.sent /\ s.stdin = r.stdin /\ s.part = r.part
      /\ s.value = r.value /\ s.buffer = r.buffer /\ s.upload = r.upload /\ s.finish = r.finish
  BY <1>1 DEF Fields
<1>3. QED
  BY <1>1, <1>2 DEF r

LEMMA QuietTo ==
    ASSUME ReqInv, NEW p \in Proc, NEW place, To(p, place), UNCHANGED uploads,
           qreq[p].at \in {"option", "clear", "cookie", "post", "get"},
           place \in {"clear", "cookie", "post", "first", "get", "parsed"},
           qreq[p].at = "get" => place = "parsed"
    PROVE  ReqInv'
BY ToIs, SameUploads, QuietMoves

LEMMA QuietTaken ==
    ASSUME ReqInv, NEW p \in Proc, NEW place, NEW pairs, TakenBy(p, place, pairs), UNCHANGED uploads,
           qreq[p].at \in {"option", "clear", "cookie", "post", "get"},
           place \in {"clear", "cookie", "post", "first", "get", "parsed"},
           qreq[p].at = "get" => place = "parsed"
    PROVE  ReqInv'
<1> DEFINE r == qreq[p]
           s == [r EXCEPT !.at = place, !.entries = @ \o pairs]
<1>1. qreq' = [qreq EXCEPT ![p] = s] /\ DOMAIN r = Fields
  BY DEF TakenBy, ReqInv
<1> HIDE DEF r
<1>2. /\ DOMAIN s = Fields /\ s.at = place /\ s.sent = r.sent /\ s.stdin = r.stdin /\ s.part = r.part
      /\ s.value = r.value /\ s.buffer = r.buffer /\ s.upload = r.upload /\ s.finish = r.finish
  BY <1>1 DEF Fields
<1> HIDE DEF s
<1>3. QED
  BY <1>1, <1>2, SameUploads, QuietMoves DEF r

LEMMA OptionKeeps ==
    ASSUME ReqInv, NEW p \in Proc, qcgireq_setoption(p)
    PROVE  ReqInv'
<1>1. qreq[p].at = "option" /\ UNCHANGED uploads
  BY DEF qcgireq_setoption
<1>2. CASE To(p, "cookie")
  BY <1>1, <1>2, QuietTo
<1>3. CASE \E todo : qreq' = [qreq EXCEPT ![p].at = "clear", ![p].todo = todo, ![p].dir = TRUE]
  <2> DEFINE r == qreq[p]
  <2>1. PICK todo : qreq' = [qreq EXCEPT ![p] = [r EXCEPT !.at = "clear", !.todo = todo, !.dir = TRUE]]
    BY <1>3 DEF ReqInv
  <2> DEFINE s == [r EXCEPT !.at = "clear", !.todo = todo, !.dir = TRUE]
  <2>2. DOMAIN r = Fields
    BY DEF ReqInv
  <2> HIDE DEF r
  <2>3. /\ DOMAIN s = Fields /\ s.at = "clear" /\ s.sent = r.sent /\ s.stdin = r.stdin /\ s.part = r.part
        /\ s.value = r.value /\ s.buffer = r.buffer /\ s.upload = r.upload /\ s.finish = r.finish
    BY <2>2 DEF Fields
  <2>4. qreq' = [qreq EXCEPT ![p] = s]
    BY <2>1
  <2> HIDE DEF s
  <2>5. QED
    BY <1>1, <2>3, <2>4, SameUploads, QuietMoves DEF r
<1>4. QED
  BY <1>2, <1>3 DEF qcgireq_setoption

LEMMA ClearKeeps ==
    ASSUME ReqInv, NEW p \in Proc, NEW u \in UploadIds, _upload_clear_base(p, u)
    PROVE  ReqInv'
<1> DEFINE r == qreq[p]
           s == [r EXCEPT !.todo = @ \ {u}]
<1>1. qreq' = [qreq EXCEPT ![p] = s] /\ DOMAIN r = Fields /\ r.at = "clear"
  BY DEF _upload_clear_base, ReqInv
<1>2. uploads' = uploads \/ uploads' = [uploads EXCEPT ![u] = None]
  BY DEF _upload_clear_base
<1>3. DOMAIN uploads' = UploadIds /\ UploadRecords(uploads') /\ OthersKept(p)
  BY <1>2 DEF ReqInv, UploadRecords, OthersKept
<1> HIDE DEF r
<1>4. /\ DOMAIN s = Fields /\ s.at = "clear" /\ s.sent = r.sent /\ s.stdin = r.stdin /\ s.part = r.part
      /\ s.value = r.value /\ s.buffer = r.buffer /\ s.upload = r.upload /\ s.finish = r.finish
  BY <1>1 DEF Fields
<1> HIDE DEF s
<1>5. QED
  BY <1>1, <1>3, <1>4, QuietMoves DEF r

LEMMA PairsKeep ==
    ASSUME ReqInv, NEW p \in Proc, Cleared(p) \/ ParseCookie(p) \/ ParsePost(p) \/ ParseGet(p)
    PROVE  ReqInv'
<1>1. CASE Cleared(p)
  BY <1>1, QuietTo DEF Cleared
<1>2. CASE ParseCookie(p)
  BY <1>2, QuietTaken DEF ParseCookie
<1>3. CASE ParsePost(p)
  <2>1. qreq[p].at = "post" /\ UNCHANGED uploads
    BY <1>3 DEF ParsePost
  <2>2. CASE "post" \notin Sent(p).mask
    BY <1>3, <2>1, <2>2, QuietTo DEF ParsePost
  <2>3. CASE "post" \in Sent(p).mask
    <3>1. Sent(p) \in Requests
      BY <2>1 DEF ReqInv, LineSound, Sent
    <3>2. Sent(p).type \in {"form", "multipart", "other"}
      BY <3>1, RequestAssumption
    <3>3. \/ TakenBy(p, "get", _parse_query(Sent(p).form, "&")) \/ To(p, "first") \/ To(p, "get")
      BY <1>3, <2>3, <3>2 DEF ParsePost
    <3>4. CASE TakenBy(p, "get", _parse_query(Sent(p).form, "&"))
      BY <2>1, <3>4, QuietTaken
    <3>5. CASE To(p, "first") \/ To(p, "get")
      BY <2>1, <3>5, QuietTo
    <3>6. QED
      BY <3>3, <3>4, <3>5
  <2>4. QED
    BY <2>2, <2>3
<1>4. CASE ParseGet(p)
  BY <1>4, QuietTaken DEF ParseGet
<1>5. QED
  BY <1>1, <1>2, <1>3, <1>4

LEMMA EndKeeps ==
    ASSUME ReqInv, NEW p \in Proc, EndRequest(p)
    PROVE  ReqInv'
<1>1. qreq' = [qreq EXCEPT ![p] = Free] /\ UNCHANGED uploads
  BY DEF EndRequest
<1>2. QED
  BY <1>1, FreeIs, FreeFields, SameUploads, OneMoves

\* The next line of a body.
LEMMA NextLine ==
    ASSUME NEW r, LineSound(r)
    PROVE  \E k \in 0 .. Len(r.sent.body) :
              /\ k \in Nat /\ Left(r.stdin, r.sent.body, k)
              /\ AllNamed(r.sent.body) =>
                    /\ r.at = "headers" /\ r.part.name = None => NameBehind(r.sent.body, k)
                    /\ r.at \in {"store", "rest"} /\ ~r.finish =>
                          k \in DOMAIN r.sent.body /\ r.sent.body[k][1] = "mark"
              /\ r.stdin = <<>> => k = Len(r.sent.body)
              /\ r.stdin # <<>> => /\ k + 1 \in 0 .. Len(r.sent.body) /\ k + 1 \in DOMAIN r.sent.body
                                   /\ Head(r.stdin) = r.sent.body[k + 1]
                                   /\ Left(Tail(r.stdin), r.sent.body, k + 1)
<1> DEFINE body == r.sent.body
<1>1. IsList(body) /\ Len(body) \in Nat /\ DOMAIN body = 1 .. Len(body)
  BY SentIs DEF LineSound
<1>2. PICK k \in 0 .. Len(body) :
          /\ Left(r.stdin, body, k)
          /\ AllNamed(r.sent.body) =>
                /\ r.at = "headers" /\ r.part.name = None => NameBehind(body, k)
                /\ r.at \in {"store", "rest"} /\ ~r.finish => k \in DOMAIN body /\ body[k][1] = "mark"
  BY DEF LineSound
<1> HIDE DEF body
<1>3. k \in Nat
  BY <1>1
<1>4. CASE r.stdin = <<>>
  <2>1. Len(<<>>) = Len(body) - k /\ Len(<<>>) = 0
    BY <1>2, <1>4 DEF Left
  <2>2. k = Len(body)
    <3> DEFINE n == Len(body)
    <3>1. n \in Nat /\ k \in Nat /\ n - k = 0
      BY <1>1, <1>3, <2>1
    <3> HIDE DEF n
    <3>2. k = n
      BY ONLY <3>1
    <3>3. QED
      BY <3>2 DEF n
  <2>3. QED
    BY <1>2, <1>3, <1>4, <2>2 DEF body
<1>5. CASE r.stdin # <<>>
  <2>1. /\ k + 1 \in 1 .. Len(body) /\ Head(r.stdin) = body[k + 1] /\ Left(Tail(r.stdin), body, k + 1)
    BY <1>1, <1>2, <1>5, LeftTail
  <2>2. k + 1 \in 0 .. Len(body) /\ k + 1 \in DOMAIN body
    BY <1>1, <1>3, <2>1
  <2>3. QED
    BY <1>2, <1>3, <1>5, <2>1, <2>2 DEF body
<1>6. QED
  BY <1>4, <1>5

\* A name is still to come after a line that has none.
LEMMA StillBehind ==
    ASSUME NEW body, Len(body) \in Nat, NEW k \in Nat, NameBehind(body, k)
    PROVE  /\ k + 1 \in 1 .. Len(body)
           /\ body[k + 1][1] # "disposition" => NameBehind(body, k + 1)
<1>1. PICK j \in k + 1 .. Len(body) : body[j][1] = "disposition"
  BY DEF NameBehind
<1>2. j \in Nat /\ k + 1 \in 1 .. Len(body)
  BY <1>1
<1>3. ASSUME body[k + 1][1] # "disposition"
      PROVE  NameBehind(body, k + 1)
  <2>1. j # k + 1
    BY <1>1, <1>3
  <2>2. j \in (k + 1) + 1 .. Len(body)
    BY <1>1, <1>2, <2>1
  <2>3. QED
    BY <1>1, <2>2 DEF NameBehind
<1>4. QED
  BY <1>2, <1>3

\* The ways a request goes on in its body.
LEMMA LineMoves ==
    ASSUME NEW r, NEW s, LineSound(r), s.sent = r.sent,
           s.stdin \in {r.stdin, Tail(r.stdin)}, s.stdin = r.stdin \/ r.stdin # <<>>,
           DOMAIN s.part = {"name", "file", "type"},
           s.at \notin {"headers", "store", "rest"} \/ (s.at \in {"store", "rest"} /\ s.finish),
           s.at \notin {"rest", "broken", "store", "get", "parsed"} => ~s.finish
    PROVE  LineSound(s)
<1>1. r.sent \in Requests
  BY DEF LineSound
<1>2. \E k \in 0 .. Len(s.sent.body) : Left(s.stdin, s.sent.body, k)
  BY NextLine
<1>3. QED
  BY <1>1, <1>2 DEF LineSound

LEMMA FirstMarkKeeps ==
    ASSUME ReqInv, NEW p \in Proc, FirstMark(p)
    PROVE  ReqInv'
<1> DEFINE r == qreq[p]
           kind == Line(p)[1]
           next == CASE kind = "blank" -> "first" [] kind = "mark" -> "headers" [] OTHER -> "get"
           s == [r EXCEPT !.stdin = Tail(@), !.at = next]
<1>1. r.at = "first" /\ UNCHANGED uploads /\ LineSound(r) /\ DiskSound(r, uploads) /\ DOMAIN r = Fields
  BY DEF FirstMark, ReqInv
<1>2. CASE Eof(p)
  <2>1. To(p, "get")
    BY <1>2 DEF FirstMark
  <2>2. PICK t : /\ DOMAIN t = Fields /\ qreq' = [qreq EXCEPT ![p] = t] /\ t.at = "get"
                 /\ t.sent = qreq[p].sent /\ t.stdin = qreq[p].stdin /\ t.part = qreq[p].part
                 /\ t.value = qreq[p].value /\ t.buffer = qreq[p].buffer
                 /\ t.upload = qreq[p].upload /\ t.finish = qreq[p].finish
    BY <2>1, ToIs
  <2>3. LineSound(t)
    BY <1>1, <2>2 DEF LineSound
  <2>4. DiskSound(t, uploads') /\ t.upload = None
    BY <1>1, <2>2 DEF DiskSound, AtUpload
  <2>5. QED
    BY <1>1, <2>2, <2>3, <2>4, SameUploads, OneMoves
<1>3. CASE ~Eof(p)
  <2>1. qreq' = [qreq EXCEPT ![p] = s]
    BY <1>3 DEF FirstMark, ReqInv
  <2>2. r.stdin # <<>> /\ Line(p) = Head(r.stdin)
    BY <1>3 DEF Eof, Line
  <2>3. next \in {"first", "headers", "get"} /\ (next = "headers" => kind = "mark")
    OBVIOUS
  <2> HIDE DEF r, next, kind
  <2>4. /\ DOMAIN s = Fields /\ s.at = next /\ s.sent = r.sent /\ s.stdin = Tail(r.stdin) /\ s.part = r.part
        /\ s.value = r.value /\ s.buffer = r.buffer /\ s.upload = r.upload /\ s.finish = r.finish
    BY <1>1 DEF Fields
  <2> HIDE DEF s
  <2>5. LineSound(s)
    <3>1. ~s.finish /\ DOMAIN s.part = {"name", "file", "type"} /\ r.sent \in Requests
      BY <1>1, <2>4 DEF LineSound
    <3>2. CASE next # "headers"
      BY <1>1, <2>2, <2>3, <2>4, <3>1, <3>2, LineMoves
    <3>3. CASE next = "headers"
      <4> DEFINE body == r.sent.body
      <4>1. PICK k \in 0 .. Len(body) : /\ k + 1 \in 0 .. Len(body) /\ k + 1 \in DOMAIN body
                                        /\ Head(r.stdin) = body[k + 1]
                                        /\ Left(Tail(r.stdin), body, k + 1)
        BY <1>1, <2>2, NextLine
      <4>2. body[k + 1][1] = "mark"
        BY <2>2, <2>3, <3>3, <4>1 DEF kind
      <4>3. AllNamed(r.sent.body) => NameBehind(body, k + 1)
        BY <3>1, <4>1, <4>2, SentIs
      <4>4. QED
        BY <2>4, <3>1, <3>3, <4>1, <4>3 DEF LineSound
    <3>4. QED
      BY <3>2, <3>3
  <2>6. DiskSound(s, uploads') /\ s.upload = None
    BY <1>1, <2>3, <2>4 DEF DiskSound, AtUpload
  <2>7. QED
    BY <1>1, <2>1, <2>4, <2>5, <2>6, SameUploads, OneMoves
<1>4. QED
  BY <1>2, <1>3

LEMMA ReadHeaderKeeps ==
    ASSUME ReqInv, NEW p \in Proc, ReadHeader(p)
    PROVE  ReqInv'
<1> DEFINE r == qreq[p]
           line == Line(p)
           read == WithHeader(r.part, line[1], line[2])
           s == [r EXCEPT !.stdin = Tail(@), !.part = read]
           body == r.sent.body
<1>1. r.at = "headers" /\ UNCHANGED uploads /\ LineSound(r) /\ DiskSound(r, uploads) /\ DOMAIN r = Fields
  BY DEF ReadHeader, ReqInv
<1>2. qreq' = [qreq EXCEPT ![p] = s]
  <2>1. DOMAIN qreq = Proc /\ p \in Proc /\ DOMAIN qreq[p] = Fields
    BY DEF ReqInv
  <2>2. QED
    BY <2>1 DEF ReadHeader, Fields
<1>3. r.stdin # <<>> /\ line = Head(r.stdin)
  BY DEF ReadHeader, Eof, Line
<1>4. DOMAIN read = {"name", "file", "type"}
      /\ read.name = IF line[1] = "disposition" THEN line[2].name ELSE r.part.name
  <2>1. DOMAIN r.part = {"name", "file", "type"}
    BY <1>1 DEF LineSound
  <2>2. CASE line[1] = "disposition"
    BY <2>1, <2>2 DEF WithHeader
  <2>3. CASE line[1] # "disposition"
    BY <2>1, <2>3 DEF WithHeader
  <2>4. QED
    BY <2>2, <2>3
<1> HIDE DEF r, read, line
<1>5. /\ DOMAIN s = Fields /\ s.at = r.at /\ s.sent = r.sent /\ s.stdin = Tail(r.stdin) /\ s.part = read
      /\ s.value = r.value /\ s.buffer = r.buffer /\ s.upload = r.upload /\ s.finish = r.finish
  BY <1>1 DEF Fields
<1> HIDE DEF s
<1>6. PICK k \in 0 .. Len(body) :
          /\ k \in Nat /\ (AllNamed(r.sent.body) /\ r.part.name = None => NameBehind(body, k))
          /\ k + 1 \in 0 .. Len(body) /\ k + 1 \in DOMAIN body
          /\ Head(r.stdin) = body[k + 1] /\ Left(Tail(r.stdin), body, k + 1)
  BY <1>1, <1>3, NextLine
<1>7. r.sent \in Requests /\ Len(body) \in Nat
  BY <1>1, SentIs DEF LineSound
<1>8. ASSUME AllNamed(body), read.name = None
      PROVE  NameBehind(body, k + 1)
  <2>1. line = body[k + 1]
    BY <1>3, <1>6
  <2>2. line[1] # "disposition"
    <3>1. line[1] = "disposition" => line[2].name # None
      BY <1>6, <1>7, <1>8, <2>1, SentIs
    <3>2. QED
      BY <1>4, <1>8, <3>1
  <2>3. NameBehind(body, k)
    BY <1>4, <1>6, <1>8, <2>2
  <2>4. QED
    BY <1>6, <1>7, <2>1, <2>2, <2>3, StillBehind
<1>9. LineSound(s)
  <2>1. ~s.finish
    BY <1>1, <1>5 DEF LineSound
  <2>2. QED
    BY <1>1, <1>4, <1>5, <1>6, <1>7, <1>8, <2>1 DEF LineSound
<1>10. DiskSound(s, uploads') /\ s.upload = None
  BY <1>1, <1>5 DEF DiskSound, AtUpload
<1>11. QED
  BY <1>1, <1>2, <1>5, <1>9, <1>10, SameUploads, OneMoves

LEMMA HeadersEndKeeps ==
    ASSUME ReqInv, NEW p \in Proc, HeadersEnd(p)
    PROVE  ReqInv'
<1> DEFINE r == qreq[p]
           named == r.part.name # None
           toDisk == named /\ r.part.file # None /\ r.dir
           rest == IF r.stdin = <<>> THEN r.stdin ELSE Tail(r.stdin)
           part == IF named THEN r.part ELSE NoPart
           next == IF ~named THEN "headers" ELSE IF toDisk THEN "open" ELSE "memory"
           s == [r EXCEPT !.stdin = rest, !.part = part, !.at = next]
           body == r.sent.body
<1>1. r.at = "headers" /\ UNCHANGED uploads /\ LineSound(r) /\ DiskSound(r, uploads) /\ DOMAIN r = Fields
  BY DEF HeadersEnd, ReqInv
<1>2. qreq' = [qreq EXCEPT ![p] = s]
  BY DEF HeadersEnd, ReqInv
<1>3. next \in {"headers", "open", "memory"} /\ (next = "headers" => r.part.name = None)
  OBVIOUS
<1>4. DOMAIN part = {"name", "file", "type"}
  BY <1>1, FreeFields DEF LineSound
<1>5. rest = r.stdin \/ (r.stdin # <<>> /\ rest = Tail(r.stdin))
  OBVIOUS
<1>6. r.stdin = <<>> \/ (r.stdin # <<>> /\ Head(r.stdin)[1] \in {"eof", "blank"})
  BY DEF HeadersEnd, Eof, Line
<1>7. ~r.finish /\ r.sent \in Requests /\ Len(body) \in Nat
  BY <1>1, SentIs DEF LineSound
<1> HIDE DEF r, named, toDisk, part, next
<1>8. /\ DOMAIN s = Fields /\ s.at = next /\ s.sent = r.sent /\ s.stdin = rest /\ s.part = part
      /\ s.value = r.value /\ s.buffer = r.buffer /\ s.upload = r.upload /\ s.finish = r.finish
  BY <1>1 DEF Fields
<1> HIDE DEF s
<1>9. LineSound(s)
  <2>1. CASE next # "headers"
    BY <1>1, <1>3, <1>4, <1>5, <1>7, <1>8, <2>1, LineMoves
  <2>2. CASE next = "headers"
    <3>1. PICK k \in 0 .. Len(body) :
              /\ k \in Nat /\ Left(r.stdin, body, k) /\ (AllNamed(r.sent.body) => NameBehind(body, k))
              /\ r.stdin = <<>> => k = Len(body)
              /\ r.stdin # <<>> => /\ k + 1 \in 0 .. Len(body) /\ k + 1 \in DOMAIN body
                                   /\ Head(r.stdin) = body[k + 1]
                                   /\ Left(Tail(r.stdin), body, k + 1)
      BY <1>1, <1>3, <2>2, NextLine
    <3>2. CASE r.stdin = <<>>
      <4>1. ~AllNamed(r.sent.body)
        <5>1. AllNamed(r.sent.body) => k + 1 \in 1 .. Len(body)
          BY <1>7, <3>1, StillBehind
        <5>2. QED
          BY <1>7, <3>1, <3>2, <5>1
      <4>2. QED
        BY <1>4, <1>7, <1>8, <2>2, <3>1, <3>2, <4>1 DEF LineSound
    <3>3. CASE r.stdin # <<>>
      <4>1. AllNamed(r.sent.body) => NameBehind(body, k + 1)
        <5>1. body[k + 1][1] \in {"eof", "blank"}
          BY <1>6, <3>1, <3>3
        <5>2. QED
          BY <1>7, <3>1, <5>1, StillBehind
      <4>2. QED
        BY <1>4, <1>7, <1>8, <2>2, <3>1, <3>3, <4>1 DEF LineSound
    <3>4. QED
      BY <3>2, <3>3
  <2>3. QED
    BY <2>1, <2>2
<1>10. DiskSound(s, uploads') /\ s.upload = None
  BY <1>1, <1>3, <1>8 DEF DiskSound, AtUpload
<1>11. QED
  BY <1>1, <1>2, <1>8, <1>9, <1>10, SameUploads, OneMoves

\* A failed upload or a value that breaks off.
LEMMA FailedIs ==
    ASSUME ReqInv, NEW p \in Proc
    PROVE  \E s : /\ DOMAIN s = Fields /\ Failed(p) = [qreq EXCEPT ![p] = s]
                  /\ s.at = "store" /\ s.value = None /\ s.finish
                  /\ s.sent = qreq[p].sent /\ s.stdin = qreq[p].stdin /\ s.part = qreq[p].part
                  /\ s.buffer = qreq[p].buffer /\ s.upload = qreq[p].upload
<1> DEFINE r == qreq[p]
           s == [r EXCEPT !.at = "store", !.value = None, !.finish = TRUE]
<1>1. Failed(p) = [qreq EXCEPT ![p] = s] /\ DOMAIN r = Fields
  BY DEF Failed, ReqInv
<1> HIDE DEF r
<1>2. /\ DOMAIN s = Fields /\ s.at = "store" /\ s.value = None /\ s.finish /\ s.sent = r.sent
      /\ s.stdin = r.stdin /\ s.part = r.part /\ s.buffer = r.buffer /\ s.upload = r.upload
  BY <1>1 DEF Fields
<1>3. QED
  BY <1>1, <1>2 DEF r

\* What is stored with a failure.
LEMMA FailedSound ==
    ASSUME NEW r, NEW s, NEW ups, LineSound(r), r.upload \in UploadIds \cup {None}, s.upload = r.upload,
           s.at = "store", s.value = None, s.finish, s.buffer = <<>>,
           s.sent = r.sent, s.stdin = r.stdin, s.part = r.part
    PROVE  LineSound(s) /\ DiskSound(s, ups)
<1>1. LineSound(s)
  BY DEF LineSound
<1>2. DiskSound(s, ups)
  BY DEF DiskSound, AtUpload
<1>3. QED
  BY <1>1, <1>2

\* The end of a value, at a boundary or at the last one.
LEMMA ValueEnds ==
    ASSUME NEW r, NEW s, NEW kind, LineSound(r), r.stdin # <<>>, kind = Head(r.stdin)[1],
           s.at \in {"store", "rest"}, s.finish = (kind = "end"), kind \in {"mark", "end"},
           s.sent = r.sent, s.stdin = Tail(r.stdin), s.part = r.part
    PROVE  LineSound(s)
<1> DEFINE body == r.sent.body
<1>1. PICK k \in 0 .. Len(body) : /\ k + 1 \in 0 .. Len(body) /\ k + 1 \in DOMAIN body
                                  /\ Head(r.stdin) = body[k + 1]
                                  /\ Left(Tail(r.stdin), body, k + 1)
  BY NextLine
<1>2. r.sent \in Requests /\ DOMAIN r.part = {"name", "file", "type"}
  BY DEF LineSound
<1>3. ~s.finish => body[k + 1][1] = "mark"
  BY <1>1
<1>4. QED
  BY <1>1, <1>2, <1>3 DEF LineSound

LEMMA MemoryKeeps ==
    ASSUME ReqInv, NEW p \in Proc, ValueInMemory(p)
    PROVE  ReqInv'
<1> DEFINE r == qreq[p]
           kind == Line(p)[1]
<1>1. r.at = "memory" /\ UNCHANGED uploads /\ LineSound(r) /\ DiskSound(r, uploads) /\ DOMAIN r = Fields
  BY DEF ValueInMemory, ReqInv
<1>2. r.upload = None /\ r.buffer = <<>>
  BY <1>1 DEF DiskSound, AtUpload
<1>3. DOMAIN r.part = {"name", "file", "type"} /\ ~r.finish
  BY <1>1 DEF LineSound
<1>4. CASE Eof(p)
  <2>1. qreq' = [qreq EXCEPT ![p].at = "store", ![p].value = None, ![p].finish = TRUE]
    BY <1>4 DEF ValueInMemory
  <2>2. PICK s : /\ DOMAIN s = Fields /\ Failed(p) = [qreq EXCEPT ![p] = s]
                 /\ s.at = "store" /\ s.value = None /\ s.finish
                 /\ s.sent = r.sent /\ s.stdin = r.stdin /\ s.part = r.part
                 /\ s.buffer = r.buffer /\ s.upload = r.upload
    BY FailedIs
  <2>3. qreq' = [qreq EXCEPT ![p] = s]
    BY <2>1, <2>2 DEF Failed
  <2> HIDE DEF r
  <2>4. LineSound(s) /\ DiskSound(s, uploads')
    BY <1>1, <1>2, <2>2, FailedSound
  <2>5. QED
    BY <1>1, <1>2, <2>2, <2>3, <2>4, SameUploads, OneMoves
<1>5. CASE ~Eof(p) /\ Ends(p)
  <2> DEFINE over == kind = "end"
             s == [r EXCEPT !.stdin = Tail(@), !.at = "store", !.finish = over]
  <2>1. qreq' = [qreq EXCEPT ![p] = s]
    BY <1>5 DEF ValueInMemory, ReqInv
  <2>2. r.stdin # <<>> /\ kind = Head(r.stdin)[1] /\ kind \in {"mark", "end"}
    BY <1>5 DEF Eof, Line, Ends
  <2> HIDE DEF r, kind, over
  <2>3. /\ DOMAIN s = Fields /\ s.at = "store" /\ s.sent = r.sent /\ s.stdin = Tail(r.stdin)
        /\ s.part = r.part /\ s.value = r.value /\ s.buffer = r.buffer /\ s.upload = r.upload
        /\ s.finish = over
    BY <1>1 DEF Fields
  <2> HIDE DEF s
  <2>4. LineSound(s)
    BY <1>1, <2>2, <2>3, ValueEnds DEF over
  <2>5. DiskSound(s, uploads')
    BY <1>2, <2>3 DEF DiskSound, AtUpload
  <2>6. QED
    BY <1>1, <1>2, <2>1, <2>3, <2>4, <2>5, SameUploads, OneMoves
<1>6. CASE ~Eof(p) /\ ~Ends(p)
  <2> DEFINE s == [r EXCEPT !.stdin = Tail(@), !.value = Append(@, Line(p)[2])]
  <2>1. qreq' = [qreq EXCEPT ![p] = s]
    BY <1>6 DEF ValueInMemory, ReqInv
  <2>2. r.stdin # <<>>
    BY <1>6 DEF Eof, Line
  <2> HIDE DEF r
  <2>3. /\ DOMAIN s = Fields /\ s.at = r.at /\ s.sent = r.sent /\ s.stdin = Tail(r.stdin)
        /\ s.part = r.part /\ s.buffer = r.buffer /\ s.upload = r.upload /\ s.finish = r.finish
    BY <1>1 DEF Fields
  <2> HIDE DEF s
  <2>4. LineSound(s)
    BY <1>1, <1>3, <2>2, <2>3, LineMoves
  <2>5. DiskSound(s, uploads')
    BY <1>1, <1>2, <2>3 DEF DiskSound, AtUpload
  <2>6. QED
    BY <1>1, <1>2, <2>1, <2>3, <2>4, <2>5, SameUploads, OneMoves
<1>7. QED
  BY <1>4, <1>5, <1>6

LEMMA OpenKeeps ==
    ASSUME ReqInv, NEW p \in Proc, OpenUpload(p)
    PROVE  ReqInv'
<1> DEFINE r == qreq[p]
<1>1. r.at = "open" /\ LineSound(r) /\ DiskSound(r, uploads) /\ DOMAIN r = Fields
  BY DEF OpenUpload, ReqInv
<1>2. r.upload = None /\ r.buffer = <<>> /\ r.value = <<>>
  BY <1>1 DEF DiskSound, AtUpload
<1>3. DOMAIN r.part = {"name", "file", "type"} /\ ~r.finish
  BY <1>1 DEF LineSound
<1>4. CASE qreq' = Failed(p) /\ UNCHANGED uploads
  <2>1. PICK s : /\ DOMAIN s = Fields /\ Failed(p) = [qreq EXCEPT ![p] = s]
                 /\ s.at = "store" /\ s.value = None /\ s.finish
                 /\ s.sent = r.sent /\ s.stdin = r.stdin /\ s.part = r.part
                 /\ s.buffer = r.buffer /\ s.upload = r.upload
    BY FailedIs
  <2>2. qreq' = [qreq EXCEPT ![p] = s]
    BY <1>4, <2>1
  <2> HIDE DEF r
  <2>3. LineSound(s) /\ DiskSound(s, uploads')
    BY <1>1, <1>2, <2>1, FailedSound
  <2>4. QED
    BY <1>2, <1>4, <2>1, <2>2, <2>3, SameUploads, OneMoves
<1>5. CASE \E u \in UploadIds :
             /\ uploads[u] = None /\ \A q \in Proc : qreq[q].upload # u
             /\ uploads' = [uploads EXCEPT ![u] = [mtime |-> now, data |-> <<>>]]
             /\ qreq' = [qreq EXCEPT ![p].at = "disk", ![p].upload = u]
  <2>1. PICK u \in UploadIds :
             /\ uploads[u] = None /\ \A q \in Proc : qreq[q].upload # u
             /\ uploads' = [uploads EXCEPT ![u] = [mtime |-> now, data |-> <<>>]]
             /\ qreq' = [qreq EXCEPT ![p].at = "disk", ![p].upload = u]
    BY <1>5
  <2> DEFINE s == [r EXCEPT !.at = "disk", !.upload = u]
             f == [mtime |-> now, data |-> <<>>]
  <2>2. qreq' = [qreq EXCEPT ![p] = s]
    BY <2>1 DEF ReqInv
  <2>3. DOMAIN f = {"mtime", "data"} /\ f.data = <<>>
    OBVIOUS
  <2> HIDE DEF r, f
  <2>4. /\ DOMAIN s = Fields /\ s.at = "disk" /\ s.sent = r.sent /\ s.stdin = r.stdin
        /\ s.part = r.part /\ s.value = r.value /\ s.buffer = r.buffer /\ s.upload = u
        /\ s.finish = r.finish
    BY <1>1 DEF Fields
  <2> HIDE DEF s
  <2>5. LineSound(s)
    BY <1>1, <1>3, <2>4, LineMoves
  <2>6. /\ DOMAIN uploads' = UploadIds /\ uploads'[u] = f
        /\ \A v \in UploadIds : v # u => uploads'[v] = uploads[v]
    BY <2>1 DEF ReqInv, f
  <2>7. UploadRecords(uploads') /\ OthersKept(p)
    BY <2>1, <2>3, <2>6 DEF UploadRecords, OthersKept, ReqInv
  <2>8. DiskSound(s, uploads')
    <3>1. IsList(<<>>) /\ <<>> \o <<>> = <<>>
      BY NothingIs, BothAre
    <3>2. Adds(s, uploads'[u])
      BY <1>2, <2>3, <2>4, <2>6, <3>1 DEF Adds
    <3>3. QED
      BY <1>2, <2>3, <2>4, <2>6, <3>1, <3>2 DEF DiskSound, AtUpload
  <2>9. QED
    BY <2>1, <2>2, <2>4, <2>5, <2>6, <2>7, <2>8, OneMoves
<1>6. QED
  BY <1>4, <1>5 DEF OpenUpload

LEMMA StoreKeeps ==
    ASSUME ReqInv, NEW p \in Proc, StoreValue(p)
    PROVE  ReqInv'
<1> DEFINE r == qreq[p]
           new == Stored(r.part, r.value, r.upload, r.dir)
           next == IF r.finish THEN "get" ELSE "headers"
           s == [r EXCEPT !.at = next, !.entries = @ \o new, !.part = NoPart, !.value = <<>>,
                          !.upload = None]
<1>1. r.at = "store" /\ UNCHANGED uploads /\ LineSound(r) /\ DiskSound(r, uploads) /\ DOMAIN r = Fields
  BY DEF StoreValue, ReqInv
<1>2. qreq' = [qreq EXCEPT ![p] = s]
  BY DEF StoreValue, ReqInv
<1>3. r.buffer = <<>>
  BY <1>1 DEF DiskSound
<1> HIDE DEF r, new
<1>4. /\ DOMAIN s = Fields /\ s.at = next /\ s.sent = r.sent /\ s.stdin = r.stdin
      /\ s.part = NoPart /\ s.value = <<>> /\ s.buffer = r.buffer /\ s.upload = None
      /\ s.finish = r.finish
  BY <1>1 DEF Fields
<1> HIDE DEF s
<1>5. LineSound(s)
  <2> DEFINE body == r.sent.body
  <2>1. PICK k \in 0 .. Len(body) :
            /\ Left(r.stdin, body, k)
            /\ AllNamed(r.sent.body) /\ ~r.finish => k \in DOMAIN body /\ body[k][1] = "mark"
    BY <1>1, NextLine
  <2>2. r.sent \in Requests
    BY <1>1 DEF LineSound
  <2>3. AllNamed(r.sent.body) /\ ~r.finish => NameBehind(body, k)
    BY <2>1, <2>2, SentIs
  <2>4. DOMAIN s.part = {"name", "file", "type"}
    BY <1>4, FreeFields
  <2>5. QED
    BY <1>4, <2>1, <2>2, <2>3, <2>4 DEF LineSound
<1>6. DiskSound(s, uploads')
  BY <1>3, <1>4 DEF DiskSound, AtUpload
<1>7. QED
  BY <1>1, <1>2, <1>4, <1>5, <1>6, SameUploads, OneMoves

\* A write by one request.
LEMMA WrittenIs ==
    ASSUME ReqInv, NEW p \in Proc, qreq[p].upload \in UploadIds, NEW chunks,
           uploads' = Written(qreq[p].upload, chunks)
    PROVE  /\ DOMAIN uploads' = UploadIds /\ UploadRecords(uploads') /\ OthersKept(p)
           /\ uploads'[qreq[p].upload] # None =>
                 /\ uploads[qreq[p].upload] # None
                 /\ uploads'[qreq[p].upload].data = uploads[qreq[p].upload].data \o chunks
<1> DEFINE u == qreq[p].upload
           f == [mtime |-> now, data |-> uploads[u].data \o chunks]
<1>1. u # None /\ DOMAIN uploads = UploadIds /\ UploadRecords(uploads)
      /\ \A q \in Proc : q # p => qreq[q].upload # u
  BY RequestAssumption DEF ReqInv
<1>2. CASE uploads[u] = None
  <2>1. uploads' = uploads
    BY <1>2 DEF Written
  <2>2. QED
    BY <1>1, <1>2, <2>1 DEF OthersKept
<1>3. CASE uploads[u] # None
  <2>1. DOMAIN f = {"mtime", "data"} /\ f.data = uploads[u].data \o chunks
    OBVIOUS
  <2>2. uploads' = [uploads EXCEPT ![u] = f]
    BY <1>3 DEF Written
  <2> HIDE DEF f
  <2>3. /\ DOMAIN uploads' = UploadIds /\ uploads'[u] = f
        /\ \A v \in UploadIds : v # u => uploads'[v] = uploads[v]
    BY <1>1, <2>2
  <2>4. UploadRecords(uploads')
    BY <1>1, <2>1, <2>3 DEF UploadRecords
  <2>5. OthersKept(p)
    BY <1>1, <2>3 DEF OthersKept
  <2>6. QED
    BY <1>3, <2>1, <2>3, <2>4, <2>5
<1>4. QED
  BY <1>2, <1>3

\* The value is in the file and the buffer.
Whole(r, ups) == ups[r.upload] # None =>
                    IsList(ups[r.upload].data) /\ ups[r.upload].data \o r.buffer = r.value

LEMMA Lengths ==
    ASSUME NEW s, NEW t, IsList(s), IsList(t)
    PROVE  Len(s \o t) = Len(s) + Len(t) /\ \A x : Len(Append(s, x)) = Len(s) + 1
<1>1. PICK S : s \in Seq(S)
  BY DEF IsList
<1>2. PICK T : t \in Seq(T)
  BY DEF IsList
<1> DEFINE U == S \cup T
<1>3. s \in Seq(U) /\ t \in Seq(U)
  BY <1>1, <1>2
<1> HIDE DEF U
<1>4. Len(s \o t) = Len(s) + Len(t)
  BY <1>3
<1>5. ASSUME NEW x PROVE Len(Append(s, x)) = Len(s) + 1
  BY <1>3
<1>6. QED
  BY <1>4, <1>5

LEMMA NothingOver ==
    ASSUME NEW a \in Nat, NEW e, NEW b, b = <<>>, a = e
    PROVE  a + Len(b) = e
  OBVIOUS

LEMMA DiskKeeps ==
    ASSUME ReqInv, NEW p \in Proc, ValueOnDisk(p)
    PROVE  ReqInv'
<1> DEFINE r == qreq[p]
           kind == Line(p)[1]
           chunk == Line(p)[2]
<1>1. r.at = "disk" /\ LineSound(r) /\ DiskSound(r, uploads) /\ DOMAIN r = Fields
  BY DEF ValueOnDisk, ReqInv
<1>2. r.upload \in UploadIds /\ IsList(r.buffer)
      /\ ("short" \notin r.sent.faults => Whole(r, uploads))
      /\ (uploads[r.upload] # None => Adds(r, uploads[r.upload]))
  BY <1>1 DEF DiskSound, Whole
<1>3. DOMAIN r.part = {"name", "file", "type"} /\ ~r.finish
  BY <1>1 DEF LineSound
<1>4. r.upload = None \/ \A q \in Proc : q # p => qreq[q].upload # r.upload
  BY <1>2, RequestAssumption DEF ReqInv
<1>5. CASE To(p, "broken") /\ UNCHANGED uploads
  <2>1. PICK s : /\ DOMAIN s = Fields /\ qreq' = [qreq EXCEPT ![p] = s] /\ s.at = "broken"
                 /\ s.sent = r.sent /\ s.stdin = r.stdin /\ s.part = r.part
                 /\ s.value = r.value /\ s.buffer = r.buffer
                 /\ s.upload = r.upload /\ s.finish = r.finish
    BY <1>5, ToIs
  <2> HIDE DEF r
  <2>2. LineSound(s)
    BY <1>1, <1>3, <2>1, LineMoves
  <2>3. DiskSound(s, uploads')
    BY <1>2, <2>1 DEF DiskSound, AtUpload
  <2>4. QED
    BY <1>4, <1>5, <2>1, <2>2, <2>3, SameUploads, OneMoves
<1>6. CASE /\ ~Eof(p) /\ Ends(p) /\ UNCHANGED uploads
           /\ qreq' = [qreq EXCEPT ![p].stdin = Tail(@), ![p].at = "rest",
                                   ![p].finish = Line(p)[1] = "end"]
  <2> DEFINE over == kind = "end"
             s == [r EXCEPT !.stdin = Tail(@), !.at = "rest", !.finish = over]
  <2>1. qreq' = [qreq EXCEPT ![p] = s]
    BY <1>6 DEF ReqInv
  <2>2. r.stdin # <<>> /\ kind = Head(r.stdin)[1] /\ kind \in {"mark", "end"}
    BY <1>6 DEF Eof, Line, Ends
  <2> HIDE DEF r, kind, over
  <2>3. /\ DOMAIN s = Fields /\ s.at = "rest" /\ s.sent = r.sent /\ s.stdin = Tail(r.stdin)
        /\ s.part = r.part /\ s.value = r.value /\ s.buffer = r.buffer /\ s.upload = r.upload
        /\ s.finish = over
    BY <1>1 DEF Fields
  <2> HIDE DEF s
  <2>4. LineSound(s)
    BY <1>1, <2>2, <2>3, ValueEnds DEF over
  <2>5. DiskSound(s, uploads')
    <3>1. ASSUME uploads'[s.upload] # None PROVE Adds(s, uploads'[s.upload])
      BY <1>2, <1>6, <2>3, <3>1 DEF Adds
    <3>2. QED
      BY <1>2, <1>6, <2>3, <3>1 DEF DiskSound, AtUpload, Whole
  <2>6. DOMAIN uploads' = UploadIds /\ UploadRecords(uploads') /\ OthersKept(p)
    BY <1>6, SameUploads
  <2>7. s.upload = None \/ \A q \in Proc : q # p => qreq[q].upload # s.upload
    BY <1>4, <2>3
  <2>8. QED
    BY <2>1, <2>3, <2>4, <2>5, <2>6, <2>7, OneMoves
<1>7. CASE /\ ~Eof(p) /\ ~Ends(p)
           /\ LET full == Len(r.buffer) = BufferSize
              IN /\ uploads' = IF full THEN Written(r.upload, r.buffer) ELSE uploads
                 /\ qreq' = [qreq EXCEPT ![p].stdin = Tail(@),
                       ![p].value = Append(@, Line(p)[2]),
                       ![p].buffer = Append(IF full THEN <<>> ELSE @, Line(p)[2])]
  <2> DEFINE full == Len(r.buffer) = BufferSize
             kept == IF full THEN <<>> ELSE r.buffer
             value == Append(r.value, chunk)
             buffer == Append(kept, chunk)
             s == [r EXCEPT !.stdin = Tail(@), !.value = value, !.buffer = buffer]
             old == uploads[r.upload]
             file == uploads'[r.upload]
  <2>1. qreq' = [qreq EXCEPT ![p] = s]
    BY <1>7 DEF ReqInv
  <2>2. r.stdin # <<>>
    BY <1>7 DEF Eof, Line
  <2>3. IsList(kept) /\ IsList(buffer)
    BY <1>2, NothingIs, LongerBy
  <2>4. /\ DOMAIN uploads' = UploadIds /\ UploadRecords(uploads') /\ OthersKept(p)
        /\ file # None => old # None /\ (IsList(old.data) =>
                                            IsList(file.data) /\ file.data \o kept = old.data \o r.buffer)
    <3>1. CASE full
      <4>1. /\ DOMAIN uploads' = UploadIds /\ UploadRecords(uploads') /\ OthersKept(p)
            /\ file # None => old # None /\ file.data = old.data \o r.buffer
        BY <1>2, <1>7, <3>1, WrittenIs
      <4>2. IsList(old.data) => IsList(old.data \o r.buffer)
                                /\ (old.data \o r.buffer) \o <<>> = old.data \o r.buffer
        BY <1>2, NothingIs, BothAre
      <4> HIDE DEF file, old
      <4>3. kept = <<>>
        BY <3>1
      <4> HIDE DEF kept
      <4>4. QED
        BY <4>1, <4>2, <4>3
    <3>2. CASE ~full
      <4>1. UNCHANGED uploads
        BY <1>7, <3>2
      <4>2. QED
        BY <3>2, <4>1, SameUploads
    <3>3. QED
      BY <3>1, <3>2
  <2> HIDE DEF r, value, buffer, kept, full
  <2>5. /\ DOMAIN s = Fields /\ s.at = "disk" /\ s.sent = r.sent /\ s.stdin = Tail(r.stdin)
        /\ s.part = r.part /\ s.value = value /\ s.buffer = buffer /\ s.upload = r.upload
        /\ s.finish = r.finish
    BY <1>1 DEF Fields
  <2> HIDE DEF s
  <2>6. LineSound(s)
    BY <1>1, <1>3, <2>2, <2>5, LineMoves
  <2>7. "short" \notin r.sent.faults /\ file # None => IsList(file.data) /\ file.data \o buffer = value
    <3>1. ASSUME "short" \notin r.sent.faults, file # None
          PROVE  IsList(file.data) /\ file.data \o buffer = value
      <4>1. IsList(old.data) /\ old.data \o r.buffer = r.value
        BY <1>2, <2>4, <3>1 DEF Whole
      <4>2. IsList(file.data) /\ file.data \o kept = r.value
        BY <2>4, <3>1, <4>1
      <4> DEFINE data == file.data
      <4>3. IsList(data) /\ data \o kept = r.value
        BY <4>2
      <4> HIDE DEF data
      <4>4. Append(data \o kept, chunk) = data \o Append(kept, chunk)
        <5>1. IsList(data) /\ IsList(kept)
          BY <2>3, <4>3
        <5> HIDE DEF chunk
        <5>2. QED
          BY ONLY <5>1, BothAre
      <4>5. data \o buffer = value
        BY <4>3, <4>4 DEF value, buffer
      <4>6. QED
        BY <4>3, <4>5 DEF data
    <3>2. QED
      BY <3>1
  <2>8. DiskSound(s, uploads')
    <3>1. ASSUME file # None PROVE Adds(s, file)
      <4>1. IsList(old.data) /\ IsList(r.value) /\ Len(old.data) + Len(r.buffer) = Len(r.value)
        BY <1>2, <2>4, <3>1 DEF Adds
      <4>2. IsList(file.data) /\ file.data \o kept = old.data \o r.buffer
        BY <2>4, <3>1, <4>1
      <4>3. IsList(value) /\ Len(value) = Len(r.value) + 1 /\ Len(buffer) = Len(kept) + 1
        BY <2>3, <4>1, LongerBy, Lengths DEF value, buffer
      <4>4. Len(file.data) + Len(kept) = Len(old.data) + Len(r.buffer)
        BY <1>2, <2>3, <4>1, <4>2, Lengths
      <4>5. /\ Len(file.data) \in Nat /\ Len(kept) \in Nat /\ Len(old.data) \in Nat
            /\ Len(r.buffer) \in Nat /\ Len(r.value) \in Nat
        BY <1>2, <2>3, <4>1, <4>2, LengthIs
      <4>6. Len(file.data) + Len(buffer) = Len(value)
        <5> DEFINE a == Len(file.data)
                   b == Len(kept)
                   c == Len(old.data)
                   d == Len(r.buffer)
                   e == Len(r.value)
                   f == Len(buffer)
                   g == Len(value)
        <5>1. a \in Nat /\ b \in Nat /\ c \in Nat /\ d \in Nat /\ e \in Nat
          BY <4>5, Zenon
        <5>2. a + b = c + d /\ c + d = e /\ f = b + 1 /\ g = e + 1
          BY <4>1, <4>3, <4>4, Zenon
        <5> HIDE DEF a, b, c, d, e, f, g
        <5>3. a + f = g
          BY ONLY <5>1, <5>2
        <5>4. QED
          BY <5>3, Zenon DEF a, f, g
      <4>7. QED
        BY <2>5, <4>2, <4>3, <4>6 DEF Adds
    <3>2. QED
      BY <1>2, <2>3, <2>5, <2>7, <3>1 DEF DiskSound, AtUpload
  <2>9. QED
    BY <1>4, <2>1, <2>4, <2>5, <2>6, <2>8, OneMoves
<1>8. QED
  BY <1>5, <1>6, <1>7 DEF ValueOnDisk

LEMMA ListFront ==
    ASSUME NEW s, IsList(s), Len(s) > 1
    PROVE  /\ IsList(Front(s)) /\ Len(Front(s)) = Len(s) - 1 /\ Len(s) \in Nat
           /\ IsList(SubSeq(s, 1, 1)) /\ Len(SubSeq(s, 1, 1)) = 1
<1>1. PICK S : s \in Seq(S)
  BY DEF IsList
<1>2. Len(s) \in Nat
  BY <1>1
<1>3. \A i \in 1 .. Len(s) - 1 : s[i] \in S
  BY <1>1, <1>2
<1>4. SubSeq(s, 1, Len(s) - 1) \in Seq(S) /\ Len(SubSeq(s, 1, Len(s) - 1)) = Len(s) - 1
  BY <1>1, <1>2, <1>3, SubSeqProperties
<1>5. SubSeq(s, 1, 1) \in Seq(S) /\ Len(SubSeq(s, 1, 1)) = 1
  BY <1>1, <1>2, <1>3, SubSeqProperties
<1>6. QED
  BY <1>2, <1>4, <1>5 DEF IsList, Front

LEMMA RestKeeps ==
    ASSUME ReqInv, NEW p \in Proc, SaveRest(p)
    PROVE  ReqInv'
<1> DEFINE r == qreq[p]
           buffer == r.buffer
<1>1. r.at \in {"rest", "broken"} /\ LineSound(r) /\ DiskSound(r, uploads) /\ DOMAIN r = Fields
  BY DEF SaveRest, ReqInv
<1>2. r.upload \in UploadIds /\ IsList(r.buffer)
      /\ (r.at = "rest" /\ "short" \notin r.sent.faults => Whole(r, uploads))
      /\ (r.at = "rest" /\ uploads[r.upload] # None => Adds(r, uploads[r.upload]))
  BY <1>1 DEF DiskSound, Whole
<1>3. DOMAIN r.part = {"name", "file", "type"}
  BY <1>1 DEF LineSound
<1>4. r.upload = None \/ \A q \in Proc : q # p => qreq[q].upload # r.upload
  BY <1>2, RequestAssumption DEF ReqInv
<1>5. CASE buffer = <<>> /\ r.at = "broken" /\ qreq' = Failed(p) /\ UNCHANGED uploads
  <2>1. PICK s : /\ DOMAIN s = Fields /\ Failed(p) = [qreq EXCEPT ![p] = s]
                 /\ s.at = "store" /\ s.value = None /\ s.finish
                 /\ s.sent = r.sent /\ s.stdin = r.stdin /\ s.part = r.part
                 /\ s.buffer = r.buffer /\ s.upload = r.upload
    BY FailedIs
  <2>2. qreq' = [qreq EXCEPT ![p] = s]
    BY <1>5, <2>1
  <2>3. LineSound(s) /\ DiskSound(s, uploads')
    BY <1>1, <1>2, <1>5, <2>1, FailedSound
  <2>4. QED
    BY <1>4, <1>5, <2>1, <2>2, <2>3, SameUploads, OneMoves
<1>6. CASE buffer = <<>> /\ r.at = "rest" /\ To(p, "store") /\ UNCHANGED uploads
  <2>1. PICK s : /\ DOMAIN s = Fields /\ qreq' = [qreq EXCEPT ![p] = s] /\ s.at = "store"
                 /\ s.sent = r.sent /\ s.stdin = r.stdin /\ s.part = r.part
                 /\ s.value = r.value /\ s.buffer = r.buffer
                 /\ s.upload = r.upload /\ s.finish = r.finish
    BY <1>6, ToIs
  <2> HIDE DEF r
  <2>2. LineSound(s)
    BY <1>1, <1>6, <2>1 DEF LineSound
  <2>3. "short" \notin r.sent.faults => uploads[r.upload] = None \/ uploads[r.upload].data = r.value
    <3>1. ASSUME "short" \notin r.sent.faults, uploads[r.upload] # None
          PROVE  uploads[r.upload].data = r.value
      <4>1. IsList(uploads[r.upload].data) /\ uploads[r.upload].data \o <<>> = r.value
        BY <1>2, <1>6, <3>1 DEF Whole
      <4>2. QED
        BY <4>1, NothingIs, BothAre
    <3>2. QED
      BY <3>1
  <2>4. DiskSound(s, uploads')
    <3>1. ASSUME uploads[r.upload] # None PROVE Len(uploads[r.upload].data) = Len(r.value)
      <4>1. Adds(r, uploads[r.upload]) /\ Len(r.buffer) = 0
        BY <1>2, <1>6, <3>1
      <4>2. Len(uploads[r.upload].data) \in Nat
        BY <4>1, LengthIs DEF Adds
      <4>3. QED
        BY <4>1, <4>2 DEF Adds
    <3>2. uploads[r.upload] # None => HasAll(uploads[r.upload], r.value, r.sent)
      BY <2>3, <3>1 DEF HasAll
    <3>3. QED
      BY <1>2, <1>6, <2>1, <3>2 DEF DiskSound, AtUpload
  <2>5. QED
    BY <1>4, <1>6, <2>1, <2>2, <2>4, SameUploads, OneMoves
<1>7. CASE buffer # <<>> /\ uploads' = Written(r.upload, buffer)
           /\ qreq' = [qreq EXCEPT ![p].buffer = <<>>]
  <2> DEFINE s == [r EXCEPT !.buffer = <<>>]
             old == uploads[r.upload]
             file == uploads'[r.upload]
  <2>1. qreq' = [qreq EXCEPT ![p] = s]
    BY <1>7 DEF ReqInv
  <2>2. /\ DOMAIN uploads' = UploadIds /\ UploadRecords(uploads') /\ OthersKept(p)
        /\ file # None => old # None /\ file.data = old.data \o r.buffer
    BY <1>2, <1>7, WrittenIs
  <2> HIDE DEF r
  <2>3. /\ DOMAIN s = Fields /\ s.at = r.at /\ s.sent = r.sent /\ s.stdin = r.stdin
        /\ s.part = r.part /\ s.value = r.value /\ s.buffer = <<>> /\ s.upload = r.upload
        /\ s.finish = r.finish
    BY <1>1 DEF Fields
  <2> HIDE DEF s
  <2>4. LineSound(s)
    BY <1>1, <2>3 DEF LineSound
  <2>5. r.at = "rest" /\ "short" \notin r.sent.faults /\ file # None =>
           IsList(file.data) /\ file.data \o <<>> = r.value
    <3>1. ASSUME r.at = "rest", "short" \notin r.sent.faults, file # None
          PROVE  IsList(file.data) /\ file.data \o <<>> = r.value
      <4>1. IsList(old.data) /\ file.data = old.data \o r.buffer /\ old.data \o r.buffer = r.value
        BY <1>2, <2>2, <3>1 DEF Whole
      <4> HIDE DEF old, file
      <4>2. IsList(old.data \o r.buffer)
        BY <1>2, <4>1, BothAre
      <4>3. (old.data \o r.buffer) \o <<>> = old.data \o r.buffer
        BY <4>2, NothingIs, BothAre
      <4>4. QED
        BY <4>1, <4>2, <4>3
    <3>2. QED
      BY <3>1
  <2>6. DiskSound(s, uploads')
    <3>1. ASSUME r.at = "rest", file # None PROVE Adds(s, file)
      <4>1. IsList(old.data) /\ IsList(r.value) /\ Len(old.data) + Len(r.buffer) = Len(r.value)
        BY <1>2, <2>2, <3>1 DEF Adds
      <4>2. file.data = old.data \o r.buffer
        BY <2>2, <3>1
      <4> HIDE DEF old, file
      <4>3. IsList(file.data) /\ Len(file.data) = Len(old.data) + Len(r.buffer)
        BY <1>2, <4>1, <4>2, Lengths, BothAre
      <4>4. Len(file.data) \in Nat
        BY <4>3, LengthIs
      <4>5. Len(file.data) + Len(s.buffer) = Len(r.value)
        BY <2>3, <4>1, <4>3, <4>4, NothingOver
      <4>6. QED
        BY <2>3, <4>1, <4>3, <4>5 DEF Adds
    <3>2. QED
      BY <1>1, <1>2, <2>3, <2>5, <3>1, NothingIs DEF DiskSound, AtUpload
  <2>7. QED
    BY <1>1, <1>4, <2>1, <2>2, <2>3, <2>4, <2>6, OneMoves
<1>8. CASE qreq' = [Failed(p) EXCEPT ![p].buffer = <<>>] /\ UNCHANGED uploads
  <2>1. PICK t : /\ DOMAIN t = Fields /\ Failed(p) = [qreq EXCEPT ![p] = t]
                 /\ t.at = "store" /\ t.value = None /\ t.finish
                 /\ t.sent = r.sent /\ t.stdin = r.stdin /\ t.part = r.part
                 /\ t.buffer = r.buffer /\ t.upload = r.upload
    BY FailedIs
  <2> DEFINE s == [t EXCEPT !.buffer = <<>>]
  <2>2. qreq' = [qreq EXCEPT ![p] = s]
    BY <1>8, <2>1 DEF ReqInv
  <2>3. /\ DOMAIN s = Fields /\ s.at = "store" /\ s.value = None /\ s.finish /\ s.sent = r.sent
        /\ s.stdin = r.stdin /\ s.part = r.part /\ s.buffer = <<>> /\ s.upload = r.upload
    BY <2>1 DEF Fields
  <2> HIDE DEF s, r
  <2>4. LineSound(s) /\ DiskSound(s, uploads')
    BY <1>1, <1>2, <2>3, FailedSound
  <2>5. QED
    BY <1>4, <1>8, <2>2, <2>3, <2>4, SameUploads, OneMoves
<1>9. CASE /\ Len(buffer) > 1 /\ "short" \in r.sent.faults
           /\ uploads' = Written(r.upload, SubSeq(buffer, 1, 1))
           /\ qreq' = [qreq EXCEPT ![p].buffer = Front(buffer)]
  <2> DEFINE less == Front(buffer)
             s == [r EXCEPT !.buffer = less]
  <2>1. qreq' = [qreq EXCEPT ![p] = s]
    BY <1>9 DEF ReqInv
  <2> DEFINE old == uploads[r.upload]
             file == uploads'[r.upload]
             taken == SubSeq(buffer, 1, 1)
  <2>2. /\ DOMAIN uploads' = UploadIds /\ UploadRecords(uploads') /\ OthersKept(p)
        /\ file # None => old # None /\ file.data = old.data \o taken
    BY <1>2, <1>9, WrittenIs
  <2>3. /\ IsList(less) /\ IsList(taken) /\ Len(taken) = 1 /\ Len(less) = Len(r.buffer) - 1
        /\ Len(r.buffer) \in Nat
    BY <1>2, <1>9, ListFront
  <2> HIDE DEF r, less, taken
  <2>4. /\ DOMAIN s = Fields /\ s.at = r.at /\ s.sent = r.sent /\ s.stdin = r.stdin
        /\ s.part = r.part /\ s.value = r.value /\ s.buffer = less /\ s.upload = r.upload
        /\ s.finish = r.finish
    BY <1>1 DEF Fields
  <2> HIDE DEF s
  <2>5. LineSound(s)
    BY <1>1, <2>4 DEF LineSound
  <2>6. DiskSound(s, uploads')
    <3>1. ASSUME r.at = "rest", file # None PROVE Adds(s, file)
      <4>1. IsList(old.data) /\ IsList(r.value) /\ Len(old.data) + Len(r.buffer) = Len(r.value)
        BY <1>2, <2>2, <3>1 DEF Adds
      <4>2. file.data = old.data \o taken
        BY <2>2, <3>1
      <4> HIDE DEF old, file
      <4>3. IsList(file.data) /\ Len(file.data) = Len(old.data) + Len(taken)
        BY <2>3, <4>1, <4>2, Lengths, BothAre, Zenon
      <4>4. Len(old.data) \in Nat /\ Len(taken) = 1 /\ Len(less) = Len(r.buffer) - 1
        BY <2>3, <4>1, LengthIs, Zenon
      <4>5. Len(file.data) + Len(less) = Len(r.value)
        <5> DEFINE a == Len(file.data)
                   b == Len(old.data)
                   c == Len(r.buffer)
                   d == Len(less)
                   e == Len(r.value)
                   f == Len(taken)
        <5>1. b \in Nat /\ c \in Nat
          BY <2>3, <4>4, Zenon
        <5>2. a = b + f /\ f = 1 /\ d = c - 1 /\ b + c = e
          BY <4>1, <4>3, <4>4, Zenon
        <5> HIDE DEF a, b, c, d, e, f
        <5>3. a + d = e
          BY ONLY <5>1, <5>2
        <5>4. QED
          BY <5>3, Zenon DEF a, d, e
      <4>6. QED
        BY <2>4, <4>1, <4>3, <4>5 DEF Adds
    <3>2. QED
      BY <1>1, <1>2, <1>9, <2>3, <2>4, <3>1 DEF DiskSound, AtUpload
  <2>7. QED
    BY <1>1, <1>4, <2>1, <2>2, <2>4, <2>5, <2>6, OneMoves
<1>10. CASE buffer = <<>> /\ UNCHANGED uploads
            /\ qreq' = IF r.at = "broken" THEN Failed(p) ELSE [qreq EXCEPT ![p].at = "store"]
  <2>1. CASE r.at = "broken"
    BY <1>5, <1>10, <2>1
  <2>2. CASE r.at = "rest"
    BY <1>6, <1>10, <2>2 DEF To
  <2>3. QED
    BY <1>1, <2>1, <2>2
<1>11. \/ /\ buffer = <<>> /\ UNCHANGED uploads
          /\ qreq' = IF r.at = "broken" THEN Failed(p) ELSE [qreq EXCEPT ![p].at = "store"]
       \/ /\ buffer # <<>> /\ uploads' = Written(r.upload, buffer)
          /\ qreq' = [qreq EXCEPT ![p].buffer = <<>>]
       \/ qreq' = [Failed(p) EXCEPT ![p].buffer = <<>>] /\ UNCHANGED uploads
       \/ /\ Len(buffer) > 1 /\ "short" \in r.sent.faults
          /\ uploads' = Written(r.upload, SubSeq(buffer, 1, 1))
          /\ qreq' = [qreq EXCEPT ![p].buffer = Front(buffer)]
  BY Zenon DEF SaveRest, Sent
<1>12. QED
  BY <1>7, <1>8, <1>9, <1>10, <1>11

LEMMA LaterKeeps ==
    ASSUME ReqInv, UNCHANGED <<qreq, uploads>>
    PROVE  ReqInv'
BY DEF ReqInv, UploadRecords

LEMMA ReqStep ==
    ASSUME ReqInv, [QReqNext]_qreqVars
    PROVE  ReqInv'
<1>1. CASE UNCHANGED qreqVars
  BY <1>1, LaterKeeps DEF qreqVars
<1>2. CASE Later
  BY <1>2, LaterKeeps DEF Later
<1>3. ASSUME NEW p \in Proc,
             \/ \E sent \in Requests : Arrive(p, sent)
             \/ qcgireq_setoption(p) \/ Cleared(p) \/ \E u \in UploadIds : _upload_clear_base(p, u)
             \/ ParseCookie(p) \/ ParsePost(p) \/ ParseGet(p)
             \/ FirstMark(p) \/ ReadHeader(p) \/ HeadersEnd(p)
             \/ ValueInMemory(p) \/ OpenUpload(p) \/ ValueOnDisk(p) \/ SaveRest(p)
             \/ StoreValue(p) \/ EndRequest(p)
      PROVE  ReqInv'
  <2>1. CASE \E sent \in Requests : Arrive(p, sent)
    BY <2>1, ArriveKeeps
  <2>2. CASE qcgireq_setoption(p)
    BY <2>2, OptionKeeps
  <2>3. CASE \E u \in UploadIds : _upload_clear_base(p, u)
    BY <2>3, ClearKeeps
  <2>4. CASE Cleared(p) \/ ParseCookie(p) \/ ParsePost(p) \/ ParseGet(p)
    BY <2>4, PairsKeep
  <2>5. CASE FirstMark(p)
    BY <2>5, FirstMarkKeeps
  <2>6. CASE ReadHeader(p)
    BY <2>6, ReadHeaderKeeps
  <2>7. CASE HeadersEnd(p)
    BY <2>7, HeadersEndKeeps
  <2>8. CASE ValueInMemory(p)
    BY <2>8, MemoryKeeps
  <2>9. CASE OpenUpload(p)
    BY <2>9, OpenKeeps
  <2>10. CASE ValueOnDisk(p)
    BY <2>10, DiskKeeps
  <2>11. CASE SaveRest(p)
    BY <2>11, RestKeeps
  <2>12. CASE StoreValue(p)
    BY <2>12, StoreKeeps
  <2>13. CASE EndRequest(p)
    BY <2>13, EndKeeps
  <2>14. QED
    BY <1>3, <2>1, <2>2, <2>3, <2>4, <2>5, <2>6, <2>7, <2>8, <2>9, <2>10, <2>11, <2>12, <2>13
<1>4. QED
  BY <1>1, <1>2, <1>3 DEF QReqNext

LEMMA ReqInvSays ==
    ASSUME ReqInv
    PROVE  NeverStuck /\ UploadsWhole
<1>1. ASSUME NEW p \in Proc, qreq[p].at = "headers", qreq[p].stdin = <<>>, qreq[p].part.name = None
      PROVE  ~AllNamed(Sent(p).body)
  <2> DEFINE r == qreq[p]
             body == r.sent.body
  <2>1. LineSound(r) /\ r.sent \in Requests
    BY <1>1 DEF ReqInv, LineSound
  <2>2. PICK k \in 0 .. Len(body) : k \in Nat /\ (AllNamed(r.sent.body) => NameBehind(body, k)) /\ k = Len(body)
    BY <1>1, <2>1, NextLine
  <2>3. Len(body) \in Nat
    BY <2>1, SentIs
  <2>4. AllNamed(r.sent.body) => k + 1 \in 1 .. Len(body)
    BY <2>2, <2>3, StillBehind
  <2>5. QED
    BY <2>2, <2>3, <2>4 DEF Sent
<1>2. ASSUME NEW p \in Proc, qreq[p].at = "store", qreq[p].upload # None, qreq[p].value # None,
             uploads[qreq[p].upload] # None
      PROVE  HasAll(uploads[qreq[p].upload], qreq[p].value, Sent(p))
  BY <1>2 DEF ReqInv, DiskSound, Sent
<1>3. QED
  BY <1>1, <1>2 DEF NeverStuck, UploadsWhole

\* Two of the three conjuncts of RequestWhole, for every body a client may send: a
\* reader that never comes to an end (_parse_multipart) is in a body with a boundary
\* behind which no name comes; and an upload that came to its end is in its file,
\* whole, or after short writes at least with its length, unless it was cleared
\* (_upload_clear_base).
THEOREM RequestKeptAlways == QReqSpec => [](NeverStuck /\ UploadsWhole)
<1>1. QReqInit => ReqInv
  BY ReqInitKept
<1>2. ReqInv /\ [QReqNext]_qreqVars => ReqInv'
  BY ReqStep
<1>3. ReqInv => NeverStuck /\ UploadsWhole
  BY ReqInvSays
<1>4. QED
  BY <1>1, <1>2, <1>3, PTL DEF QReqSpec
=============================================================================
