------------------------------ MODULE QSession ------------------------------
(***************************************************************************)
(* The sessions of qdecoder/qcgisess.c: pages that run in several processes *)
(* keep a session of a client in two files of one directory, its properties *)
(* (storage) and the second at which it expires (timeout).  No file is      *)
(* locked: each open, write and unlink is a step of its own.  A session in  *)
(* memory is [id, interval]; one that was loaded from no file or     *)
(* from a file just opened for writing has none of them.                    *)
(***************************************************************************)
EXTENDS Integers, FiniteSets

CONSTANTS Page,      \* processes that run pages
          Sid,       \* session ids, each drawn at most once (_genuniqid)
          Interval,  \* the interval that pages set, in ticks
          MaxClock,    \* bound of the clock
          Modes,     \* [overlap, crash]: a client sends two requests of a session at
                     \* once; a process dies in a request
          NoSid, Absent

ASSUME SessionAssumption ==
    /\ Interval \in Nat \ {0} /\ MaxClock \in Nat
    /\ Modes \subseteq [overlap : BOOLEAN, crash : BOOLEAN]
    /\ NoSid \notin Sid /\ Absent \notin Nat

VARIABLES storage,   \* id -> session, the empty one while it is written, or Absent
          timeout,   \* id -> second, 0 while it is written, or Absent
          clock,
          drawn,     \* the ids drawn so far
          req,       \* process -> its request
          mode       \* what happens in this behaviour, fixed at the start

sessVars == <<storage, timeout, clock, drawn, req, mode>>

NoSession == [id |-> NoSid, interval |-> 0]
NoRequest == [at |-> "idle", id |-> NoSid, sess |-> NoSession, todo |-> {}, victim |-> NoSid]

SessInit ==
    /\ storage = [s \in Sid |-> Absent] /\ timeout = [s \in Sid |-> Absent]
    /\ clock = 1 /\ drawn = {}
    /\ req = [p \in Page |-> NoRequest]
    /\ mode \in Modes

\* _is_valid_session: 0 without a number in the file, -1 expired, 1 valid.
Valid(s) == IF timeout[s] \in {Absent, 0} THEN 0
            ELSE IF timeout[s] >= clock THEN 1 ELSE -1

Go(p, at) == req' = [req EXCEPT ![p].at = at]
Unlink(file, s) == [file EXCEPT ![s] = Absent]

\* A client comes with an id it was given, or without one.
Begin(p, s) ==
    /\ req[p].at = "idle"
    /\ s \in drawn \cup {NoSid}
    /\ s # NoSid /\ ~mode.overlap => \A q \in Page : req[q].id # s
    /\ req' = [req EXCEPT ![p] = [NoRequest EXCEPT !.at = IF s = NoSid THEN "new" ELSE "check",
                                              !.id = s]]
    /\ UNCHANGED <<storage, timeout, clock, drawn, mode>>

\* A session of a new id, which the client gets as its cookie.
NewSession(p) ==
    /\ req[p].at = "new"
    /\ \E s \in Sid \ drawn :
          /\ drawn' = drawn \cup {s}
          /\ req' = [req EXCEPT ![p] = [NoRequest EXCEPT
                !.at = "page", !.id = s,
                !.sess = [id |-> s, interval |-> Interval]]]
    /\ UNCHANGED <<storage, timeout, clock, mode>>

\* Mutant of DropExpired: only the timeout file is removed.
DropsTimeoutOnly(p) ==
    /\ req[p].at = "drop1" /\ Go(p, "new")
    /\ timeout' = Unlink(timeout, req[p].id)
    /\ UNCHANGED <<storage, clock, drawn, mode>>

\* An expired session is removed, storage first; an unknown one is left.
CheckSession(p) ==
    /\ req[p].at = "check"
    /\ Go(p, CASE Valid(req[p].id) = 1 -> "load"
               [] Valid(req[p].id) = -1 -> "drop1"
               [] Valid(req[p].id) = 0 -> "new")
    /\ UNCHANGED <<storage, timeout, clock, drawn, mode>>

DropExpired(p) ==
    \/ /\ req[p].at = "drop1" /\ Go(p, "drop2")
       /\ storage' = Unlink(storage, req[p].id)
       /\ UNCHANGED <<timeout, clock, drawn, mode>>
    \/ /\ req[p].at = "drop2" /\ Go(p, "new")
       /\ timeout' = Unlink(timeout, req[p].id)
       /\ UNCHANGED <<storage, clock, drawn, mode>>

\* load; qcgisess_settimeout sets the interval that was loaded again, or none.
LoadSession(p) ==
    /\ req[p].at = "load"
    /\ LET found == IF storage[req[p].id] = Absent THEN NoSession ELSE storage[req[p].id]
       IN req' = [req EXCEPT ![p].at = "page", ![p].sess = found]
    /\ UNCHANGED <<storage, timeout, clock, drawn, mode>>

\* The page ends without a word to the session, saves or destroys it.  Both
\* give up when the session does not know its id.
PageEnds(p) ==
    /\ req[p].at = "page"
    /\ \/ req' = [req EXCEPT ![p] = NoRequest]
       \/ /\ req[p].sess.id # NoSid
          /\ \E next \in {"save1", "destroy1"} : Go(p, next)
    /\ UNCHANGED <<storage, timeout, clock, drawn, mode>>

\* qcgisess_save: storage is opened and so emptied, written, then timeout is
\* (_update_timeout); an interval of 0 stops in between.
SaveStorage(p) ==
    \/ /\ req[p].at = "save1" /\ Go(p, "save2")
       /\ storage' = [storage EXCEPT ![req[p].sess.id] = NoSession]
       /\ UNCHANGED <<timeout, clock, drawn, mode>>
    \/ /\ req[p].at = "save2"
       /\ storage' = IF storage[req[p].sess.id] = Absent THEN storage  \* unlinked meanwhile
                     ELSE [storage EXCEPT ![req[p].sess.id] = req[p].sess]
       /\ IF req[p].sess.interval = 0 THEN req' = [req EXCEPT ![p] = NoRequest]
                                      ELSE Go(p, "time1")
       /\ UNCHANGED <<timeout, clock, drawn, mode>>

SaveTimeout(p) ==
    \/ /\ req[p].at = "time1" /\ Go(p, "time2")
       /\ timeout' = [timeout EXCEPT ![req[p].sess.id] = 0]
       /\ UNCHANGED <<storage, clock, drawn, mode>>
    \/ /\ req[p].at = "time2"
       /\ timeout' = IF timeout[req[p].sess.id] = Absent THEN timeout
                     ELSE [timeout EXCEPT ![req[p].sess.id] = clock + req[p].sess.interval]
       /\ req' = [req EXCEPT ![p].at = "clear", ![p].todo = Sid]
       /\ UNCHANGED <<storage, clock, drawn, mode>>

\* _clear_repo: every timeout file of the directory, in any order; one that is
\* not valid is removed, and then its storage.
ClearStarts(p, s) ==
    /\ req[p].at = "clear" /\ s \in req[p].todo
    /\ req' = [req EXCEPT ![p].todo = @ \ {s},
                          ![p].at = IF timeout[s] # Absent /\ Valid(s) <= 0
                                    THEN "clear1" ELSE "clear",
                          ![p].victim = IF timeout[s] # Absent /\ Valid(s) <= 0
                                        THEN s ELSE NoSid]
    /\ UNCHANGED <<storage, timeout, clock, drawn, mode>>

ClearOne(p) ==
    \/ /\ req[p].at = "clear1" /\ Go(p, "clear2")
       /\ timeout' = Unlink(timeout, req[p].victim)
       /\ UNCHANGED <<storage, clock, drawn, mode>>
    \/ /\ req[p].at = "clear2"
       /\ req' = [req EXCEPT ![p].at = "clear", ![p].victim = NoSid]
       /\ storage' = Unlink(storage, req[p].victim)
       /\ UNCHANGED <<timeout, clock, drawn, mode>>

ClearEnds(p) ==
    /\ req[p].at = "clear" /\ req[p].todo = {}
    /\ req' = [req EXCEPT ![p] = NoRequest]
    /\ UNCHANGED <<storage, timeout, clock, drawn, mode>>

DestroySession(p) ==
    \/ /\ req[p].at = "destroy1" /\ Go(p, "destroy2")
       /\ storage' = Unlink(storage, req[p].sess.id)
       /\ UNCHANGED <<timeout, clock, drawn, mode>>
    \/ /\ req[p].at = "destroy2"
       /\ req' = [req EXCEPT ![p] = NoRequest]
       /\ timeout' = Unlink(timeout, req[p].sess.id)
       /\ UNCHANGED <<storage, clock, drawn, mode>>

SessionDies(p) ==
    /\ mode.crash /\ req[p].at # "idle"
    /\ req' = [req EXCEPT ![p] = NoRequest]
    /\ UNCHANGED <<storage, timeout, clock, drawn, mode>>

Tick ==
    /\ clock < MaxClock /\ clock' = clock + 1
    /\ UNCHANGED <<storage, timeout, drawn, req, mode>>

HandleSession(p) ==
    \/ NewSession(p) \/ CheckSession(p) \/ DropExpired(p) \/ LoadSession(p)
    \/ PageEnds(p) \/ SaveStorage(p) \/ SaveTimeout(p)
    \/ (\E s \in Sid : ClearStarts(p, s)) \/ ClearOne(p) \/ ClearEnds(p)
    \/ DestroySession(p)

SessNext ==
    \/ \E p \in Page : HandleSession(p) \/ SessionDies(p) \/ \E s \in Sid \cup {NoSid} : Begin(p, s)
    \/ Tick

SessSpec == SessInit /\ [][SessNext]_sessVars

-----------------------------------------------------------------------------
Concerns(p, s) == s \in {req[p].id, req[p].sess.id, req[p].victim}

\* As long as no process dies and a client waits for its answers, a session that
\* nobody is at work on can still be found and cleared: its properties never
\* stay in the directory without a timeout file, which is all that _clear_repo
\* looks for.
Collectable ==
    ~mode.overlap /\ ~mode.crash =>
        \A s \in Sid : (\A p \in Page : ~Concerns(p, s)) /\ storage[s] # Absent
                           => timeout[s] # Absent

\* Whoever holds a session holds the one its client asked for, and the file of
\* a session never has the properties of another, with overlapping requests and
\* crashes too.
NoneMixed ==
    /\ \A p \in Page : req[p].sess.id \in {NoSid, req[p].id}
    /\ \A s \in Sid : storage[s] # Absent => storage[s].id \in {NoSid, s}

\* The directory of sessions as a whole.
SessionFiles == Collectable /\ NoneMixed

\* _clear_repo clears "old session data" (qcgisess.c:251), files it calls "expired"
\* (qcgisess.c:263): a timeout file that it removes has expired.
ClearsOldOnly ==
    [][\A p \in Page : req[p].at = "clear1" /\ req'[p].at = "clear2" =>
           (timeout[req[p].victim] # Absent => timeout[req[p].victim] \in 1 .. clock - 1)]_sessVars
=============================================================================
