------------------------------ MODULE DavTree ------------------------------
(***************************************************************************)
(* The WebDAV handlers of ngx_http_dav_module.c over the file tree of one  *)
(* user's space: what they check before the space is locked, what they do  *)
(* to the files under the lock, in which steps, and what they write to the *)
(* operation log.  Every worker serves one request at a time; MKCOL takes  *)
(* no lock, and the checks of DELETE, MOVE and COPY precede theirs.        *)
(*                                                                         *)
(* CloudSpace has the lock itself, with its leases, and the log as lines   *)
(* and anchors; DeleteBackup has the inside of cloud_delete.  Here the     *)
(* lock is a mutex whose holder releases it, cloud_delete has the outcomes *)
(* the files show, and the log is what a client that replays it ends with. *)
(* Failures to get memory before the lock, which only answer 500, are left *)
(* out.                                                                    *)
(***************************************************************************)
EXTENDS Integers, Sequences, FiniteSets

CONSTANTS Worker,             \* the worker processes of nginx
          Nobody,             \* no worker
          DavRequests,        \* the requests the clients may send
          Methods,            \* dav_methods
          MinDeleteDepth,     \* min_delete_depth, 0 when it is not set
          CreateFullPutPath,  \* create_full_put_path
          InitialTree,        \* the files and directories there at the start
          BigContents,        \* the contents larger than _max_dele_siz_
          Astray,             \* the directory a shortened root leads to
          MaxPath,            \* ENAMETOOLONG beyond this many names
          MaxAsked            \* bound: the requests asked in all

ASSUME DavAssumption == Nobody \notin Worker /\ MaxAsked \in Nat

VARIABLES davTree,    \* path -> what is there
          versions,   \* the backups: the path of each, what its file has, and
                      \* (history) the contents that were given up for it
          replica,    \* the files of a client that replayed the log
          spaceLock,  \* the worker that has the lock of the space
          jobs,       \* worker -> the request it serves
          asked,      \* how many requests were asked
          stored,     \* history: the contents ever stored
          spoiled,    \* history: the contents a failed call, or a change made
                      \* after the checks, may have cost
          blurred     \* history: the paths recorded otherwise than they were
                      \* changed, because a call failed or a name was wrong

davVars == <<davTree, versions, replica, spaceLock, jobs, asked, stored, spoiled, blurred>>

Torn == 0                                       \* a copy that broke off
DirNode     == [kind |-> "dir",  content |-> 0]
SpecNode    == [kind |-> "spec", content |-> 0]
FileNode(c) == [kind |-> "file", content |-> c]

INFINITY == -1
INVALID  == -2

IdleJob(code) == [at |-> "idle", answer |-> code]

-----------------------------------------------------------------------------
(* The tree *)

Parent(p)     == SubSeq(p, 1, Len(p) - 1)
Ancestors(p)  == {SubSeq(p, 1, n) : n \in 0 .. Len(p) - 1}
Leads(p, x)   == Len(x) >= Len(p) /\ SubSeq(x, 1, Len(p)) = p
IsDir(t, p)   == p \in DOMAIN t /\ t[p].kind = "dir"
IsFile(t, p)  == p \in DOMAIN t /\ t[p].kind = "file"
Below(p)      == {q \in DOMAIN davTree : Leads(p, q)}
Entries(t, p) == {q[Len(q)] : q \in {x \in DOMAIN t : x # <<>> /\ Parent(x) = p}}
FilesOf(t)    == {p \in DOMAIN t : IsFile(t, p)}
ContentsOf(t) == {t[p].content : p \in FilesOf(t)}
Without(t, S) == [p \in DOMAIN t \ S |-> t[p]]
With(t, p, x) == [q \in DOMAIN t \cup {p} |-> IF q = p THEN x ELSE t[q]]

\* ngx_link_info: the kind of what is there, or the error.
Info(t, p) == IF p \in DOMAIN t THEN t[p].kind
              ELSE IF \E q \in Ancestors(p) : q \in DOMAIN t /\ t[q].kind # "dir" THEN "ENOTDIR"
              ELSE "ENOENT"
Missing == {"ENOENT", "ENOTDIR"}

\* ngx_create_dir: "" or the error.
MkdirError(t, p) == IF Len(p) > MaxPath THEN "ENAMETOOLONG"
                    ELSE IF p \in DOMAIN t THEN "EEXIST"
                    ELSE IF p = << >> \/ IsDir(t, Parent(p)) THEN "" ELSE Info(t, p)

\* A file can be opened for writing, or renamed, to p.
Open(t, p) == Len(p) <= MaxPath /\ IsDir(t, Parent(p)) /\ ~IsDir(t, p)

\* The directories above p are made if they are all that a rename to p lacks
\* (ngx_ext_rename_file with create_path, on ENOENT).
PathMade(t, p) ==
  IF Len(p) <= MaxPath /\ \A q \in Ancestors(p) : q \in DOMAIN t => IsDir(t, q)
  THEN [q \in DOMAIN t \cup Ancestors(p) |-> IF q \in DOMAIN t THEN t[q] ELSE DirNode]
  ELSE t

\* rename(2): what is at p, with all below it, is at q.
Renamed(t, p, q) ==
  LET under   == {x \in DOMAIN t : Leads(p, x)}
      Old(y)  == p \o SubSeq(y, Len(q) + 1, Len(y))
      arrived == {q \o SubSeq(x, Len(p) + 1, Len(x)) : x \in under}
  IN  [y \in (DOMAIN t \ under) \cup arrived |-> IF y \in arrived THEN t[Old(y)] ELSE t[y]]

\* rename(2) refuses a directory for a file, a file for a directory, and a
\* directory inside itself.
CanRename(t, p, q) ==
  /\ p \in DOMAIN t /\ Open(t, q)
  /\ t[p].kind = "dir" => q \notin DOMAIN t /\ p \notin Ancestors(q)

\* What a file system keeps: whatever is there lies in directories only.
Names     == STRING
Path      == Seq(Names)
Rooted(t) == \A p \in DOMAIN t : p \in Path /\ \A q \in Ancestors(p) : IsDir(t, q)

ASSUME TreeAssumption ==
  /\ Rooted(InitialTree) /\ Astray \in Names
  /\ \A r \in DavRequests : r.uri \in Path /\ r.dest \in Path

dav_http_errno(err, not_found) ==
  CASE err \in {"ENOENT", "ENOTDIR", "ENAMETOOLONG"} -> not_found
    [] err = "EACCES" -> 403
    [] err = "EEXIST" -> 405
    [] err = "ENOSPC" -> 507
    [] OTHER          -> 500

-----------------------------------------------------------------------------
(* What a handler checks before it takes the lock *)

dav_path_depth(r, dflt) ==
  CASE r.depth = "none"     -> dflt
    [] r.depth = "0"        -> 0
    [] r.depth = "1"        -> 1
    [] r.depth = "infinity" -> INFINITY
    [] OTHER                -> INVALID

\* The code of the first of the checks that fails, 0 when none does.
FirstFailing(checks) ==
  LET failing == {i \in 1 .. Len(checks) : checks[i][1]}
  IN  IF failing = {} THEN 0
      ELSE checks[CHOOSE i \in failing : \A j \in failing : i <= j][2]

DeleteHeaders(r) == << <<r.body, 415>>, <<Len(r.uri) < MinDeleteDepth, 409>> >>

\* How the destination was given: a path, a URL of this host, or something
\* that is refused.
BadDestination(r) == r.how \notin {"path", "url"}

MoveHeaders(r) ==
  << <<r.body, 415>>, <<BadDestination(r), 400>>, <<r.slash # r.destSlash, 409>>,
     <<dav_path_depth(r, INFINITY) # INFINITY, 400>>, <<r.over = "else", 400>> >>

\* COPY takes depth 0 as well, and then copies the whole tree all the same.
CopyHeaders(r) ==
  << <<r.body, 415>>, <<BadDestination(r), 400>>, <<r.slash # r.destSlash, 409>>,
     <<dav_path_depth(r, INFINITY) \notin {0, INFINITY}, 400>>, <<r.over = "else", 400>> >>

\* The checks of the headers.
HeaderChecks(r) ==
  CASE r.method = "PUT"    -> << <<r.slash, 409>> >>
    [] r.method = "DELETE" -> DeleteHeaders(r)
    [] r.method = "MKCOL"  -> << <<r.body, 415>> >>
    [] r.method = "MOVE"   -> MoveHeaders(r)
    [] r.method = "COPY"   -> CopyHeaders(r)

\* The name an operation is recorded under: root_len is the length of the
\* path less that of the URI as it was sent, so that an escape in it, or an
\* argument, leaves a part of the root in the name.
Named(r, p) == IF r.escaped THEN <<Astray>> \o p ELSE p

\* Where a MOVE or COPY puts its destination (dav_uri_to_path), by the same
\* subtraction.
dav_uri_to_path(r, p) == Named(r, p)
Dest(r) == dav_uri_to_path(r, r.dest)

DeleteChecks(r, t) ==
  LET i == Info(t, r.uri)
  IN  << <<i = "ENOTDIR", 409>>, <<i = "ENOENT", 404>>,
         <<i = "dir" /\ dav_path_depth(r, INFINITY) # INFINITY, 400>>,
         <<i # "dir" /\ dav_path_depth(r, 0) \notin {0, INFINITY}, 400>> >>

TransferChecks(r, t) ==
  LET d == Info(t, Dest(r))
  IN  << <<d = "ENOTDIR", dav_http_errno(d, 404)>>, <<d = "dir", 409>>,
         <<d \notin Missing /\ r.over = "F", 412>>,
         <<Info(t, r.uri) \in Missing, dav_http_errno(Info(t, r.uri), 404)>> >>

\* The answer a request gets without a lock, 0 when it goes on to take it.
Refusal(r, t) ==
  LET headers == FirstFailing(HeaderChecks(r))
  IN  IF headers # 0 THEN headers
      ELSE IF r.method = "DELETE" THEN FirstFailing(DeleteChecks(r, t))
      ELSE IF r.method \in {"MOVE", "COPY"} THEN FirstFailing(TransferChecks(r, t)) ELSE 0

-----------------------------------------------------------------------------
(* Requests arrive *)

Idle(w) == jobs[w].at = "idle"

Take(r) == r.method \in Methods /\ asked' = asked + 1

Finish(w, code) == jobs' = [jobs EXCEPT ![w] = IdleJob(code)]
Goto(w, at)     == jobs' = [jobs EXCEPT ![w].at = at]

\* dav_methods leaves the method out: the module declines.
Decline(w, r) ==
  /\ r.method \notin Methods
  /\ asked' = asked + 1
  /\ Finish(w, 405)
  /\ UNCHANGED <<davTree, versions, replica, spaceLock, stored, spoiled, blurred>>

Refuse(w, r) ==
  /\ Take(r)
  /\ Refusal(r, davTree) # 0
  /\ Finish(w, Refusal(r, davTree))
  /\ UNCHANGED <<davTree, versions, replica, spaceLock, stored, spoiled, blurred>>

\* MKCOL: no lock and no record.
MakeCollection(w, r) ==
  /\ Take(r)
  /\ r.method = "MKCOL" /\ Refusal(r, davTree) = 0
  /\ LET err == MkdirError(davTree, r.uri)
     IN  IF err = ""
         THEN davTree' = With(davTree, r.uri, DirNode) /\ \E code \in {201, 500} : Finish(w, code)
         ELSE davTree' = davTree /\ Finish(w, dav_http_errno(err, 409))
  /\ UNCHANGED <<versions, replica, spaceLock, stored, spoiled, blurred>>

\* The others remember what they saw: fi of the source, overwrite for the
\* destination.
Accept(w, r) ==
  /\ Take(r)
  /\ r.method # "MKCOL" /\ Refusal(r, davTree) = 0
  /\ jobs' = [jobs EXCEPT ![w] =
       [at |-> "lock", answer |-> 0, r |-> r, content |-> asked',
        fi |-> Info(davTree, r.uri),
        overwrite |-> r.method \in {"MOVE", "COPY"} /\ Info(davTree, Dest(r)) \notin Missing,
        status |-> 0, walk |-> << >>]]
  /\ UNCHANGED <<davTree, versions, replica, spaceLock, stored, spoiled, blurred>>

-----------------------------------------------------------------------------
(* The lock *)

Limited(j) == j.r.method \in {"PUT", "COPY"}

\* Mutant of FirstStep: a destination is overwritten where it stands.
FirstStepUnerased(j) == IF j.r.method = "PUT" THEN "look"
                        ELSE IF j.r.method = "DELETE" /\ j.fi = "dir" THEN "open"
                        ELSE IF j.r.method = "DELETE" THEN "erase" ELSE "make"

\* Where the work under the lock begins.
FirstStep(j) == IF j.r.method = "PUT" THEN "look"
                ELSE IF j.r.method = "DELETE" /\ j.fi = "dir" THEN "open"
                ELSE IF j.r.method = "DELETE" \/ j.overwrite THEN "erase" ELSE "make"

Lock(w) ==
  /\ jobs[w].at = "lock" /\ spaceLock = Nobody
  /\ spaceLock' = w
  /\ Goto(w, FirstStep(jobs[w]))
  /\ UNCHANGED <<davTree, versions, replica, asked, stored, spoiled, blurred>>

\* No lock: the cache server did not answer in time, or the pool is full
\* (the lock was taken and given back inside increm_locked_space).
LockFails(w) ==
  /\ jobs[w].at = "lock"
  /\ \E code \in {500} \cup IF Limited(jobs[w]) THEN {507} ELSE {} : Finish(w, code)
  /\ UNCHANGED <<davTree, versions, replica, spaceLock, asked, stored, spoiled, blurred>>

Working(w, at) == jobs[w].at = at /\ spaceLock = w

\* unlock_space_ine, update_anchor_ine or the release in update_anchor_openod,
\* and the answer.
Leave(w, code) == spaceLock' = Nobody /\ Finish(w, code)

-----------------------------------------------------------------------------
(* Deletion of one file *)

TooBig(p) == IsFile(davTree, p) /\ davTree[p].content \in BigContents

\* What cloud_delete may come to.  A wrong name, or a first backup that fails
\* at once, is answered as success and deletes nothing.  What the rename to the
\* version store finds at p it takes along, a directory made there since the
\* checks too.  A file is unlinked without a backup if it is too big, if its path
\* was saved within _dele_interv_, or if the log of the backups cannot be written.
cloud_delete(r, p) ==
  IF r.escaped \/ p \notin DOMAIN davTree THEN {[gone |-> FALSE, ok |-> TRUE, saved |-> FALSE]}
  ELSE {[gone |-> FALSE, ok |-> TRUE, saved |-> FALSE]}
       \cup (IF TooBig(p) THEN {} ELSE {[gone |-> FALSE, ok |-> FALSE, saved |-> FALSE],
                                        [gone |-> TRUE, ok |-> TRUE, saved |-> TRUE]})
       \cup (IF IsDir(davTree, p) THEN {} ELSE {[gone |-> TRUE, ok |-> TRUE, saved |-> FALSE]})

\* The contents a backup of p has, and those that go with p unsaved.
Backed(p) == {davTree[x].content : x \in Below(p) \cap FilesOf(davTree)}
Unsaved(p, result) ==
  IF result.gone /\ ~result.saved /\ IsFile(davTree, p) /\ ~TooBig(p) THEN {davTree[p].content} ELSE {}

\* A version of p was saved: within the interval p is not saved again.
Known(p) == \E v \in versions : v.path = p

\* The backups of other paths whose files a backup of p may replace: they have its
\* name, and are of the same second.
Namesakes(p) == {v \in versions : v.path # p /\ v.path # << >> /\ p # << >>
                                  /\ v.path[Len(v.path)] = p[Len(p)]}

\* The backups after a deletion of p.
VersionsAfter(p, twins) ==
  {[path |-> v.path, contents |-> IF v \in twins THEN Backed(p) ELSE v.contents,
    spared |-> v.spared] : v \in versions}
  \cup {[path |-> p, contents |-> Backed(p), spared |-> UNION {v.contents : v \in twins}]}
Spared(p, result) ==
  {[path |-> v.path, contents |-> v.contents,
    spared |-> v.spared \cup (IF v.path = p THEN Unsaved(p, result) ELSE {})] : v \in versions}

\* The files and the log after a deletion, recorded or not.
Deletion(r, p, result, recorded) ==
  /\ davTree' = IF result.gone THEN Without(davTree, Below(p)) ELSE davTree
  /\ IF result.saved THEN \E twins \in SUBSET Namesakes(p) : versions' = VersionsAfter(p, twins)
                     ELSE versions' = Spared(p, result)
  /\ replica' = IF recorded THEN replica \ {Named(r, p)} ELSE replica
  /\ blurred' = blurred \cup (IF result.gone = IsFile(davTree, p) THEN {} ELSE Below(p))
  /\ UNCHANGED <<stored, asked>>

\* What a deletion that did not happen leaves for the next step to overwrite, and
\* what is not saved although no version of its path was: a call failed, now or
\* before.
Left(p, result) == IF IsFile(davTree, p) /\ ~result.gone THEN {davTree[p].content} ELSE {}
Unlogged(p, result) == IF Known(p) THEN {} ELSE Unsaved(p, result)

\* dav_delete_path of a file: the target of DELETE, or the destination that
\* MOVE and COPY overwrite.
Erase(w) ==
  /\ Working(w, "erase")
  /\ LET r == jobs[w].r
         p == IF r.method = "DELETE" THEN r.uri ELSE Dest(r)
     IN  \E result \in cloud_delete(r, p) :
           /\ Deletion(r, p, result, result.ok)
           /\ spoiled' = spoiled \cup Left(p, result) \cup Unlogged(p, result)
           /\ IF ~result.ok THEN Leave(w, dav_http_errno("EIO", 404))
              ELSE IF r.method = "DELETE" THEN Leave(w, 204)
              ELSE Goto(w, "make") /\ UNCHANGED spaceLock

-----------------------------------------------------------------------------
(* PUT *)

\* A directory in the way refuses it; an old file is deleted, whatever comes
\* of that.
PutLook(w) ==
  /\ Working(w, "look")
  /\ LET r == jobs[w].r
     IN  \/ /\ Info(davTree, r.uri) \in Missing
            /\ jobs' = [jobs EXCEPT ![w].at = "rename", ![w].status = 201]
            /\ UNCHANGED <<davTree, versions, replica, spaceLock, asked, stored, spoiled, blurred>>
         \/ /\ IsDir(davTree, r.uri)
            /\ Leave(w, 409)
            /\ UNCHANGED <<davTree, versions, replica, asked, stored, spoiled, blurred>>
         \/ /\ Info(davTree, r.uri) \in {"file", "spec"}
            /\ \E result \in cloud_delete(r, r.uri) :
                 /\ Deletion(r, r.uri, result, result.ok)
                 /\ spoiled' = spoiled \cup Left(r.uri, result) \cup Unlogged(r.uri, result)
            /\ jobs' = [jobs EXCEPT ![w].at = "rename", ![w].status = 204]
            /\ UNCHANGED spaceLock

\* The uploaded file is renamed to its place; a new one needs the memory for
\* its Location header, and stays unrecorded without.
PutRename(w) ==
  /\ Working(w, "rename")
  /\ LET j == jobs[w]
         t == IF CreateFullPutPath THEN PathMade(davTree, j.r.uri) ELSE davTree
     IN  \/ /\ Open(t, j.r.uri)
            /\ davTree' = With(t, j.r.uri, FileNode(j.content))
            /\ stored' = stored \cup {j.content}
            /\ \/ Goto(w, "record") /\ UNCHANGED <<spaceLock, blurred>>
               \/ j.status = 201 /\ Leave(w, 500) /\ blurred' = blurred \cup {j.r.uri}
         \/ /\ ~Open(t, j.r.uri)
            /\ davTree' = t
            /\ Leave(w, 500)
            /\ UNCHANGED <<stored, blurred>>
  /\ UNCHANGED <<versions, replica, asked, spoiled>>

\* The client has its answer; the record comes after.
PutRecord(w) ==
  /\ Working(w, "record")
  /\ LET r == jobs[w].r
     IN  /\ replica' = replica \cup {Named(r, r.uri)}
         /\ blurred' = blurred \cup (IF r.escaped THEN {r.uri} ELSE {})
  /\ Leave(w, jobs[w].status)
  /\ UNCHANGED <<davTree, versions, asked, stored, spoiled>>

-----------------------------------------------------------------------------
(* MOVE and COPY of one file *)

\* The contents that go when a file comes to q; a handler that saw no file
\* there made no backup.
Overrun(q) == IF IsFile(davTree, q) THEN {davTree[q].content} ELSE {}

\* What ngx_copy_file may leave at q.
CopyResults(p, q) ==
  {[ok |-> FALSE, tree |-> davTree]} \cup
  IF IsFile(davTree, p) /\ Open(davTree, q)
  THEN {[ok |-> TRUE,  tree |-> With(davTree, q, davTree[p])],
        [ok |-> FALSE, tree |-> With(davTree, q, FileNode(Torn))]}
  ELSE {}

MoveOne(w) ==
  /\ Working(w, "make")
  /\ jobs[w].r.method = "MOVE" /\ jobs[w].fi # "dir"
  /\ LET r == jobs[w].r
         p == r.uri
         q == Dest(r)
         t == PathMade(davTree, q)
     IN  \/ /\ CanRename(t, p, q)
            /\ davTree' = Renamed(t, p, q)
            /\ replica' = (replica \ {Named(r, p)}) \cup {r.dest}
            /\ spoiled' = spoiled \cup
                 IF jobs[w].overwrite THEN {} ELSE Overrun(q)
            /\ blurred' = blurred \cup IF r.escaped \/ ~IsFile(davTree, p)
                                       THEN Below(p) \cup DOMAIN davTree' \cup {r.dest} ELSE {}
            /\ Leave(w, 204)
         \/ /\ ~CanRename(t, p, q)
            /\ davTree' = t
            /\ Leave(w, 500)
            /\ UNCHANGED <<replica, spoiled, blurred>>
  /\ UNCHANGED <<versions, asked, stored>>

CopyOne(w) ==
  /\ Working(w, "make")
  /\ jobs[w].r.method = "COPY" /\ jobs[w].fi # "dir"
  /\ LET r == jobs[w].r
         q == Dest(r)
     IN  \E result \in CopyResults(r.uri, q) :
           /\ davTree' = result.tree
           /\ spoiled' = spoiled \cup
                IF result.tree # davTree /\ ~jobs[w].overwrite THEN Overrun(q) ELSE {}
           /\ IF result.ok
              THEN /\ replica' = replica \cup {r.dest}
                   /\ blurred' = blurred \cup IF r.escaped THEN {r.dest} ELSE {}
                   /\ Leave(w, 204)
              ELSE replica' = replica /\ Leave(w, 500) /\ blurred' = blurred \cup {q}
  /\ UNCHANGED <<versions, asked, stored>>

-----------------------------------------------------------------------------
(* Directories: a walk (dav_walk_tree) over a stack of open directories *)

Opened(t, d) == [dir |-> d, left |-> Entries(t, d)]
Top(j)       == j.walk[Len(j.walk)]
Target(j, p) == Dest(j.r) \o SubSeq(p, Len(j.r.uri) + 1, Len(p))

\* ngx_create_dir of the destination.
MakeDest(w) ==
  /\ Working(w, "make")
  /\ jobs[w].fi = "dir"
  /\ LET q   == Dest(jobs[w].r)
         err == MkdirError(davTree, q)
     IN  IF err = ""
         THEN davTree' = With(davTree, q, DirNode) /\ Goto(w, "open") /\ UNCHANGED spaceLock
         ELSE davTree' = davTree /\ Leave(w, dav_http_errno(err, 404))
  /\ UNCHANGED <<versions, replica, asked, stored, spoiled, blurred>>

OpenRoot(w) ==
  /\ Working(w, "open")
  /\ LET d == jobs[w].r.uri
     IN  \/ /\ IsDir(davTree, d)
            /\ jobs' = [jobs EXCEPT ![w].at = "walk", ![w].walk = <<Opened(davTree, d)>>]
            /\ UNCHANGED spaceLock
         \/ Leave(w, 500)
  /\ UNCHANGED <<davTree, versions, replica, asked, stored, spoiled, blurred>>

\* The top directory without the entry that is being handled, and with what
\* is opened above it.
Onward(w, name, above) ==
  jobs' = [jobs EXCEPT ![w].walk =
             Append(SubSeq(@, 1, Len(@) - 1), [Top(jobs[w]) EXCEPT !.left = @ \ {name}]) \o above]

Entry(w, name) == name \in Top(jobs[w]).left
At(w, name)    == Append(Top(jobs[w]).dir, name)
Walking(w)     == Working(w, "walk") /\ jobs[w].walk # << >>

\* dav_delete_file: the record is written whatever cloud_delete answered.
WalkDelete(w, name) ==
  /\ Walking(w) /\ Entry(w, name)
  /\ jobs[w].r.method = "DELETE" /\ IsFile(davTree, At(w, name))
  /\ \E result \in cloud_delete(jobs[w].r, At(w, name)) :
       /\ Deletion(jobs[w].r, At(w, name), result, TRUE)
       /\ spoiled' = spoiled \cup Unlogged(At(w, name), result)
  /\ Onward(w, name, << >>)
  /\ UNCHANGED spaceLock

\* dav_move_file: a rename, or else a copy and the deletion of the source; the
\* results of both are not looked at.
WalkMove(w, name) ==
  /\ Walking(w) /\ Entry(w, name)
  /\ jobs[w].r.method = "MOVE" /\ IsFile(davTree, At(w, name))
  /\ LET p == At(w, name)
         q == Target(jobs[w], p)
         wrong == IF jobs[w].r.escaped THEN {p} ELSE {}
     IN  /\ \/ /\ CanRename(davTree, p, q)
               /\ davTree' = Renamed(davTree, p, q)
               /\ blurred' = blurred \cup wrong
               /\ UNCHANGED spoiled
            \/ \E result \in CopyResults(p, q), removed \in BOOLEAN :
                 /\ davTree' = IF removed THEN Without(result.tree, {p}) ELSE result.tree
                 /\ spoiled' = IF result.ok \/ ~removed THEN spoiled
                               ELSE spoiled \cup {davTree[p].content}
                 /\ blurred' = blurred \cup wrong \cup (IF result.ok THEN {} ELSE {q})
                                       \cup (IF removed THEN {} ELSE {p})
         /\ replica' = (replica \ {Named(jobs[w].r, p)}) \cup {Named(jobs[w].r, q)}
  /\ Onward(w, name, << >>)
  /\ UNCHANGED <<versions, spaceLock, asked, stored>>

\* dav_copy_file: recorded whether the copy succeeded or not.
WalkCopy(w, name) ==
  /\ Walking(w) /\ Entry(w, name)
  /\ jobs[w].r.method = "COPY" /\ IsFile(davTree, At(w, name))
  /\ LET p == At(w, name)
         q == Target(jobs[w], p)
     IN  \E result \in CopyResults(p, q) :
           /\ davTree' = result.tree
           /\ replica' = replica \cup {Named(jobs[w].r, q)}
           /\ blurred' = IF result.ok THEN blurred ELSE blurred \cup {q}
  /\ Onward(w, name, << >>)
  /\ UNCHANGED <<versions, spaceLock, asked, stored, spoiled>>

\* dav_move_dir_pre and dav_copy_dir make the counterpart of a directory; a
\* failure to is ignored.
CounterpartMade(q) == IF MkdirError(davTree, q) = "" THEN With(davTree, q, DirNode) ELSE davTree

\* A directory is opened, and skipped if that fails.
WalkInto(w, name) ==
  /\ Walking(w) /\ Entry(w, name)
  /\ IsDir(davTree, At(w, name))
  /\ LET p == At(w, name)
     IN  /\ davTree' = IF jobs[w].r.method = "DELETE" THEN davTree
                       ELSE CounterpartMade(Target(jobs[w], p))
         /\ \/ Onward(w, name, <<Opened(davTree', p)>>)
            \/ Onward(w, name, <<[dir |-> p, left |-> {}]>>)
  /\ UNCHANGED <<versions, replica, spaceLock, asked, stored, spoiled, blurred>>

\* A special file: dav_delete_spec unlinks it, COPY leaves it alone.
WalkSpec(w, name) ==
  /\ Walking(w) /\ Entry(w, name)
  /\ Info(davTree, At(w, name)) = "spec"
  /\ davTree' = IF jobs[w].r.method = "COPY" THEN davTree ELSE Without(davTree, {At(w, name)})
  /\ Onward(w, name, << >>)
  /\ UNCHANGED <<versions, replica, spaceLock, asked, stored, spoiled, blurred>>

\* rmdir(2): only an empty directory goes.
Rmdir(t, d) == IF IsDir(t, d) /\ Entries(t, d) = {} THEN Without(t, {d}) ELSE t

\* Back out of a directory: dav_delete_dir and dav_move_dir_post remove it if
\* it is empty.
WalkOut(w) ==
  /\ Walking(w) /\ Len(jobs[w].walk) > 1
  /\ Top(jobs[w]).left = {}
  /\ davTree' = IF jobs[w].r.method = "COPY" THEN davTree ELSE Rmdir(davTree, Top(jobs[w]).dir)
  /\ jobs' = [jobs EXCEPT ![w].walk = SubSeq(@, 1, Len(@) - 1)]
  /\ UNCHANGED <<versions, replica, spaceLock, asked, stored, spoiled, blurred>>

\* The end of the walk: DELETE fails when the directory is not empty.
WalkEnds(w) ==
  /\ Walking(w) /\ Len(jobs[w].walk) = 1
  /\ Top(jobs[w]).left = {}
  /\ LET d == jobs[w].r.uri
     IN  /\ davTree' = IF jobs[w].r.method = "COPY" THEN davTree ELSE Rmdir(davTree, d)
         /\ IF jobs[w].r.method = "DELETE"
            THEN Leave(w, IF d \in DOMAIN davTree' THEN 500 ELSE 204)
            ELSE Leave(w, 201)
  /\ UNCHANGED <<versions, replica, asked, stored, spoiled, blurred>>

\* NGX_ABORT: no memory for a name.
WalkAborts(w) ==
  /\ Walking(w) /\ Top(jobs[w]).left # {}
  /\ Leave(w, 500)
  /\ UNCHANGED <<davTree, versions, replica, asked, stored, spoiled, blurred>>

-----------------------------------------------------------------------------
DavInit ==
  /\ davTree = InitialTree
  /\ versions = {} /\ spoiled = {} /\ blurred = {}
  /\ stored = ContentsOf(InitialTree)
  /\ replica = FilesOf(InitialTree)
  /\ spaceLock = Nobody
  /\ jobs = [w \in Worker |-> IdleJob(0)]
  /\ asked = 0

\* The loop also passes over an entry that is gone, which does not happen: whoever
\* removes one holds the lock.
WalkStep(w) ==
  \/ \E name \in (IF Walking(w) THEN Top(jobs[w]).left ELSE {}) :
       \/ WalkDelete(w, name) \/ WalkMove(w, name)
       \/ WalkCopy(w, name) \/ WalkInto(w, name) \/ WalkSpec(w, name)
  \/ WalkOut(w) \/ WalkEnds(w) \/ WalkAborts(w)

DavStep(w) ==
  \/ /\ Idle(w) /\ asked < MaxAsked
     /\ \E r \in DavRequests :
           Decline(w, r) \/ Refuse(w, r) \/ MakeCollection(w, r) \/ Accept(w, r)
  \/ Lock(w) \/ LockFails(w) \/ Erase(w)
  \/ PutLook(w) \/ PutRename(w) \/ PutRecord(w)
  \/ MoveOne(w) \/ CopyOne(w) \/ MakeDest(w) \/ OpenRoot(w) \/ WalkStep(w)

DavNext == \E w \in Worker : DavStep(w)

DavSpec == DavInit /\ [][DavNext]_davVars

-----------------------------------------------------------------------------
(* Properties *)

\* Every way out of a handler that took the lock of the space gives it back,
\* and nobody works on files without it.
LockGivenBack == \A w \in Worker : jobs[w].at \notin {"idle", "lock"} <=> spaceLock = w

\* A client that replays the log has the files the space has, whenever nobody
\* holds the lock, but for the paths some failed call blurred.
ReplayMatches ==
  spaceLock = Nobody =>
    \A p \in FilesOf(davTree) \cup replica :
      p \in blurred \/ p[1] = Astray \/ (p \in FilesOf(davTree) <=> p \in replica)

\* What the version store has, and what was given up for that: a content deleted
\* when a version of its path was saved within the interval before, or saved when
\* another file of its name was within the same second.
Backups == UNION {v.contents \cup v.spared : v \in versions}

\* What a client stored is there, or the version store has it or has a version for
\* which it was given up, but for what was too big to back up and what a failed
\* call, or a change made after the checks, spoiled.
ContentsKept == stored \subseteq ContentsOf(davTree) \cup Backups \cup spoiled \cup BigContents

\* The handlers' bookkeeping holds together.
DavSound == LockGivenBack /\ ReplayMatches /\ ContentsKept
=============================================================================
