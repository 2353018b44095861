----------------------------- MODULE CloudSpace -----------------------------
(***************************************************************************)
(* The user spaces of the DAV cloud: nginx workers that serve PUT, DELETE, *)
(* MOVE and COPY (ngx_http_dav_module.c) through the dav_cloud library.    *)
(* A request locks the space of its user at the cache server, appends one  *)
(* record per file to the action log, keeps the capacity file, adds an     *)
(* anchor to the anchor index and publishes an anchor, which also releases *)
(* the lock.                                                               *)
(*                                                                         *)
(* Workers are processes and each keeps the statics of dav_cloud.c from    *)
(* one request to the next.  The log, the index and the capacity file of a *)
(* user lie in one location that all the workers write, so every read and  *)
(* every write of a shared file is a step of its own.                      *)
(***************************************************************************)
EXTENDS Integers, Sequences, FiniteSets

CONSTANTS
    Workers,     \* the nginx worker processes
    Users,       \* the accounts; a user also names the location of its space
    NoUser,      \* an unset _acce_user_ or location
    Sizes,       \* the file sizes a request may carry
    PoolSize,    \* pool_size << 30 of check_capacity, the same for every user
    Word,        \* 2^64, the modulus of the uint64 sizes
    LockAtQuery, \* TRUE if the cache server locks at OPTIONS/query, FALSE if at status
    Faults,      \* the faults that may happen, out of FaultKinds
    MaxRequests, \* bound: requests in a behaviour
    MaxItems     \* bound: files of one directory tree

(***************************************************************************)
(* io          opening, reading or writing a log, index or capacity file   *)
(* query       the query for the lock gets no usable reply                 *)
(* statusLost  the lock is granted, its reply is lost                      *)
(* sendLost    set anchor or set locked never reaches the cache server     *)
(* backup      cloud_delete leaves the file where it is                    *)
(* copy        a walk over a tree ignores that ngx_copy_file or the delete *)
(*             of a moved file failed                                      *)
(* nolog       a space starts without a log file: stat64 fails and         *)
(*             addi_anchor uses the size it left unset                     *)
(* alloc       ngx_http_dav_location fails after the rename of a PUT       *)
(* crash       a worker dies and nginx starts a fresh one                  *)
(* expire      the cache server drops the lock of a request still running  *)
(***************************************************************************)
FaultKinds == {"io", "query", "statusLost", "sendLost", "backup", "copy", "nolog",
               "alloc", "crash", "expire"}

ASSUME SpaceAssumption ==
    /\ NoUser \notin Users
    /\ Word \in Nat \ {0}
    /\ PoolSize \in Nat
    /\ Sizes \subseteq 1 .. Word - 1
    /\ LockAtQuery \in BOOLEAN
    /\ Faults \subseteq FaultKinds
    /\ MaxRequests \in Nat
    /\ MaxItems \in Nat \ {0}

Ops   == {"PUT", "DELETE", "MOVE", "COPY"}
Types == {"ADDI", "DELE", "EXIST", "MOVE", "COPY"}
Stages == {"none", "start", "cleared", "walk", "left"}

VARIABLES
    pc,      \* where each worker stands
    job,     \* the request a worker serves: number, method, stage, files walked
    cur,     \* the openod being recorded
    tmp,     \* what addi_anchor and reset_capacity have read and not yet written
    acc,     \* _accval_, and _acce_user_, which is assigned together with its uid
    cache,   \* the cache server: lock holder and cached anchor of each user
    started, \* requests begun; the validation string of a request is its number
    acd,     \* the action log of each space
    idx,     \* its anchor index: number and log offset of each anchor
    capa,    \* its capacity file
    bytes,   \* the bytes of the files in its tree
    stale,   \* the requests since whose look at the tree another one changed it
    raced    \* history: the spaces in which such a look went wrong

local == <<job, cur, tmp>>
store == <<acd, idx, capa, bytes, stale, raced>>
vars  == <<pc, job, cur, tmp, acc, cache, started, acd, idx, capa, bytes, stale, raced>>

NoJob  == [id |-> 0, op |-> "none", stage |-> "none", items |-> 0]
NoItem == [type |-> "none", then |-> "none", size |-> 0, final |-> FALSE]
NoTmp  == [num |-> 0, oset |-> 0, used |-> 0, bakup |-> 0]
NoAcc  == [uid |-> NoUser, valid |-> 0, anchor |-> 0, location |-> NoUser]

Labels == {"idle", "query", "status", "check", "full", "body", "flush", "addiRead",
           "addiAppend", "capaRead", "capaWrite", "publish", "unlock", "republish",
           "release"}

(* The labels at which a worker believes that it holds the lock and writes. *)
Writing == {"check", "full", "body", "flush", "addiRead", "addiAppend", "capaRead",
            "capaWrite", "publish"}

Init ==
    /\ pc = [w \in Workers |-> "idle"]
    /\ job = [w \in Workers |-> NoJob]
    /\ cur = [w \in Workers |-> NoItem]
    /\ tmp = [w \in Workers |-> NoTmp]
    /\ acc = [w \in Workers |-> NoAcc]
    /\ cache = [u \in Users |-> [holder |-> 0, anchor |-> 0]]
    /\ started = 0
    /\ acd = [u \in Users |-> <<>>]
    /\ idx = [u \in Users |-> <<>>]
    /\ capa = [u \in Users |-> [used |-> 0, bakup |-> 0]]
    /\ bytes = [u \in Users |-> 0]
    /\ stale = {} /\ raced = {}

-----------------------------------------------------------------------------
(* Control. *)

Goto(w, label) == pc' = [pc EXCEPT ![w] = label]

(* The handler returns; its statics stay. *)
Leave(w) ==
    /\ Goto(w, "idle")
    /\ job' = [job EXCEPT ![w] = NoJob]
    /\ cur' = [cur EXCEPT ![w] = NoItem]
    /\ tmp' = [tmp EXCEPT ![w] = NoTmp]

(* Mutant of LockFailed: every handler unlocks. *)
LockFailedUnlocks(w) == Goto(w, "unlock") /\ UNCHANGED local

(* What a handler does when the lock was not given: only COPY calls        *)
(* unlock_space_ine.                                                       *)
LockFailed(w) ==
    IF job[w].op = "COPY" THEN Goto(w, "unlock") /\ UNCHANGED local ELSE Leave(w)

(***************************************************************************)
(* A request arrives; DELETE, MOVE and COPY look at the tree now, before   *)
(* they wait for the lock.  query_access_bzl and conne_cache_bzl run when the *)
(* user differs from _acce_user_; they replace the uid and leave the       *)
(* validation, the anchor and the location of the user before.  A failed   *)
(* query_access_bzl changes nothing and is no step.                        *)
(***************************************************************************)
Start(w, u, op) ==
    /\ pc[w] = "idle"
    /\ started < MaxRequests
    /\ started' = started + 1
    /\ job' = [job EXCEPT ![w] = [id |-> started + 1, op |-> op, stage |-> "start", items |-> 0]]
    /\ acc' = [acc EXCEPT ![w].uid = u]
    /\ Goto(w, "query")
    /\ UNCHANGED <<cur, tmp, cache, store>>

(* Mutant of Query: the cached anchor is fetched once per worker. *)
QueryKeepsAnchor(w) ==
    LET u == acc[w].uid IN
    /\ pc[w] = "query"
    /\ LockAtQuery => cache[u].holder = 0
    /\ acc' = [acc EXCEPT ![w].valid = job[w].id,
                          ![w].anchor = IF @ = 0 THEN cache[u].anchor ELSE @]
    /\ cache' = IF LockAtQuery THEN [cache EXCEPT ![u].holder = job[w].id] ELSE cache
    /\ Goto(w, "status")
    /\ UNCHANGED <<local, started, store>>

(* get_cache_query: a fresh validation and the cached anchor. *)
Query(w) ==
    LET u == acc[w].uid IN
    /\ pc[w] = "query"
    /\ LockAtQuery => cache[u].holder = 0
    /\ acc' = [acc EXCEPT ![w].valid = job[w].id, ![w].anchor = cache[u].anchor]
    /\ cache' = IF LockAtQuery THEN [cache EXCEPT ![u].holder = job[w].id] ELSE cache
    /\ Goto(w, "status")
    /\ UNCHANGED <<local, started, store>>

QueryRefused(w) ==
    /\ pc[w] = "query"
    /\ LockAtQuery /\ cache[acc[w].uid].holder # 0
    /\ LockFailed(w)
    /\ UNCHANGED <<acc, cache, started, store>>

(* No reply, or one cut after its first label: query_from_xmlfile has then *)
(* copied the validation and not the anchor.                               *)
QueryFails(w) ==
    /\ "query" \in Faults
    /\ pc[w] = "query"
    /\ acc' \in {acc, [acc EXCEPT ![w].valid = job[w].id]}
    /\ LockFailed(w)
    /\ UNCHANGED <<cache, started, store>>

(* The cache server gives the lock to this validation, or finds it there. *)
GrantTo(u, valid) ==
    /\ cache[u].holder \in {0, valid}
    /\ cache' = [cache EXCEPT ![u].holder = valid]

(* Mutant of Status: the location is fetched once per worker. *)
StatusKeepsLocation(w) ==
    /\ pc[w] = "status"
    /\ GrantTo(acc[w].uid, acc[w].valid)
    /\ acc' = [acc EXCEPT ![w].location = IF @ = NoUser THEN acc[w].uid ELSE @]
    /\ Goto(w, IF job[w].op \in {"PUT", "COPY"} THEN "check" ELSE "body")
    /\ UNCHANGED <<local, started, store>>

(* get_cache_status: the reply carries the location of the space. *)
Status(w) ==
    /\ pc[w] = "status"
    /\ GrantTo(acc[w].uid, acc[w].valid)
    /\ acc' = [acc EXCEPT ![w].location = acc[w].uid]
    /\ Goto(w, IF job[w].op \in {"PUT", "COPY"} THEN "check" ELSE "body")
    /\ UNCHANGED <<local, started, store>>

StatusRefused(w) ==
    /\ pc[w] = "status"
    /\ cache[acc[w].uid].holder \notin {0, acc[w].valid}
    /\ LockFailed(w)
    /\ UNCHANGED <<acc, cache, started, store>>

StatusLost(w) ==
    /\ "statusLost" \in Faults
    /\ pc[w] = "status"
    /\ GrantTo(acc[w].uid, acc[w].valid)
    /\ LockFailed(w)
    /\ UNCHANGED <<acc, started, store>>

-----------------------------------------------------------------------------
(* Capacity and the walk over the tree. *)

Space(w) == acc[w].location

(* Mutant of IsFull: a pool filled to the byte is not full. *)
IsOver(u) == capa[u].used + capa[u].bakup > PoolSize

IsFull(u) == capa[u].used + capa[u].bakup >= PoolSize

(* check_capacity: an I/O error returns what a full pool returns. *)
Check(w) ==
    /\ pc[w] = "check"
    /\ \/ Goto(w, IF IsFull(Space(w)) THEN "full" ELSE "body")
       \/ "io" \in Faults /\ Goto(w, "full")
    /\ UNCHANGED <<local, acc, cache, started, store>>

(* The tree of w's space changes: the others have looked at what was. *)
Touch(w) ==
    stale' = stale \cup {job[v].id : v \in {v \in Workers \ {w} :
        /\ pc[v] \in {"query", "status", "check", "body"}
        /\ acc[v].uid = Space(w) /\ job[v].op # "PUT"}}

(* The record a handler is about to write, at a worker inside its body. *)
Record(w, item, stage) ==
    /\ cur' = [cur EXCEPT ![w] = item]
    /\ job' = [job EXCEPT ![w].stage = stage, ![w].items = @ + 1]
    /\ Goto(w, "flush")
    /\ Touch(w)
    /\ UNCHANGED <<tmp, acc, cache, started, acd, idx, capa>>

Deleted(s) == [type |-> "DELE", then |-> "none", size |-> s, final |-> FALSE]
Added(s)   == [type |-> "ADDI", then |-> "none", size |-> s, final |-> TRUE]
Paired(type, s, final) == [type |-> "EXIST", then |-> type, size |-> s, final |-> final]

(* A file comes to the tree, or one goes that is in it. *)
AddBytes(w, s) == bytes' = [bytes EXCEPT ![Space(w)] = @ + s] /\ UNCHANGED raced
DropBytes(w, s) ==
    /\ s <= bytes[Space(w)]
    /\ bytes' = [bytes EXCEPT ![Space(w)] = @ - s]
    /\ UNCHANGED raced
SameBytes == UNCHANGED <<bytes, raced>>

(* What a request saw before it had the lock was changed while it waited:   *)
(* the file that it deletes is gone, or a directory, or one is in the place *)
(* that it fills; a file of size s comes, and anything may have gone.       *)
Misjudge(w, s) ==
    /\ job[w].id \in stale /\ job[w].stage = "start"
    /\ \E gone \in 0 .. bytes[Space(w)] :
          bytes' = [bytes EXCEPT ![Space(w)] = @ - gone + s]
    /\ raced' = raced \cup {Space(w)}

(* A file that is gone is deleted with success all the same (cloud_delete), *)
(* and recorded with a size that FILE_SIZE left unset.                      *)
MisjudgeFile(w, stage) ==
    /\ Misjudge(w, 0)
    /\ \E size \in 0 .. Word - 1 : Record(w, Deleted(size), stage)

(* dav_delete_path on the destination that PUT, MOVE or COPY overwrites; a  *)
(* file that cloud_delete left there is gone with the rename that follows.  *)
(* Only PUT has looked at it under the lock.                                *)
Overwrite(w, s) ==
    /\ pc[w] = "body" /\ job[w].op # "DELETE" /\ job[w].stage = "start"
    /\ \/ DropBytes(w, s) /\ Record(w, Deleted(s), "cleared")
       \/ job[w].op # "PUT" /\ MisjudgeFile(w, "cleared")

(* PUT ignores the error of dav_delete_path, which records nothing then. *)
OverwriteUnrecorded(w, s) ==
    /\ "backup" \in Faults
    /\ pc[w] = "body" /\ job[w].op = "PUT" /\ job[w].stage = "start"
    /\ DropBytes(w, s)
    /\ job' = [job EXCEPT ![w].stage = "cleared"]
    /\ Touch(w)
    /\ UNCHANGED <<pc, cur, tmp, acc, cache, started, acd, idx, capa>>

(* One file of a DELETE: the only one, which was looked at before the lock, *)
(* or the next of the tree.  It is recorded as deleted even when it was     *)
(* left there.                                                              *)
DeleteFile(w, s) ==
    /\ pc[w] = "body" /\ job[w].op = "DELETE" /\ job[w].items < MaxItems
    /\ \/ /\ DropBytes(w, s)
          /\ Record(w, Deleted(s), IF job[w].stage = "left" THEN "left" ELSE "walk")
       \/ MisjudgeFile(w, "walk")
       \/ /\ "backup" \in Faults /\ s <= bytes[Space(w)] /\ SameBytes
          /\ Record(w, Deleted(s), "left")

(* One file of a MOVE or COPY of a directory. *)
MoveFile(w) ==
    /\ pc[w] = "body" /\ job[w].op = "MOVE" /\ job[w].items < MaxItems
    /\ \/ SameBytes
       \/ "copy" \in Faults /\ \E s \in Sizes : (AddBytes(w, s) \/ DropBytes(w, s))
    /\ Record(w, Paired("MOVE", 0, FALSE), "walk")

CopyFile(w, s) ==
    /\ pc[w] = "body" /\ job[w].op = "COPY" /\ job[w].items < MaxItems
    /\ \/ AddBytes(w, s)
       \/ "copy" \in Faults /\ SameBytes
    /\ Record(w, Paired("COPY", s, FALSE), "walk")

(* The end of a request for a single file: addi_update_ine,                *)
(* move_update_ine, copy_update_ine.  A MOVE or COPY that saw no file at   *)
(* the destination overwrites, unrecorded, one that came.                  *)
SinglePut(w, s) ==
    /\ pc[w] = "body" /\ job[w].op = "PUT"
    /\ AddBytes(w, s)
    /\ Record(w, Added(s), job[w].stage)

SingleMove(w) ==
    /\ pc[w] = "body" /\ job[w].op = "MOVE" /\ job[w].stage # "walk"
    /\ SameBytes \/ Misjudge(w, 0)
    /\ Record(w, Paired("MOVE", 0, TRUE), job[w].stage)

SingleCopy(w, s) ==
    /\ pc[w] = "body" /\ job[w].op = "COPY" /\ job[w].stage # "walk"
    /\ AddBytes(w, s) \/ Misjudge(w, s)
    /\ Record(w, Paired("COPY", s, TRUE), job[w].stage)

(* Mutant of EndWalk: the walk publishes and adds no anchor. *)
EndWalkUnanchored(w) ==
    /\ pc[w] = "body" /\ job[w].op # "PUT"
    /\ Goto(w, "publish")
    /\ UNCHANGED <<local, acc, cache, started, store>>

(* The end of a walk, or of a DELETE: update_user_anchor.  A directory with *)
(* a file left in it cannot be removed.                                     *)
EndWalk(w) ==
    /\ pc[w] = "body" /\ job[w].op # "PUT"
    /\ job[w].stage = "left" => job[w].items = 1
    /\ Goto(w, "addiRead")
    /\ UNCHANGED <<local, acc, cache, started, store>>

(* Every error after the lock: a destination that is a collection, a       *)
(* rename, a copy or a walk that fails.                                    *)
BodyFails(w) ==
    /\ pc[w] = "body"
    /\ Goto(w, "unlock")
    /\ UNCHANGED <<local, acc, cache, started, store>>

(* ngx_http_dav_location fails: the file is in place and never recorded. *)
PutUnrecorded(w, s) ==
    /\ "alloc" \in Faults
    /\ pc[w] = "body" /\ job[w].op = "PUT"
    /\ AddBytes(w, s) /\ Touch(w)
    /\ Goto(w, "unlock")
    /\ UNCHANGED <<local, acc, cache, started, acd, idx, capa>>

-----------------------------------------------------------------------------
(* insert_openod, update_anchor_openod and update_user_anchor. *)

(* The record whose openod goes to update_anchor_openod, not insert_openod. *)
Final(w) == cur[w].final /\ cur[w].type # "EXIST"

(* flush_action; its result is ignored. *)
Flush(w) ==
    /\ pc[w] = "flush"
    /\ \/ acd' = [acd EXCEPT ![Space(w)] = Append(@, cur[w].type)]
       \/ "io" \in Faults /\ UNCHANGED acd
    /\ Goto(w, IF Final(w) THEN "addiRead" ELSE "capaRead")
    /\ UNCHANGED <<local, acc, cache, started, idx, capa, bytes, stale, raced>>

(* Mutant of LastNumber: the first entry of the index instead of the last. *)
FirstNumber(u) == IF idx[u] = <<>> THEN 0 ELSE idx[u][1].num

LastNumber(u) == IF idx[u] = <<>> THEN 0 ELSE idx[u][Len(idx[u])].num

(* addi_anchor returned n: update_user_anchor keeps it in last_anchor,     *)
(* flush_anchor_bzl drops it.                                              *)
AfterAddi(w, n) ==
    IF Final(w)
    THEN Goto(w, "capaRead") /\ UNCHANGED acc
    ELSE Goto(w, "publish") /\ acc' = [acc EXCEPT ![w].anchor = n]

(* Mutant of AddiRead: an offset one record too far. *)
AddiReadBeyond(w) ==
    /\ pc[w] = "addiRead"
    /\ tmp' = [tmp EXCEPT ![w].num = LastNumber(Space(w)) + 1, ![w].oset = Len(acd[Space(w)]) + 1]
    /\ Goto(w, "addiAppend")
    /\ UNCHANGED <<job, cur, acc, cache, started, store>>

(* The size of the log: any uint64 when there is no log to ask for it. *)
LogSizes(u) ==
    IF "nolog" \in Faults /\ acd[u] = <<>> THEN 0 .. Word - 1 ELSE {Len(acd[u])}

(* addi_anchor up to its fwrite: the last entry and the size of the log. *)
AddiRead(w) ==
    /\ pc[w] = "addiRead"
    /\ \E size \in LogSizes(Space(w)) :
          tmp' = [tmp EXCEPT ![w].num = LastNumber(Space(w)) + 1, ![w].oset = size]
    /\ Goto(w, "addiAppend")
    /\ UNCHANGED <<job, cur, acc, cache, started, store>>

AddiAppend(w) ==
    /\ pc[w] = "addiAppend"
    /\ idx' = [idx EXCEPT ![Space(w)] = Append(@, [num |-> tmp[w].num, oset |-> tmp[w].oset])]
    /\ AfterAddi(w, tmp[w].num)
    /\ UNCHANGED <<local, cache, started, acd, capa, bytes, stale, raced>>

AddiFails(w) ==
    /\ "io" \in Faults
    /\ pc[w] \in {"addiRead", "addiAppend"}
    /\ AfterAddi(w, 0)
    /\ UNCHANGED <<local, cache, started, store>>

(* After reset_capacity: the second record of a pair, the publication, or  *)
(* the next file.                                                          *)
AfterCapa(w) ==
    IF cur[w].type = "EXIST"
    THEN Goto(w, "flush") /\ cur' = [cur EXCEPT ![w].type = cur[w].then]
    ELSE Goto(w, IF Final(w) THEN "publish" ELSE "body") /\ UNCHANGED cur

CapaRead(w) ==
    /\ pc[w] = "capaRead"
    /\ tmp' = [tmp EXCEPT ![w].used = capa[Space(w)].used, ![w].bakup = capa[Space(w)].bakup]
    /\ Goto(w, "capaWrite")
    /\ UNCHANGED <<job, cur, acc, cache, started, store>>

(* incre_size and bakup_size of reset_capacity. *)
UsedIncrement(type, s) ==
    IF type \in {"ADDI", "COPY"} THEN s ELSE IF type = "DELE" THEN -s ELSE 0

BakupIncrement(type, s) == IF type = "DELE" THEN s ELSE 0

(* Mutant of CapaWrite: the sizes are signed. *)
CapaWriteSigned(w) ==
    /\ pc[w] = "capaWrite"
    /\ capa' = [capa EXCEPT ![Space(w)] =
           [used  |-> tmp[w].used + UsedIncrement(cur[w].type, cur[w].size),
            bakup |-> tmp[w].bakup + BakupIncrement(cur[w].type, cur[w].size)]]
    /\ AfterCapa(w)
    /\ UNCHANGED <<job, tmp, acc, cache, started, acd, idx, bytes, stale, raced>>

CapaWrite(w) ==
    /\ pc[w] = "capaWrite"
    /\ capa' = [capa EXCEPT ![Space(w)] =
           [used  |-> (tmp[w].used + UsedIncrement(cur[w].type, cur[w].size)) % Word,
            bakup |-> (tmp[w].bakup + BakupIncrement(cur[w].type, cur[w].size)) % Word]]
    /\ AfterCapa(w)
    /\ UNCHANGED <<job, tmp, acc, cache, started, acd, idx, bytes, stale, raced>>

CapaFails(w) ==
    /\ "io" \in Faults
    /\ pc[w] \in {"capaRead", "capaWrite"}
    /\ AfterCapa(w)
    /\ UNCHANGED <<job, tmp, acc, cache, started, store>>

-----------------------------------------------------------------------------
(* Giving the lock back. *)

(* The cache server serves the holder and refuses the others; the empty    *)
(* validation of a worker that never had a reply holds nothing.            *)
Honoured(w) == acc[w].valid # 0 /\ cache[acc[w].uid].holder = acc[w].valid

Released(w) ==
    cache' = IF Honoured(w) THEN [cache EXCEPT ![acc[w].uid].holder = 0] ELSE cache

Published(w) ==
    cache' = IF Honoured(w)
             THEN [cache EXCEPT ![acc[w].uid] = [holder |-> 0, anchor |-> acc[w].anchor]]
             ELSE cache

SendLost == "sendLost" \in Faults /\ UNCHANGED cache

(* set_cache_anchor; the handlers ignore its result. *)
Publish(w) ==
    /\ pc[w] \in {"publish", "republish"}
    /\ Published(w) \/ SendLost
    /\ Leave(w)
    /\ UNCHANGED <<acc, started, store>>

(* Mutant of UnlockFull: the result of check_capacity is ignored. *)
UnlockFullIgnored(w) ==
    /\ pc[w] = "full"
    /\ Released(w) \/ SendLost
    /\ Goto(w, "body")
    /\ UNCHANGED <<local, acc, started, store>>

(* The pool is full: increm_locked_space unlocks, and COPY unlocks again. *)
UnlockFull(w) ==
    /\ pc[w] = "full"
    /\ Released(w) \/ SendLost
    /\ LockFailed(w)
    /\ UNCHANGED <<acc, started, store>>

(* unlock_user_space: without a cached anchor it publishes the last one of *)
(* the index at _accval_.location, whichever user that is the space of.    *)
Unlock(w) ==
    /\ pc[w] = "unlock"
    /\ IF acc[w].anchor # 0
       THEN Goto(w, "release") /\ UNCHANGED acc
       ELSE /\ Goto(w, "republish")
            /\ \/ /\ Space(w) \in Users
                  /\ acc' = [acc EXCEPT ![w].anchor = LastNumber(Space(w))]
               \/ /\ Space(w) = NoUser \/ "io" \in Faults
                  /\ UNCHANGED acc
    /\ UNCHANGED <<local, cache, started, store>>

Release(w) ==
    /\ pc[w] = "release"
    /\ Released(w) \/ SendLost
    /\ Leave(w)
    /\ UNCHANGED <<acc, started, store>>

-----------------------------------------------------------------------------
(* The environment. *)

Crash(w) ==
    /\ "crash" \in Faults
    /\ pc[w] # "idle"
    /\ Leave(w)
    /\ acc' = [acc EXCEPT ![w] = NoAcc]
    /\ UNCHANGED <<cache, started, store>>

(* Mutants of Orphaned: no keep-alive is sent; idle workers send it too. *)
OrphanedUnrenewed(u) == u \in Users
OrphanedNever(u)     == \A w \in Workers : acc[w].valid # cache[u].holder

(* No running request keeps the lock of u alive. *)
Orphaned(u) == \A w \in Workers : pc[w] # "idle" => acc[w].valid # cache[u].holder

(* The cache server drops a lock that no keep-alive renews. *)
Expire(u) ==
    /\ cache[u].holder # 0
    /\ Orphaned(u) \/ "expire" \in Faults
    /\ cache' = [cache EXCEPT ![u].holder = 0]
    /\ UNCHANGED <<pc, local, acc, started, store>>

(* The bound on requests is reached and every worker rests. *)
Rest ==
    /\ started = MaxRequests
    /\ \A w \in Workers : pc[w] = "idle"
    /\ \A u \in Users : cache[u].holder = 0
    /\ UNCHANGED vars

Locking(w) ==
    \/ Query(w) \/ QueryRefused(w) \/ QueryFails(w)
    \/ Status(w) \/ StatusRefused(w) \/ StatusLost(w) \/ Check(w)

Serving(w) ==
    \/ \E s \in Sizes : \/ Overwrite(w, s) \/ OverwriteUnrecorded(w, s)
                        \/ DeleteFile(w, s) \/ CopyFile(w, s)
                        \/ SinglePut(w, s) \/ SingleCopy(w, s) \/ PutUnrecorded(w, s)
    \/ MoveFile(w) \/ SingleMove(w) \/ EndWalk(w) \/ BodyFails(w)

Recording(w) ==
    \/ Flush(w) \/ AddiRead(w) \/ AddiAppend(w) \/ AddiFails(w)
    \/ CapaRead(w) \/ CapaWrite(w) \/ CapaFails(w)

Unlocking(w) == Publish(w) \/ UnlockFull(w) \/ Unlock(w) \/ Release(w)

Step(w) == Locking(w) \/ Serving(w) \/ Recording(w) \/ Unlocking(w)

Next ==
    \/ \E w \in Workers, u \in Users, op \in Ops : Start(w, u, op)
    \/ \E w \in Workers : Step(w) \/ Crash(w)
    \/ \E u \in Users : Expire(u)
    \/ Rest

Spec == Init /\ [][Next]_vars

(* A worker that runs goes on running, and the cache server drops the lock *)
(* of a request that is gone; requests, crashes and early expiry need not  *)
(* happen.                                                                 *)
FairSpec ==
    /\ Spec
    /\ \A w \in Workers : WF_vars(Step(w))
    /\ \A u \in Users : WF_vars(Orphaned(u) /\ Expire(u))

-----------------------------------------------------------------------------
(* Properties. *)

JobType  == [id : Nat, op : Ops \cup {"none"}, stage : Stages, items : Nat]
ItemType == [type : Types \cup {"none"}, then : Types \cup {"none"}, size : Nat, final : BOOLEAN]
TmpType  == [num : Nat, oset : Nat, used : 0 .. Word - 1, bakup : 0 .. Word - 1]
AccType  == [uid : Users \cup {NoUser}, valid : Nat, anchor : Nat, location : Users \cup {NoUser}]

LocalOK ==
    /\ pc \in [Workers -> Labels]
    /\ job \in [Workers -> JobType]
    /\ cur \in [Workers -> ItemType]
    /\ tmp \in [Workers -> TmpType]

CacheOK ==
    /\ cache \in [Users -> [holder : Nat, anchor : Nat]]
    /\ started \in Nat

StoreOK ==
    /\ acd \in [Users -> Seq(Types)]
    /\ idx \in [Users -> Seq([num : Nat, oset : Nat])]
    /\ capa \in [Users -> [used : 0 .. Word - 1, bakup : 0 .. Word - 1]]
    /\ bytes \in [Users -> Nat]

LooksOK == stale \subseteq Nat /\ raced \subseteq Users

AccOK == acc \in [Workers -> AccType]

(* The sizes and positions never leave their C types, the names their sets. *)
TypeOK == LocalOK /\ AccOK /\ CacheOK /\ StoreOK /\ LooksOK

Writes(w, u) == pc[w] \in Writing /\ Space(w) = u

(* A worker that appends to the log, the index or the capacity file does so *)
(* in the space of the user it serves now, not of the user before, and the  *)
(* cache server holds the lock of that user for its validation: the statics *)
(* of dav_cloud.c are those of this request from the lock to the release.   *)
WriterOwnsSpace ==
    \A w \in Workers : pc[w] \in Writing =>
        /\ Space(w) = acc[w].uid
        /\ cache[acc[w].uid].holder = acc[w].valid

(* No two workers record in one space at the same time, so that the reads   *)
(* and writes of addi_anchor and reset_capacity never interleave.           *)
OneWriter ==
    \A u \in Users : \A v, w \in Workers : Writes(v, u) /\ Writes(w, u) => v = w

(* addi_anchor numbers the anchors of a space 1, 2, 3 and so on, no number  *)
(* twice and none left out, across workers, failures and crashes.           *)
AnchorsDense == \A u \in Users : \A i \in DOMAIN idx[u] : idx[u][i].num = i

(* The log offsets of the anchors never go back and never pass the end of   *)
(* the log: each anchor covers a suffix of what the one before left open.   *)
OffsetsOrdered ==
    \A u \in Users : \A i \in DOMAIN idx[u] :
        /\ idx[u][i].oset <= Len(acd[u])
        /\ i > 1 => idx[u][i - 1].oset <= idx[u][i].oset

(* The EXIST record of a MOVE or COPY is followed by its own MOVE or COPY   *)
(* record, whatever the other workers do: a reader of the log pairs them by *)
(* adjacency.                                                               *)
PairsAdjacent ==
    \A u \in Users : \A i \in DOMAIN acd[u] :
        /\ acd[u][i] \in {"MOVE", "COPY"} => i > 1 /\ acd[u][i - 1] = "EXIST"
        /\ acd[u][i] = "EXIST" /\ i < Len(acd[u]) => acd[u][i + 1] \in {"MOVE", "COPY"}

(* A worker that is about to publish has added an anchor that covers every  *)
(* record of the log, its own included.                                     *)
PublishCoversLog ==
    \A w \in Workers : pc[w] = "publish" =>
        LET i == idx[Space(w)] IN i # <<>> /\ i[Len(i)].oset = Len(acd[Space(w)])

(* What a reader of the log relies on: pairs, and anchors that cover it.    *)
LogReadable == PairsAdjacent /\ PublishCoversLog

(* The anchor clients are told of is one that the index of the space has.   *)
PublishedExists == \A u \in Users : cache[u].anchor <= Len(idx[u])

(* With nobody writing in a space, used_size of its capacity file is the    *)
(* size of the files in its tree: no lost update, no record counted twice.  *)
(* Spaces are excepted in which a DELETE, MOVE or COPY acted on what it saw *)
(* before it had the lock and another request had changed.                  *)
UsedMatchesTree ==
    \A u \in Users \ raced : (\A w \in Workers : ~Writes(w, u)) => capa[u].used = bytes[u]

(* check_capacity looks before the request and not at its size: a pool is   *)
(* overdrawn by the files of one request at most, in the same spaces.       *)
OverdrawnOnce ==
    \A u \in Users \ raced, s \in Sizes :
        (\A r \in Sizes : r <= s) =>
            capa[u].used + capa[u].bakup < PoolSize + s * MaxItems

(* The capacity file: its count is right and the pool is kept to it, except *)
(* where a request acted on an outdated look at the tree.                   *)
CapacitySound == UsedMatchesTree /\ OverdrawnOnce

(* Only a COPY that was refused and publishes from the location of the user *)
(* served before can announce an anchor that the index does not have.       *)
ForeignAnchorOnlyByCopy ==
    [][\A u \in Users :
        cache'[u].anchor # cache[u].anchor /\ cache'[u].anchor > Len(idx[u]) =>
            \E w \in Workers : /\ pc[w] = "republish" /\ job[w].op = "COPY"
                               /\ acc[w].uid = u /\ Space(w) # u]_vars

(* A lock that a request took is given back, by the request or, when that   *)
(* died or could not reach the cache server, by the end of its lease.       *)
LockReleased ==
    \A u \in Users, n \in 1 .. MaxRequests : cache[u].holder = n ~> cache[u].holder # n

-----------------------------------------------------------------------------
(* The inductive invariant behind OneWriter, AnchorsDense, OffsetsOrdered   *)
(* and PublishedExists; it needs that the cache server neither drops the    *)
(* lock of a running request nor grants one whose reply is lost, and the    *)
(* offsets that a space starts with a log.                                  *)

(* A worker in a request knows its user, one with the lock its location. *)
SpaceKnown ==
    \A w \in Workers : /\ pc[w] # "idle" => acc[w].uid \in Users
                       /\ pc[w] \in Writing => Space(w) \in Users

(* Only EXIST has a second record, and what is flushed or counted has a type. *)
ItemKnown ==
    \A w \in Workers :
        /\ pc[w] \in {"flush", "capaRead", "capaWrite"} \/ cur[w].final => cur[w].type # "none"
        /\ cur[w].type = "EXIST" => cur[w].then # "none"

LeaseHeld == Faults \cap {"expire", "statusLost"} = {}
LogThere  == "nolog" \notin Faults

(* A validation is the number of a request begun before. *)
ValidKnown ==
    \A w \in Workers : /\ acc[w].valid <= started
                       /\ pc[w] # "idle" => job[w].id \in 1 .. started
                       /\ pc[w] = "status" => acc[w].valid = job[w].id

(* It belongs to one request, hence to one worker. *)
Distinct(v, w) ==
    /\ acc[v].valid = acc[w].valid => acc[v].valid = 0
    /\ pc[w] # "idle" => acc[v].valid # job[w].id
    /\ pc[v] # "idle" /\ pc[w] # "idle" => job[v].id # job[w].id

ValidUnique == \A v, w \in Workers : v # w => Distinct(v, w)

(* A lock is held by a request that was begun; one that has not yet queried *)
(* holds nothing, and one between query and status only its own user's.     *)
HolderKnown ==
    /\ \A u \in Users : cache[u].holder <= started
    /\ \A u \in Users, w \in Workers :
          /\ pc[w] = "query" => cache[u].holder # job[w].id
          /\ pc[w] = "status" /\ cache[u].holder = acc[w].valid => u = acc[w].uid

(* A validation that the cache server honours goes with the location and an *)
(* anchor of the space it locks, even when the worker has moved on to the   *)
(* next request.                                                            *)
HolderAtHome ==
    \A w \in Workers :
        /\ pc[w] = "status" => acc[w].anchor <= Len(idx[acc[w].uid])
        /\ \A u \in Users :
              acc[w].valid # 0 /\ cache[u].holder = acc[w].valid /\ pc[w] # "status" =>
                  Space(w) = u /\ acc[w].anchor <= Len(idx[u])

WriterLocked ==
    \A w \in Workers : pc[w] \in Writing =>
        /\ Space(w) = acc[w].uid
        /\ acc[w].valid # 0
        /\ cache[acc[w].uid].holder = acc[w].valid

(* What addi_anchor has read is still true when it appends; the size of the *)
(* log it has only read where there is one.                                 *)
AddiReadFresh ==
    \A w \in Workers : pc[w] = "addiAppend" =>
        /\ tmp[w].num = Len(idx[Space(w)]) + 1
        /\ LogThere => tmp[w].oset = Len(acd[Space(w)])

OffsetsKept == LogThere => OffsetsOrdered

LockInv == ValidKnown /\ ValidUnique /\ HolderKnown /\ WriterLocked
JournalInv == AnchorsDense /\ OffsetsKept /\ AddiReadFresh /\ HolderAtHome /\ PublishedExists

(* Both together, with the crashes and the failures of calls.               *)
SpaceInv == LockInv /\ JournalInv

-----------------------------------------------------------------------------
(* The abstract journal that the locked workers implement. *)

Journal == INSTANCE SpaceJournal WITH
    locked    <- [u \in Users |-> cache[u].holder # 0],
    published <- [u \in Users |-> cache[u].anchor]

(* Whatever the interleaving, the log and the index of a space change only  *)
(* under its lock, one record or one whole anchor at a time, and the anchor *)
(* that is announced is one of the index.                                   *)
ImplementsJournal == Journal!Spec

=============================================================================
