---------------------------- MODULE DeleteBackup ----------------------------
(***************************************************************************)
(* What cloud_delete does with a file before it leaves a user space: it is *)
(* moved (or, across file systems, copied piece by piece) into the backup  *)
(* folder of the day, and a log beside it remembers which paths were saved *)
(* and when, so that a path deleted again within _dele_interv_ is only     *)
(* unlinked.  Sources: dav_cloud.c:170-192, versi_utili.c:39-147,          *)
(* file_utili.c:20-60 and the callers in ngx_http_dav_module.c.            *)
(*                                                                         *)
(* One space is modelled; its lock makes the deletions follow one another. *)
(* A file is a version: the blocks of version v are <<v, 1>>, <<v, 2>>, ...*)
(* and a backup file is the sequence of blocks that were written into it.  *)
(***************************************************************************)
EXTENDS Integers, Sequences, FiniteSets, Functions

CONSTANTS Dirs,         \* directories of the space
          Names,        \* file names: a path is <<directory, name>>
          Interval,     \* _dele_interv_, in clock ticks
          DayLength,    \* ticks after which bakup_folder names another folder
          Chunk,        \* blocks one file_copy_ext copies (MAX_COPY_SIZ)
          MaxDelete,    \* blocks of the largest file that is saved (_max_dele_siz_)
          Devices,      \* the values crossDevice may have
          Faults,       \* the failures the environment may produce
          MaxFiles,     \* bound: versions ever written
          MaxSize,      \* bound: blocks of a file
          MaxTime       \* bound: clock ticks

FaultKinds == {"crash", "open", "reopen", "log", "rename", "copy", "read",
               "unlink", "mark"}

ASSUME BackupAssumption ==
    /\ {Interval, MaxDelete, MaxFiles, MaxSize, MaxTime} \subseteq Nat
    /\ {DayLength, Chunk} \subseteq Nat \ {0}
    /\ Dirs # {} /\ Names # {}
    /\ Devices \subseteq BOOLEAN /\ Devices # {}
    /\ Faults \subseteq FaultKinds

VARIABLES
    files,   \* every version ever written, in order: its path and its blocks
    pool,    \* user_pool: the version at each path that has a file
    bak,     \* the backup files: <<name, time>> -> the blocks written into it
    log,     \* .delete_bakup.acd of each day: the struct dele_bakup records
    job,     \* the cloud_delete under way
    now,     \* time(NULL)
    crossDevice  \* the backup folder is on another file system (EXDEV): never changes

vars == <<files, pool, bak, log, job, now, crossDevice>>

Paths == Dirs \X Names
Day(t) == t \div DayLength
Blocks(v) == [i \in 1 .. files[v].size |-> <<v, i>>]

(* LAST_BAKUP: the name of a backup keeps the base name and the second. *)
BackupName(path, t) == <<path[2], t>>
Target == BackupName(job.path, job.time)
Copied == IF Target \in DOMAIN bak THEN bak[Target] ELSE <<>>

DayLog == log[Day(job.time)]
NoJob == [stage |-> "idle", path |-> CHOOSE p \in Paths : TRUE, time |-> 0, at |-> 0,
          fresh |-> FALSE, again |-> FALSE, put |-> FALSE, ret |-> 0]

Init ==
    /\ files = <<>>
    /\ pool = << >>
    /\ bak = << >>
    /\ log = [d \in 0 .. Day(MaxTime) |-> <<>>]
    /\ job = NoJob
    /\ now = 0
    /\ crossDevice \in Devices

-----------------------------------------------------------------------------
(* Clients. *)

NewFile(path, n) == files' = Append(files, [path |-> path, size |-> n])
Written(f, path, v) == [p \in DOMAIN f \cup {path} |-> IF p = path THEN v ELSE f[p]]
Without(f, x) == Restrict(f, DOMAIN f \ {x})

(* A PUT, MOVE or COPY that finds nothing at its destination. *)
PutNew(path, n) ==
    /\ job.stage = "idle" /\ path \notin DOMAIN pool
    /\ Len(files) < MaxFiles
    /\ NewFile(path, n)
    /\ pool' = Written(pool, path, Len(files) + 1)
    /\ UNCHANGED <<bak, log, job, now, crossDevice>>

(* cloud_delete is called, for a DELETE or for a PUT that overwrites.       *)
(* act_time is read once, for all the calls of delete_backup.               *)
Begin(path, put) ==
    /\ job.stage = "idle" /\ path \in DOMAIN pool
    /\ put => Len(files) < MaxFiles
    /\ files[pool[path]].size <= MaxDelete
    /\ job' = [NoJob EXCEPT !.stage = "open", !.path = path, !.time = now, !.put = put]
    /\ UNCHANGED <<files, pool, bak, log, now, crossDevice>>

(* A file larger than max_delete is unlinked at once. *)
UnlinkLarge(path, put) ==
    /\ job.stage = "idle" /\ path \in DOMAIN pool
    /\ put => Len(files) < MaxFiles
    /\ files[pool[path]].size > MaxDelete
    /\ pool' = Without(pool, path)
    /\ job' = [NoJob EXCEPT !.stage = "returned", !.path = path, !.time = now, !.put = put]
    /\ UNCHANGED <<files, bak, log, now, crossDevice>>

(* Mutant of CallReturns: cloud_delete calls it again until nothing fails. *)
CallReturnsUntilDone(ret) ==
    job' = [job EXCEPT !.stage = IF ret # 0 THEN "open" ELSE "returned",
                       !.again = TRUE, !.fresh = FALSE, !.at = 0, !.ret = 0]

(* delete_backup returns ret: cloud_delete calls it again while it is 1,    *)
(* and looks at an error only after a call that was not the first.          *)
CallReturns(ret) ==
    job' = [job EXCEPT !.stage = IF ret = 1 THEN "open" ELSE "returned",
                       !.again = TRUE, !.fresh = FALSE, !.at = 0,
                       !.ret = IF ret = -1 /\ job.again THEN -1 ELSE 0]

-----------------------------------------------------------------------------
(* delete_backup. *)

(* creat_backup_file cannot open or create the log. *)
OpenFails ==
    /\ "open" \in Faults /\ job.stage = "open"
    /\ CallReturns(-1)
    /\ UNCHANGED <<files, pool, bak, log, now, crossDevice>>

(* The first fopen64 fails for a reason other than a missing file, and the  *)
(* second one, "wb+", truncates the log.                                    *)
Reopen ==
    /\ "reopen" \in Faults /\ job.stage = "open"
    /\ log' = [log EXCEPT ![Day(job.time)] = <<>>]
    /\ job' = [job EXCEPT !.stage = "search"]
    /\ UNCHANGED <<files, pool, bak, now, crossDevice>>

Open ==
    /\ job.stage = "open"
    /\ job' = [job EXCEPT !.stage = "search"]
    /\ UNCHANGED <<files, pool, bak, log, now, crossDevice>>

Young(k) == job.time - DayLog[k].time <= Interval

(* Mutant of Hits: a finished record is not found. *)
HitsUndone == {k \in DOMAIN DayLog : /\ DayLog[k].path = job.path /\ ~DayLog[k].done
                                     /\ \A j \in k .. Len(DayLog) : Young(j)}

(* search_delete walks back from the end of the log and stops at the first  *)
(* record that is too old or names the path.                                *)
Hits == {k \in DOMAIN DayLog : /\ DayLog[k].path = job.path
                               /\ \A j \in k .. Len(DayLog) : Young(j)}
Newest(S) == CHOOSE k \in S : \A j \in S : j <= k

(* The path was saved within the interval: delete_exceptio follows. *)
FoundDone ==
    /\ job.stage = "search" /\ Hits # {}
    /\ DayLog[Newest(Hits)].done
    /\ job' = [job EXCEPT !.stage = "drop"]
    /\ UNCHANGED <<files, pool, bak, log, now, crossDevice>>

(* An earlier call, or one that died, began to save the path. *)
FoundUndone ==
    /\ job.stage = "search" /\ Hits # {}
    /\ ~DayLog[Newest(Hits)].done
    /\ job' = [job EXCEPT !.stage = "save", !.at = Newest(Hits)]
    /\ UNCHANGED <<files, pool, bak, log, now, crossDevice>>

(* Mutant of LogDelete: the offset kept is that of the record before. *)
LogDeleteOffset ==
    /\ job.stage = "search" /\ Hits = {}
    /\ log' = [log EXCEPT ![Day(job.time)] =
                   Append(@, [time |-> job.time, path |-> job.path, done |-> FALSE])]
    /\ job' = [job EXCEPT !.stage = "save", !.at = Len(DayLog), !.fresh = TRUE]
    /\ UNCHANGED <<files, pool, bak, now, crossDevice>>

(* A new record is appended; stdio keeps it in memory until the log is read *)
(* again or closed, so a crash before that loses it.                        *)
LogDelete ==
    /\ job.stage = "search" /\ Hits = {}
    /\ log' = [log EXCEPT ![Day(job.time)] =
                   Append(@, [time |-> job.time, path |-> job.path, done |-> FALSE])]
    /\ job' = [job EXCEPT !.stage = "save", !.at = Len(DayLog) + 1, !.fresh = TRUE]
    /\ UNCHANGED <<files, pool, bak, now, crossDevice>>

(* fwrite fails: delete_logger's -1 is not 0, so delete_exceptio follows.    *)
LogFails ==
    /\ "log" \in Faults
    /\ job.stage = "search" /\ Hits = {}
    /\ job' = [job EXCEPT !.stage = "drop"]
    /\ UNCHANGED <<files, pool, bak, log, now, crossDevice>>

(* delete_exceptio: the file is unlinked and nothing is saved. *)
DropUnsaved ==
    /\ job.stage = "drop"
    /\ pool' = Without(pool, job.path)
    /\ CallReturns(0)
    /\ UNCHANGED <<files, bak, log, now, crossDevice>>

(* delete_handler: rename into the backup folder, over whatever is there. *)
Rename ==
    /\ job.stage = "save" /\ ~crossDevice
    /\ bak' = Written(bak, Target, Blocks(pool[job.path]))
    /\ pool' = Without(pool, job.path)
    /\ job' = [job EXCEPT !.stage = "mark"]
    /\ UNCHANGED <<files, log, now, crossDevice>>

(* rename fails for another reason than EXDEV: cpval is still 0, "done".     *)
RenameFails ==
    /\ "rename" \in Faults
    /\ job.stage = "save"
    /\ job' = [job EXCEPT !.stage = "mark"]
    /\ UNCHANGED <<files, pool, bak, log, now, crossDevice>>

Source == Blocks(pool[job.path])

(* Mutants: the first piece is taken for the whole file; the copy always    *)
(* starts at the first block.                                               *)
AtEndFirst == TRUE
PieceRestart == SubSeq(Source, 1, IF Chunk < Len(Source) THEN Chunk ELSE Len(Source))

(* file_copy_ext appends up to Chunk blocks from the offset the target has  *)
(* reached, and is done when it reads the end of the file.                  *)
Piece == SubSeq(Source, Len(Copied) + 1,
                IF Len(Copied) + Chunk < Len(Source) THEN Len(Copied) + Chunk ELSE Len(Source))
AtEnd == Len(Copied) + Chunk > Len(Source)

CopyMore ==
    /\ job.stage = "save" /\ crossDevice /\ ~AtEnd
    /\ bak' = Written(bak, Target, Copied \o Piece)
    /\ CallReturns(1)
    /\ UNCHANGED <<files, pool, log, now, crossDevice>>

CopyLast ==
    /\ job.stage = "save" /\ crossDevice /\ AtEnd
    /\ bak' = Written(bak, Target, Copied \o Piece)
    /\ job' = [job EXCEPT !.stage = "unlink"]
    /\ UNCHANGED <<files, pool, log, now, crossDevice>>

(* Mutant of CopyFails: the source is unlinked although the copy failed. *)
CopyFailsUnlinks ==
    /\ "copy" \in Faults
    /\ job.stage = "save" /\ crossDevice
    /\ CallReturns(-1)
    /\ pool' = Without(pool, job.path)
    /\ UNCHANGED <<files, bak, log, now, crossDevice>>

(* A write falls short: some of the piece may have reached the target. *)
CopyFails ==
    /\ "copy" \in Faults
    /\ job.stage = "save" /\ crossDevice
    /\ \E k \in 0 .. Len(Piece) :
           bak' = Written(bak, Target, Copied \o SubSeq(Piece, 1, k))
    /\ CallReturns(-1)
    /\ UNCHANGED <<files, pool, log, now, crossDevice>>

(* A read fails: its -1 is taken for a size, the write of so many bytes      *)
(* returns -1 too, and the call asks to be repeated.                        *)
ReadFails ==
    /\ "read" \in Faults
    /\ job.stage = "save" /\ crossDevice
    /\ \E k \in 0 .. Len(Piece) :
           /\ k < Chunk
           /\ bak' = Written(bak, Target, Copied \o SubSeq(Piece, 1, k))
    /\ CallReturns(1)
    /\ UNCHANGED <<files, pool, log, now, crossDevice>>

(* The source is unlinked once its copy is complete. *)
UnlinkSource ==
    /\ job.stage = "unlink"
    /\ pool' = Without(pool, job.path)
    /\ job' = [job EXCEPT !.stage = "mark"]
    /\ UNCHANGED <<files, bak, log, now, crossDevice>>

UnlinkFails ==
    /\ "unlink" \in Faults /\ job.stage = "unlink"
    /\ CallReturns(-1)
    /\ UNCHANGED <<files, pool, bak, log, now, crossDevice>>

(* bakup_done_dele; its own failure is ignored. *)
MarkDone ==
    /\ job.stage = "mark"
    /\ log' = [log EXCEPT ![Day(job.time)][job.at].done = TRUE]
    /\ CallReturns(0)
    /\ UNCHANGED <<files, pool, bak, now, crossDevice>>

MarkFails ==
    /\ "mark" \in Faults /\ job.stage = "mark"
    /\ CallReturns(0)
    /\ UNCHANGED <<files, pool, bak, log, now, crossDevice>>
-----------------------------------------------------------------------------
(* cloud_delete has returned: a DELETE ends, a PUT renames its temporary    *)
(* file over the path whatever was returned.                                *)
Return(n) ==
    /\ job.stage = "returned"
    /\ IF job.put
       THEN /\ NewFile(job.path, n)
            /\ pool' = Written(pool, job.path, Len(files) + 1)
       ELSE UNCHANGED <<files, pool>>
    /\ job' = NoJob
    /\ UNCHANGED <<bak, log, now, crossDevice>>

(* The worker dies; a record still in its stdio buffer is lost.  The lock of *)
(* the space outlives it by a lease, so nobody comes back the same second.  *)
Crash ==
    /\ "crash" \in Faults /\ job.stage # "idle" /\ now < MaxTime
    /\ now' = now + 1
    /\ log' = IF job.fresh THEN [log EXCEPT ![Day(job.time)] = SubSeq(@, 1, Len(@) - 1)]
                           ELSE log
    /\ job' = NoJob
    /\ UNCHANGED <<files, pool, bak, crossDevice>>

Tick ==
    /\ now < MaxTime
    /\ now' = now + 1
    /\ UNCHANGED <<files, pool, bak, log, job, crossDevice>>

Working ==
    \/ OpenFails \/ Reopen \/ Open
    \/ FoundDone \/ FoundUndone \/ LogDelete \/ LogFails \/ DropUnsaved
    \/ Rename \/ RenameFails \/ CopyMore \/ CopyLast \/ CopyFails
    \/ ReadFails \/ UnlinkSource \/ UnlinkFails \/ MarkDone \/ MarkFails
    \/ \E n \in 1 .. MaxSize : Return(n)

Next ==
    \/ \E path \in Paths, n \in 1 .. MaxSize : PutNew(path, n)
    \/ \E path \in Paths, put \in BOOLEAN : Begin(path, put) \/ UnlinkLarge(path, put)
    \/ Working
    \/ Crash
    \/ Tick

Spec == Init /\ [][Next]_vars
(* The worker runs on: nothing in cloud_delete waits. *)
FairSpec == Spec /\ WF_vars(Working)
-----------------------------------------------------------------------------
Stages == {"idle", "open", "search", "save", "drop", "unlink", "mark", "returned"}

(* The type of every variable. *)
TypeOK ==
    /\ files \in Seq([path : Paths, size : Nat])
    /\ DOMAIN pool \subseteq Paths /\ \A p \in DOMAIN pool : pool[p] \in DOMAIN files
    /\ DOMAIN bak \subseteq Names \X Nat
    /\ \A b \in DOMAIN bak : bak[b] \in Seq((DOMAIN files) \X Nat)
    /\ log \in [0 .. Day(MaxTime) -> Seq([time : Nat, path : Paths, done : BOOLEAN])]
    /\ job \in [stage : Stages, path : Paths, time : Nat, at : Nat, fresh : BOOLEAN,
                again : BOOLEAN, put : BOOLEAN, ret : {-1, 0}]
    /\ now \in Nat /\ crossDevice \in BOOLEAN

SavedWhole(v) == \E b \in DOMAIN bak : bak[b] = Blocks(v)

(* A version of the path was saved whole at most Interval before t. *)
RecentlySaved(path, t) ==
    \E b \in DOMAIN bak : /\ b[1] = path[2] /\ t - b[2] <= Interval
                          /\ \E v \in DOMAIN files : files[v].path = path /\ bak[b] = Blocks(v)

(* A file that may be saved leaves the space only if it is in the backup    *)
(* whole, or an earlier version of its path was saved within the interval:  *)
(* cloud_delete throttles the versions, it never loses the only one.        *)
NothingLost ==
    [][\A p \in DOMAIN pool, v \in DOMAIN files :
           LET leaves == pool[p] = v /\ (p \notin DOMAIN pool' \/ pool'[p] # v)
           IN  leaves /\ files[v].size <= MaxDelete
               => SavedWhole(v)' \/ RecentlySaved(p, job.time)]_vars

(* A record marked bakp_done has a whole version of its path in the backup, *)
(* saved no earlier than the record was made.                               *)
DoneIsSaved ==
    \A d \in DOMAIN log : \A k \in DOMAIN log[d] :
        LET r == log[d][k] IN
        r.done => \E b \in DOMAIN bak :
                      /\ b[1] = r.path[2] /\ b[2] >= r.time
                      /\ \E v \in DOMAIN files : files[v].path = r.path /\ bak[b] = Blocks(v)

(* Where no two directories hold files of one name, a backup never mixes    *)
(* two versions, also when a copy is resumed after a crash.                 *)
NeverMixed ==
    \A b \in DOMAIN bak : \E v \in DOMAIN files :
        /\ files[v].path[2] = b[1]
        /\ \A i \in DOMAIN bak[b] : i <= files[v].size /\ bak[b][i] = <<v, i>>

(* The backup files and the log of them, after any crash and resumption:    *)
(* marks are true and no file is a mixture.                                 *)
BackupsSound == TypeOK /\ DoneIsSaved /\ NeverMixed

(* Nor does any later deletion touch a backup that is whole: a path deleted *)
(* twice in a second is saved once.                                         *)
WholeIsKept ==
    [][\A b \in DOMAIN bak : \A v \in DOMAIN files :
           bak[b] = Blocks(v) => bak'[b] = bak[b]]_vars

(* The record a call is about to mark done is its own: it names the path    *)
(* and is not done, whatever failed in the calls before.                    *)
RecordIsMine ==
    job.stage \in {"save", "unlink", "mark"} =>
        /\ job.at \in DOMAIN DayLog
        /\ DayLog[job.at].path = job.path /\ ~DayLog[job.at].done

(* An error of cloud_delete means that the file is still there: the         *)
(* handlers then stop and leave the tree and the log of actions alone.      *)
ErrorMeansKept == job.stage = "returned" /\ job.ret = -1 => job.path \in DOMAIN pool

(* cloud_delete returns: its loop ends with the copy, whatever fails, unless *)
(* reads of the file fail again and again, for which the loop goes on.      *)
Finishes ==
    \/ []<><<ReadFails>>_vars
    \/ job.stage # "idle" ~> job.stage = "idle"
=============================================================================
