------------------------- MODULE DeleteBackupProofs -------------------------
(***************************************************************************)
(* Theorems about DeleteBackup, for any directories, names, sizes and times. *)
(***************************************************************************)
EXTENDS DeleteBackup, SequenceTheorems, WellFoundedInduction, TLAPS

File == [path : Paths, size : Nat]
Record == [time : Nat, path : Paths, done : BOOLEAN]
Job == [stage : Stages, path : Paths, time : Nat, at : Nat, fresh : BOOLEAN,
        again : BOOLEAN, put : BOOLEAN, ret : {-1, 0}]

\* TypeOK in parts, with what it leaves open: a file has its path and is not
\* empty, the clock stops at its bound, and no call is later than the clock.
PoolTyped ==
    /\ files \in Seq(File) /\ \A v \in DOMAIN files : files[v].size >= 1
    /\ DOMAIN pool \subseteq Paths
    /\ \A p \in DOMAIN pool : pool[p] \in DOMAIN files /\ files[pool[p]].path = p
BakTyped ==
    /\ DOMAIN bak \subseteq Names \X Nat
    /\ \A b \in DOMAIN bak : bak[b] \in Seq((DOMAIN files) \X Nat)
LogTyped == log \in [0 .. Day(MaxTime) -> Seq(Record)]
JobTyped == job \in Job /\ job.time <= now
ClockTyped == now \in 0 .. MaxTime /\ crossDevice \in BOOLEAN

TypeInv == PoolTyped /\ BakTyped /\ LogTyped /\ JobTyped /\ ClockTyped

\* While cloud_delete works on a file, the file is there.
StillThere == job.stage \in {"open", "search", "save", "drop", "unlink"} => job.path \in DOMAIN pool

CallInv == TypeInv /\ StillThere /\ RecordIsMine /\ ErrorMeansKept

-----------------------------------------------------------------------------
(* Types *)

LEMMA Bounds ==
    /\ Interval \in Nat /\ MaxDelete \in Nat /\ MaxFiles \in Nat /\ MaxSize \in Nat /\ MaxTime \in Nat
    /\ DayLength \in Nat \ {0} /\ Chunk \in Nat \ {0}
  BY BackupAssumption

LEMMA TypesMean == TypeInv => TypeOK
<1> SUFFICES ASSUME TypeInv PROVE TypeOK
  OBVIOUS
<1>1. /\ files \in Seq([path : Paths, size : Nat])
      /\ DOMAIN pool \subseteq Paths /\ \A p \in DOMAIN pool : pool[p] \in DOMAIN files
  BY DEF TypeInv, PoolTyped, File
<1>2. /\ DOMAIN bak \subseteq Names \X Nat
      /\ \A b \in DOMAIN bak : bak[b] \in Seq((DOMAIN files) \X Nat)
  BY DEF TypeInv, BakTyped
<1>3. log \in [0 .. Day(MaxTime) -> Seq([time : Nat, path : Paths, done : BOOLEAN])]
  BY DEF TypeInv, LogTyped, Record
<1>4. now \in Nat /\ crossDevice \in BOOLEAN
  BY Bounds DEF TypeInv, ClockTyped
<1>5. job \in [stage : Stages, path : Paths, time : Nat, at : Nat, fresh : BOOLEAN,
               again : BOOLEAN, put : BOOLEAN, ret : {-1, 0}]
  BY DEF TypeInv, JobTyped, Job
<1>6. QED
  BY <1>1, <1>2, <1>3, <1>4, <1>5 DEF TypeOK

\* Every moment of a call has a log.
LEMMA DayInRange ==
    ASSUME NEW t \in Nat, t <= MaxTime
    PROVE  Day(t) \in 0 .. Day(MaxTime)
<1>1. t \in Nat /\ MaxTime \in Nat /\ DayLength \in Nat \ {0}
  BY Bounds
<1>2. PICK q, r \in Nat : q = Day(t) /\ r = Day(MaxTime)
  BY <1>1 DEF Day
<1>3. DayLength * q <= t /\ MaxTime < DayLength * r + DayLength
  BY <1>1, <1>2 DEF Day
<1>4. q <= r
  <2>1. SUFFICES ASSUME q >= r + 1 PROVE FALSE
    BY <1>2
  <2>2. DayLength * q >= DayLength * (r + 1)
    BY <1>1, <1>2, <2>1
  <2>3. DayLength * (r + 1) = DayLength * r + DayLength
    BY <1>1, <1>2
  <2>4. QED
    BY <1>1, <1>2, <1>3, <2>2, <2>3
<1>5. QED
  BY <1>2, <1>4

LEMMA NoJobTyped == NoJob \in Job /\ NoJob.stage = "idle" /\ NoJob.time = 0 /\ NoJob.ret = 0 /\ ~NoJob.fresh
<1>1. Paths # {}
  <2>1. PICK d \in Dirs, n \in Names : TRUE
    BY BackupAssumption
  <2>2. <<d, n>> \in Paths
    BY DEF Paths
  <2>3. QED
    BY <2>2
<1>2. (CHOOSE p \in Paths : TRUE) \in Paths
  BY <1>1
<1>3. QED
  BY <1>2 DEF NoJob, Job, Stages

\* The log of the day of the call is a sequence of records.
LEMMA DayLogTyped ==
    ASSUME TypeInv
    PROVE  /\ Day(job.time) \in DOMAIN log /\ DayLog \in Seq(Record)
           /\ Len(DayLog) \in Nat /\ DOMAIN DayLog = 1 .. Len(DayLog)
<1>1. job.time \in Nat /\ job.time <= MaxTime
  BY BackupAssumption DEF TypeInv, JobTyped, ClockTyped, Job
<1>2. Day(job.time) \in DOMAIN log
  BY <1>1, DayInRange DEF TypeInv, LogTyped
<1>3. DayLog \in Seq(Record)
  BY <1>2 DEF DayLog, TypeInv, LogTyped
<1>4. QED
  BY <1>2, <1>3

\* A set of places of a log that is not empty has a last one.
LEMMA NewestIs ==
    ASSUME NEW n \in Nat, NEW S \in SUBSET (1 .. n), S # {}
    PROVE  Newest(S) \in S /\ \A j \in S : j <= Newest(S)
<1> DEFINE T == {n - k : k \in S}
<1>1. T \in SUBSET Nat /\ T # {}
  <2>1. PICK k \in S : TRUE
    OBVIOUS
  <2>2. n - k \in T
    BY <2>1
  <2>3. QED
    BY <2>2
<1>2. PICK m \in T : \A l \in T : <<l, m>> \notin OpToRel(<, Nat)
  BY <1>1, NatLessThanWellFounded, WFMin
<1>3. PICK k \in S : m = n - k
  OBVIOUS
<1>4. \A j \in S : n - j \in Nat /\ n - j \in T
  OBVIOUS
<1>5. \A j \in S : ~(n - j < n - k)
  BY <1>1, <1>2, <1>3, <1>4 DEF OpToRel
<1>6. \A j \in S : j <= k
  BY <1>5
<1>7. QED
  BY <1>6 DEF Newest

\* The place that FoundDone and FoundUndone take is one of the hits, the last.
LEMMA NewestHit ==
    ASSUME TypeInv, Hits # {}
    PROVE  /\ Newest(Hits) \in Hits /\ \A j \in Hits : j <= Newest(Hits)
           /\ Newest(Hits) \in DOMAIN DayLog
<1>1. Hits \in SUBSET (1 .. Len(DayLog)) /\ Len(DayLog) \in Nat
  BY DayLogTyped DEF Hits
<1>2. QED
  BY <1>1, NewestIs, DayLogTyped

-----------------------------------------------------------------------------
(* The types hold in each step *)

LEMMA CallReturnsTyped ==
    ASSUME JobTyped, NEW ret \in {-1, 0, 1}, CallReturns(ret)
    PROVE  /\ job' \in Job
           /\ job'.time = job.time /\ job'.path = job.path /\ job'.put = job.put
           /\ job'.stage = (IF ret = 1 THEN "open" ELSE "returned")
           /\ job'.at = 0 /\ job'.fresh = FALSE /\ job'.again = TRUE
           /\ job'.ret = (IF ret = -1 /\ job.again THEN -1 ELSE 0)
  BY DEF JobTyped, CallReturns, Job, Stages

\* A file more leaves those that were there as they are.
LEMMA FilesGrow ==
    ASSUME PoolTyped, NEW path \in Paths, NEW n \in 1 .. MaxSize, NewFile(path, n)
    PROVE  /\ files' \in Seq(File) /\ \A v \in DOMAIN files' : files'[v].size >= 1
           /\ DOMAIN files \subseteq DOMAIN files' /\ \A v \in DOMAIN files : files'[v] = files[v]
           /\ Len(files) + 1 \in DOMAIN files' /\ files'[Len(files) + 1] = [path |-> path, size |-> n]
<1>1. n \in Nat /\ n >= 1
  BY BackupAssumption
<1>2. [path |-> path, size |-> n] \in File
  BY <1>1 DEF File
<1>3. QED
  BY <1>1, <1>2 DEF PoolTyped, NewFile

\* The job is the only thing of a call that changes in most of its steps.
LEMMA JobStep ==
    ASSUME TypeInv, job' \in Job, job'.time <= now,
           UNCHANGED <<files, bak, crossDevice>>,
           \/ UNCHANGED pool
           \/ \E p : pool' = Without(pool, p),
           log' \in [0 .. Day(MaxTime) -> Seq(Record)],
           now' = now
    PROVE  TypeInv'
<1>1. PoolTyped'
  <2>1. CASE UNCHANGED pool
    BY <2>1 DEF TypeInv, PoolTyped
  <2>2. ASSUME NEW p, pool' = Without(pool, p)
        PROVE  PoolTyped'
    BY <2>2 DEF TypeInv, PoolTyped, Without, Restrict
  <2>3. QED
    BY <2>1, <2>2
<1>2. BakTyped' /\ LogTyped' /\ ClockTyped' /\ JobTyped'
  BY DEF TypeInv, BakTyped, LogTyped, ClockTyped, JobTyped
<1>3. QED
  BY <1>1, <1>2 DEF TypeInv

\* A backup is written.
LEMMA BakStep ==
    ASSUME TypeInv, job.path \in DOMAIN pool, NEW b, bak' = Written(bak, Target, b),
           b \in Seq((DOMAIN files) \X Nat), UNCHANGED files
    PROVE  BakTyped' /\ DOMAIN bak' = DOMAIN bak \cup {Target} /\ bak'[Target] = b
           /\ \A x \in DOMAIN bak : x # Target => bak'[x] = bak[x]
<1>1. Target \in Names \X Nat
  BY DEF Target, BackupName, TypeInv, JobTyped, Job, Paths
<1>2. QED
  BY <1>1 DEF TypeInv, BakTyped, Written

LEMMA NewFileTyped ==
    ASSUME TypeInv, NEW path \in Paths, NEW n \in 1 .. MaxSize,
           NewFile(path, n), pool' = Written(pool, path, Len(files) + 1),
           UNCHANGED <<bak, log, now, crossDevice>>, job' \in Job, job'.time <= now
    PROVE  /\ TypeInv' /\ DOMAIN pool' = DOMAIN pool \cup {path}
           /\ DOMAIN files \subseteq DOMAIN files' /\ \A v \in DOMAIN files : files'[v] = files[v]
           /\ Len(files) + 1 \in DOMAIN files' /\ files'[Len(files) + 1] = [path |-> path, size |-> n]
<1>1. /\ files' \in Seq(File) /\ \A v \in DOMAIN files' : files'[v].size >= 1
      /\ DOMAIN files \subseteq DOMAIN files' /\ \A v \in DOMAIN files : files'[v] = files[v]
      /\ Len(files) + 1 \in DOMAIN files' /\ files'[Len(files) + 1] = [path |-> path, size |-> n]
  BY FilesGrow DEF TypeInv
<1>2. PoolTyped' /\ DOMAIN pool' = DOMAIN pool \cup {path}
  BY <1>1 DEF TypeInv, PoolTyped, Written
<1>3. BakTyped'
  <2>1. ASSUME NEW b \in DOMAIN bak
        PROVE  bak[b] \in Seq((DOMAIN files') \X Nat)
    <3>1. (DOMAIN files) \X Nat \subseteq (DOMAIN files') \X Nat
      BY <1>1
    <3>2. bak[b] \in Seq((DOMAIN files) \X Nat)
      BY DEF TypeInv, BakTyped
    <3>3. QED
      BY <3>1, <3>2, SeqMonotonic
  <2>2. QED
    BY <2>1 DEF TypeInv, BakTyped
<1>4. LogTyped' /\ ClockTyped' /\ JobTyped'
  BY DEF TypeInv, LogTyped, ClockTyped, JobTyped
<1>5. QED
  BY <1>1, <1>2, <1>3, <1>4 DEF TypeInv

\* A new call has no error and has yet to find its record.
LEMMA ClientsCall ==
    ASSUME CallInv, NEW path \in Paths, NEW put \in BOOLEAN,
           \/ \E n \in 1 .. MaxSize : PutNew(path, n)
           \/ Begin(path, put) \/ UnlinkLarge(path, put)
    PROVE  CallInv'
<1>0. now \in Nat
  BY Bounds DEF CallInv, TypeInv, ClockTyped
<1>1. ASSUME NEW n \in 1 .. MaxSize, PutNew(path, n)
      PROVE  CallInv'
  <2>1. job' \in Job /\ job'.time <= now
    BY <1>1 DEF PutNew, CallInv, TypeInv, JobTyped
  <2>2. TypeInv'
    BY <1>1, <2>1, NewFileTyped DEF PutNew, CallInv
  <2>3. job' = job /\ job.stage = "idle"
    BY <1>1 DEF PutNew
  <2>4. QED
    BY <2>2, <2>3 DEF CallInv, StillThere, RecordIsMine, ErrorMeansKept
<1>2. CASE Begin(path, put)
  <2>1. /\ job' \in Job /\ job'.time = now /\ job'.stage = "open" /\ job'.path = path
        /\ UNCHANGED <<files, pool, bak, log, now, crossDevice>> /\ path \in DOMAIN pool
    BY <1>0, <1>2, NoJobTyped DEF Begin, Job, Stages
  <2>2. TypeInv'
    BY <2>1, JobStep DEF CallInv, TypeInv, ClockTyped, LogTyped
  <2>3. QED
    BY <2>1, <2>2 DEF CallInv, StillThere, RecordIsMine, ErrorMeansKept
<1>3. CASE UnlinkLarge(path, put)
  <2>1. /\ job' \in Job /\ job'.time = now /\ job'.stage = "returned" /\ job'.ret = 0
        /\ UNCHANGED <<files, bak, log, now, crossDevice>> /\ pool' = Without(pool, path)
    BY <1>0, <1>3, NoJobTyped DEF UnlinkLarge, Job, Stages
  <2>2. TypeInv'
    BY <2>1, JobStep DEF CallInv, TypeInv, ClockTyped, LogTyped
  <2>3. QED
    BY <2>1, <2>2 DEF CallInv, StillThere, RecordIsMine, ErrorMeansKept
<1>4. QED
  BY <1>1, <1>2, <1>3

LEMMA OpenCall ==
    ASSUME CallInv, OpenFails \/ Reopen \/ Open
    PROVE  CallInv'
<1>1. job.path \in DOMAIN pool /\ JobTyped /\ job.time \in Nat /\ now \in Nat
  BY Bounds DEF OpenFails, Reopen, Open, CallInv, StillThere, TypeInv, JobTyped, Job, ClockTyped
<1>2. /\ job' \in Job /\ job'.time = job.time /\ job'.path = job.path
      /\ job'.stage \in {"search", "returned"}
      /\ UNCHANGED <<files, pool, bak, now, crossDevice>>
  <2>1. CASE OpenFails
    BY <1>1, <2>1, CallReturnsTyped DEF OpenFails
  <2>2. CASE Reopen \/ Open
    BY <1>1, <2>2 DEF Reopen, Open, JobTyped, Job, Stages
  <2>3. QED
    BY <2>1, <2>2
<1>3. log' \in [0 .. Day(MaxTime) -> Seq(Record)]
  <2> DEFINE none == <<>>
  <2>1. none \in Seq(Record)
    OBVIOUS
  <2>2. log' = log \/ log' = [log EXCEPT ![Day(job.time)] = none]
    BY DEF OpenFails, Reopen, Open
  <2> HIDE DEF none
  <2>3. QED
    BY <2>1, <2>2 DEF CallInv, TypeInv, LogTyped
<1>4. TypeInv'
  BY <1>1, <1>2, <1>3, JobStep DEF CallInv, JobTyped
<1>5. QED
  BY <1>1, <1>2, <1>4 DEF CallInv, StillThere, RecordIsMine, ErrorMeansKept

\* The search leaves the call with a record of its path that is not done.
LEMMA SearchCall ==
    ASSUME CallInv, FoundDone \/ FoundUndone \/ LogDelete \/ LogFails
    PROVE  CallInv'
<1>1. /\ job.path \in DOMAIN pool /\ job.stage = "search" /\ TypeInv
      /\ UNCHANGED <<files, pool, bak, now, crossDevice>>
  BY DEF FoundDone, FoundUndone, LogDelete, LogFails, CallInv, StillThere
<1>2. Day(job.time) \in DOMAIN log /\ DayLog \in Seq(Record) /\ Len(DayLog) \in Nat
  BY <1>1, DayLogTyped
<1>3. CASE FoundDone \/ LogFails
  <2>1. /\ job' \in Job /\ job'.time = job.time /\ job'.path = job.path /\ job'.stage = "drop"
        /\ log' = log
    BY <1>1, <1>3 DEF FoundDone, LogFails, TypeInv, JobTyped, Job, Stages
  <2>2. TypeInv'
    BY <1>1, <2>1, JobStep DEF TypeInv, LogTyped, JobTyped
  <2>3. QED
    BY <1>1, <2>1, <2>2 DEF CallInv, StillThere, RecordIsMine, ErrorMeansKept
<1>4. CASE FoundUndone
  <2>1. Newest(Hits) \in Hits /\ Newest(Hits) \in DOMAIN DayLog /\ ~DayLog[Newest(Hits)].done
    BY <1>1, <1>4, NewestHit DEF FoundUndone
  <2>2. DayLog[Newest(Hits)].path = job.path /\ Newest(Hits) \in Nat
    <3>1. Newest(Hits) \in Nat
      BY <1>2, <2>1
    <3>2. \A k \in Hits : DayLog[k].path = job.path
      BY DEF Hits
    <3>3. QED
      BY <2>1, <3>1, <3>2
  <2>3. /\ job' \in Job /\ job'.time = job.time /\ job'.path = job.path /\ job'.stage = "save"
        /\ job'.at = Newest(Hits) /\ log' = log
    BY <1>1, <1>4, <2>2 DEF FoundUndone, TypeInv, JobTyped, Job, Stages
  <2>4. TypeInv'
    BY <1>1, <2>3, JobStep DEF TypeInv, LogTyped, JobTyped
  <2>5. RecordIsMine'
    BY <2>1, <2>2, <2>3 DEF RecordIsMine, DayLog
  <2>6. QED
    BY <1>1, <2>3, <2>4, <2>5 DEF CallInv, StillThere, ErrorMeansKept
<1>5. CASE LogDelete
  <2> DEFINE r == [time |-> job.time, path |-> job.path, done |-> FALSE]
  <2>1. r \in Record /\ r.path = job.path /\ ~r.done
    BY <1>1 DEF TypeInv, JobTyped, Job, Record
  <2> HIDE DEF r
  <2>2. /\ Append(DayLog, r) \in Seq(Record) /\ Len(Append(DayLog, r)) = Len(DayLog) + 1
        /\ Append(DayLog, r)[Len(DayLog) + 1] = r
    BY <1>2, <2>1
  <2>3. log' = [log EXCEPT ![Day(job.time)] = Append(DayLog, r)]
    BY <1>5 DEF LogDelete, DayLog, r
  <2>4. /\ job' \in Job /\ job'.time = job.time /\ job'.path = job.path /\ job'.stage = "save"
        /\ job'.at = Len(DayLog) + 1
    <3>1. job' = [job EXCEPT !.stage = "save", !.at = Len(DayLog) + 1, !.fresh = TRUE]
      BY <1>5 DEF LogDelete
    <3>2. Len(DayLog) + 1 \in Nat
      BY <1>2
    <3>3. QED
      BY <1>1, <3>1, <3>2 DEF TypeInv, JobTyped, Job, Stages
  <2>5. log' \in [0 .. Day(MaxTime) -> Seq(Record)] /\ log'[Day(job.time)] = Append(DayLog, r)
    BY <1>1, <1>2, <2>2, <2>3 DEF TypeInv, LogTyped
  <2>6. TypeInv'
    BY <1>1, <2>4, <2>5, JobStep DEF TypeInv, JobTyped
  <2>7. RecordIsMine'
    <3>1. DayLog' = Append(DayLog, r)
      BY <2>4, <2>5 DEF DayLog
    <3>2. job'.at \in DOMAIN DayLog' /\ DayLog'[job'.at] = r
      BY <1>2, <2>2, <2>4, <3>1
    <3>3. QED
      BY <2>1, <2>4, <3>2 DEF RecordIsMine
  <2>8. QED
    BY <1>1, <2>4, <2>6, <2>7 DEF CallInv, StillThere, ErrorMeansKept
<1>6. QED
  BY <1>3, <1>4, <1>5

\* A piece of a file is made of its blocks.
LEMMA PieceTyped ==
    ASSUME TypeInv, job.path \in DOMAIN pool
    PROVE  /\ Source \in Seq((DOMAIN files) \X Nat) /\ Len(Source) = files[pool[job.path]].size
           /\ \A i \in 1 .. Len(Source) : Source[i] = <<pool[job.path], i>>
           /\ Copied \in Seq((DOMAIN files) \X Nat)
           /\ Piece \in Seq((DOMAIN files) \X Nat)
<1>1. pool[job.path] \in DOMAIN files /\ files[pool[job.path]] \in File
  BY DEF TypeInv, PoolTyped
<1>2. PICK v \in DOMAIN files : v = pool[job.path]
  BY <1>1
<1>3. PICK n \in Nat : n = files[v].size
  BY <1>1, <1>2 DEF File
<1>4. Source = [i \in 1 .. n |-> <<v, i>>]
  BY <1>2, <1>3 DEF Source, Blocks
<1>5. /\ Source \in Seq((DOMAIN files) \X Nat) /\ Len(Source) = n
      /\ \A i \in 1 .. n : Source[i] = <<v, i>>
  <2>1. \A i \in 1 .. n : <<v, i>> \in (DOMAIN files) \X Nat
    BY <1>2
  <2>2. Source \in [1 .. n -> (DOMAIN files) \X Nat]
    BY <1>4, <2>1
  <2>3. Source \in Seq((DOMAIN files) \X Nat)
    BY <1>3, <2>2
  <2>4. DOMAIN Source = 1 .. n /\ \A i \in 1 .. n : Source[i] = <<v, i>>
    BY <1>4
  <2>5. QED
    BY <1>3, <2>3, <2>4, LenProperties
<1>6. Copied \in Seq((DOMAIN files) \X Nat)
  BY EmptySeq DEF Copied, TypeInv, BakTyped
<1>7. PICK m \in Int : Piece = SubSeq(Source, Len(Copied) + 1, m) /\ m <= Len(Source)
  <2>1. Chunk \in Nat /\ Len(Copied) \in Nat
    BY <1>6, Bounds
  <2>2. Len(Source) \in Nat /\ Len(Copied) + Chunk \in Int
    BY <1>3, <1>5, <2>1
  <2> DEFINE m == IF Len(Copied) + Chunk < Len(Source) THEN Len(Copied) + Chunk ELSE Len(Source)
  <2>3. m \in Int /\ m <= Len(Source)
    BY <2>2
  <2>4. Piece = SubSeq(Source, Len(Copied) + 1, m)
    BY DEF Piece
  <2> HIDE DEF m
  <2>5. QED
    BY <2>3, <2>4
<1>8. Piece \in Seq((DOMAIN files) \X Nat)
  <2>1. Len(Copied) + 1 \in Int /\ Len(Copied) + 1 >= 1
    BY <1>6
  <2>2. \A i \in Len(Copied) + 1 .. m : Source[i] \in (DOMAIN files) \X Nat
    BY <1>5, <1>7, <2>1
  <2>3. QED
    BY <1>7, <2>1, <2>2, SubSeqProperties
<1>9. QED
  BY <1>2, <1>3, <1>5, <1>6, <1>8

LEMMA SaveCall ==
    ASSUME CallInv,
           Rename \/ RenameFails \/ CopyMore \/ CopyLast \/ CopyFails \/ ReadFails
    PROVE  CallInv'
<1>1. /\ job.path \in DOMAIN pool /\ job.stage = "save" /\ TypeInv /\ JobTyped
      /\ UNCHANGED <<files, log, now, crossDevice>>
  BY DEF Rename, RenameFails, CopyMore, CopyLast, CopyFails, ReadFails, CallInv, StillThere,
         TypeInv
<1>2. /\ job' \in Job /\ job'.time = job.time /\ job'.path = job.path
      /\ job'.stage \in {"open", "unlink", "mark", "returned"}
      /\ job'.stage \in {"unlink", "mark"} => job'.at = job.at
      /\ ~Rename /\ ~RenameFails => job'.stage # "mark"
  <2>1. CASE Rename \/ RenameFails
    BY <1>1, <2>1 DEF Rename, RenameFails, JobTyped, Job, Stages
  <2>2. CASE CopyLast
    BY <1>1, <2>2 DEF CopyLast, JobTyped, Job, Stages
  <2>3. CASE CopyMore
    BY <1>1, <2>3, CallReturnsTyped DEF CopyMore
  <2>4. CASE CopyFails
    BY <1>1, <2>4, CallReturnsTyped DEF CopyFails
  <2>5. CASE ReadFails
    BY <1>1, <2>5, CallReturnsTyped DEF ReadFails
  <2>6. QED
    BY <2>1, <2>2, <2>3, <2>4, <2>5
<1>3. CASE Rename
  <2>1. pool' = Without(pool, job.path) /\ bak' = Written(bak, Target, Source) /\ job'.stage = "mark"
    BY <1>1, <1>3 DEF Rename, Source, JobTyped, Job
  <2>2. BakTyped'
    BY <1>1, <2>1, PieceTyped, BakStep
  <2>3. PoolTyped'
    BY <1>1, <2>1 DEF TypeInv, PoolTyped, Without, Restrict
  <2>4. TypeInv'
    BY <1>1, <1>2, <2>2, <2>3 DEF TypeInv, LogTyped, JobTyped, ClockTyped
  <2>5. QED
    BY <1>1, <1>2, <2>1, <2>4 DEF CallInv, StillThere, RecordIsMine, ErrorMeansKept, DayLog
<1>4. CASE RenameFails \/ CopyMore \/ CopyLast \/ CopyFails \/ ReadFails
  <2>1. pool' = pool
    BY <1>4 DEF RenameFails, CopyMore, CopyLast, CopyFails, ReadFails
  <2>2. BakTyped'
    <3>1. CASE RenameFails
      BY <1>1, <3>1 DEF RenameFails, TypeInv, BakTyped
    <3>2. CASE CopyMore \/ CopyLast
      <4>1. Copied \o Piece \in Seq((DOMAIN files) \X Nat)
        BY <1>1, PieceTyped, ConcatProperties
      <4>2. bak' = Written(bak, Target, Copied \o Piece)
        BY <3>2 DEF CopyMore, CopyLast
      <4>3. QED
        BY <1>1, <4>1, <4>2, BakStep
    <3>3. CASE CopyFails \/ ReadFails
      <4>1. PICK k \in 0 .. Len(Piece) : bak' = Written(bak, Target, Copied \o SubSeq(Piece, 1, k))
        BY <3>3 DEF CopyFails, ReadFails
      <4>2. SubSeq(Piece, 1, k) \in Seq((DOMAIN files) \X Nat)
        BY <1>1, PieceTyped
      <4>3. Copied \o SubSeq(Piece, 1, k) \in Seq((DOMAIN files) \X Nat)
        BY <1>1, <4>2, PieceTyped, ConcatProperties
      <4>4. QED
        BY <1>1, <4>1, <4>3, BakStep
    <3>4. QED
      BY <1>4, <3>1, <3>2, <3>3
  <2>3. TypeInv'
    BY <1>1, <1>2, <2>1, <2>2 DEF TypeInv, PoolTyped, LogTyped, JobTyped, ClockTyped
  <2>4. QED
    BY <1>1, <1>2, <2>1, <2>3 DEF CallInv, StillThere, RecordIsMine, ErrorMeansKept, DayLog
<1>5. QED
  BY <1>3, <1>4

\* MarkDone changes one record of the log, and only its mark.
LEMMA MarkTyped ==
    ASSUME TypeInv, MarkDone, RecordIsMine
    PROVE  /\ log' \in [0 .. Day(MaxTime) -> Seq(Record)]
           /\ \A d \in DOMAIN log : /\ DOMAIN log'[d] = DOMAIN log[d] /\ Len(log'[d]) = Len(log[d])
                                    /\ \A k \in DOMAIN log[d] :
                                         /\ log'[d][k].time = log[d][k].time
                                         /\ log'[d][k].path = log[d][k].path
                                         /\ d # Day(job.time) \/ k # job.at => log'[d][k] = log[d][k]
           /\ log'[Day(job.time)][job.at].done = TRUE
<1> DEFINE r == [DayLog[job.at] EXCEPT !.done = TRUE]
<1>1. /\ Day(job.time) \in DOMAIN log /\ DayLog \in Seq(Record) /\ job.at \in 1 .. Len(DayLog)
      /\ Len(DayLog) \in Nat
  BY DayLogTyped DEF MarkDone, RecordIsMine
<1>2. DayLog[job.at] \in Record
  BY <1>1
<1>3. r \in Record /\ r.time = DayLog[job.at].time /\ r.path = DayLog[job.at].path /\ r.done = TRUE
  BY <1>2 DEF Record
<1>4. log' = [log EXCEPT ![Day(job.time)] = [DayLog EXCEPT ![job.at] = r]]
  BY DEF MarkDone, DayLog
<1> HIDE DEF r
<1>5. /\ [DayLog EXCEPT ![job.at] = r] \in Seq(Record)
      /\ Len([DayLog EXCEPT ![job.at] = r]) = Len(DayLog)
      /\ \A k \in 1 .. Len(DayLog) : [DayLog EXCEPT ![job.at] = r][k] = IF k = job.at THEN r ELSE DayLog[k]
  BY <1>1, <1>3, ExceptSeq
<1>6. /\ log' \in [0 .. Day(MaxTime) -> Seq(Record)]
      /\ \A d \in DOMAIN log : d # Day(job.time) => log'[d] = log[d]
      /\ log'[Day(job.time)] = [DayLog EXCEPT ![job.at] = r]
  BY <1>1, <1>4, <1>5 DEF TypeInv, LogTyped
<1>7. QED
  <2>1. log'[Day(job.time)][job.at] = r
    BY <1>1, <1>5, <1>6
  <2>2. ASSUME NEW d \in DOMAIN log, d = Day(job.time)
        PROVE  /\ DOMAIN log'[d] = DOMAIN log[d] /\ Len(log'[d]) = Len(log[d])
               /\ \A k \in DOMAIN log[d] :
                    /\ log'[d][k].time = log[d][k].time
                    /\ log'[d][k].path = log[d][k].path
                    /\ d # Day(job.time) \/ k # job.at => log'[d][k] = log[d][k]
    <3>1. log[d] = DayLog /\ log'[d] = [DayLog EXCEPT ![job.at] = r]
      BY <1>6, <2>2 DEF DayLog
    <3>2. DOMAIN log[d] = 1 .. Len(DayLog) /\ DOMAIN log'[d] = 1 .. Len(DayLog)
      BY <1>1, <1>5, <3>1
    <3>3. QED
      BY <1>1, <1>3, <1>5, <2>2, <3>1, <3>2
  <2>3. QED
    BY <1>3, <1>6, <2>1, <2>2

LEMMA EndCall ==
    ASSUME CallInv,
           \/ UnlinkSource \/ UnlinkFails \/ MarkDone \/ MarkFails \/ DropUnsaved
           \/ \E n \in 1 .. MaxSize : Return(n)
    PROVE  CallInv'
<1>1. TypeInv /\ JobTyped /\ job.time \in Nat /\ now \in Nat
  BY Bounds DEF CallInv, TypeInv, JobTyped, Job, ClockTyped
<1>2. CASE UnlinkSource
  <2>1. /\ job' \in Job /\ job'.time = job.time /\ job'.stage = "mark" /\ job'.at = job.at
        /\ job'.path = job.path /\ job.stage = "unlink"
        /\ UNCHANGED <<files, bak, log, now, crossDevice>> /\ pool' = Without(pool, job.path)
    BY <1>1, <1>2 DEF UnlinkSource, JobTyped, Job, Stages
  <2>2. TypeInv'
    BY <1>1, <2>1, JobStep DEF TypeInv, LogTyped, JobTyped
  <2>3. QED
    BY <2>1, <2>2 DEF CallInv, StillThere, RecordIsMine, ErrorMeansKept, DayLog
<1>3. CASE UnlinkFails \/ MarkDone \/ MarkFails \/ DropUnsaved
  <2>1. /\ job' \in Job /\ job'.time = job.time /\ job'.stage = "returned" /\ job'.path = job.path
        /\ UnlinkFails \/ job'.ret = 0
    <3>1. CASE UnlinkFails
      BY <1>1, <3>1, CallReturnsTyped DEF UnlinkFails
    <3>2. CASE MarkDone
      <4>1. CallReturns(0)
        BY <3>2 DEF MarkDone
      <4>2. QED
        BY <1>1, <4>1, CallReturnsTyped
    <3>3. CASE MarkFails \/ DropUnsaved
      <4>1. CallReturns(0)
        BY <3>3 DEF MarkFails, DropUnsaved
      <4>2. QED
        BY <1>1, <4>1, CallReturnsTyped
    <3>4. QED
      BY <1>3, <3>1, <3>2, <3>3
  <2>2. /\ UNCHANGED <<files, bak, now, crossDevice>>
        /\ UNCHANGED pool \/ pool' = Without(pool, job.path)
        /\ UnlinkFails => UNCHANGED pool /\ job.stage = "unlink"
    BY <1>3 DEF UnlinkFails, MarkDone, MarkFails, DropUnsaved
  <2>3. log' \in [0 .. Day(MaxTime) -> Seq(Record)]
    BY <1>1, <1>3, MarkTyped DEF UnlinkFails, MarkDone, MarkFails, DropUnsaved, CallInv, TypeInv, LogTyped
  <2>4. TypeInv'
    BY <1>1, <2>1, <2>2, <2>3, JobStep DEF JobTyped
  <2>5. QED
    BY <2>1, <2>2, <2>4 DEF CallInv, StillThere, RecordIsMine, ErrorMeansKept
<1>4. ASSUME NEW n \in 1 .. MaxSize, Return(n)
      PROVE  CallInv'
  <2>1. job' \in Job /\ job'.time = 0 /\ job'.stage = "idle"
    BY <1>4, NoJobTyped DEF Return
  <2>2. TypeInv'
    <3>1. CASE job.put
      <4>1. job.path \in Paths
        BY <1>1 DEF JobTyped, Job
      <4>2. /\ NewFile(job.path, n) /\ pool' = Written(pool, job.path, Len(files) + 1)
            /\ UNCHANGED <<bak, log, now, crossDevice>>
        BY <1>4, <3>1 DEF Return
      <4>3. job'.time <= now
        BY <1>1, <2>1
      <4>4. QED
        BY <1>1, <2>1, <4>1, <4>2, <4>3, NewFileTyped
    <3>2. CASE ~job.put
      BY <1>1, <1>4, <2>1, <3>2, JobStep DEF Return, TypeInv, LogTyped
    <3>3. QED
      BY <3>1, <3>2
  <2>3. QED
    BY <2>1, <2>2 DEF CallInv, StillThere, RecordIsMine, ErrorMeansKept
<1>5. QED
  BY <1>2, <1>3, <1>4

\* A record that was not written out is the last of its log.
LEMMA LostTyped ==
    ASSUME TypeInv, Crash
    PROVE  /\ log' \in [0 .. Day(MaxTime) -> Seq(Record)]
           /\ \A d \in DOMAIN log : /\ Len(log'[d]) <= Len(log[d]) /\ DOMAIN log'[d] \subseteq DOMAIN log[d]
                                    /\ \A k \in DOMAIN log'[d] : log'[d][k] = log[d][k]
<1> DEFINE s == SubSeq(DayLog, 1, Len(DayLog) - 1)
<1>1. /\ Day(job.time) \in DOMAIN log /\ DayLog \in Seq(Record) /\ Len(DayLog) \in Nat
      /\ DOMAIN DayLog = 1 .. Len(DayLog)
  BY DayLogTyped
<1>2. /\ s \in Seq(Record) /\ Len(s) <= Len(DayLog) /\ DOMAIN s \subseteq DOMAIN DayLog
      /\ \A k \in DOMAIN s : s[k] = DayLog[k]
  BY <1>1
<1>3. log' = log \/ log' = [log EXCEPT ![Day(job.time)] = s]
  BY DEF Crash, DayLog
<1> HIDE DEF s
<1>4. CASE log' = log
  <2>1. \A d \in DOMAIN log : log[d] \in Seq(Record)
    BY DEF TypeInv, LogTyped
  <2>2. QED
    BY <1>4, <2>1 DEF TypeInv, LogTyped
<1>5. CASE log' = [log EXCEPT ![Day(job.time)] = s]
  <2>1. \A d \in DOMAIN log : log[d] \in Seq(Record) /\ Len(log[d]) \in Nat
    BY DEF TypeInv, LogTyped
  <2>2. \A d \in DOMAIN log : log'[d] = IF d = Day(job.time) THEN s ELSE log[d]
    BY <1>1, <1>5 DEF TypeInv, LogTyped
  <2>3. log' \in [0 .. Day(MaxTime) -> Seq(Record)]
    BY <1>2, <1>5 DEF TypeInv, LogTyped
  <2>4. QED
    BY <1>2, <2>1, <2>2, <2>3 DEF DayLog
<1>6. QED
  BY <1>3, <1>4, <1>5

LEMMA ClockCall ==
    ASSUME CallInv, Crash \/ Tick
    PROVE  CallInv'
<1>1. /\ UNCHANGED <<files, pool, bak, crossDevice>> /\ now' = now + 1 /\ now' \in 0 .. MaxTime
      /\ now \in Nat /\ TypeInv
  BY Bounds DEF Crash, Tick, CallInv, TypeInv, ClockTyped
<1>2. PoolTyped' /\ BakTyped' /\ ClockTyped'
  BY <1>1 DEF TypeInv, PoolTyped, BakTyped, ClockTyped
<1>3. CASE Crash
  <2>1. job' \in Job /\ job'.time = 0 /\ job'.stage = "idle"
    BY <1>3, NoJobTyped DEF Crash
  <2>2. LogTyped'
    BY <1>1, <1>3, LostTyped DEF LogTyped
  <2>3. JobTyped'
    BY <1>1, <2>1 DEF JobTyped
  <2>4. QED
    BY <1>2, <2>1, <2>2, <2>3 DEF CallInv, TypeInv, StillThere, RecordIsMine, ErrorMeansKept
<1>4. CASE Tick
  <2>1. job' = job /\ log' = log
    BY <1>4 DEF Tick
  <2>2. LogTyped' /\ JobTyped'
    BY <1>1, <2>1 DEF TypeInv, LogTyped, JobTyped, Job
  <2>3. QED
    BY <1>1, <1>2, <2>1, <2>2 DEF CallInv, TypeInv, StillThere, RecordIsMine, ErrorMeansKept, DayLog
<1>5. QED
  BY <1>3, <1>4

LEMMA CallStart ==
    ASSUME Init
    PROVE  CallInv
<1>1. JobTyped /\ job.stage = "idle"
  BY NoJobTyped DEF Init, JobTyped
<1>2. PoolTyped /\ BakTyped
  BY DEF Init, PoolTyped, BakTyped
<1>3. LogTyped
  BY DEF Init, LogTyped
<1>4. ClockTyped
  BY BackupAssumption DEF Init, ClockTyped
<1>5. QED
  BY <1>1, <1>2, <1>3, <1>4 DEF CallInv, TypeInv, StillThere, RecordIsMine, ErrorMeansKept

LEMMA CallNext ==
    ASSUME CallInv, [Next]_vars
    PROVE  CallInv'
<1>1. CASE \E path \in Paths, n \in 1 .. MaxSize : PutNew(path, n)
  BY <1>1, ClientsCall
<1>2. CASE \E path \in Paths, put \in BOOLEAN : Begin(path, put) \/ UnlinkLarge(path, put)
  BY <1>2, ClientsCall
<1>3. CASE Working
  <2>1. CASE \E n \in 1 .. MaxSize : Return(n)
    BY <2>1, EndCall
  <2>2. CASE UnlinkSource \/ UnlinkFails \/ MarkDone \/ MarkFails \/ DropUnsaved
    BY <2>2, EndCall
  <2>3. QED
    BY <1>3, <2>1, <2>2, OpenCall, SearchCall, SaveCall DEF Working
<1>4. CASE Crash \/ Tick
  BY <1>4, ClockCall
<1>5. CASE UNCHANGED vars
  BY <1>5 DEF vars, CallInv, TypeInv, PoolTyped, BakTyped, LogTyped, JobTyped, ClockTyped,
              StillThere, RecordIsMine, ErrorMeansKept, DayLog
<1>6. QED
  BY <1>1, <1>2, <1>3, <1>4, <1>5 DEF Next

\* Whatever fails, the record that a call marks is one of its own path that
\* was not marked before.
THEOREM RecordIsMineAlways == Spec => []RecordIsMine
<1>1. CallInv => RecordIsMine
  BY DEF CallInv
<1>2. QED
  BY CallStart, CallNext, <1>1, PTL DEF Spec

\* Whatever fails, cloud_delete returns an error only with the file still there.
THEOREM ErrorMeansKeptAlways == Spec => []ErrorMeansKept
<1>1. CallInv => ErrorMeansKept
  BY DEF CallInv
<1>2. QED
  BY CallStart, CallNext, <1>1, PTL DEF Spec

-----------------------------------------------------------------------------
(* What the backup holds when nothing fails but workers, and the record of a *)
(* deletion at most.                                                        *)

\* Paths that differ have names that differ: one directory, for instance.
NamesApart == \A p, q \in Paths : p[2] = q[2] => p = q

\* No call returns an error: a worker may die at any time, and reads fail unseen.
NoErrors == Faults \subseteq {"crash", "read"}
Mild == Faults \subseteq {"crash", "read", "log"}

\* The second of the call under way, or the present one.
When == IF job.stage = "idle" THEN now ELSE job.time

\* The backup b has the first blocks of the version v, and nothing else.
Starts(b, v) == /\ Len(bak[b]) <= files[v].size
                /\ \A i \in 1 .. Len(bak[b]) : bak[b][i] = <<v, i>>

\* The records of a log are in the order of their times, and neither a record
\* nor a backup is later than the call under way.
InOrder ==
    /\ \A d \in DOMAIN log : \A k \in DOMAIN log[d] :
           /\ log[d][k].time <= When
           /\ \A j \in 1 .. k : log[d][j].time <= log[d][k].time
    /\ \A b \in DOMAIN bak : b[2] <= When

\* The place k has the last record of the path, and a search at time t finds it.
LastOf(path, t, k) ==
    /\ k \in DOMAIN log[Day(t)] /\ log[Day(t)][k].path = path
    /\ \A j \in k .. Len(log[Day(t)]) : t - log[Day(t)][j].time <= Interval
    /\ \A j \in k + 1 .. Len(log[Day(t)]) : log[Day(t)][j].path # path

\* A backup of this second is marked, and the search finds the mark.
Marked(path, t) ==
    <<path[2], t>> \in DOMAIN bak =>
        \E k \in DOMAIN log[Day(t)] : LastOf(path, t, k) /\ log[Day(t)][k].done

OthersMarked == \A p \in Paths : job.stage = "idle" \/ p # job.path => Marked(p, When)

\* The call has its record at the place k, and what it copied so far is from
\* the file it works on.
Begun(k) == /\ LastOf(job.path, job.time, k) /\ ~DayLog[k].done
            /\ Target \in DOMAIN bak => Starts(Target, pool[job.path])

TargetWhole == Target \in DOMAIN bak /\ bak[Target] = Source

\* From its search to its mark a call goes on with its own copy, and a call
\* that finds a copy of this second finds it marked.
OwnCopy ==
    /\ job.stage \in {"open", "search"} =>
          Marked(job.path, job.time) \/ \E k \in DOMAIN DayLog : Begun(k)
    /\ job.stage \in {"save", "unlink"} => Begun(job.at)
    /\ job.stage = "unlink" => TargetWhole
    /\ job.stage = "mark" =>
          /\ LastOf(job.path, job.time, job.at) /\ Target \in DOMAIN bak
          /\ \E v \in DOMAIN files : files[v].path = job.path /\ bak[Target] = Blocks(v)
    /\ job.stage \in {"drop", "returned"} => Marked(job.path, job.time)

\* The file has left when its mark is made, or when the call returns.
Gone == job.stage \in {"mark", "returned"} => job.path \notin DOMAIN pool

\* A file is dropped without a copy because there is a recent one.
DropIsSaved == job.stage = "drop" /\ NoErrors => RecentlySaved(job.path, job.time)

BackupInv == InOrder /\ OthersMarked /\ OwnCopy /\ Gone /\ DropIsSaved /\ DoneIsSaved /\ NeverMixed

-----------------------------------------------------------------------------
LEMMA CallPlaces ==
    ASSUME TypeInv
    PROVE  /\ job.path \in Paths /\ job.time \in Nat /\ now \in Nat /\ job.time <= now
           /\ job.at \in Nat /\ job.stage \in Stages
           /\ Interval \in Nat /\ Target = <<job.path[2], job.time>>
           /\ Target[1] = job.path[2] /\ Target[2] = job.time
           /\ \A t \in Nat : t <= now => Day(t) \in DOMAIN log
  BY Bounds, DayInRange DEF TypeInv, JobTyped, ClockTyped, LogTyped, Job, Target, BackupName

LEMMA LogPlaces ==
    ASSUME TypeInv, NEW d \in DOMAIN log
    PROVE  /\ log[d] \in Seq(Record) /\ Len(log[d]) \in Nat /\ DOMAIN log[d] = 1 .. Len(log[d])
           /\ \A k \in DOMAIN log[d] : /\ log[d][k] \in Record /\ log[d][k].time \in Nat
                                       /\ log[d][k].path \in Paths
<1>1. log[d] \in Seq(Record)
  BY DEF TypeInv, LogTyped
<1>2. DOMAIN log[d] = 1 .. Len(log[d]) /\ Len(log[d]) \in Nat
  BY <1>1
<1>3. \A k \in DOMAIN log[d] : log[d][k] \in Record
  BY <1>1, <1>2
<1>4. \A k \in DOMAIN log[d] : log[d][k].time \in Nat /\ log[d][k].path \in Paths
  BY <1>3 DEF Record
<1>5. QED
  BY <1>1, <1>2, <1>3, <1>4

\* A log has one last record of a path.
LEMMA LastIsOne ==
    ASSUME TypeInv, NEW t \in Nat, t <= now, NEW path, NEW j, NEW k,
           LastOf(path, t, j), LastOf(path, t, k)
    PROVE  j = k
<1>1. Day(t) \in DOMAIN log
  BY CallPlaces
<1>2. DOMAIN log[Day(t)] = 1 .. Len(log[Day(t)]) /\ Len(log[Day(t)]) \in Nat
  BY <1>1, LogPlaces
<1>3. QED
  BY <1>2 DEF LastOf

\* It is the one the search comes upon.
LEMMA LastIsHit ==
    ASSUME TypeInv
    PROVE  /\ \A k : LastOf(job.path, job.time, k) => k \in Hits
           /\ Hits # {} => LastOf(job.path, job.time, Newest(Hits))
<1>1. DOMAIN DayLog = 1 .. Len(DayLog) /\ Len(DayLog) \in Nat
  BY DayLogTyped
<1>2. ASSUME NEW k, LastOf(job.path, job.time, k)
      PROVE  k \in Hits
  BY <1>2 DEF LastOf, Hits, Young, DayLog
<1>3. ASSUME Hits # {}
      PROVE  LastOf(job.path, job.time, Newest(Hits))
  <2>1. PICK n : n = Newest(Hits)
    OBVIOUS
  <2>2. n \in Hits /\ \A j \in Hits : j <= n
    BY <1>3, <2>1, NewestHit
  <2>3. n \in 1 .. Len(DayLog) /\ DayLog[n].path = job.path /\ \A j \in n .. Len(DayLog) : Young(j)
    BY <1>1, <2>2 DEF Hits
  <2>4. ASSUME NEW j \in n + 1 .. Len(DayLog), DayLog[j].path = job.path
        PROVE  FALSE
    <3>1. j \in Hits
      BY <1>1, <2>3, <2>4 DEF Hits
    <3>2. QED
      BY <2>2, <2>3, <3>1
  <2>5. QED
    BY <1>1, <2>1, <2>3, <2>4 DEF LastOf, Young, DayLog
<1>4. QED
  BY <1>2, <1>3

\* Two versions have no copy in common.
LEMMA OneVersion ==
    ASSUME TypeInv, NEW v \in DOMAIN files, NEW w \in DOMAIN files, NEW b \in DOMAIN bak,
           bak[b] = Blocks(v), Starts(b, w)
    PROVE  v = w
<1>1. files[v].size \in Nat /\ files[v].size >= 1
  <2>1. files[v] \in File /\ files[v].size >= 1
    BY DEF TypeInv, PoolTyped
  <2>2. QED
    BY <2>1 DEF File
<1>2. 1 \in 1 .. files[v].size /\ Blocks(v)[1] = <<v, 1>>
  BY <1>1 DEF Blocks
<1>3. Len(bak[b]) = files[v].size
  <2>1. bak[b] \in Seq((DOMAIN files) \X Nat) /\ DOMAIN bak[b] = 1 .. files[v].size
    BY DEF Blocks, TypeInv, BakTyped
  <2>2. QED
    BY <1>1, <2>1, LenProperties
<1>4. bak[b][1] = <<w, 1>>
  BY <1>2, <1>3 DEF Starts
<1>5. QED
  BY <1>2, <1>4

\* The blocks of a version stay what they are.
LEMMA BlocksStay ==
    ASSUME NEW v \in DOMAIN files, files'[v] = files[v]
    PROVE  Blocks(v)' = Blocks(v)
  BY DEF Blocks

\* Steps that leave the backup and its log alone.
LEMMA QuietStep ==
    ASSUME TypeInv, BackupInv, UNCHANGED <<log, bak>>, When <= When', When' \in Nat,
           DOMAIN files \subseteq DOMAIN files', \A v \in DOMAIN files : files'[v] = files[v]
    PROVE  InOrder' /\ DoneIsSaved' /\ NeverMixed'
<1>1. When \in Nat
  BY CallPlaces DEF When
<1>2. InOrder'
  <2>1. ASSUME NEW d \in DOMAIN log, NEW k \in DOMAIN log[d]
        PROVE  log[d][k].time <= When'
    BY <1>1, LogPlaces DEF BackupInv, InOrder
  <2>2. ASSUME NEW b \in DOMAIN bak
        PROVE  b[2] <= When'
    <3>1. b[2] \in Nat
      BY DEF TypeInv, BakTyped
    <3>2. QED
      BY <1>1, <3>1 DEF BackupInv, InOrder
  <2>3. QED
    BY <2>1, <2>2 DEF BackupInv, InOrder
<1>3. DoneIsSaved'
  <2>1. ASSUME NEW d \in DOMAIN log, NEW k \in DOMAIN log[d], log[d][k].done
        PROVE  \E b \in DOMAIN bak :
                   /\ b[1] = log[d][k].path[2] /\ b[2] >= log[d][k].time
                   /\ \E v \in DOMAIN files' : files'[v].path = log[d][k].path /\ bak[b] = Blocks(v)'
    <3>1. PICK b \in DOMAIN bak :
                   /\ b[1] = log[d][k].path[2] /\ b[2] >= log[d][k].time
                   /\ \E v \in DOMAIN files : files[v].path = log[d][k].path /\ bak[b] = Blocks(v)
      BY <2>1 DEF BackupInv, DoneIsSaved
    <3>2. PICK v \in DOMAIN files : files[v].path = log[d][k].path /\ bak[b] = Blocks(v)
      BY <3>1
    <3>3. v \in DOMAIN files' /\ files'[v].path = log[d][k].path /\ bak[b] = Blocks(v)'
      BY <3>2, BlocksStay
    <3>4. QED
      BY <3>1, <3>3
  <2>2. QED
    BY <2>1 DEF DoneIsSaved
<1>4. NeverMixed'
  BY DEF BackupInv, NeverMixed
<1>5. QED
  BY <1>2, <1>3, <1>4

\* A call writes into its own backup, from the file it works on, and over a
\* whole backup only the same again.
LEMMA WriteStep ==
    ASSUME CallInv, BackupInv, NamesApart, job.stage = "save",
           NEW x \in Seq((DOMAIN files) \X Nat), bak' = Written(bak, Target, x),
           Len(x) <= Len(Source), \A i \in 1 .. Len(x) : x[i] = Source[i],
           \A v \in DOMAIN files : Target \in DOMAIN bak /\ bak[Target] = Blocks(v) => x = bak[Target],
           UNCHANGED <<files, log>>, job'.time = job.time, job'.path = job.path, job'.stage # "idle"
    PROVE  /\ InOrder' /\ OthersMarked' /\ DoneIsSaved' /\ NeverMixed'
           /\ DOMAIN bak' = DOMAIN bak \cup {Target} /\ bak'[Target] = x /\ Target' = Target
           /\ \A b \in DOMAIN bak : \A v \in DOMAIN files : bak[b] = Blocks(v) => bak'[b] = bak[b]
<1>1. TypeInv /\ job.path \in DOMAIN pool /\ When = job.time /\ When' = job.time
  BY DEF CallInv, StillThere, When
<1>2. /\ DOMAIN bak' = DOMAIN bak \cup {Target} /\ bak'[Target] = x
      /\ \A b \in DOMAIN bak : b # Target => bak'[b] = bak[b]
  BY <1>1, BakStep
<1>3. Target' = Target /\ Target = <<job.path[2], job.time>>
  BY DEF Target, BackupName
<1>4. \A b \in DOMAIN bak : \A v \in DOMAIN files : bak[b] = Blocks(v) => bak'[b] = bak[b]
  BY <1>2
<1>5. InOrder'
  <2>1. \A b \in DOMAIN bak' : b[2] <= job.time
    <3>1. Target[2] = job.time /\ job.time \in Nat
      BY <1>1, CallPlaces
    <3>2. \A b \in DOMAIN bak : b[2] <= job.time
      BY <1>1 DEF BackupInv, InOrder
    <3>3. QED
      BY <1>2, <3>1, <3>2
  <2>2. QED
    BY <1>1, <2>1 DEF BackupInv, InOrder
<1>6. OthersMarked'
  <2>1. ASSUME NEW p \in Paths, p # job.path
        PROVE  Marked(p, job.time)'
    <3>1. p[2] # job.path[2] /\ Marked(p, job.time)
      BY <1>1, <2>1, CallPlaces DEF NamesApart, BackupInv, OthersMarked
    <3>2. <<p[2], job.time>> \in DOMAIN bak' => <<p[2], job.time>> \in DOMAIN bak
      BY <1>2, <1>3, <3>1
    <3>3. QED
      BY <3>1, <3>2 DEF Marked, LastOf
  <2>2. QED
    BY <1>1, <2>1 DEF OthersMarked, Marked, LastOf
<1>7. DoneIsSaved'
  <2>1. ASSUME NEW d \in DOMAIN log, NEW k \in DOMAIN log[d], log[d][k].done
        PROVE  \E b \in DOMAIN bak' :
                   /\ b[1] = log[d][k].path[2] /\ b[2] >= log[d][k].time
                   /\ \E v \in DOMAIN files : files[v].path = log[d][k].path /\ bak'[b] = Blocks(v)
    <3>1. PICK b \in DOMAIN bak, v \in DOMAIN files :
                   /\ b[1] = log[d][k].path[2] /\ b[2] >= log[d][k].time
                   /\ files[v].path = log[d][k].path /\ bak[b] = Blocks(v)
      BY <2>1 DEF BackupInv, DoneIsSaved
    <3>2. b \in DOMAIN bak' /\ bak'[b] = Blocks(v)
      BY <1>2, <1>4, <3>1
    <3>3. QED
      BY <3>1, <3>2
  <2>2. QED
    BY <2>1 DEF DoneIsSaved, Blocks
<1>8. NeverMixed'
  <2>1. PICK w \in DOMAIN files : w = pool[job.path] /\ files[w].path = job.path
    BY <1>1 DEF TypeInv, PoolTyped
  <2>2. \A i \in DOMAIN x : i <= files[w].size /\ x[i] = <<w, i>>
    <3>1. Len(Source) = files[w].size /\ \A i \in 1 .. Len(Source) : Source[i] = <<w, i>>
      BY <1>1, <2>1, PieceTyped
    <3>2. DOMAIN x = 1 .. Len(x) /\ Len(x) \in Nat /\ Len(Source) \in Nat
      BY <1>1, PieceTyped, LenProperties
    <3>3. QED
      BY <3>1, <3>2
  <2>3. files[w].path[2] = Target[1]
    BY <1>3, <2>1
  <2>4. QED
    BY <1>2, <2>2, <2>3 DEF BackupInv, NeverMixed
<1>9. QED
  BY <1>2, <1>3, <1>4, <1>5, <1>6, <1>7, <1>8

\* What the steps below rely on.
Sound == CallInv /\ CallInv' /\ BackupInv /\ NamesApart /\ Mild

\* Where no call is under way nothing is to be said of its copy.
LEMMA IdleStep ==
    ASSUME Sound, job'.stage = "idle", OthersMarked', InOrder', DoneIsSaved', NeverMixed'
    PROVE  BackupInv'
  BY DEF BackupInv, OwnCopy, Gone, DropIsSaved

\* A backup is as old as the call that made it, or older.
LEMMA NothingLater ==
    ASSUME TypeInv, BackupInv, NEW t \in Nat, t > When, UNCHANGED bak
    PROVE  \A p : Marked(p, t)'
<1>1. When \in Nat /\ \A b \in DOMAIN bak : b[2] \in Nat /\ b[2] <= When
  BY CallPlaces DEF When, BackupInv, InOrder, TypeInv, BakTyped
<1>2. \A p : <<p[2], t>> \notin DOMAIN bak
  <2>1. ASSUME NEW p, <<p[2], t>> \in DOMAIN bak
        PROVE  FALSE
    <3>1. <<p[2], t>>[2] = t
      OBVIOUS
    <3>2. QED
      BY <1>1, <2>1, <3>1
  <2>2. QED
    BY <2>1
<1>3. QED
  BY <1>2 DEF Marked

LEMMA ClientsBackup ==
    ASSUME Sound, NEW path \in Paths, NEW put \in BOOLEAN,
           \/ \E n \in 1 .. MaxSize : PutNew(path, n)
           \/ Begin(path, put) \/ UnlinkLarge(path, put)
    PROVE  BackupInv'
<1>1. /\ TypeInv /\ job.stage = "idle" /\ UNCHANGED <<log, bak, now>> /\ now \in Nat /\ When = now
      /\ \A p \in Paths : Marked(p, now)
  BY CallPlaces DEF Sound, CallInv, PutNew, Begin, UnlinkLarge, BackupInv, OthersMarked, When
<1>2. ASSUME NEW n \in 1 .. MaxSize, PutNew(path, n)
      PROVE  BackupInv'
  <2>1. job' = job /\ When' = now
    BY <1>1, <1>2 DEF PutNew, When
  <2>2. DOMAIN files \subseteq DOMAIN files' /\ \A v \in DOMAIN files : files'[v] = files[v]
    BY <1>1, <1>2, FilesGrow DEF PutNew, TypeInv
  <2>3. InOrder' /\ DoneIsSaved' /\ NeverMixed'
    BY <1>1, <2>1, <2>2, QuietStep DEF Sound
  <2>4. OthersMarked'
    BY <1>1, <2>1 DEF OthersMarked, Marked, LastOf
  <2>5. QED
    BY <1>1, <2>1, <2>3, <2>4, IdleStep
<1>3. CASE Begin(path, put) \/ UnlinkLarge(path, put)
  <2>1. /\ UNCHANGED files /\ job'.time = now /\ job'.path = path
        /\ \/ job'.stage = "open"
           \/ job'.stage = "returned" /\ pool' = Without(pool, path)
    BY <1>3, NoJobTyped DEF Begin, UnlinkLarge, Job
  <2>2. When' = now
    BY <2>1 DEF When
  <2>3. InOrder' /\ DoneIsSaved' /\ NeverMixed'
    BY <1>1, <2>1, <2>2, QuietStep DEF Sound
  <2>10. PICK t : t = now
    OBVIOUS
  <2>4. \A p \in Paths : Marked(p, t)'
    BY <1>1, <2>10 DEF Marked, LastOf
  <2>5. OthersMarked'
    BY <2>2, <2>4, <2>10 DEF OthersMarked, Marked, LastOf
  <2>6. Marked(job.path, job.time)'
    BY <2>1, <2>4, <2>10 DEF Marked, LastOf
  <2>7. OwnCopy'
    BY <2>1, <2>6 DEF OwnCopy
  <2>8. Gone' /\ DropIsSaved'
    BY <2>1 DEF Gone, DropIsSaved, Without, Restrict
  <2>9. QED
    BY <2>3, <2>5, <2>7, <2>8 DEF BackupInv
<1>4. QED
  BY <1>2, <1>3

\* The call finds a mark and drops the file, or goes on with its own copy.
LEMMA SearchBackup ==
    ASSUME Sound, Open \/ FoundDone \/ FoundUndone \/ LogFails
    PROVE  BackupInv'
<1>1. /\ TypeInv /\ job.stage \in {"open", "search"} /\ UNCHANGED <<files, pool, log, bak, now>>
      /\ job'.time = job.time /\ job'.path = job.path /\ job'.stage \in {"search", "drop", "save"}
      /\ Target' = Target /\ DayLog' = DayLog
  BY DEF Sound, CallInv, TypeInv, JobTyped, Job, Open, FoundDone, FoundUndone, LogFails, Target, BackupName,
         DayLog
<1>2. When = job.time /\ When' = job.time /\ job.time \in Nat /\ job.time <= now
  BY <1>1, CallPlaces DEF When
<1>3. InOrder' /\ DoneIsSaved' /\ NeverMixed'
  BY <1>1, <1>2, QuietStep DEF Sound
<1>4. OthersMarked'
  BY <1>1, <1>2 DEF Sound, BackupInv, OthersMarked, Marked, LastOf
<1>5. Gone'
  BY <1>1 DEF Gone
<1>6. /\ Marked(job.path, job.time) => Marked(job.path, job.time)'
      /\ \A k : Begun(k) => Begun(k)'
  BY <1>1 DEF Marked, LastOf, Begun, Starts
<1>7. Marked(job.path, job.time) \/ \E k \in DOMAIN DayLog : Begun(k)
  BY <1>1 DEF Sound, BackupInv, OwnCopy
<1>8. \A k : Begun(k) => Hits # {} /\ k = Newest(Hits) /\ ~DayLog[k].done
  <2>1. ASSUME NEW k, Begun(k)
        PROVE  Hits # {} /\ k = Newest(Hits) /\ ~DayLog[k].done
    <3>1. LastOf(job.path, job.time, k) /\ ~DayLog[k].done
      BY <2>1 DEF Begun
    <3>2. Hits # {} /\ LastOf(job.path, job.time, Newest(Hits))
      BY <1>1, <3>1, LastIsHit
    <3>3. QED
      BY <1>1, <1>2, <3>1, <3>2, LastIsOne
  <2>2. QED
    BY <2>1
<1>9. CASE Open
  <2>1. job'.stage = "search"
    BY <1>1, <1>9 DEF Open, TypeInv, JobTyped, Job
  <2>2. OwnCopy'
    BY <1>1, <1>6, <1>7, <2>1 DEF OwnCopy
  <2>3. QED
    BY <1>3, <1>4, <1>5, <2>1, <2>2 DEF BackupInv, DropIsSaved
<1>10. CASE FoundDone
  <2>1. job'.stage = "drop" /\ Hits # {} /\ DayLog[Newest(Hits)].done
    BY <1>1, <1>10 DEF FoundDone, TypeInv, JobTyped, Job
  <2>2. OwnCopy'
    BY <1>6, <1>7, <1>8, <2>1 DEF OwnCopy
  <2>3. DropIsSaved'
    <3>1. PICK k \in DOMAIN DayLog : k = Newest(Hits) /\ k \in Hits
      BY <1>1, <2>1, NewestHit
    <3>2. DayLog[k].done /\ DayLog[k].path = job.path /\ job.time - DayLog[k].time <= Interval
      <4>1. k \in 1 .. Len(DayLog) /\ Len(DayLog) \in Nat
        BY <1>1, <3>1, DayLogTyped
      <4>2. k \in k .. Len(DayLog)
        BY <4>1
      <4>3. QED
        BY <2>1, <3>1, <4>2 DEF Hits, Young
    <3>3. Day(job.time) \in DOMAIN log /\ DayLog[k].time \in Nat
      BY <1>1, <3>1, DayLogTyped, LogPlaces DEF DayLog
    <3>4. PICK b \in DOMAIN bak, v \in DOMAIN files :
                /\ b[1] = job.path[2] /\ b[2] >= DayLog[k].time
                /\ files[v].path = job.path /\ bak[b] = Blocks(v)
      BY <3>1, <3>2, <3>3 DEF Sound, BackupInv, DoneIsSaved, DayLog
    <3>5. job.time - b[2] <= Interval
      <4>1. b[2] \in Nat /\ Interval \in Nat
        BY <1>1, CallPlaces DEF TypeInv, BakTyped
      <4>2. QED
        BY <1>2, <3>2, <3>3, <3>4, <4>1
    <3>6. RecentlySaved(job.path, job.time)
      BY <3>4, <3>5 DEF RecentlySaved
    <3>7. QED
      BY <1>1, <3>6 DEF DropIsSaved, RecentlySaved, Blocks
  <2>4. QED
    BY <1>3, <1>4, <1>5, <2>2, <2>3 DEF BackupInv
<1>11. CASE LogFails
  <2>1. job'.stage = "drop" /\ Hits = {} /\ ~NoErrors
    BY <1>1, <1>11 DEF LogFails, NoErrors, TypeInv, JobTyped, Job
  <2>2. OwnCopy'
    BY <1>6, <1>7, <1>8, <2>1 DEF OwnCopy
  <2>3. QED
    BY <1>3, <1>4, <1>5, <2>1, <2>2 DEF BackupInv, DropIsSaved
<1>12. CASE FoundUndone
  <2>1. job'.stage = "save" /\ Hits # {} /\ ~DayLog[Newest(Hits)].done /\ job'.at = Newest(Hits)
    BY <1>1, <1>12 DEF FoundUndone, TypeInv, JobTyped, Job
  <2>2. PICK k : k = Newest(Hits) /\ LastOf(job.path, job.time, k)
    BY <1>1, <2>1, LastIsHit
  <2>3. Begun(k)
    <3>1. CASE Marked(job.path, job.time)
      <4>1. ASSUME Target \in DOMAIN bak
            PROVE  FALSE
        <5>1. PICK j : LastOf(job.path, job.time, j) /\ DayLog[j].done
          BY <1>1, <3>1, <4>1, CallPlaces DEF Marked, DayLog
        <5>2. j = k
          BY <1>1, <1>2, <2>2, <5>1, LastIsOne
        <5>3. QED
          BY <2>1, <2>2, <5>1, <5>2
      <4>2. QED
        BY <2>1, <2>2, <4>1 DEF Begun
    <3>2. CASE \E j \in DOMAIN DayLog : Begun(j)
      BY <1>8, <2>2, <3>2
    <3>3. QED
      BY <1>7, <3>1, <3>2
  <2>4. Begun(job.at)'
    BY <1>1, <1>6, <2>1, <2>2, <2>3 DEF Begun, LastOf, Starts
  <2>5. QED
    BY <1>3, <1>4, <1>5, <2>1, <2>4 DEF BackupInv, DropIsSaved, OwnCopy
<1>13. QED
  BY <1>9, <1>10, <1>11, <1>12

\* A record more is of the call's path, and of its second.
LEMMA RecordBackup ==
    ASSUME Sound, LogDelete
    PROVE  BackupInv'
<1> DEFINE r == [time |-> job.time, path |-> job.path, done |-> FALSE]
           d == Day(job.time)
           n == Len(DayLog)
<1>1. /\ TypeInv /\ job.stage = "search" /\ Hits = {} /\ UNCHANGED <<files, pool, bak, now>>
      /\ job.path \in Paths /\ job.time \in Nat /\ Interval \in Nat
      /\ job'.time = job.time /\ job'.path = job.path /\ job'.stage = "save" /\ job'.at = n + 1
      /\ Target' = Target
  BY CallPlaces DEF Sound, CallInv, TypeInv, JobTyped, Job, LogDelete, Target, BackupName
<1>2. When = job.time /\ When' = job.time
  BY <1>1 DEF When
<1>3. /\ d \in DOMAIN log /\ DayLog \in Seq(Record) /\ n \in Nat /\ DOMAIN DayLog = 1 .. n
      /\ DayLog = log[d]
  BY <1>1, DayLogTyped DEF DayLog
<1>4. r \in Record /\ r.time = job.time /\ r.path = job.path /\ r.done = FALSE
  BY <1>1 DEF Record
<1>5. log' = [log EXCEPT ![d] = Append(log[d], r)]
  BY DEF LogDelete
<1> HIDE DEF r
<1>6. /\ DOMAIN log' = DOMAIN log /\ \A e \in DOMAIN log : e # d => log'[e] = log[e]
      /\ log'[d] = Append(log[d], r)
  BY <1>1, <1>3, <1>5 DEF TypeInv, LogTyped
<1>7. /\ Len(log'[d]) = n + 1 /\ DOMAIN log'[d] = 1 .. n + 1 /\ log'[d][n + 1] = r
      /\ \A k \in 1 .. n : log'[d][k] = log[d][k]
  BY <1>3, <1>4, <1>6
<1> HIDE DEF n, d
<1>8. InOrder'
  <2>1. ASSUME NEW k \in DOMAIN log'[d]
        PROVE  /\ log'[d][k].time <= job.time
               /\ \A j \in 1 .. k : log'[d][j].time <= log'[d][k].time
    <3>1. /\ \A j \in 1 .. n : log[d][j].time <= job.time
          /\ \A i \in 1 .. n : \A j \in 1 .. i : log[d][j].time <= log[d][i].time
      BY <1>2, <1>3 DEF Sound, BackupInv, InOrder
    <3>2. CASE k = n + 1
      <4>1. log'[d][k].time = job.time
        BY <1>4, <1>7, <3>2
      <4>2. \A j \in 1 .. n : log'[d][j].time <= job.time
        BY <1>7, <3>1
      <4>3. \A j \in 1 .. k : j \in 1 .. n \/ j = k
        BY <1>3, <3>2
      <4>4. job.time <= job.time
        BY <1>1
      <4>5. ASSUME NEW j \in 1 .. k
            PROVE  log'[d][j].time <= log'[d][k].time
        <5>1. CASE j \in 1 .. n
          BY <4>1, <4>2, <5>1
        <5>2. CASE j = k
          BY <4>1, <4>4, <5>2
        <5>3. QED
          BY <4>3, <5>1, <5>2
      <4>6. QED
        BY <4>1, <4>4, <4>5
    <3>3. CASE k \in 1 .. n
      <4>1. \A j \in 1 .. k : j \in 1 .. n
        BY <1>3, <3>3
      <4>2. log'[d][k] = log[d][k] /\ \A j \in 1 .. k : log'[d][j] = log[d][j]
        BY <1>7, <3>3, <4>1
      <4>3. log[d][k].time <= job.time /\ \A j \in 1 .. k : log[d][j].time <= log[d][k].time
        BY <3>1, <3>3
      <4>4. QED
        BY <4>2, <4>3
    <3>4. QED
      BY <1>3, <1>7, <3>2, <3>3
  <2>2. \A e \in DOMAIN log : e # d => \A k \in DOMAIN log'[e] :
                 /\ log'[e][k].time <= job.time
                 /\ \A j \in 1 .. k : log'[e][j].time <= log'[e][k].time
    BY <1>2, <1>6 DEF Sound, BackupInv, InOrder
  <2>3. QED
    BY <1>1, <1>2, <1>6, <2>1, <2>2 DEF Sound, BackupInv, InOrder
<1>9. DoneIsSaved'
  <2>1. ASSUME NEW e \in DOMAIN log', NEW k \in DOMAIN log'[e], log'[e][k].done
        PROVE  k \in DOMAIN log[e] /\ log'[e][k] = log[e][k]
    BY <1>3, <1>4, <1>6, <1>7, <2>1
  <2>2. QED
    BY <1>1, <1>6, <2>1 DEF Sound, BackupInv, DoneIsSaved, Blocks
<1>10. NeverMixed'
  BY <1>1 DEF Sound, BackupInv, NeverMixed
<1>11. OthersMarked'
  <2>1. ASSUME NEW p \in Paths, p # job.path, <<p[2], job.time>> \in DOMAIN bak
        PROVE  \E k \in DOMAIN log'[d] : LastOf(p, job.time, k)' /\ log'[d][k].done
    <3>1. PICK k \in 1 .. n : LastOf(p, job.time, k) /\ log[d][k].done
      BY <1>2, <1>3, <2>1 DEF Sound, BackupInv, OthersMarked, Marked, d
    <3>2. /\ log[d][k].path = p /\ \A j \in k .. n : job.time - log[d][j].time <= Interval
          /\ \A j \in k + 1 .. n : log[d][j].path # p
      BY <1>3, <3>1 DEF LastOf, d, n
    <3>3. /\ k \in 1 .. n + 1 /\ log'[d][k].path = p /\ log'[d][k].done
          /\ \A j \in k .. n + 1 : job.time - log'[d][j].time <= Interval
          /\ \A j \in k + 1 .. n + 1 : log'[d][j].path # p
      BY <1>1, <1>3, <1>4, <1>7, <2>1, <3>1, <3>2
    <3>4. PICK t : t = job.time /\ d = Day(t) /\ t = job'.time
      BY <1>1 DEF d
    <3>5. LastOf(p, t, k)'
      BY <1>7, <3>3, <3>4 DEF LastOf
    <3>6. QED
      BY <1>1, <1>7, <3>3, <3>4, <3>5 DEF LastOf
  <2>2. QED
    BY <1>1, <1>2, <2>1 DEF OthersMarked, Marked, LastOf, d
<1>12. OwnCopy'
  <2>1. Target \notin DOMAIN bak
    <3>1. \A k : ~LastOf(job.path, job.time, k)
      BY <1>1, LastIsHit
    <3>2. CASE Marked(job.path, job.time)
      BY <1>1, <3>1, <3>2, CallPlaces DEF Marked
    <3>3. CASE \E k \in DOMAIN DayLog : Begun(k)
      BY <3>1, <3>3 DEF Begun
    <3>4. QED
      BY <1>1, <3>2, <3>3 DEF Sound, BackupInv, OwnCopy
  <2>2. Begun(job.at)'
    <3>1. /\ log'[d][n + 1].path = job.path /\ ~log'[d][n + 1].done
          /\ \A j \in n + 1 .. n + 1 : job.time - log'[d][j].time <= Interval
      BY <1>1, <1>3, <1>4, <1>7
    <3>2. LastOf(job.path, job.time, job.at)'
      BY <1>1, <1>3, <1>7, <3>1 DEF LastOf, d
    <3>3. QED
      BY <1>1, <2>1, <3>1, <3>2 DEF Begun, DayLog, d
  <2>3. QED
    BY <1>1, <2>2 DEF OwnCopy
<1>13. QED
  BY <1>1, <1>8, <1>9, <1>10, <1>11, <1>12 DEF BackupInv, Gone, DropIsSaved

LEMMA RenameBackup ==
    ASSUME Sound, Rename
    PROVE  /\ BackupInv'
           /\ \A b \in DOMAIN bak : \A v \in DOMAIN files : bak[b] = Blocks(v) => bak'[b] = bak[b]
<1>1. /\ TypeInv /\ job.stage = "save" /\ UNCHANGED <<files, log, now>> /\ job.path \in DOMAIN pool
      /\ job'.time = job.time /\ job'.path = job.path /\ job'.stage = "mark" /\ job'.at = job.at
      /\ bak' = Written(bak, Target, Source) /\ pool' = Without(pool, job.path)
  BY DEF Sound, CallInv, StillThere, TypeInv, JobTyped, Job, Rename, Source
<1>2. Begun(job.at)
  BY <1>1 DEF Sound, BackupInv, OwnCopy
<1>3. Source \in Seq((DOMAIN files) \X Nat) /\ Len(Source) \in Nat
  BY <1>1, PieceTyped, LenProperties
<1>4. pool[job.path] \in DOMAIN files /\ files[pool[job.path]].path = job.path
  BY <1>1 DEF TypeInv, PoolTyped
<1>5. \A v \in DOMAIN files : Target \in DOMAIN bak /\ bak[Target] = Blocks(v) => Source = bak[Target]
  BY <1>1, <1>2, <1>4, OneVersion DEF Begun, Source
<1>6. /\ InOrder' /\ OthersMarked' /\ DoneIsSaved' /\ NeverMixed'
      /\ DOMAIN bak' = DOMAIN bak \cup {Target} /\ bak'[Target] = Source /\ Target' = Target
      /\ \A b \in DOMAIN bak : \A v \in DOMAIN files : bak[b] = Blocks(v) => bak'[b] = bak[b]
  <2>1. PICK x : x = Source
    OBVIOUS
  <2>2. /\ x \in Seq((DOMAIN files) \X Nat) /\ bak' = Written(bak, Target, x)
        /\ Len(x) <= Len(Source) /\ \A i \in 1 .. Len(x) : x[i] = Source[i]
        /\ \A v \in DOMAIN files : Target \in DOMAIN bak /\ bak[Target] = Blocks(v) => x = bak[Target]
    BY <1>1, <1>3, <1>5, <2>1
  <2>3. UNCHANGED <<files, log>> /\ job'.stage # "idle" /\ CallInv /\ BackupInv /\ NamesApart
    BY <1>1 DEF Sound
  <2>4. QED
    BY <1>1, <2>1, <2>2, <2>3, WriteStep
<1>7. OwnCopy'
  <2>1. LastOf(job.path, job.time, job.at)'
    BY <1>1, <1>2 DEF Begun, LastOf
  <2>2. \E v \in DOMAIN files : files[v].path = job.path /\ bak'[Target] = Blocks(v)
    BY <1>4, <1>6 DEF Source
  <2>3. QED
    BY <1>1, <1>6, <2>1, <2>2 DEF OwnCopy, Blocks
<1>8. Gone' /\ DropIsSaved'
  BY <1>1 DEF Gone, DropIsSaved, Without, Restrict
<1>9. QED
  BY <1>6, <1>7, <1>8 DEF BackupInv

\* A piece more of the same file, and the whole of it at its end.
LEMMA PieceGoesOn ==
    ASSUME TypeInv, job.path \in DOMAIN pool, Target \in DOMAIN bak => Starts(Target, pool[job.path])
    PROVE  /\ Copied \o Piece \in Seq((DOMAIN files) \X Nat)
           /\ Len(Copied \o Piece) = IF AtEnd THEN Len(Source) ELSE Len(Copied) + Chunk
           /\ \A i \in 1 .. Len(Copied \o Piece) : (Copied \o Piece)[i] = Source[i]
           /\ Len(Copied \o Piece) <= Len(Source)
           /\ AtEnd => Copied \o Piece = Source
           /\ Len(Copied) \in Nat /\ Len(Source) \in Nat /\ Len(Copied) <= Len(Source)
<1> DEFINE S == (DOMAIN files) \X Nat
           m == IF AtEnd THEN Len(Source) ELSE Len(Copied) + Chunk
<1>1. /\ Source \in Seq(S) /\ Len(Source) = files[pool[job.path]].size
      /\ \A i \in 1 .. Len(Source) : Source[i] = <<pool[job.path], i>>
      /\ Copied \in Seq(S) /\ Piece \in Seq(S)
  BY PieceTyped
<1>2. Len(Source) \in Nat /\ Len(Copied) \in Nat /\ Chunk \in Nat \ {0}
  BY <1>1, Bounds, LenProperties
<1>3. Len(Copied) <= Len(Source) /\ \A i \in 1 .. Len(Copied) : Copied[i] = Source[i]
  <2>1. CASE Target \in DOMAIN bak
    <3>1. Copied = bak[Target]
      BY <2>1 DEF Copied
    <3>2. /\ Len(Copied) <= files[pool[job.path]].size
          /\ \A i \in 1 .. Len(Copied) : Copied[i] = <<pool[job.path], i>>
      BY <2>1, <3>1 DEF Starts
    <3>3. \A i \in 1 .. Len(Copied) : i \in 1 .. Len(Source)
      BY <1>1, <1>2, <3>2
    <3>4. QED
      BY <1>1, <3>2, <3>3
  <2>2. CASE Target \notin DOMAIN bak
    BY <1>2, <2>2, EmptySeq DEF Copied
  <2>3. QED
    BY <2>1, <2>2
<1>4. m \in Nat /\ Len(Copied) <= m /\ m <= Len(Source)
  BY <1>2, <1>3 DEF AtEnd
<1>5. Piece = SubSeq(Source, Len(Copied) + 1, m)
  BY <1>2 DEF Piece, AtEnd
<1> HIDE DEF m
<1>6. /\ Len(Piece) = m - Len(Copied)
      /\ \A i \in 1 .. m - Len(Copied) : Piece[i] = Source[Len(Copied) + i]
  <2>1. \A i \in Len(Copied) + 1 .. m : Source[i] \in S
    BY <1>1, <1>2, <1>4
  <2>2. /\ Len(Piece) = IF Len(Copied) + 1 <= m THEN m - (Len(Copied) + 1) + 1 ELSE 0
        /\ \A i \in 1 .. m - (Len(Copied) + 1) + 1 : Piece[i] = Source[(Len(Copied) + 1) + i - 1]
    BY <1>2, <1>4, <1>5, <2>1, SubSeqProperties
  <2>3. QED
    BY <1>2, <1>4, <2>2
<1>7. /\ Copied \o Piece \in Seq(S) /\ Len(Copied \o Piece) = m
      /\ \A i \in 1 .. m : (Copied \o Piece)[i] =
             IF i <= Len(Copied) THEN Copied[i] ELSE Piece[i - Len(Copied)]
  BY <1>1, <1>2, <1>4, <1>6, ConcatProperties
<1>8. \A i \in 1 .. m : (Copied \o Piece)[i] = Source[i]
  BY <1>2, <1>3, <1>4, <1>6, <1>7
<1>9. ASSUME AtEnd
      PROVE  Copied \o Piece = Source
  <2>1. m = Len(Source)
    BY <1>9 DEF m
  <2>2. QED
    BY <1>1, <1>7, <1>8, <2>1, SeqEqual
<1>10. QED
  BY <1>2, <1>3, <1>4, <1>7, <1>8, <1>9 DEF m

\* A call whose reads fail has gone on by a part of the piece.
LEMMA PartGoesOn ==
    ASSUME TypeInv, job.path \in DOMAIN pool, Target \in DOMAIN bak => Starts(Target, pool[job.path]),
           NEW k \in 0 .. Len(Piece), NEW x, x = Copied \o SubSeq(Piece, 1, k)
    PROVE  /\ x \in Seq((DOMAIN files) \X Nat) /\ Len(x) <= Len(Source)
           /\ \A i \in 1 .. Len(x) : x[i] = Source[i]
           /\ Len(Copied) <= Len(x)
<1> DEFINE S == (DOMAIN files) \X Nat
           y == Copied \o Piece
<1>1. Copied \in Seq(S) /\ Piece \in Seq(S) /\ Len(Copied) \in Nat /\ Len(Piece) \in Nat
  BY PieceTyped, LenProperties
<1>2. Len(y) <= Len(Source) /\ (\A i \in 1 .. Len(y) : y[i] = Source[i]) /\ Len(Source) \in Nat
  BY PieceGoesOn
<1>3. /\ Len(y) = Len(Copied) + Len(Piece)
      /\ \A i \in 1 .. Len(Copied) + Len(Piece) :
            y[i] = IF i <= Len(Copied) THEN Copied[i] ELSE Piece[i - Len(Copied)]
  BY <1>1, ConcatProperties
<1>4. /\ SubSeq(Piece, 1, k) \in Seq(S) /\ Len(SubSeq(Piece, 1, k)) = k
      /\ \A i \in 1 .. k : SubSeq(Piece, 1, k)[i] = Piece[i]
  BY <1>1, SubSeqProperties
<1>5. /\ x \in Seq(S) /\ Len(x) = Len(Copied) + k
      /\ \A i \in 1 .. Len(Copied) + k :
            x[i] = IF i <= Len(Copied) THEN Copied[i] ELSE SubSeq(Piece, 1, k)[i - Len(Copied)]
  BY <1>1, <1>4, ConcatProperties
<1> HIDE DEF y, S
<1>6. \A i \in 1 .. Len(Copied) + k : x[i] = y[i]
  BY <1>1, <1>3, <1>4, <1>5
<1>7. QED
  <2>1. Len(x) <= Len(y) /\ Len(Copied) <= Len(x)
    BY <1>1, <1>3, <1>5
  <2>2. Len(x) \in Nat /\ Len(y) \in Nat
    BY <1>1, <1>3, <1>5
  <2>3. Len(x) <= Len(Source)
    BY <1>2, <2>1, <2>2
  <2>4. ASSUME NEW i \in 1 .. Len(x)
        PROVE  x[i] = Source[i]
    <3>1. i \in 1 .. Len(y) /\ i \in 1 .. Len(Copied) + k
      BY <1>5, <2>1, <2>2
    <3>2. QED
      BY <1>2, <1>6, <3>1
  <2>5. QED
    BY <1>5, <2>1, <2>3, <2>4 DEF S

LEMMA CopyBackup ==
    ASSUME Sound, CopyMore \/ CopyLast \/ ReadFails
    PROVE  /\ BackupInv'
           /\ \A b \in DOMAIN bak : \A v \in DOMAIN files : bak[b] = Blocks(v) => bak'[b] = bak[b]
<1>1. /\ TypeInv /\ job.stage = "save" /\ UNCHANGED <<files, pool, log, now>> /\ job.path \in DOMAIN pool
  BY DEF Sound, CallInv, StillThere, CopyMore, CopyLast, ReadFails
<1>2. /\ job'.time = job.time /\ job'.path = job.path
      /\ CopyMore \/ ReadFails => job'.stage = "open"
      /\ \/ CopyMore \/ ReadFails
         \/ CopyLast /\ AtEnd /\ job'.stage = "unlink" /\ job'.at = job.at
  <2>1. CopyMore \/ ReadFails => job'.time = job.time /\ job'.path = job.path /\ job'.stage = "open"
    BY <1>1, CallReturnsTyped DEF CopyMore, ReadFails, TypeInv
  <2>2. CopyLast => /\ job'.time = job.time /\ job'.path = job.path
                    /\ AtEnd /\ job'.stage = "unlink" /\ job'.at = job.at
    BY <1>1 DEF CopyLast, TypeInv, JobTyped, Job
  <2>3. QED
    BY <2>1, <2>2
<1>3. Begun(job.at)
  BY <1>1 DEF Sound, BackupInv, OwnCopy
<1>4. Len(Copied) \in Nat /\ Len(Source) \in Nat /\ Len(Copied) <= Len(Source)
  BY <1>1, <1>3, PieceGoesOn DEF Begun
<1>5. PICK x : /\ x \in Seq((DOMAIN files) \X Nat) /\ Len(x) <= Len(Source)
               /\ \A i \in 1 .. Len(x) : x[i] = Source[i]
               /\ bak' = Written(bak, Target, x)
               /\ CopyLast => x = Source
               /\ Len(Copied) <= Len(x)
  <2>1. CASE CopyMore \/ CopyLast
    <3>1. bak' = Written(bak, Target, Copied \o Piece)
      BY <2>1 DEF CopyMore, CopyLast
    <3>2. CopyLast => AtEnd
      BY DEF CopyLast
    <3>3. Len(Copied) <= Len(Copied \o Piece)
      BY <1>1, <1>3, Bounds, PieceGoesOn DEF Begun
    <3>4. QED
      BY <1>1, <1>3, <3>1, <3>2, <3>3, PieceGoesOn DEF Begun
  <2>2. CASE ReadFails
    <3>1. PICK k \in 0 .. Len(Piece) : bak' = Written(bak, Target, Copied \o SubSeq(Piece, 1, k))
      BY <2>2 DEF ReadFails
    <3>2. PICK x : x = Copied \o SubSeq(Piece, 1, k)
      OBVIOUS
    <3>3. /\ x \in Seq((DOMAIN files) \X Nat) /\ Len(x) <= Len(Source)
          /\ \A i \in 1 .. Len(x) : x[i] = Source[i]
          /\ Len(Copied) <= Len(x)
      BY <1>1, <1>3, <3>2, PartGoesOn DEF Begun
    <3>4. ~CopyLast
      <4>1. job'.stage = "open"
        BY <1>1, <2>2, CallReturnsTyped DEF ReadFails, TypeInv
      <4>2. QED
        BY <1>1, <4>1 DEF CopyLast, TypeInv, JobTyped, Job
    <3>5. QED
      BY <3>1, <3>2, <3>3, <3>4
  <2>3. QED
    BY <2>1, <2>2
<1>6. \A v \in DOMAIN files : Target \in DOMAIN bak /\ bak[Target] = Blocks(v) => x = bak[Target]
  <2>1. SUFFICES ASSUME NEW v \in DOMAIN files, Target \in DOMAIN bak, bak[Target] = Blocks(v)
                 PROVE  x = bak[Target]
    OBVIOUS
  <2>2. bak[Target] = Source /\ Copied = Source
    BY <1>1, <1>3, <2>1, OneVersion DEF Begun, Source, Copied, TypeInv, PoolTyped
  <2>3. Len(x) = Len(Source)
    BY <1>4, <1>5, <2>2, LenProperties
  <2>4. x = Source
    <3>1. Source \in Seq((DOMAIN files) \X Nat)
      BY <1>1, PieceTyped
    <3>2. QED
      BY <1>5, <2>3, <3>1, SeqEqual
  <2>5. QED
    BY <2>2, <2>4
<1>7. /\ InOrder' /\ OthersMarked' /\ DoneIsSaved' /\ NeverMixed'
      /\ DOMAIN bak' = DOMAIN bak \cup {Target} /\ bak'[Target] = x /\ Target' = Target
      /\ \A b \in DOMAIN bak : \A v \in DOMAIN files : bak[b] = Blocks(v) => bak'[b] = bak[b]
  <2>1. bak' = Written(bak, Target, x)
    BY <1>5
  <2>2. UNCHANGED <<files, log>> /\ job'.stage # "idle" /\ CallInv /\ BackupInv /\ NamesApart
    BY <1>1, <1>2 DEF Sound
  <2>3. QED
    BY <1>1, <1>2, <1>5, <1>6, <2>1, <2>2, WriteStep
<1>8. Begun(job.at) /\ job.at \in DOMAIN DayLog /\ DayLog' = DayLog
  BY <1>1, <1>2, <1>3 DEF Begun, LastOf, DayLog
<1>9. PICK k : k = job.at
  OBVIOUS
<1>10. Begun(k)'
  <2>1. LastOf(job.path, job.time, k)' /\ ~DayLog'[k].done
    BY <1>1, <1>2, <1>8, <1>9 DEF Begun, LastOf
  <2>2. Starts(Target, pool[job.path])'
    <3>1. /\ Len(Source) = files[pool[job.path]].size
          /\ \A i \in 1 .. Len(Source) : Source[i] = <<pool[job.path], i>>
      BY <1>1, PieceTyped
    <3>2. Len(bak'[Target]) <= files[pool[job.path]].size
      BY <1>5, <1>7, <3>1
    <3>3. Len(x) \in Nat
      BY <1>5, LenProperties
    <3>4. \A i \in 1 .. Len(bak'[Target]) : bak'[Target][i] = <<pool[job.path], i>>
      BY <1>5, <1>7, <3>1, <3>3
    <3>5. QED
      BY <1>1, <1>2, <1>7, <3>2, <3>4 DEF Starts
  <2>3. QED
    BY <2>1, <2>2 DEF Begun
<1>11. OwnCopy'
  <2>1. CASE CopyMore \/ ReadFails
    BY <1>1, <1>2, <1>8, <1>9, <1>10, <2>1 DEF OwnCopy, CopyMore, ReadFails, CopyLast
  <2>2. CASE CopyLast
    <3>1. Begun(job.at)'
      BY <1>2, <1>9, <1>10, <2>2 DEF CopyMore, CopyLast, Begun, LastOf
    <3>2. TargetWhole'
      BY <1>1, <1>2, <1>5, <1>7, <2>2 DEF CopyMore, CopyLast, TargetWhole, Source, Blocks
    <3>3. QED
      BY <1>2, <2>2, <3>1, <3>2 DEF OwnCopy, CopyMore, CopyLast
  <2>3. QED
    BY <2>1, <2>2
<1>12. Gone' /\ DropIsSaved'
  BY <1>2 DEF Gone, DropIsSaved
<1>13. QED
  BY <1>7, <1>11, <1>12 DEF BackupInv

\* With the copy whole the source leaves.
LEMMA UnlinkBackup ==
    ASSUME Sound, UnlinkSource
    PROVE  BackupInv'
<1>1. /\ TypeInv /\ job.stage = "unlink" /\ UNCHANGED <<files, log, bak, now>> /\ job.path \in DOMAIN pool
      /\ job'.time = job.time /\ job'.path = job.path /\ job'.stage = "mark" /\ job'.at = job.at
      /\ Target' = Target /\ pool' = Without(pool, job.path)
  BY DEF Sound, CallInv, StillThere, TypeInv, JobTyped, Job, UnlinkSource, Target, BackupName
<1>2. When = job.time /\ When' = job.time /\ job.time \in Nat
  BY <1>1, CallPlaces DEF When
<1>3. InOrder' /\ DoneIsSaved' /\ NeverMixed'
  BY <1>1, <1>2, QuietStep DEF Sound
<1>4. OthersMarked'
  BY <1>1, <1>2 DEF Sound, BackupInv, OthersMarked, Marked, LastOf
<1>5. Begun(job.at) /\ TargetWhole
  BY <1>1 DEF Sound, BackupInv, OwnCopy
<1>6. pool[job.path] \in DOMAIN files /\ files[pool[job.path]].path = job.path
  BY <1>1 DEF TypeInv, PoolTyped
<1>7. OwnCopy'
  <2>1. LastOf(job.path, job.time, job.at)'
    BY <1>1, <1>5 DEF Begun, LastOf
  <2>2. \E v \in DOMAIN files : files[v].path = job.path /\ bak[Target] = Blocks(v)
    BY <1>5, <1>6 DEF TargetWhole, Source
  <2>3. QED
    BY <1>1, <1>5, <2>1, <2>2 DEF OwnCopy, Blocks, TargetWhole
<1>8. Gone' /\ DropIsSaved'
  BY <1>1 DEF Gone, DropIsSaved, Without, Restrict
<1>9. QED
  BY <1>3, <1>4, <1>7, <1>8 DEF BackupInv

LEMMA DropBackup ==
    ASSUME Sound, DropUnsaved
    PROVE  BackupInv'
<1>1. /\ TypeInv /\ job.stage = "drop" /\ UNCHANGED <<files, log, bak, now>>
      /\ CallReturns(0) /\ pool' = Without(pool, job.path)
  BY DEF Sound, CallInv, DropUnsaved
<1>2. job'.time = job.time /\ job'.path = job.path /\ job'.stage = "returned"
  BY <1>1, CallReturnsTyped DEF TypeInv
<1>3. When = job.time /\ When' = job.time /\ job.time \in Nat
  BY <1>1, <1>2, CallPlaces DEF When
<1>4. InOrder' /\ DoneIsSaved' /\ NeverMixed'
  BY <1>1, <1>3, QuietStep DEF Sound
<1>5. OthersMarked'
  BY <1>1, <1>2, <1>3 DEF Sound, BackupInv, OthersMarked, Marked, LastOf
<1>6. OwnCopy'
  <2>1. Marked(job.path, job.time)'
    BY <1>1, <1>2 DEF Sound, BackupInv, OwnCopy, Marked, LastOf
  <2>2. QED
    BY <1>2, <2>1 DEF OwnCopy
<1>7. Gone' /\ DropIsSaved'
  BY <1>1, <1>2 DEF Gone, DropIsSaved, Without, Restrict
<1>8. QED
  BY <1>4, <1>5, <1>6, <1>7 DEF BackupInv

\* A mark leaves every last record where it is, and no mark is taken away.
LEMMA MarkKeepsLast ==
    ASSUME TypeInv, MarkDone, RecordIsMine, NEW t \in Nat, t <= now, NEW p, NEW k, LastOf(p, t, k)
    PROVE  LastOf(p, t, k)' /\ (log[Day(t)][k].done => log'[Day(t)][k].done)
<1>1. PICK d : d = Day(t)
  OBVIOUS
<1>2. d \in DOMAIN log /\ Len(log[d]) \in Nat /\ DOMAIN log[d] = 1 .. Len(log[d])
  BY <1>1, CallPlaces, LogPlaces
<1>3. /\ DOMAIN log'[d] = DOMAIN log[d] /\ Len(log'[d]) = Len(log[d])
      /\ \A j \in DOMAIN log[d] : log'[d][j].time = log[d][j].time /\ log'[d][j].path = log[d][j].path
  BY <1>2, MarkTyped
<1>4. log[d][k].done => log'[d][k].done
  <2>1. k \in DOMAIN log[d]
    BY <1>1 DEF LastOf
  <2>2. CASE d = Day(job.time) /\ k = job.at
    BY <2>2, MarkTyped
  <2>3. CASE ~(d = Day(job.time) /\ k = job.at)
    BY <1>2, <2>1, <2>3, MarkTyped
  <2>4. QED
    BY <2>2, <2>3
<1>5. /\ k \in DOMAIN log[d] /\ log[d][k].path = p
      /\ \A j \in k .. Len(log[d]) : t - log[d][j].time <= Interval
      /\ \A j \in k + 1 .. Len(log[d]) : log[d][j].path # p
  BY <1>1 DEF LastOf
<1>6. \A j \in k .. Len(log[d]) : j \in DOMAIN log[d]
  BY <1>2, <1>5
<1>7. \A j \in k + 1 .. Len(log[d]) : j \in DOMAIN log[d]
  BY <1>2, <1>5
<1>8. /\ k \in DOMAIN log'[d] /\ log'[d][k].path = p
      /\ \A j \in k .. Len(log'[d]) : t - log'[d][j].time <= Interval
      /\ \A j \in k + 1 .. Len(log'[d]) : log'[d][j].path # p
  BY <1>3, <1>5, <1>6, <1>7
<1>9. LastOf(p, t, k)'
  BY <1>1, <1>8 DEF LastOf
<1>10. QED
  BY <1>1, <1>4, <1>9

\* The record is marked once its backup is whole.
LEMMA MarkBackup ==
    ASSUME Sound, MarkDone
    PROVE  BackupInv'
<1>1. /\ TypeInv /\ RecordIsMine /\ job.stage = "mark" /\ UNCHANGED <<files, pool, bak, now>> /\ CallReturns(0)
  BY DEF Sound, CallInv, MarkDone
<1>2. job'.time = job.time /\ job'.path = job.path /\ job'.stage = "returned"
  BY <1>1, CallReturnsTyped DEF TypeInv
<1>3. /\ When = job.time /\ When' = job.time /\ job.time \in Nat /\ job.time <= now
      /\ job.path \in Paths /\ Target = <<job.path[2], job.time>>
      /\ Target[1] = job.path[2] /\ Target[2] = job.time
  BY <1>1, <1>2, CallPlaces DEF When
<1>4. /\ DOMAIN log' = DOMAIN log
      /\ \A d \in DOMAIN log : /\ DOMAIN log'[d] = DOMAIN log[d]
                               /\ \A k \in DOMAIN log[d] :
                                    /\ log'[d][k].time = log[d][k].time
                                    /\ log'[d][k].path = log[d][k].path
                                    /\ d # Day(job.time) \/ k # job.at => log'[d][k] = log[d][k]
      /\ log'[Day(job.time)][job.at].done = TRUE
  BY <1>1, MarkTyped DEF TypeInv, LogTyped
<1>5. /\ LastOf(job.path, job.time, job.at) /\ Target \in DOMAIN bak
      /\ \E v \in DOMAIN files : files[v].path = job.path /\ bak[Target] = Blocks(v)
  BY <1>1 DEF Sound, BackupInv, OwnCopy
<1>6. InOrder'
  <2>1. ASSUME NEW d \in DOMAIN log, NEW k \in DOMAIN log[d]
        PROVE  /\ log'[d][k].time <= job.time
               /\ \A j \in 1 .. k : log'[d][j].time <= log'[d][k].time
    <3>1. log[d][k].time <= job.time /\ \A j \in 1 .. k : log[d][j].time <= log[d][k].time
      BY <1>3 DEF Sound, BackupInv, InOrder
    <3>2. \A j \in 1 .. k : j \in DOMAIN log[d]
      BY <1>1, LogPlaces
    <3>3. QED
      BY <1>4, <3>1, <3>2
  <2>2. QED
    BY <1>1, <1>3, <1>4, <2>1 DEF Sound, BackupInv, InOrder
<1>7. DoneIsSaved'
  <2>1. ASSUME NEW d \in DOMAIN log, NEW k \in DOMAIN log[d], log'[d][k].done
        PROVE  \E b \in DOMAIN bak :
                   /\ b[1] = log[d][k].path[2] /\ b[2] >= log[d][k].time
                   /\ \E v \in DOMAIN files : files[v].path = log[d][k].path /\ bak[b] = Blocks(v)
    <3>1. CASE d = Day(job.time) /\ k = job.at
      <4>1. log[d][k].path = job.path
        BY <1>5, <3>1 DEF LastOf
      <4>2. log[d][k].time <= job.time /\ log[d][k].time \in Nat
        BY <1>1, <1>3, LogPlaces DEF Sound, BackupInv, InOrder
      <4>3. Target[2] >= log[d][k].time
        BY <1>3, <4>2
      <4>4. QED
        BY <1>3, <1>5, <4>1, <4>3
    <3>2. CASE ~(d = Day(job.time) /\ k = job.at)
      <4>1. log[d][k].done
        BY <1>4, <2>1, <3>2
      <4>2. QED
        BY <4>1 DEF Sound, BackupInv, DoneIsSaved
    <3>3. QED
      BY <3>1, <3>2
  <2>2. QED
    BY <1>1, <1>4, <2>1 DEF DoneIsSaved, Blocks
<1>8. NeverMixed'
  BY <1>1 DEF Sound, BackupInv, NeverMixed
<1>9. PICK t : t = job.time
  OBVIOUS
<1>10. OthersMarked'
  <2>1. ASSUME NEW p \in Paths, p # job.path, <<p[2], t>> \in DOMAIN bak
        PROVE  \E k \in DOMAIN log'[Day(t)] : LastOf(p, t, k)' /\ log'[Day(t)][k].done
    <3>1. PICK k \in DOMAIN log[Day(t)] : LastOf(p, t, k) /\ log[Day(t)][k].done
      BY <1>1, <1>3, <1>9, <2>1 DEF Sound, BackupInv, OthersMarked, Marked
    <3>2. LastOf(p, t, k)' /\ log'[Day(t)][k].done
      BY <1>1, <1>3, <1>9, <3>1, MarkKeepsLast
    <3>3. QED
      BY <3>2 DEF LastOf
  <2>2. QED
    BY <1>1, <1>2, <1>3, <1>9, <2>1 DEF OthersMarked, Marked, LastOf
<1>11. OwnCopy'
  <2>1. PICK k : k = job.at
    OBVIOUS
  <2>2. LastOf(job.path, t, k)' /\ log'[Day(t)][k].done
    <3>1. PICK p : p = job.path
      OBVIOUS
    <3>2. LastOf(p, t, k)'
      BY <1>1, <1>3, <1>5, <1>9, <2>1, <3>1, MarkKeepsLast
    <3>3. QED
      BY <1>2, <1>4, <1>9, <2>1, <3>1, <3>2 DEF LastOf
  <2>3. Marked(job.path, job.time)'
    BY <1>2, <1>9, <2>2 DEF Marked, LastOf
  <2>4. QED
    BY <1>2, <2>3 DEF OwnCopy
<1>12. Gone' /\ DropIsSaved'
  BY <1>1, <1>2 DEF Sound, BackupInv, Gone, DropIsSaved
<1>13. QED
  BY <1>6, <1>7, <1>8, <1>10, <1>11, <1>12 DEF BackupInv

\* The call ends with its own second marked, should that still be the present.
LEMMA ReturnBackup ==
    ASSUME Sound, NEW n \in 1 .. MaxSize, Return(n)
    PROVE  BackupInv'
<1>1. /\ TypeInv /\ job.stage = "returned" /\ UNCHANGED <<log, bak, now>> /\ job' = NoJob
      /\ job'.stage = "idle"
  BY NoJobTyped DEF Sound, CallInv, Return
<1>2. /\ When = job.time /\ When' = now /\ job.time \in Nat /\ now \in Nat /\ job.time <= now
      /\ job.path \in Paths
  BY <1>1, CallPlaces DEF When
<1>3. DOMAIN files \subseteq DOMAIN files' /\ \A v \in DOMAIN files : files'[v] = files[v]
  BY <1>1, <1>2, FilesGrow DEF Return, TypeInv
<1>4. InOrder' /\ DoneIsSaved' /\ NeverMixed'
  BY <1>1, <1>2, <1>3, QuietStep DEF Sound
<1>5. PICK t : t = now
  OBVIOUS
<1>6. \A p \in Paths : Marked(p, t)'
  <2>1. CASE t = job.time
    <3>1. \A p \in Paths : Marked(p, t)
      BY <1>1, <1>2, <2>1 DEF Sound, BackupInv, OthersMarked, OwnCopy
    <3>2. QED
      BY <1>1, <3>1 DEF Marked, LastOf
  <2>2. CASE t # job.time
    BY <1>1, <1>2, <1>5, <2>2, NothingLater DEF Sound
  <2>3. QED
    BY <2>1, <2>2
<1>7. OthersMarked'
  BY <1>1, <1>2, <1>5, <1>6 DEF OthersMarked, Marked, LastOf
<1>8. QED
  BY <1>1, <1>4, <1>7, IdleStep

\* The log that a crash leaves has the records that were written out.
LEMMA CrashBackup ==
    ASSUME Sound, Crash
    PROVE  BackupInv'
<1>1. /\ TypeInv /\ UNCHANGED <<files, pool, bak>> /\ job' = NoJob /\ now' = now + 1
      /\ job'.stage = "idle"
  BY NoJobTyped DEF Sound, CallInv, Crash
<1>2. When \in Nat /\ When <= now /\ now \in Nat /\ When' = now + 1
  BY <1>1, CallPlaces DEF When
<1>3. /\ DOMAIN log' = DOMAIN log
      /\ \A d \in DOMAIN log : /\ DOMAIN log'[d] \subseteq DOMAIN log[d]
                               /\ \A k \in DOMAIN log'[d] : log'[d][k] = log[d][k]
  BY <1>1, LostTyped DEF TypeInv, LogTyped
<1>4. InOrder'
  <2>1. ASSUME NEW d \in DOMAIN log, NEW k \in DOMAIN log'[d]
        PROVE  /\ log'[d][k].time <= now + 1
               /\ \A j \in 1 .. k : log'[d][j].time <= log'[d][k].time
    <3>1. /\ k \in DOMAIN log[d] /\ log[d][k].time <= When /\ log[d][k].time \in Nat
          /\ \A j \in 1 .. k : log[d][j].time <= log[d][k].time
      BY <1>1, <1>3, LogPlaces DEF Sound, BackupInv, InOrder
    <3>2. \A j \in 1 .. k : j \in DOMAIN log'[d]
      <4>1. d \in DOMAIN log' /\ TypeInv'
        BY <1>3 DEF Sound, CallInv
      <4>2. log'[d] \in Seq(Record)
        BY <4>1 DEF TypeInv, LogTyped
      <4>3. DOMAIN log'[d] = 1 .. Len(log'[d]) /\ Len(log'[d]) \in Nat
        BY <4>2
      <4>4. QED
        BY <4>3
    <3>3. log'[d][k].time <= now + 1
      BY <1>2, <1>3, <3>1
    <3>4. QED
      BY <1>3, <3>1, <3>2, <3>3
  <2>2. ASSUME NEW b \in DOMAIN bak
        PROVE  b[2] <= now + 1
    <3>1. b[2] \in Nat
      BY <1>1 DEF TypeInv, BakTyped
    <3>2. b[2] <= When
      BY DEF Sound, BackupInv, InOrder
    <3>3. QED
      BY <1>2, <3>1, <3>2
  <2>3. QED
    BY <1>1, <1>2, <1>3, <2>1, <2>2 DEF InOrder
<1>5. DoneIsSaved'
  <2>1. ASSUME NEW d \in DOMAIN log, NEW k \in DOMAIN log'[d], log'[d][k].done
        PROVE  \E b \in DOMAIN bak :
                   /\ b[1] = log'[d][k].path[2] /\ b[2] >= log'[d][k].time
                   /\ \E v \in DOMAIN files : files[v].path = log'[d][k].path /\ bak[b] = Blocks(v)
    <3>1. k \in DOMAIN log[d] /\ log'[d][k] = log[d][k] /\ log[d][k].done
      BY <1>3, <2>1
    <3>2. QED
      BY <3>1 DEF Sound, BackupInv, DoneIsSaved
  <2>2. QED
    BY <1>1, <1>3, <2>1 DEF DoneIsSaved, Blocks
<1>6. NeverMixed'
  BY <1>1 DEF Sound, BackupInv, NeverMixed
<1>7. PICK t : t = now + 1
  OBVIOUS
<1>8. \A p : Marked(p, t)'
  BY <1>1, <1>2, <1>7, NothingLater DEF Sound
<1>9. OthersMarked'
  BY <1>2, <1>7, <1>8 DEF OthersMarked, Marked, LastOf
<1>10. QED
  BY <1>1, <1>4, <1>5, <1>6, <1>9, IdleStep

\* Time passes: a new second has no backup, and a call keeps its own.
LEMMA TickBackup ==
    ASSUME Sound, Tick
    PROVE  BackupInv'
<1>1. /\ TypeInv /\ UNCHANGED <<files, pool, log, bak, job>> /\ now' = now + 1
  BY DEF Sound, CallInv, Tick
<1>2. CASE job.stage = "idle"
  <2>1. When = now /\ When' = now + 1 /\ now \in Nat /\ job'.stage = "idle"
    BY <1>1, <1>2, CallPlaces DEF When
  <2>2. InOrder' /\ DoneIsSaved' /\ NeverMixed'
    BY <1>1, <2>1, QuietStep DEF Sound
  <2>3. PICK t : t = now + 1
    OBVIOUS
  <2>4. \A p : Marked(p, t)'
    BY <1>1, <2>1, <2>3, NothingLater DEF Sound
  <2>5. OthersMarked'
    BY <2>1, <2>3, <2>4 DEF OthersMarked, Marked, LastOf
  <2>6. QED
    BY <2>1, <2>2, <2>5, IdleStep
<1>3. CASE job.stage # "idle"
  <2>1. When = job.time /\ When' = job.time /\ job.time \in Nat
    BY <1>1, <1>3, CallPlaces DEF When
  <2>2. InOrder' /\ DoneIsSaved' /\ NeverMixed'
    BY <1>1, <2>1, QuietStep DEF Sound
  <2>3. OthersMarked'
    BY <1>1, <2>1 DEF Sound, BackupInv, OthersMarked, Marked, LastOf
  <2>4. OwnCopy'
    BY <1>1 DEF Sound, BackupInv, OwnCopy, Marked, LastOf, Begun, Starts, DayLog, Target, BackupName,
                TargetWhole, Source, Blocks
  <2>5. Gone' /\ DropIsSaved'
    BY <1>1 DEF Sound, BackupInv, Gone, DropIsSaved, RecentlySaved, Blocks
  <2>6. QED
    BY <2>2, <2>3, <2>4, <2>5 DEF BackupInv
<1>4. QED
  BY <1>2, <1>3

LEMMA BackupStart == Init => BackupInv
<1> SUFFICES ASSUME Init PROVE BackupInv
  OBVIOUS
<1>1. job.stage = "idle" /\ bak = << >> /\ \A d \in DOMAIN log : log[d] = << >>
  BY NoJobTyped DEF Init
<1>2. InOrder /\ DoneIsSaved /\ NeverMixed
  BY <1>1 DEF InOrder, DoneIsSaved, NeverMixed
<1>3. OthersMarked
  BY <1>1 DEF OthersMarked, Marked
<1>4. QED
  BY <1>1, <1>2, <1>3 DEF BackupInv, OwnCopy, Gone, DropIsSaved

\* A step changes backups in Rename and in the two copies only.
BakKept == \A b \in DOMAIN bak : \A v \in DOMAIN files : bak[b] = Blocks(v) => bak'[b] = bak[b]

LEMMA BackupNext ==
    ASSUME Sound, [Next]_vars
    PROVE  BackupInv' /\ BakKept
<1>1. Mild
  BY DEF Sound
<1>2. ASSUME bak' = bak
      PROVE  BakKept
  BY <1>2 DEF BakKept
<1>3. CASE \E path \in Paths, n \in 1 .. MaxSize : PutNew(path, n)
  BY <1>2, <1>3, ClientsBackup DEF PutNew
<1>4. CASE \E path \in Paths, put \in BOOLEAN : Begin(path, put) \/ UnlinkLarge(path, put)
  BY <1>2, <1>4, ClientsBackup DEF Begin, UnlinkLarge
<1>5. CASE Open \/ FoundDone \/ FoundUndone \/ LogFails
  BY <1>2, <1>5, SearchBackup DEF Open, FoundDone, FoundUndone, LogFails
<1>6. CASE LogDelete
  BY <1>2, <1>6, RecordBackup DEF LogDelete
<1>7. CASE DropUnsaved
  BY <1>2, <1>7, DropBackup DEF DropUnsaved
<1>8. CASE Rename
  BY <1>8, RenameBackup DEF BakKept
<1>9. CASE CopyMore \/ CopyLast \/ ReadFails
  BY <1>9, CopyBackup DEF BakKept
<1>10. CASE UnlinkSource
  BY <1>2, <1>10, UnlinkBackup DEF UnlinkSource
<1>11. CASE MarkDone
  BY <1>2, <1>11, MarkBackup DEF MarkDone
<1>12. CASE \E n \in 1 .. MaxSize : Return(n)
  BY <1>2, <1>12, ReturnBackup DEF Return
<1>13. CASE Crash
  BY <1>2, <1>13, CrashBackup DEF Crash
<1>14. CASE Tick
  BY <1>2, <1>14, TickBackup DEF Tick
<1>15. CASE UNCHANGED vars
  <2>1. /\ UNCHANGED <<files, pool, bak, log, job, now>> /\ BackupInv
    BY <1>15 DEF vars, Sound
  <2>2. InOrder' /\ OthersMarked'
    BY <2>1 DEF BackupInv, InOrder, OthersMarked, Marked, LastOf, When
  <2>3. DoneIsSaved' /\ NeverMixed'
    <3>1. UNCHANGED When /\ When \in Nat
      BY <2>1, CallPlaces DEF When, Sound, CallInv
    <3>2. QED
      BY <2>1, <3>1, QuietStep DEF Sound, CallInv
  <2>4. OwnCopy'
    BY <2>1 DEF BackupInv, OwnCopy, Marked, LastOf, Begun, Starts, DayLog, Target, BackupName,
                TargetWhole, Source, Blocks
  <2>5. Gone' /\ DropIsSaved'
    BY <2>1 DEF BackupInv, Gone, DropIsSaved, RecentlySaved, Blocks
  <2>6. QED
    BY <1>2, <2>1, <2>2, <2>3, <2>4, <2>5 DEF BackupInv
<1>16. ~OpenFails /\ ~Reopen /\ ~RenameFails /\ ~CopyFails /\ ~UnlinkFails /\ ~MarkFails
  BY <1>1 DEF Mild, OpenFails, Reopen, RenameFails, CopyFails, UnlinkFails, MarkFails
<1>17. CASE Working
  BY <1>5, <1>6, <1>7, <1>8, <1>9, <1>10, <1>11, <1>12, <1>16, <1>17 DEF Working
<1>18. QED
  BY <1>3, <1>4, <1>13, <1>14, <1>15, <1>17 DEF Next

\* After any crash and resumption, and also when the log cannot be written: a
\* mark stands for a whole backup made no earlier, and no backup is a mixture.
THEOREM BackupsSoundAlways ==
    ASSUME NamesApart, Mild
    PROVE  Spec => []BackupsSound
<1>1. Init => CallInv /\ BackupInv
  BY CallStart, BackupStart
<1>2. CallInv /\ BackupInv /\ [Next]_vars => (CallInv /\ BackupInv)'
  BY CallNext, BackupNext DEF Sound
<1>3. CallInv /\ BackupInv => BackupsSound
  BY TypesMean DEF CallInv, BackupInv, BackupsSound
<1>4. QED
  BY <1>1, <1>2, <1>3, PTL DEF Spec

\* Under the same faults no deletion touches a backup that is whole.
THEOREM WholeIsKeptAlways ==
    ASSUME NamesApart, Mild
    PROVE  Spec => WholeIsKept
<1>1. Init => CallInv /\ BackupInv
  BY CallStart, BackupStart
<1>2. CallInv /\ BackupInv /\ [Next]_vars => (CallInv /\ BackupInv)'
  BY CallNext, BackupNext DEF Sound
<1>3. CallInv /\ BackupInv /\ [Next]_vars
      => [\A b \in DOMAIN bak : \A v \in DOMAIN files :
             bak[b] = Blocks(v) => bak'[b] = bak[b]]_vars
  BY CallNext, BackupNext DEF Sound, BakKept
<1>4. QED
  BY <1>1, <1>2, <1>3, PTL DEF Spec, WholeIsKept

\* The version v leaves the path p.
Leaves(p, v) == pool[p] = v /\ (p \notin DOMAIN pool' \/ pool'[p] # v)

\* A call takes away the one file it works on, and only with a reason.
LEMMA LeavesSaved ==
    ASSUME Sound, NoErrors, [Next]_vars, NEW p \in DOMAIN pool, NEW v \in DOMAIN files,
           Leaves(p, v), files[v].size <= MaxDelete
    PROVE  SavedWhole(v)' \/ RecentlySaved(p, job.time)
<1>1. TypeInv /\ p \in Paths /\ pool[p] = v /\ StillThere
  BY DEF Sound, CallInv, TypeInv, PoolTyped, Leaves
<1>2. ~UNCHANGED pool
  BY DEF Leaves
<1>3. ASSUME NEW path, pool' = Without(pool, path)
      PROVE  path = p
  BY <1>3 DEF Leaves, Without, Restrict
<1>4. ASSUME NEW path, path \notin DOMAIN pool, NEW x, pool' = Written(pool, path, x)
      PROVE  FALSE
  BY <1>4 DEF Leaves, Written
<1>5. ~\E path \in Paths, n \in 1 .. MaxSize : PutNew(path, n)
  BY <1>4 DEF PutNew
<1>6. ~\E path \in Paths, put \in BOOLEAN : UnlinkLarge(path, put)
  <2>1. SUFFICES ASSUME NEW path \in Paths, NEW put \in BOOLEAN, UnlinkLarge(path, put)
                 PROVE  FALSE
    OBVIOUS
  <2>2. pool' = Without(pool, path) /\ files[pool[path]].size > MaxDelete
    BY <2>1 DEF UnlinkLarge
  <2>3. path = p /\ files[v].size > MaxDelete
    <3>1. path = p
      BY <1>3, <2>2
    <3>2. pool[path] = v
      BY <1>1, <3>1
    <3>3. files[pool[path]].size > MaxDelete
      BY <2>2
    <3>4. files[v].size > MaxDelete
      BY <3>2, <3>3, Zenon
    <3>5. QED
      BY <3>1, <3>4
  <2>4. files[v].size \in Nat /\ MaxDelete \in Nat
    <3>1. files \in Seq(File)
      BY <1>1 DEF TypeInv, PoolTyped
    <3>2. files[v] \in File
      BY <3>1
    <3>3. QED
      BY <3>2, Bounds DEF File
  <2>5. QED
    BY <2>3, <2>4
<1>7. ~\E n \in 1 .. MaxSize : Return(n)
  <2>1. SUFFICES ASSUME NEW n \in 1 .. MaxSize, Return(n)
                 PROVE  FALSE
    OBVIOUS
  <2>2. job.path \notin DOMAIN pool
    BY <2>1 DEF Return, Sound, BackupInv, Gone
  <2>3. QED
    BY <1>2, <1>4, <2>1, <2>2 DEF Return
<1>8. CASE DropUnsaved
  <2>1. p = job.path
    BY <1>3, <1>8 DEF DropUnsaved
  <2>2. RecentlySaved(job.path, job.time)
    BY <1>8 DEF DropUnsaved, Sound, BackupInv, DropIsSaved
  <2>3. QED
    BY <2>1, <2>2
<1>9. CASE Rename
  <2>1. p = job.path /\ bak' = Written(bak, Target, Blocks(v)) /\ UNCHANGED files
    BY <1>1, <1>3, <1>9 DEF Rename
  <2>2. Target \in DOMAIN bak' /\ bak'[Target] = Blocks(v)
    BY <2>1 DEF Written
  <2>3. QED
    BY <2>1, <2>2, BlocksStay DEF SavedWhole
<1>10. CASE UnlinkSource
  <2>1. p = job.path /\ TargetWhole /\ UNCHANGED <<bak, files>>
    BY <1>3, <1>10 DEF UnlinkSource, Sound, BackupInv, OwnCopy
  <2>2. Target \in DOMAIN bak' /\ bak'[Target] = Blocks(v)
    BY <1>1, <2>1 DEF TargetWhole, Source
  <2>3. QED
    BY <2>1, <2>2, BlocksStay DEF SavedWhole
<1>11. ~OpenFails /\ ~Reopen /\ ~RenameFails /\ ~CopyFails /\ ~UnlinkFails /\ ~MarkFails /\ ~LogFails
  BY DEF NoErrors, OpenFails, Reopen, RenameFails, CopyFails, UnlinkFails, MarkFails, LogFails
<1>12. Working => DropUnsaved \/ Rename \/ UnlinkSource
  BY <1>2, <1>7, <1>11 DEF Working, Open, FoundDone, FoundUndone, LogDelete, CopyMore, CopyLast,
                           ReadFails, MarkDone
<1>13. ~Crash /\ ~Tick /\ ~UNCHANGED vars /\ ~\E path \in Paths, put \in BOOLEAN : Begin(path, put)
  BY <1>2 DEF Crash, Tick, vars, Begin
<1>14. QED
  BY <1>5, <1>6, <1>8, <1>9, <1>10, <1>12, <1>13 DEF Next

\* Where workers may die and reads fail but no call returns an error, cloud_delete never loses the
\* only version of a path that it may save: the file is in the backup whole,
\* or an earlier version of its path was saved within the interval.
THEOREM NothingLostAlways ==
    ASSUME NamesApart, NoErrors
    PROVE  Spec => NothingLost
<1>1. Mild
  BY DEF NoErrors, Mild
<1>2. Init => CallInv /\ BackupInv
  BY CallStart, BackupStart
<1>3. CallInv /\ BackupInv /\ [Next]_vars => (CallInv /\ BackupInv)'
  BY <1>1, CallNext, BackupNext DEF Sound
<1>4. CallInv /\ BackupInv /\ [Next]_vars
      => [\A p \in DOMAIN pool, v \in DOMAIN files :
             LET leaves == pool[p] = v /\ (p \notin DOMAIN pool' \/ pool'[p] # v)
             IN  leaves /\ files[v].size <= MaxDelete
                 => SavedWhole(v)' \/ RecentlySaved(p, job.time)]_vars
  BY <1>1, CallNext, LeavesSaved DEF Sound, Leaves
<1>5. QED
  BY <1>2, <1>3, <1>4, PTL DEF Spec, NothingLost
=============================================================================
