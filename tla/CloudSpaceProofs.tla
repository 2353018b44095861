-------------------------- MODULE CloudSpaceProofs --------------------------
(***************************************************************************)
(* What the workers do to the spaces of their users, for any set of        *)
(* workers and of users, any sizes and any bounds.  First the types, under *)
(* every fault.  Then the writers of a space and what they leave in it:    *)
(* the lock serialises the writers; the anchor index they write is dense,  *)
(* ordered and never behind what clients are told; the whole implements a  *)
(* journal under one lock (SpaceJournal).  The condition of these          *)
(* theorems, LeaseHeld, leaves out an early expiry of the lock and the     *)
(* loss of the reply that grants it; failing files, lost replies to set    *)
(* requests and crashed workers are all allowed.  The last two sections    *)
(* prove what a reader of the log and of the capacity file relies on, each *)
(* under the faults that cannot break it (LogFaults, CapacityFaults).  The *)
(* count of a space is lost without any fault when a DELETE, MOVE or COPY  *)
(* acts on a look at the tree that it took before it had the lock and that *)
(* another request outdated: such a space is in raced, and the last        *)
(* theorem is about the others.                                            *)
(***************************************************************************)
EXTENDS CloudSpace, TLAPS


(* An unsigned word stays in its range whatever is added to it. *)
LEMMA ModRange ==
    ASSUME NEW x \in Int
    PROVE  x % Word \in 0 .. Word - 1
  BY SpaceAssumption

LEMMA IncrementType ==
    ASSUME NEW t, NEW s \in Nat
    PROVE  UsedIncrement(t, s) \in Int /\ BakupIncrement(t, s) \in Int
  BY DEF UsedIncrement, BakupIncrement

LEMMA SizesNat == Sizes \subseteq Nat
  BY SpaceAssumption

LEMMA EmptyTypes == NoJob \in JobType /\ NoItem \in ItemType /\ NoTmp \in TmpType /\ NoAcc \in AccType
  BY SpaceAssumption DEF NoJob, NoItem, NoTmp, NoAcc, JobType, ItemType, TmpType, AccType, Stages

(* A handler that returns leaves well-typed locals and an idle worker. *)
LEMMA LeaveType ==
    ASSUME LocalOK, NEW w \in Workers, Leave(w)
    PROVE  LocalOK'
  BY EmptyTypes DEF Leave, Goto, LocalOK, Labels

LEMMA LockFailedType ==
    ASSUME LocalOK, NEW w \in Workers, LockFailed(w)
    PROVE  LocalOK'
  BY LeaveType DEF LockFailed, Goto, LocalOK, Labels, local

LEMMA GotoType ==
    ASSUME LocalOK, NEW w \in Workers, NEW label \in Labels, Goto(w, label), UNCHANGED local
    PROVE  LocalOK'
  BY DEF Goto, LocalOK, local

LEMMA RecordType ==
    ASSUME LocalOK, NEW w \in Workers, NEW item \in ItemType, NEW stage \in Stages,
           Record(w, item, stage)
    PROVE  LocalOK'
<1>1. (pc \in [Workers -> Labels])'
  BY DEF Record, Goto, LocalOK, Labels
<1>2. (job \in [Workers -> JobType])'
  BY DEF Record, LocalOK, JobType
<1>3. (cur \in [Workers -> ItemType])'
  BY DEF Record, LocalOK
<1>4. (tmp \in [Workers -> TmpType])'
  BY DEF Record, LocalOK
<1>5. QED
  BY <1>1, <1>2, <1>3, <1>4 DEF LocalOK

(* A worker's scratch values, and its account, stay typed when a typed value *)
(* takes their place; AfterAddi writes one position into the account.        *)
LEMMA TmpTyped ==
    ASSUME LocalOK, NEW w \in Workers, NEW t \in TmpType, tmp' = [tmp EXCEPT ![w] = t]
    PROVE  (tmp \in [Workers -> TmpType])'
  BY DEF LocalOK

LEMMA AfterAddiType ==
    ASSUME AccOK, NEW w \in Workers, NEW n \in Nat, AfterAddi(w, n)
    PROVE  AccOK'
<1> DEFINE a == [acc[w] EXCEPT !.anchor = n]
<1>1. a \in AccType
  BY DEF AccOK, AccType
<1>2. acc' = acc \/ acc' = [acc EXCEPT ![w] = a]
  BY DEF AfterAddi
<1> HIDE DEF a
<1>3. QED
  BY <1>1, <1>2 DEF AccOK

LEMMA ItemTypes ==
    ASSUME NEW s \in Nat, NEW f \in BOOLEAN, NEW t \in Types
    PROVE  Deleted(s) \in ItemType /\ Added(s) \in ItemType /\ Paired(t, s, f) \in ItemType
  BY DEF Deleted, Added, Paired, ItemType, Types

(* What the worker records of a file that it deletes or overwrites, whether *)
(* the file is there or gone.                                              *)
Deletes(w) == \E size \in Nat, stage \in Stages : Record(w, Deleted(size), stage)

LEMMA DeletesType ==
    ASSUME NEW w \in Workers, NEW s \in Sizes, Overwrite(w, s) \/ DeleteFile(w, s)
    PROVE  pc[w] = "body" /\ Deletes(w)
<1>1. \A stage : MisjudgeFile(w, stage) => \E size \in Nat : Record(w, Deleted(size), stage)
  BY SpaceAssumption DEF MisjudgeFile
<1>2. CASE Overwrite(w, s)
  BY <1>1, <1>2, SizesNat DEF Overwrite, Deletes, Stages
<1>3. CASE DeleteFile(w, s)
  BY <1>1, <1>3, SizesNat DEF DeleteFile, Deletes, Stages
<1>4. QED
  BY <1>2, <1>3

LEMMA BytesType ==
    ASSUME StoreOK, NEW w \in Workers, Space(w) \in Users, NEW s \in Nat,
           AddBytes(w, s) \/ DropBytes(w, s) \/ Misjudge(w, s) \/ SameBytes
    PROVE  (bytes \in [Users -> Nat])'
<1>1. CASE AddBytes(w, s)
  BY <1>1 DEF StoreOK, AddBytes
<1>2. CASE DropBytes(w, s)
  <2>1. bytes[Space(w)] - s \in Nat
    BY <1>2 DEF StoreOK, DropBytes
  <2>2. QED
    BY <1>2, <2>1 DEF StoreOK, DropBytes
<1>3. CASE Misjudge(w, s)
  <2>1. PICK gone \in 0 .. bytes[Space(w)] : bytes' = [bytes EXCEPT ![Space(w)] = @ - gone + s]
    BY <1>3 DEF Misjudge
  <2>2. bytes[Space(w)] - gone + s \in Nat
    BY DEF StoreOK
  <2>3. QED
    BY <2>1, <2>2 DEF StoreOK
<1>4. CASE SameBytes
  BY <1>4 DEF StoreOK, SameBytes
<1>5. QED
  BY <1>1, <1>2, <1>3, <1>4

LEMMA LastNumberType ==
    ASSUME StoreOK, NEW u \in Users
    PROVE  LastNumber(u) \in Nat
<1>1. CASE idx[u] = <<>>
  BY <1>1 DEF LastNumber
<1>2. CASE idx[u] # <<>>
  <2> DEFINE Entry == [num : Nat, oset : Nat]
  <2>1. idx[u] \in Seq(Entry)
    BY DEF StoreOK
  <2> HIDE DEF Entry
  <2>2. Len(idx[u]) \in 1 .. Len(idx[u])
    BY <1>2, <2>1
  <2>3. idx[u][Len(idx[u])] \in Entry
    BY <2>1, <2>2
  <2>4. idx[u][Len(idx[u])].num \in Nat
    BY <2>3 DEF Entry
  <2>5. QED
    BY <1>2, <2>4 DEF LastNumber
<1>3. QED
  BY <1>1, <1>2

LEMMA LogSizesType ==
    ASSUME StoreOK, NEW u \in Users
    PROVE  LogSizes(u) \subseteq Nat
<1>1. Len(acd[u]) \in Nat
  BY DEF StoreOK
<1>2. 0 .. Word - 1 \subseteq Nat
  BY SpaceAssumption
<1>3. QED
  BY <1>1, <1>2 DEF LogSizes

LEMMA ReleasedType ==
    ASSUME CacheOK, NEW w \in Workers, Released(w) \/ SendLost, UNCHANGED started
    PROVE  CacheOK'
  BY DEF CacheOK, Released, SendLost

LEMMA PublishedType ==
    ASSUME CacheOK, AccOK, NEW w \in Workers, Published(w) \/ SendLost, UNCHANGED started
    PROVE  CacheOK'
  BY DEF CacheOK, AccOK, AccType, Published, SendLost

LEMMA GrantType ==
    ASSUME CacheOK, NEW u, NEW n \in Nat, GrantTo(u, n), UNCHANGED started
    PROVE  CacheOK'
  BY DEF CacheOK, GrantTo

LEMMA SpaceInUsers ==
    ASSUME SpaceKnown, NEW w \in Workers, pc[w] \in Writing
    PROVE  Space(w) \in Users
  BY DEF SpaceKnown

TypeInv == TypeOK /\ SpaceKnown /\ ItemKnown

(* What a step adds to the requests with an outdated look and to the spaces *)
(* in which one went wrong.                                                 *)
Looks ==
    /\ UNCHANGED stale \/ \E w \in Workers : Touch(w)
    /\ UNCHANGED raced \/ \E w \in Workers : pc[w] = "body" /\ raced' = raced \cup {Space(w)}

LEMMA ServingLooks ==
    ASSUME NEW w \in Workers, Serving(w)
    PROVE  Looks
<1>1. CASE \E s \in Sizes : Overwrite(w, s) \/ DeleteFile(w, s)
  BY <1>1 DEF Overwrite, DeleteFile, MisjudgeFile, Misjudge, DropBytes, SameBytes, Record, Looks
<1>2. CASE \E s \in Sizes : OverwriteUnrecorded(w, s) \/ CopyFile(w, s) \/ SinglePut(w, s) \/ PutUnrecorded(w, s)
  BY <1>2 DEF OverwriteUnrecorded, CopyFile, SinglePut, PutUnrecorded, AddBytes, DropBytes, SameBytes, Record, Looks
<1>3. CASE SingleMove(w) \/ \E s \in Sizes : SingleCopy(w, s)
  BY <1>3 DEF SingleMove, SingleCopy, Misjudge, AddBytes, SameBytes, Record, Looks
<1>4. CASE MoveFile(w)
  BY <1>4 DEF MoveFile, AddBytes, DropBytes, SameBytes, Record, Looks
<1>5. CASE EndWalk(w) \/ BodyFails(w)
  BY <1>5 DEF EndWalk, BodyFails, store, Looks
<1>6. QED
  BY <1>1, <1>2, <1>3, <1>4, <1>5 DEF Serving

LEMMA NextLooks ==
    ASSUME [Next]_vars
    PROVE  Looks
<1>1. CASE \E w \in Workers : Serving(w)
  BY <1>1, ServingLooks
<1>2. CASE \E w \in Workers : Locking(w)
  BY <1>2 DEF Locking, Query, QueryRefused, QueryFails, Status, StatusRefused, StatusLost, Check, store, Looks
<1>3. CASE \E w \in Workers : Recording(w)
  BY <1>3 DEF Recording, Flush, AddiRead, AddiAppend, AddiFails, CapaRead, CapaWrite, CapaFails, store, Looks
<1>4. CASE \E w \in Workers : Unlocking(w) \/ Crash(w)
  BY <1>4 DEF Unlocking, Publish, UnlockFull, Unlock, Release, Crash, store, Looks
<1>5. CASE \/ \E w \in Workers, u \in Users, op \in Ops : Start(w, u, op)
           \/ (\E u \in Users : Expire(u)) \/ Rest \/ UNCHANGED vars
  BY <1>5 DEF Start, Expire, Rest, vars, store, Looks
<1>6. QED
  BY <1>1, <1>2, <1>3, <1>4, <1>5 DEF Next, Step

LEMMA LooksType ==
    ASSUME TypeInv, [Next]_vars
    PROVE  LooksOK'
<1>1. Looks
  BY NextLooks
<1>2. (stale \subseteq Nat)'
  <2>1. \A v \in Workers : job[v].id \in Nat
    BY DEF TypeInv, TypeOK, LocalOK, JobType
  <2>2. stale \subseteq Nat
    BY DEF TypeInv, TypeOK, LooksOK
  <2>3. ASSUME NEW w \in Workers, Touch(w)
        PROVE  stale' \subseteq Nat
    <3>1. stale' \subseteq stale \cup {job[v].id : v \in Workers}
      BY <2>3 DEF Touch
    <3>2. QED
      BY <2>1, <2>2, <3>1
  <2>4. QED
    BY <1>1, <2>2, <2>3 DEF Looks
<1>3. (raced \subseteq Users)'
  <2>1. \A w \in Workers : pc[w] = "body" => Space(w) \in Users
    BY DEF TypeInv, SpaceKnown, Writing
  <2>2. QED
    BY <1>1, <2>1 DEF Looks, TypeInv, TypeOK, LooksOK
<1>4. QED
  BY <1>2, <1>3 DEF LooksOK

(* In every state the types hold, a worker that serves a request knows its  *)
(* user and, from the lock on, its location: no step of a body runs on the *)
(* empty statics of a fresh worker.                                        *)
THEOREM TypeInvariant == Spec => []TypeInv
<1>1. Init => TypeInv
  <2> SUFFICES ASSUME Init PROVE TypeInv
    OBVIOUS
  <2>1. LocalOK
    BY EmptyTypes DEF Init, LocalOK, Labels
  <2>2. AccOK
    BY EmptyTypes DEF Init, AccOK
  <2>3. CacheOK /\ StoreOK /\ LooksOK
    BY SpaceAssumption DEF Init, CacheOK, StoreOK, LooksOK
  <2>4. SpaceKnown
    BY DEF Init, SpaceKnown, Writing
  <2>5. ItemKnown
    BY DEF Init, ItemKnown, NoItem
  <2>6. QED
    BY <2>1, <2>2, <2>3, <2>4, <2>5 DEF TypeInv, TypeOK
<1>2. TypeInv /\ [Next]_vars => TypeInv'
  <2> SUFFICES ASSUME TypeInv, [Next]_vars PROVE TypeInv'
    OBVIOUS
  <2>0. LooksOK'
    BY LooksType
  <2> USE DEF TypeInv, TypeOK
  <2>1. ASSUME NEW w \in Workers, NEW u \in Users, NEW op \in Ops, Start(w, u, op)
       PROVE  TypeInv'
    <3>1. LocalOK'
      BY <2>1 DEF LocalOK, Start, local, JobType, Stages, Goto, Labels, Ops, CacheOK
    <3>2. AccOK'
      BY <2>1 DEF AccOK, Start, AccType
    <3>3. CacheOK'
      BY <2>1 DEF CacheOK, Start
    <3>4. StoreOK'
      BY <2>1 DEF StoreOK, store, Start
    <3>5. SpaceKnown'
      BY <2>1 DEF SpaceKnown, LocalOK, AccOK, Space, Goto, Writing, local, Start, AccType
    <3>6. ItemKnown'
      BY <2>1 DEF ItemKnown, LocalOK, ItemType, Types, local, Goto, Start
    <3>7. QED
      BY <2>0, <3>1, <3>2, <3>3, <3>4, <3>5, <3>6 DEF TypeInv, TypeOK
  <2>2. ASSUME NEW w \in Workers, Query(w)
       PROVE  TypeInv'
    <3>1. LocalOK'
      BY <2>2, GotoType DEF Query, Labels
    <3>2. AccOK'
      <4>1. acc[w].uid \in Users
        BY <2>2 DEF SpaceKnown, Query
      <4>2. job[w].id \in Nat /\ cache[acc[w].uid].anchor \in Nat
        BY <4>1 DEF LocalOK, JobType, CacheOK
      <4>3. QED
        BY <2>2, <4>2 DEF AccOK, AccType, Query
    <3>3. CacheOK'
      BY <2>2 DEF CacheOK, Query, SpaceKnown, LocalOK, JobType
    <3>4. StoreOK'
      BY <2>2 DEF StoreOK, store, Query
    <3>5. SpaceKnown'
      BY <2>2 DEF SpaceKnown, LocalOK, AccOK, Space, Goto, Writing, local, Query, AccType
    <3>6. ItemKnown'
      BY <2>2 DEF ItemKnown, LocalOK, ItemType, Types, local, Goto, Query
    <3>7. QED
      BY <2>0, <3>1, <3>2, <3>3, <3>4, <3>5, <3>6 DEF TypeInv, TypeOK
  <2>3. ASSUME NEW w \in Workers, QueryRefused(w)
       PROVE  TypeInv'
    <3>1. LocalOK'
      BY <2>3, LockFailedType DEF LocalOK, QueryRefused, local
    <3>2. AccOK'
      BY <2>3 DEF AccOK, QueryRefused
    <3>3. CacheOK'
      BY <2>3 DEF CacheOK, QueryRefused
    <3>4. StoreOK'
      BY <2>3 DEF StoreOK, store, QueryRefused
    <3>5. SpaceKnown'
      BY <2>3 DEF SpaceKnown, LocalOK, AccOK, Space, Goto, Writing, local, QueryRefused, LockFailed, Leave
    <3>6. ItemKnown'
      BY <2>3 DEF ItemKnown, LocalOK, ItemType, Types, local, Goto, QueryRefused, LockFailed, Leave, NoItem
    <3>7. QED
      BY <2>0, <3>1, <3>2, <3>3, <3>4, <3>5, <3>6 DEF TypeInv, TypeOK
  <2>4. ASSUME NEW w \in Workers, QueryFails(w)
       PROVE  TypeInv'
    <3>1. LocalOK'
      BY <2>4, LockFailedType DEF QueryFails
    <3>2. AccOK'
      <4>1. CASE acc' = acc
        BY <4>1 DEF AccOK
      <4>2. CASE acc' = [acc EXCEPT ![w].valid = job[w].id]
        BY <4>2 DEF AccOK, AccType, LocalOK, JobType
      <4>3. QED
        BY <2>4, <4>1, <4>2 DEF QueryFails
    <3>3. CacheOK'
      BY <2>4 DEF CacheOK, QueryFails
    <3>4. StoreOK'
      BY <2>4 DEF StoreOK, store, QueryFails
    <3>5. SpaceKnown'
      BY <2>4 DEF SpaceKnown, LocalOK, AccOK, Space, Goto, Writing, local, QueryFails, LockFailed, Leave, AccType
    <3>6. ItemKnown'
      BY <2>4 DEF ItemKnown, LocalOK, ItemType, Types, local, Goto, QueryFails, LockFailed, Leave, NoItem
    <3>7. QED
      BY <2>0, <3>1, <3>2, <3>3, <3>4, <3>5, <3>6 DEF TypeInv, TypeOK
  <2>5. ASSUME NEW w \in Workers, Status(w)
       PROVE  TypeInv'
    <3>1. LocalOK'
      BY <2>5 DEF LocalOK, Status, local, Goto, Labels
    <3>2. AccOK'
      BY <2>5 DEF AccOK, Status, AccType, SpaceKnown
    <3>3. CacheOK'
      BY <2>5, GrantType DEF CacheOK, Status, AccOK, AccType
    <3>4. StoreOK'
      BY <2>5 DEF StoreOK, store, Status
    <3>5. SpaceKnown'
      BY <2>5 DEF SpaceKnown, LocalOK, AccOK, Space, Goto, Writing, local, Status, AccType
    <3>6. ItemKnown'
      BY <2>5 DEF ItemKnown, LocalOK, ItemType, Types, local, Goto, Status
    <3>7. QED
      BY <2>0, <3>1, <3>2, <3>3, <3>4, <3>5, <3>6 DEF TypeInv, TypeOK
  <2>6. ASSUME NEW w \in Workers, StatusRefused(w)
       PROVE  TypeInv'
    <3>1. LocalOK'
      BY <2>6, LockFailedType DEF LocalOK, StatusRefused, local
    <3>2. AccOK'
      BY <2>6 DEF AccOK, StatusRefused
    <3>3. CacheOK'
      BY <2>6 DEF CacheOK, StatusRefused
    <3>4. StoreOK'
      BY <2>6 DEF StoreOK, store, StatusRefused
    <3>5. SpaceKnown'
      BY <2>6 DEF SpaceKnown, LocalOK, AccOK, Space, Goto, Writing, local, StatusRefused, LockFailed, Leave
    <3>6. ItemKnown'
      BY <2>6 DEF ItemKnown, LocalOK, ItemType, Types, local, Goto, StatusRefused, LockFailed, Leave, NoItem
    <3>7. QED
      BY <2>0, <3>1, <3>2, <3>3, <3>4, <3>5, <3>6 DEF TypeInv, TypeOK
  <2>7. ASSUME NEW w \in Workers, StatusLost(w)
       PROVE  TypeInv'
    <3>1. LocalOK'
      BY <2>7, LockFailedType DEF LocalOK, StatusLost, local
    <3>2. AccOK'
      BY <2>7 DEF AccOK, StatusLost
    <3>3. CacheOK'
      BY <2>7, GrantType DEF CacheOK, StatusLost, AccOK, AccType
    <3>4. StoreOK'
      BY <2>7 DEF StoreOK, store, StatusLost
    <3>5. SpaceKnown'
      BY <2>7 DEF SpaceKnown, LocalOK, AccOK, Space, Goto, Writing, local, StatusLost, LockFailed, Leave
    <3>6. ItemKnown'
      BY <2>7 DEF ItemKnown, LocalOK, ItemType, Types, local, Goto, StatusLost, LockFailed, Leave, NoItem
    <3>7. QED
      BY <2>0, <3>1, <3>2, <3>3, <3>4, <3>5, <3>6 DEF TypeInv, TypeOK
  <2>8. ASSUME NEW w \in Workers, Check(w)
       PROVE  TypeInv'
    <3>1. LocalOK'
      BY <2>8 DEF LocalOK, Check, local, Goto, Labels
    <3>2. AccOK'
      BY <2>8 DEF AccOK, Check
    <3>3. CacheOK'
      BY <2>8 DEF CacheOK, Check
    <3>4. StoreOK'
      BY <2>8 DEF StoreOK, store, Check
    <3>5. SpaceKnown'
      BY <2>8 DEF SpaceKnown, LocalOK, AccOK, Space, Goto, Writing, local, Check
    <3>6. ItemKnown'
      BY <2>8 DEF ItemKnown, LocalOK, ItemType, Types, local, Goto, Check
    <3>7. QED
      BY <2>0, <3>1, <3>2, <3>3, <3>4, <3>5, <3>6 DEF TypeInv, TypeOK
  <2>9. ASSUME NEW w \in Workers, NEW s \in Sizes, Overwrite(w, s)
       PROVE  TypeInv'
    <3>0. PICK size \in Nat, stage \in Stages : pc[w] = "body" /\ Record(w, Deleted(size), stage)
      BY <2>9, DeletesType DEF Deletes
    <3>1. LocalOK'
      BY <3>0, RecordType, ItemTypes DEF Types
    <3>2. AccOK'
      BY <3>0 DEF AccOK, Record
    <3>3. CacheOK'
      BY <3>0 DEF CacheOK, Record
    <3>4. StoreOK'
      <4>1. Space(w) \in Users /\ s \in Nat /\ 0 \in Nat
        BY <3>0, SpaceInUsers, SizesNat DEF Writing
      <4>2. (bytes \in [Users -> Nat])'
        BY <2>9, <4>1, BytesType DEF Overwrite, MisjudgeFile
      <4>3. QED
        BY <3>0, <4>2 DEF StoreOK, store, Record
    <3>5. SpaceKnown'
      BY <3>0 DEF SpaceKnown, LocalOK, AccOK, Space, Goto, Writing, local, Record
    <3>6. ItemKnown'
      BY <3>0 DEF ItemKnown, LocalOK, ItemType, Types, local, Goto, Record, Deleted
    <3>7. QED
      BY <2>0, <3>1, <3>2, <3>3, <3>4, <3>5, <3>6 DEF TypeInv, TypeOK
  <2>10. ASSUME NEW w \in Workers, NEW s \in Sizes, DeleteFile(w, s)
       PROVE  TypeInv'
    <3>0. PICK size \in Nat, stage \in Stages : pc[w] = "body" /\ Record(w, Deleted(size), stage)
      BY <2>10, DeletesType DEF Deletes
    <3>1. LocalOK'
      BY <3>0, RecordType, ItemTypes DEF Types
    <3>2. AccOK'
      BY <3>0 DEF AccOK, Record
    <3>3. CacheOK'
      BY <3>0 DEF CacheOK, Record
    <3>4. StoreOK'
      <4>1. Space(w) \in Users /\ s \in Nat /\ 0 \in Nat
        BY <3>0, SpaceInUsers, SizesNat DEF Writing
      <4>2. (bytes \in [Users -> Nat])'
        BY <2>10, <4>1, BytesType DEF DeleteFile, MisjudgeFile
      <4>3. QED
        BY <3>0, <4>2 DEF StoreOK, store, Record
    <3>5. SpaceKnown'
      BY <3>0 DEF SpaceKnown, LocalOK, AccOK, Space, Goto, Writing, local, Record
    <3>6. ItemKnown'
      BY <3>0 DEF ItemKnown, LocalOK, ItemType, Types, local, Goto, Record, Deleted
    <3>7. QED
      BY <2>0, <3>1, <3>2, <3>3, <3>4, <3>5, <3>6 DEF TypeInv, TypeOK
  <2>11. ASSUME NEW w \in Workers, NEW s \in Sizes, CopyFile(w, s)
       PROVE  TypeInv'
    <3>1. LocalOK'
      BY <2>11, RecordType, ItemTypes, SizesNat DEF LocalOK, CopyFile, local, Types, Stages, JobType
    <3>2. AccOK'
      BY <2>11 DEF AccOK, CopyFile, Record
    <3>3. CacheOK'
      BY <2>11 DEF CacheOK, CopyFile, Record
    <3>4. StoreOK'
      <4>1. Space(w) \in Users /\ s \in Nat
        BY <2>11, SpaceInUsers, SizesNat DEF Writing, CopyFile
      <4>2. (bytes \in [Users -> Nat])'
        BY <2>11, <4>1, BytesType DEF CopyFile
      <4>3. QED
        BY <2>11, <4>2 DEF StoreOK, store, CopyFile, Record
    <3>5. SpaceKnown'
      BY <2>11 DEF SpaceKnown, LocalOK, AccOK, Space, Goto, Writing, local, CopyFile, Record
    <3>6. ItemKnown'
      BY <2>11 DEF ItemKnown, LocalOK, ItemType, Types, local, Goto, CopyFile, Record, Paired
    <3>7. QED
      BY <2>0, <3>1, <3>2, <3>3, <3>4, <3>5, <3>6 DEF TypeInv, TypeOK
  <2>12. ASSUME NEW w \in Workers, NEW s \in Sizes, SinglePut(w, s)
       PROVE  TypeInv'
    <3>1. LocalOK'
      BY <2>12, RecordType, ItemTypes, SizesNat DEF LocalOK, SinglePut, local, Types, Stages, JobType
    <3>2. AccOK'
      BY <2>12 DEF AccOK, SinglePut, Record
    <3>3. CacheOK'
      BY <2>12 DEF CacheOK, SinglePut, Record
    <3>4. StoreOK'
      <4>1. Space(w) \in Users /\ s \in Nat
        BY <2>12, SpaceInUsers, SizesNat DEF Writing, SinglePut
      <4>2. (bytes \in [Users -> Nat])'
        BY <2>12, <4>1, BytesType DEF SinglePut
      <4>3. QED
        BY <2>12, <4>2 DEF StoreOK, store, SinglePut, Record
    <3>5. SpaceKnown'
      BY <2>12 DEF SpaceKnown, LocalOK, AccOK, Space, Goto, Writing, local, SinglePut, Record
    <3>6. ItemKnown'
      BY <2>12 DEF ItemKnown, LocalOK, ItemType, Types, local, Goto, SinglePut, Record, Added
    <3>7. QED
      BY <2>0, <3>1, <3>2, <3>3, <3>4, <3>5, <3>6 DEF TypeInv, TypeOK
  <2>13. ASSUME NEW w \in Workers, NEW s \in Sizes, SingleCopy(w, s)
       PROVE  TypeInv'
    <3>1. LocalOK'
      BY <2>13, RecordType, ItemTypes, SizesNat DEF LocalOK, SingleCopy, local, Types, Stages, JobType
    <3>2. AccOK'
      BY <2>13 DEF AccOK, SingleCopy, Record
    <3>3. CacheOK'
      BY <2>13 DEF CacheOK, SingleCopy, Record
    <3>4. StoreOK'
      <4>1. Space(w) \in Users /\ s \in Nat
        BY <2>13, SpaceInUsers, SizesNat DEF Writing, SingleCopy
      <4>2. (bytes \in [Users -> Nat])'
        BY <2>13, <4>1, BytesType DEF SingleCopy
      <4>3. QED
        BY <2>13, <4>2 DEF StoreOK, store, SingleCopy, Record
    <3>5. SpaceKnown'
      BY <2>13 DEF SpaceKnown, LocalOK, AccOK, Space, Goto, Writing, local, SingleCopy, Record
    <3>6. ItemKnown'
      BY <2>13 DEF ItemKnown, LocalOK, ItemType, Types, local, Goto, SingleCopy, Record, Paired
    <3>7. QED
      BY <2>0, <3>1, <3>2, <3>3, <3>4, <3>5, <3>6 DEF TypeInv, TypeOK
  <2>14. ASSUME NEW w \in Workers, NEW s \in Sizes, PutUnrecorded(w, s)
       PROVE  TypeInv'
    <3>1. LocalOK'
      BY <2>14 DEF LocalOK, PutUnrecorded, local, Goto, Labels
    <3>2. AccOK'
      BY <2>14 DEF AccOK, PutUnrecorded
    <3>3. CacheOK'
      BY <2>14 DEF CacheOK, PutUnrecorded
    <3>4. StoreOK'
      <4>1. Space(w) \in Users /\ s \in Nat
        BY <2>14, SpaceInUsers, SizesNat DEF Writing, PutUnrecorded
      <4>2. (bytes \in [Users -> Nat])'
        BY <2>14, <4>1, BytesType DEF PutUnrecorded
      <4>3. QED
        BY <2>14, <4>2 DEF StoreOK, store, PutUnrecorded
    <3>5. SpaceKnown'
      BY <2>14 DEF SpaceKnown, LocalOK, AccOK, Space, Goto, Writing, local, PutUnrecorded
    <3>6. ItemKnown'
      BY <2>14 DEF ItemKnown, LocalOK, ItemType, Types, local, Goto, PutUnrecorded
    <3>7. QED
      BY <2>0, <3>1, <3>2, <3>3, <3>4, <3>5, <3>6 DEF TypeInv, TypeOK
  <2>15. ASSUME NEW w \in Workers, MoveFile(w)
       PROVE  TypeInv'
    <3>1. LocalOK'
      BY <2>15, RecordType, ItemTypes, SizesNat DEF LocalOK, MoveFile, local, Types, Stages, JobType
    <3>2. AccOK'
      BY <2>15 DEF AccOK, MoveFile, Record
    <3>3. CacheOK'
      BY <2>15 DEF CacheOK, MoveFile, Record
    <3>4. StoreOK'
      <4>1. Space(w) \in Users /\ 0 \in Nat
        BY <2>15, SpaceInUsers DEF Writing, MoveFile
      <4>2. (bytes \in [Users -> Nat])'
        BY <2>15, <4>1, BytesType, SizesNat DEF MoveFile
      <4>3. QED
        BY <2>15, <4>2 DEF StoreOK, store, MoveFile, Record
    <3>5. SpaceKnown'
      BY <2>15 DEF SpaceKnown, LocalOK, AccOK, Space, Goto, Writing, local, MoveFile, Record
    <3>6. ItemKnown'
      BY <2>15 DEF ItemKnown, LocalOK, ItemType, Types, local, Goto, MoveFile, Record, Paired
    <3>7. QED
      BY <2>0, <3>1, <3>2, <3>3, <3>4, <3>5, <3>6 DEF TypeInv, TypeOK
  <2>16. ASSUME NEW w \in Workers, SingleMove(w)
       PROVE  TypeInv'
    <3>1. LocalOK'
      BY <2>16, RecordType, ItemTypes, SizesNat DEF LocalOK, SingleMove, local, Types, Stages, JobType
    <3>2. AccOK'
      BY <2>16 DEF AccOK, SingleMove, Record
    <3>3. CacheOK'
      BY <2>16 DEF CacheOK, SingleMove, Record
    <3>4. StoreOK'
      <4>1. Space(w) \in Users /\ 0 \in Nat
        BY <2>16, SpaceInUsers DEF Writing, SingleMove
      <4>2. (bytes \in [Users -> Nat])'
        BY <2>16, <4>1, BytesType DEF SingleMove
      <4>3. QED
        BY <2>16, <4>2 DEF StoreOK, store, SingleMove, Record
    <3>5. SpaceKnown'
      BY <2>16 DEF SpaceKnown, LocalOK, AccOK, Space, Goto, Writing, local, SingleMove, Record
    <3>6. ItemKnown'
      BY <2>16 DEF ItemKnown, LocalOK, ItemType, Types, local, Goto, SingleMove, Record, Paired
    <3>7. QED
      BY <2>0, <3>1, <3>2, <3>3, <3>4, <3>5, <3>6 DEF TypeInv, TypeOK
  <2>17. ASSUME NEW w \in Workers, EndWalk(w)
       PROVE  TypeInv'
    <3>1. LocalOK'
      BY <2>17 DEF LocalOK, EndWalk, local, Goto, Labels
    <3>2. AccOK'
      BY <2>17 DEF AccOK, EndWalk
    <3>3. CacheOK'
      BY <2>17 DEF CacheOK, EndWalk
    <3>4. StoreOK'
      BY <2>17 DEF StoreOK, store, EndWalk
    <3>5. SpaceKnown'
      BY <2>17 DEF SpaceKnown, LocalOK, AccOK, Space, Goto, Writing, local, EndWalk
    <3>6. ItemKnown'
      BY <2>17 DEF ItemKnown, LocalOK, ItemType, Types, local, Goto, EndWalk
    <3>7. QED
      BY <2>0, <3>1, <3>2, <3>3, <3>4, <3>5, <3>6 DEF TypeInv, TypeOK
  <2>18. ASSUME NEW w \in Workers, BodyFails(w)
       PROVE  TypeInv'
    <3>1. LocalOK'
      BY <2>18 DEF LocalOK, BodyFails, local, Goto, Labels
    <3>2. AccOK'
      BY <2>18 DEF AccOK, BodyFails
    <3>3. CacheOK'
      BY <2>18 DEF CacheOK, BodyFails
    <3>4. StoreOK'
      BY <2>18 DEF StoreOK, store, BodyFails
    <3>5. SpaceKnown'
      BY <2>18 DEF SpaceKnown, LocalOK, AccOK, Space, Goto, Writing, local, BodyFails
    <3>6. ItemKnown'
      BY <2>18 DEF ItemKnown, LocalOK, ItemType, Types, local, Goto, BodyFails
    <3>7. QED
      BY <2>0, <3>1, <3>2, <3>3, <3>4, <3>5, <3>6 DEF TypeInv, TypeOK
  <2>19. ASSUME NEW w \in Workers, Flush(w)
       PROVE  TypeInv'
    <3>1. LocalOK'
      BY <2>19 DEF LocalOK, Flush, local, Goto, Labels
    <3>2. AccOK'
      BY <2>19 DEF AccOK, Flush
    <3>3. CacheOK'
      BY <2>19 DEF CacheOK, Flush
    <3>4. StoreOK'
      <4>1. Space(w) \in Users
        BY <2>19, SpaceInUsers DEF Writing, Flush
      <4>2. cur[w].type \in Types
        BY <2>19 DEF ItemKnown, LocalOK, ItemType, Flush
      <4>3. QED
        <5>1. CASE UNCHANGED acd
          BY <2>19, <5>1 DEF StoreOK, Flush
        <5>2. CASE acd' = [acd EXCEPT ![Space(w)] = Append(@, cur[w].type)]
          BY <2>19, <4>1, <4>2, <5>2 DEF StoreOK, Flush
        <5>3. QED
          BY <2>19, <5>1, <5>2 DEF Flush
    <3>5. SpaceKnown'
      BY <2>19 DEF SpaceKnown, LocalOK, AccOK, Space, Goto, Writing, local, Flush
    <3>6. ItemKnown'
      BY <2>19 DEF ItemKnown, LocalOK, ItemType, Types, local, Goto, Flush, Final
    <3>7. QED
      BY <2>0, <3>1, <3>2, <3>3, <3>4, <3>5, <3>6 DEF TypeInv, TypeOK
  <2>20. ASSUME NEW w \in Workers, AddiRead(w)
       PROVE  TypeInv'
    <3>1. LocalOK'
      <4>1. Space(w) \in Users
        BY <2>20, SpaceInUsers DEF Writing, AddiRead
      <4>2. LastNumber(Space(w)) + 1 \in Nat /\ LogSizes(Space(w)) \subseteq Nat
        BY <4>1, LastNumberType, LogSizesType
      <4>3. PICK size \in LogSizes(Space(w)) :
              tmp' = [tmp EXCEPT ![w].num = LastNumber(Space(w)) + 1, ![w].oset = size]
        BY <2>20 DEF AddiRead
      <4> DEFINE t == [tmp[w] EXCEPT !.num = LastNumber(Space(w)) + 1, !.oset = size]
      <4>4. t \in TmpType
        BY <4>2 DEF LocalOK, TmpType
      <4>5. tmp' = [tmp EXCEPT ![w] = t]
        BY <4>3
      <4> HIDE DEF t
      <4>6. (tmp \in [Workers -> TmpType])'
        BY <4>4, <4>5, TmpTyped
      <4>7. QED
        BY <2>20, <4>6 DEF LocalOK, AddiRead, Goto, Labels
    <3>2. AccOK'
      BY <2>20 DEF AccOK, AddiRead
    <3>3. CacheOK'
      BY <2>20 DEF CacheOK, AddiRead
    <3>4. StoreOK'
      BY <2>20 DEF StoreOK, store, AddiRead
    <3>5. SpaceKnown'
      BY <2>20 DEF SpaceKnown, LocalOK, AccOK, Space, Goto, Writing, local, AddiRead
    <3>6. ItemKnown'
      BY <2>20 DEF ItemKnown, LocalOK, ItemType, Types, local, Goto, AddiRead
    <3>7. QED
      BY <2>0, <3>1, <3>2, <3>3, <3>4, <3>5, <3>6 DEF TypeInv, TypeOK
  <2>21. ASSUME NEW w \in Workers, AddiAppend(w)
       PROVE  TypeInv'
    <3>1. LocalOK'
      BY <2>21 DEF LocalOK, AddiAppend, local, Goto, Labels, AfterAddi
    <3>2. AccOK'
      <4>1. tmp[w].num \in Nat
        BY DEF LocalOK, TmpType
      <4>2. QED
        BY <2>21, <4>1, AfterAddiType DEF AddiAppend
    <3>3. CacheOK'
      BY <2>21 DEF CacheOK, AddiAppend
    <3>4. StoreOK'
      <4>1. Space(w) \in Users
        BY <2>21, SpaceInUsers DEF Writing, AddiAppend
      <4>2. [num |-> tmp[w].num, oset |-> tmp[w].oset] \in [num : Nat, oset : Nat]
        BY DEF LocalOK, TmpType
      <4>3. QED
        BY <2>21, <4>1, <4>2 DEF StoreOK, store, AddiAppend
    <3>5. SpaceKnown'
      <4>1. pc[w] \in Writing
        BY <2>21 DEF AddiAppend, Writing
      <4>2. \A v \in Workers : /\ acc'[v].uid = acc[v].uid
                             /\ acc'[v].location = acc[v].location
        BY <2>21 DEF AddiAppend, AfterAddi, AccOK, AccType
      <4>3. \A v \in Workers : v # w => pc'[v] = pc[v]
        BY <2>21 DEF AddiAppend, AfterAddi, Goto, LocalOK
      <4>4. pc[w] # "idle"
        BY <4>1 DEF Writing
      <4>5. QED
        BY <4>1, <4>2, <4>3, <4>4 DEF SpaceKnown, Space
    <3>6. ItemKnown'
      BY <2>21 DEF ItemKnown, LocalOK, ItemType, Types, local, Goto, AddiAppend, AfterAddi, Final
    <3>7. QED
      BY <2>0, <3>1, <3>2, <3>3, <3>4, <3>5, <3>6 DEF TypeInv, TypeOK
  <2>22. ASSUME NEW w \in Workers, AddiFails(w)
       PROVE  TypeInv'
    <3>1. LocalOK'
      BY <2>22 DEF LocalOK, AddiFails, local, Goto, Labels, AfterAddi
    <3>2. AccOK'
      BY <2>22 DEF AccOK, AddiFails, AfterAddi, AccType
    <3>3. CacheOK'
      BY <2>22 DEF CacheOK, AddiFails
    <3>4. StoreOK'
      BY <2>22 DEF StoreOK, store, AddiFails
    <3>5. SpaceKnown'
      <4>1. pc[w] \in Writing
        BY <2>22 DEF AddiFails, Writing
      <4>2. \A v \in Workers : /\ acc'[v].uid = acc[v].uid
                             /\ acc'[v].location = acc[v].location
        BY <2>22 DEF AddiFails, AfterAddi, AccOK, AccType
      <4>3. \A v \in Workers : v # w => pc'[v] = pc[v]
        BY <2>22 DEF AddiFails, AfterAddi, Goto, LocalOK
      <4>4. pc[w] # "idle"
        BY <4>1 DEF Writing
      <4>5. QED
        BY <4>1, <4>2, <4>3, <4>4 DEF SpaceKnown, Space
    <3>6. ItemKnown'
      BY <2>22 DEF ItemKnown, LocalOK, ItemType, Types, local, Goto, AddiFails, AfterAddi, Final
    <3>7. QED
      BY <2>0, <3>1, <3>2, <3>3, <3>4, <3>5, <3>6 DEF TypeInv, TypeOK
  <2>23. ASSUME NEW w \in Workers, CapaRead(w)
       PROVE  TypeInv'
    <3>1. LocalOK'
      <4>1. Space(w) \in Users
        BY <2>23, SpaceInUsers DEF Writing, CapaRead
      <4> DEFINE t == [tmp[w] EXCEPT !.used = capa[Space(w)].used, !.bakup = capa[Space(w)].bakup]
      <4>2. t \in TmpType
        BY <4>1 DEF LocalOK, StoreOK, TmpType
      <4>3. tmp' = [tmp EXCEPT ![w] = t]
        BY <2>23 DEF CapaRead
      <4> HIDE DEF t
      <4>4. (tmp \in [Workers -> TmpType])'
        BY <4>2, <4>3, TmpTyped
      <4>5. QED
        BY <2>23, <4>4 DEF LocalOK, CapaRead, Goto, Labels
    <3>2. AccOK'
      BY <2>23 DEF AccOK, CapaRead
    <3>3. CacheOK'
      BY <2>23 DEF CacheOK, CapaRead
    <3>4. StoreOK'
      BY <2>23 DEF StoreOK, store, CapaRead
    <3>5. SpaceKnown'
      BY <2>23 DEF SpaceKnown, LocalOK, AccOK, Space, Goto, Writing, local, CapaRead
    <3>6. ItemKnown'
      BY <2>23 DEF ItemKnown, LocalOK, ItemType, Types, local, Goto, CapaRead
    <3>7. QED
      BY <2>0, <3>1, <3>2, <3>3, <3>4, <3>5, <3>6 DEF TypeInv, TypeOK
  <2>24. ASSUME NEW w \in Workers, CapaWrite(w)
       PROVE  TypeInv'
    <3>1. LocalOK'
      <4>1. (pc \in [Workers -> Labels])'
        BY <2>24 DEF LocalOK, CapaWrite, Goto, Labels, AfterCapa
      <4>2. (cur \in [Workers -> ItemType])'
        BY SMTT(40), <2>24 DEF LocalOK, CapaWrite, AfterCapa, ItemType
      <4>3. QED
        BY <2>24, <4>1, <4>2 DEF LocalOK, CapaWrite
    <3>2. AccOK'
      BY <2>24 DEF AccOK, CapaWrite
    <3>3. CacheOK'
      BY <2>24 DEF CacheOK, CapaWrite
    <3>4. StoreOK'
      <4> DEFINE used  == tmp[w].used + UsedIncrement(cur[w].type, cur[w].size)
                 bakup == tmp[w].bakup + BakupIncrement(cur[w].type, cur[w].size)
      <4>1. used \in Int /\ bakup \in Int
        BY IncrementType, SpaceAssumption DEF LocalOK, TmpType, ItemType
      <4>2. used % Word \in 0 .. Word - 1 /\ bakup % Word \in 0 .. Word - 1
        BY <4>1, ModRange
      <4>3. QED
        BY <2>24, <4>2 DEF StoreOK, store, CapaWrite
    <3>5. SpaceKnown'
      BY <2>24 DEF SpaceKnown, LocalOK, AccOK, Space, Goto, Writing, local, CapaWrite, AfterCapa
    <3>6. ItemKnown'
      BY <2>24 DEF ItemKnown, LocalOK, ItemType, Types, local, Goto, CapaWrite, AfterCapa
    <3>7. QED
      BY <2>0, <3>1, <3>2, <3>3, <3>4, <3>5, <3>6 DEF TypeInv, TypeOK
  <2>25. ASSUME NEW w \in Workers, CapaFails(w)
       PROVE  TypeInv'
    <3>1. LocalOK'
      <4>1. (pc \in [Workers -> Labels])'
        BY <2>25 DEF LocalOK, CapaFails, Goto, Labels, AfterCapa
      <4>2. (cur \in [Workers -> ItemType])'
        BY SMTT(40), <2>25 DEF LocalOK, CapaFails, AfterCapa, ItemType
      <4>3. QED
        BY <2>25, <4>1, <4>2 DEF LocalOK, CapaFails
    <3>2. AccOK'
      BY <2>25 DEF AccOK, CapaFails
    <3>3. CacheOK'
      BY <2>25 DEF CacheOK, CapaFails
    <3>4. StoreOK'
      BY <2>25 DEF StoreOK, store, CapaFails
    <3>5. SpaceKnown'
      BY <2>25 DEF SpaceKnown, LocalOK, AccOK, Space, Goto, Writing, local, CapaFails, AfterCapa
    <3>6. ItemKnown'
      BY <2>25 DEF ItemKnown, LocalOK, ItemType, Types, local, Goto, CapaFails, AfterCapa
    <3>7. QED
      BY <2>0, <3>1, <3>2, <3>3, <3>4, <3>5, <3>6 DEF TypeInv, TypeOK
  <2>26. ASSUME NEW w \in Workers, Publish(w)
       PROVE  TypeInv'
    <3>1. LocalOK'
      BY <2>26, LeaveType DEF LocalOK, Publish, local
    <3>2. AccOK'
      BY <2>26 DEF AccOK, Publish
    <3>3. CacheOK'
      BY <2>26, PublishedType DEF CacheOK, Publish
    <3>4. StoreOK'
      BY <2>26 DEF StoreOK, store, Publish
    <3>5. SpaceKnown'
      BY <2>26 DEF SpaceKnown, LocalOK, AccOK, Space, Goto, Writing, local, Publish, Leave
    <3>6. ItemKnown'
      BY <2>26 DEF ItemKnown, LocalOK, ItemType, Types, local, Goto, Publish, Leave, NoItem
    <3>7. QED
      BY <2>0, <3>1, <3>2, <3>3, <3>4, <3>5, <3>6 DEF TypeInv, TypeOK
  <2>27. ASSUME NEW w \in Workers, UnlockFull(w)
       PROVE  TypeInv'
    <3>1. LocalOK'
      BY <2>27, LockFailedType DEF LocalOK, UnlockFull, local
    <3>2. AccOK'
      BY <2>27 DEF AccOK, UnlockFull
    <3>3. CacheOK'
      BY <2>27, ReleasedType DEF CacheOK, UnlockFull
    <3>4. StoreOK'
      BY <2>27 DEF StoreOK, store, UnlockFull
    <3>5. SpaceKnown'
      BY <2>27 DEF SpaceKnown, LocalOK, AccOK, Space, Goto, Writing, local, UnlockFull, LockFailed, Leave
    <3>6. ItemKnown'
      BY <2>27 DEF ItemKnown, LocalOK, ItemType, Types, local, Goto, UnlockFull, LockFailed, Leave, NoItem
    <3>7. QED
      BY <2>0, <3>1, <3>2, <3>3, <3>4, <3>5, <3>6 DEF TypeInv, TypeOK
  <2>28. ASSUME NEW w \in Workers, Unlock(w)
       PROVE  TypeInv'
    <3>1. LocalOK'
      <4>1. (pc \in [Workers -> Labels])'
        BY <2>28 DEF LocalOK, Unlock, Goto, Labels
      <4>2. QED
        BY <2>28, <4>1 DEF LocalOK, Unlock, local
    <3>2. AccOK'
      <4>1. CASE UNCHANGED acc
        BY <4>1 DEF AccOK
      <4>2. CASE Space(w) \in Users /\ acc' = [acc EXCEPT ![w].anchor = LastNumber(Space(w))]
        BY <4>2, LastNumberType DEF AccOK, AccType
      <4>3. QED
        BY <2>28, <4>1, <4>2 DEF Unlock
    <3>3. CacheOK'
      BY <2>28 DEF CacheOK, Unlock
    <3>4. StoreOK'
      BY <2>28 DEF StoreOK, store, Unlock
    <3>5. SpaceKnown'
      BY <2>28 DEF SpaceKnown, LocalOK, AccOK, Space, Goto, Writing, local, Unlock, AccType
    <3>6. ItemKnown'
      BY <2>28 DEF ItemKnown, LocalOK, ItemType, Types, local, Goto, Unlock
    <3>7. QED
      BY <2>0, <3>1, <3>2, <3>3, <3>4, <3>5, <3>6 DEF TypeInv, TypeOK
  <2>29. ASSUME NEW w \in Workers, Release(w)
       PROVE  TypeInv'
    <3>1. LocalOK'
      BY <2>29, LeaveType DEF LocalOK, Release, local
    <3>2. AccOK'
      BY <2>29 DEF AccOK, Release
    <3>3. CacheOK'
      BY <2>29, ReleasedType DEF CacheOK, Release
    <3>4. StoreOK'
      BY <2>29 DEF StoreOK, store, Release
    <3>5. SpaceKnown'
      BY <2>29 DEF SpaceKnown, LocalOK, AccOK, Space, Goto, Writing, local, Release, Leave
    <3>6. ItemKnown'
      BY <2>29 DEF ItemKnown, LocalOK, ItemType, Types, local, Goto, Release, Leave, NoItem
    <3>7. QED
      BY <2>0, <3>1, <3>2, <3>3, <3>4, <3>5, <3>6 DEF TypeInv, TypeOK
  <2>30. ASSUME NEW w \in Workers, Crash(w)
       PROVE  TypeInv'
    <3>1. LocalOK'
      BY <2>30, LeaveType DEF LocalOK, Crash, local
    <3>2. AccOK'
      BY <2>30, EmptyTypes DEF AccOK, Crash
    <3>3. CacheOK'
      BY <2>30 DEF CacheOK, Crash
    <3>4. StoreOK'
      BY <2>30 DEF StoreOK, store, Crash
    <3>5. SpaceKnown'
      BY <2>30 DEF SpaceKnown, LocalOK, AccOK, Space, Goto, Writing, local, Crash, Leave, NoAcc
    <3>6. ItemKnown'
      BY <2>30 DEF ItemKnown, LocalOK, ItemType, Types, local, Goto, Crash, Leave, NoItem
    <3>7. QED
      BY <2>0, <3>1, <3>2, <3>3, <3>4, <3>5, <3>6 DEF TypeInv, TypeOK
  <2>31. ASSUME NEW u \in Users, Expire(u)
       PROVE  TypeInv'
    <3>1. LocalOK'
      BY <2>31 DEF LocalOK, Expire, local
    <3>2. AccOK'
      BY <2>31 DEF AccOK, Expire
    <3>3. CacheOK'
      BY <2>31 DEF CacheOK, Expire
    <3>4. StoreOK'
      BY <2>31 DEF StoreOK, store, Expire
    <3>5. SpaceKnown'
      BY <2>31 DEF SpaceKnown, LocalOK, AccOK, Space, Goto, Writing, local, Expire
    <3>6. ItemKnown'
      BY <2>31 DEF ItemKnown, LocalOK, ItemType, Types, local, Goto, Expire
    <3>7. QED
      BY <2>0, <3>1, <3>2, <3>3, <3>4, <3>5, <3>6 DEF TypeInv, TypeOK
  <2>32. ASSUME NEW w \in Workers, NEW s \in Sizes, OverwriteUnrecorded(w, s)
       PROVE  TypeInv'
    <3>1. LocalOK'
      BY <2>32 DEF LocalOK, OverwriteUnrecorded, JobType, Stages
    <3>2. AccOK'
      BY <2>32 DEF AccOK, OverwriteUnrecorded
    <3>3. CacheOK'
      BY <2>32 DEF CacheOK, OverwriteUnrecorded
    <3>4. StoreOK'
      <4>1. Space(w) \in Users /\ s \in Nat
        BY <2>32, SpaceInUsers, SizesNat DEF Writing, OverwriteUnrecorded
      <4>2. (bytes \in [Users -> Nat])'
        BY <2>32, <4>1, BytesType DEF OverwriteUnrecorded
      <4>3. QED
        BY <2>32, <4>2 DEF StoreOK, OverwriteUnrecorded
    <3>5. SpaceKnown'
      BY <2>32 DEF SpaceKnown, Space, OverwriteUnrecorded
    <3>6. ItemKnown'
      BY <2>32 DEF ItemKnown, OverwriteUnrecorded
    <3>7. QED
      BY <2>0, <3>1, <3>2, <3>3, <3>4, <3>5, <3>6 DEF TypeInv, TypeOK
  <2>33. CASE UNCHANGED vars
    BY <2>0, <2>33 DEF LocalOK, AccOK, CacheOK, StoreOK, SpaceKnown, ItemKnown, Space, vars, local, store
  <2>34. QED
    BY <2>1, <2>2, <2>3, <2>4, <2>5, <2>6, <2>7, <2>8, <2>9, <2>10, <2>11, <2>12, <2>13, <2>14, <2>15, <2>16, <2>17, <2>18, <2>19, <2>20, <2>21, <2>22, <2>23, <2>24, <2>25, <2>26, <2>27, <2>28, <2>29, <2>30, <2>31, <2>32, <2>33 DEF Next, Step, Locking, Serving, Recording, Unlocking, Rest
<1>3. QED
  BY <1>1, <1>2, PTL DEF Spec

(* Every variable keeps its type, under every fault: no counter of the      *)
(* capacity file leaves its 64 bits and no step looks up an unset user.     *)
THEOREM TypeCorrect == Spec => []TypeOK
<1>1. TypeInv => TypeOK
  BY DEF TypeInv
<1>2. QED
  BY TypeInvariant, <1>1, PTL

-----------------------------------------------------------------------------
(* The lock of a user space serialises its writers. *)

(* A validation is the number of one request, hence known to one worker;   *)
(* the writer is the only one the cache server listens to.                 *)
LEMMA LockInvOneWriter ==
    ASSUME TypeInv, LockInv
    PROVE  OneWriter
  BY DEF LockInv, ValidUnique, Distinct, WriterLocked, OneWriter, Writes, TypeInv, TypeOK, AccOK, CacheOK, AccType

(* What most steps of w do to the lock: nothing.  They may change the       *)
(* cached anchor of w, go on within the body, or leave it for good.         *)
Quiet(w) ==
    /\ UNCHANGED <<cache, started>>
    /\ pc[w] # "idle"
    /\ pc'[w] \in Writing \cup {"idle", "unlock", "republish", "release"}
    /\ pc'[w] \in Writing => pc[w] \in Writing
    /\ pc'[w] # "idle" => job'[w].id = job[w].id
    /\ \A v \in Workers : v # w => pc'[v] = pc[v] /\ job'[v] = job[v]
    /\ \A v \in Workers : /\ acc'[v].uid = acc[v].uid
                          /\ acc'[v].valid = acc[v].valid
                          /\ acc'[v].location = acc[v].location

LEMMA Numbers ==
    ASSUME TypeInv
    PROVE  /\ started \in Nat
           /\ \A v \in Workers : acc[v].valid \in Nat /\ job[v].id \in Nat
           /\ \A v \in Workers : pc[v] # "idle" => acc[v].uid \in Users
           /\ \A u \in Users : cache[u].holder \in Nat
  BY DEF TypeInv, TypeOK, AccOK, AccType, CacheOK, LocalOK, JobType, SpaceKnown

LEMMA QuietLock ==
    ASSUME TypeInv, LockInv, NEW w \in Workers, Quiet(w)
    PROVE  LockInv'
<1> USE DEF TypeInv, TypeOK, AccOK, AccType, CacheOK, LocalOK, JobType
<1>1. ValidKnown'
  BY DEF Quiet, LockInv, ValidKnown, Writing
<1>2. ValidUnique'
  BY DEF Quiet, LockInv, ValidUnique, Distinct, Writing
<1>3. HolderKnown'
  BY DEF Quiet, LockInv, HolderKnown, Writing
<1>4. WriterLocked'
  BY DEF Quiet, LockInv, WriterLocked, Space
<1>5. QED
  BY <1>1, <1>2, <1>3, <1>4 DEF LockInv

LEMMA RecordQuiet ==
    ASSUME TypeInv, NEW w \in Workers, NEW item, NEW stage, pc[w] = "body", Record(w, item, stage)
    PROVE  Quiet(w)
  BY DEF Record, Goto, Quiet, Writing, TypeInv, TypeOK, AccOK, LocalOK, JobType

LEMMA LeaveQuiet ==
    ASSUME TypeInv, NEW w \in Workers, pc[w] # "idle", Leave(w), UNCHANGED <<acc, cache, started>>
    PROVE  Quiet(w)
  BY DEF Leave, Goto, Quiet, Writing, TypeInv, TypeOK, AccOK, LocalOK, JobType

LEMMA LockFailedQuiet ==
    ASSUME TypeInv, NEW w \in Workers, pc[w] # "idle", LockFailed(w), UNCHANGED <<acc, cache, started>>
    PROVE  Quiet(w)
<1>1. CASE Leave(w)
  BY <1>1, LeaveQuiet
<1>2. CASE Goto(w, "unlock") /\ UNCHANGED local
  BY <1>2 DEF Goto, local, Quiet, Writing, TypeInv, TypeOK, AccOK, LocalOK
<1>3. QED
  BY <1>1, <1>2 DEF LockFailed

LEMMA ServingQuiet ==
    ASSUME TypeInv, NEW w \in Workers, Serving(w)
    PROVE  Quiet(w)
<1>1. CASE \E s \in Sizes : Overwrite(w, s) \/ DeleteFile(w, s)
  BY <1>1, DeletesType, RecordQuiet DEF Deletes
<1>2. CASE \E s \in Sizes : CopyFile(w, s)
  BY <1>2, RecordQuiet DEF CopyFile
<1>3. CASE \E s \in Sizes : SinglePut(w, s)
  BY <1>3, RecordQuiet DEF SinglePut
<1>4. CASE \E s \in Sizes : SingleCopy(w, s)
  BY <1>4, RecordQuiet DEF SingleCopy
<1>5. CASE MoveFile(w) \/ SingleMove(w)
  BY <1>5, RecordQuiet DEF MoveFile, SingleMove
<1>6. CASE \E s \in Sizes : PutUnrecorded(w, s)
  BY <1>6 DEF PutUnrecorded, Goto, local, Quiet, Writing, TypeInv, TypeOK, AccOK, LocalOK
<1>7. CASE \E s \in Sizes : OverwriteUnrecorded(w, s)
  BY <1>7 DEF OverwriteUnrecorded, Quiet, Writing, TypeInv, TypeOK, AccOK, LocalOK, JobType
<1>8. CASE EndWalk(w) \/ BodyFails(w)
  BY <1>8 DEF EndWalk, BodyFails, Goto, local, Quiet, Writing, TypeInv, TypeOK, AccOK, LocalOK
<1>9. QED
  BY <1>1, <1>2, <1>3, <1>4, <1>5, <1>6, <1>7, <1>8 DEF Serving

LEMMA RecordingQuiet ==
    ASSUME TypeInv, NEW w \in Workers, Recording(w)
    PROVE  Quiet(w)
<1> USE DEF Goto, local, Quiet, Writing, TypeInv, TypeOK, AccOK, AccType, LocalOK
<1>1. CASE Flush(w)
  BY <1>1 DEF Flush
<1>2. CASE AddiRead(w)
  BY <1>2 DEF AddiRead
<1>3. CASE AddiAppend(w)
  <2>1. CASE Final(w)
    BY <1>3, <2>1 DEF AddiAppend, AfterAddi
  <2>2. CASE ~Final(w)
    <3>1. acc' = [acc EXCEPT ![w].anchor = tmp[w].num] /\ pc' = [pc EXCEPT ![w] = "publish"]
      BY <1>3, <2>2 DEF AddiAppend, AfterAddi
    <3>2. QED
      BY <1>3, <3>1 DEF AddiAppend
  <2>3. QED
    BY <2>1, <2>2
<1>4. CASE AddiFails(w)
  BY <1>4 DEF AddiFails, AfterAddi
<1>5. CASE CapaRead(w)
  BY <1>5 DEF CapaRead
<1>6. CASE CapaWrite(w)
  BY <1>6 DEF CapaWrite, AfterCapa
<1>7. CASE CapaFails(w)
  BY <1>7 DEF CapaFails, AfterCapa
<1>8. QED
  BY <1>1, <1>2, <1>3, <1>4, <1>5, <1>6, <1>7 DEF Recording

LEMMA CheckQuiet ==
    ASSUME TypeInv, NEW w \in Workers, Check(w)
    PROVE  Quiet(w)
  BY DEF Check, Goto, local, Quiet, Writing, TypeInv, TypeOK, AccOK, LocalOK

LEMMA UnlockQuiet ==
    ASSUME TypeInv, NEW w \in Workers, Unlock(w)
    PROVE  Quiet(w)
  BY DEF Unlock, Goto, local, Quiet, Writing, TypeInv, TypeOK, AccOK, AccType, LocalOK

(***************************************************************************)
(* The steps that change the lock, the validation of a worker, or start a  *)
(* request.  In each, the parts of LockInv are shown one by one.           *)
(***************************************************************************)
LEMMA StartLock ==
    ASSUME TypeInv, LockInv, NEW w \in Workers, NEW u \in Users, NEW op \in Ops, Start(w, u, op)
    PROVE  LockInv'
<1>1. /\ started' = started + 1
      /\ pc'[w] = "query" /\ job'[w].id = started + 1
      /\ \A v \in Workers : v # w => pc'[v] = pc[v] /\ job'[v] = job[v] /\ acc'[v] = acc[v]
      /\ acc'[w].valid = acc[w].valid /\ acc'[w].location = acc[w].location
      /\ cache' = cache
  BY DEF Start, Goto, TypeInv, TypeOK, AccOK, AccType, CacheOK, LocalOK, JobType
<1>2. ValidKnown'
  BY <1>1, Numbers DEF LockInv, ValidKnown
<1>3. ValidUnique'
  <2> SUFFICES ASSUME NEW v \in Workers, NEW x \in Workers, v # x
               PROVE  Distinct(v, x)'
    BY DEF ValidUnique
  <2>1. Distinct(v, x) /\ Distinct(x, v)
    BY DEF LockInv, ValidUnique
  <2>2. QED
    BY <1>1, <2>1, Numbers DEF LockInv, ValidKnown, Distinct
<1>4. HolderKnown'
  BY <1>1, Numbers DEF LockInv, HolderKnown, ValidUnique, ValidKnown, Distinct
<1>5. WriterLocked'
  BY <1>1, Numbers DEF LockInv, WriterLocked, ValidUnique, Distinct, ValidKnown, Space, Writing
<1>6. QED
  BY <1>2, <1>3, <1>4, <1>5 DEF LockInv

LEMMA QueryLock ==
    ASSUME TypeInv, LockInv, NEW w \in Workers, Query(w)
    PROVE  LockInv'
<1>1. /\ pc[w] = "query" /\ pc'[w] = "status"
      /\ \A v \in Workers : v # w => pc'[v] = pc[v] /\ acc'[v] = acc[v]
      /\ acc'[w].valid = job[w].id /\ acc'[w].uid = acc[w].uid
      /\ acc[w].uid \in Users
      /\ UNCHANGED <<job, started>>
  BY DEF Query, Goto, local, SpaceKnown, TypeInv, TypeOK, AccOK, AccType, CacheOK, LocalOK, JobType
<1>2. \A t \in Users :
          \/ cache'[t].holder = cache[t].holder
          \/ t = acc[w].uid /\ cache[t].holder = 0 /\ cache'[t].holder = job[w].id
  BY DEF Query, TypeInv, TypeOK, AccOK, AccType, CacheOK, LocalOK, JobType
<1>3. ValidKnown'
  BY <1>1, Numbers DEF LockInv, ValidKnown
<1>4. ValidUnique'
  <2> SUFFICES ASSUME NEW v \in Workers, NEW x \in Workers, v # x
               PROVE  Distinct(v, x)'
    BY DEF ValidUnique
  <2>1. Distinct(v, x) /\ Distinct(x, v)
    BY DEF LockInv, ValidUnique
  <2>2. QED
    BY <1>1, <2>1, Numbers DEF LockInv, ValidKnown, Distinct
<1>5. HolderKnown'
  BY <1>1, <1>2, Numbers DEF LockInv, HolderKnown, ValidUnique, ValidKnown, Distinct
<1>6. WriterLocked'
  BY <1>1, <1>2, Numbers DEF LockInv, WriterLocked, ValidUnique, Distinct, ValidKnown, Space, Writing
<1>7. QED
  BY <1>3, <1>4, <1>5, <1>6 DEF LockInv

LEMMA QueryFailsLock ==
    ASSUME TypeInv, LockInv, NEW w \in Workers, QueryFails(w)
    PROVE  LockInv'
<1>1. /\ pc[w] = "query" /\ pc'[w] \in {"idle", "unlock"}
      /\ pc'[w] # "idle" => job'[w] = job[w]
      /\ \A v \in Workers : v # w => pc'[v] = pc[v] /\ acc'[v] = acc[v] /\ job'[v] = job[v]
      /\ acc'[w].valid \in {acc[w].valid, job[w].id}
      /\ UNCHANGED <<cache, started>>
  <2>1. acc'[w].valid \in {acc[w].valid, job[w].id} /\ \A v \in Workers : v # w => acc'[v] = acc[v]
    <3>1. CASE acc' = acc
      BY <3>1
    <3>2. CASE acc' = [acc EXCEPT ![w].valid = job[w].id]
      BY <3>2 DEF TypeInv, TypeOK, AccOK, AccType, CacheOK, LocalOK, JobType
    <3>3. QED
      BY <3>1, <3>2 DEF QueryFails
  <2>2. QED
    BY <2>1 DEF QueryFails, LockFailed, Leave, Goto, local, TypeInv, TypeOK, AccOK, AccType, CacheOK, LocalOK, JobType
<1>2. ValidKnown'
  BY <1>1, Numbers DEF LockInv, ValidKnown
<1>3. ValidUnique'
  <2> SUFFICES ASSUME NEW v \in Workers, NEW x \in Workers, v # x
               PROVE  Distinct(v, x)'
    BY DEF ValidUnique
  <2>1. Distinct(v, x) /\ Distinct(x, v)
    BY DEF LockInv, ValidUnique
  <2>2. QED
    BY <1>1, <2>1, Numbers DEF LockInv, ValidKnown, Distinct
<1>4. HolderKnown'
  BY <1>1, Numbers DEF LockInv, HolderKnown, ValidUnique, ValidKnown, Distinct
<1>5. WriterLocked'
  BY <1>1, Numbers DEF LockInv, WriterLocked, ValidUnique, Distinct, ValidKnown, Space, Writing
<1>6. QED
  BY <1>2, <1>3, <1>4, <1>5 DEF LockInv

LEMMA StatusLock ==
    ASSUME TypeInv, LockInv, NEW w \in Workers, Status(w)
    PROVE  LockInv'
<1>1. /\ pc[w] = "status" /\ pc'[w] \in {"check", "body"}
      /\ \A v \in Workers : v # w => pc'[v] = pc[v] /\ acc'[v] = acc[v]
      /\ acc'[w].valid = acc[w].valid /\ acc'[w].uid = acc[w].uid
      /\ acc'[w].location = acc[w].uid
      /\ acc[w].uid \in Users
      /\ UNCHANGED <<job, started>>
  BY DEF Status, Goto, local, SpaceKnown, TypeInv, TypeOK, AccOK, AccType, CacheOK, LocalOK, JobType
<1>2. /\ cache[acc[w].uid].holder \in {0, acc[w].valid}
      /\ cache'[acc[w].uid].holder = acc[w].valid
      /\ \A t \in Users : t # acc[w].uid => cache'[t] = cache[t]
  BY <1>1 DEF Status, GrantTo, TypeInv, TypeOK, AccOK, AccType, CacheOK, LocalOK, JobType
<1>3. acc[w].valid = job[w].id /\ job[w].id \in 1 .. started
  BY <1>1 DEF LockInv, ValidKnown
<1>4. ValidKnown'
  BY <1>1, Numbers DEF LockInv, ValidKnown
<1>5. ValidUnique'
  <2> SUFFICES ASSUME NEW v \in Workers, NEW x \in Workers, v # x
               PROVE  Distinct(v, x)'
    BY DEF ValidUnique
  <2>1. Distinct(v, x) /\ Distinct(x, v)
    BY DEF LockInv, ValidUnique
  <2>2. QED
    BY <1>1, <2>1, Numbers DEF LockInv, ValidKnown, Distinct
<1>6. HolderKnown'
  BY <1>1, <1>2, <1>3, Numbers DEF LockInv, HolderKnown, ValidUnique, ValidKnown, Distinct
<1>7. WriterLocked'
  BY <1>1, <1>2, <1>3, Numbers DEF LockInv, WriterLocked, ValidUnique, Distinct, ValidKnown, Space, Writing
<1>8. QED
  BY <1>4, <1>5, <1>6, <1>7 DEF LockInv

(* The release of w takes no lock away but the one that w holds. *)
LEMMA ReleaseLock ==
    ASSUME TypeInv, LockInv, NEW w \in Workers, pc[w] # "idle",
           Released(w) \/ Published(w) \/ SendLost,
           pc'[w] \in {"idle", "unlock"},
           pc'[w] # "idle" => job'[w] = job[w],
           \A v \in Workers : v # w => pc'[v] = pc[v] /\ job'[v] = job[v],
           UNCHANGED <<acc, started>>
    PROVE  LockInv'
<1>1. \A t \in Users :
          \/ cache'[t].holder = cache[t].holder
          \/ /\ t = acc[w].uid /\ acc[w].valid # 0
             /\ cache[t].holder = acc[w].valid /\ cache'[t].holder = 0
  <2>1. CASE Released(w)
    BY <2>1 DEF Released, Honoured, TypeInv, TypeOK, AccOK, AccType, CacheOK, LocalOK, JobType
  <2>2. CASE Published(w)
    BY <2>2 DEF Published, Honoured, TypeInv, TypeOK, AccOK, AccType, CacheOK, LocalOK, JobType
  <2>3. CASE SendLost
    BY <2>3 DEF SendLost
  <2>4. QED
    BY <2>1, <2>2, <2>3
<1>2. ValidKnown'
  BY Numbers DEF LockInv, ValidKnown
<1>3. ValidUnique'
  <2> SUFFICES ASSUME NEW v \in Workers, NEW x \in Workers, v # x
               PROVE  Distinct(v, x)'
    BY DEF ValidUnique
  <2>1. Distinct(v, x) /\ Distinct(x, v)
    BY DEF LockInv, ValidUnique
  <2>2. QED
    BY <2>1, Numbers DEF LockInv, ValidKnown, Distinct
<1>4. HolderKnown'
  BY <1>1, Numbers DEF LockInv, HolderKnown, ValidUnique, ValidKnown, Distinct
<1>5. WriterLocked'
  BY <1>1, Numbers DEF LockInv, WriterLocked, ValidUnique, Distinct, ValidKnown, Space, Writing
<1>6. QED
  BY <1>2, <1>3, <1>4, <1>5 DEF LockInv

LEMMA UnlockingLock ==
    ASSUME TypeInv, LockInv, NEW w \in Workers, Unlocking(w)
    PROVE  LockInv'
<1> USE DEF TypeInv, TypeOK, LocalOK
<1>1. CASE Publish(w)
  BY <1>1, ReleaseLock DEF Publish, Leave, Goto
<1>2. CASE UnlockFull(w)
  BY <1>2, ReleaseLock DEF UnlockFull, LockFailed, Leave, Goto, local
<1>3. CASE Unlock(w)
  BY <1>3, UnlockQuiet, QuietLock
<1>4. CASE Release(w)
  BY <1>4, ReleaseLock DEF Release, Leave, Goto
<1>5. QED
  BY <1>1, <1>2, <1>3, <1>4 DEF Unlocking

LEMMA CrashLock ==
    ASSUME TypeInv, LockInv, NEW w \in Workers, Crash(w)
    PROVE  LockInv'
<1>1. /\ pc'[w] = "idle" /\ acc'[w].valid = 0
      /\ \A v \in Workers : v # w => pc'[v] = pc[v] /\ job'[v] = job[v] /\ acc'[v] = acc[v]
      /\ UNCHANGED <<cache, started>>
  BY DEF Crash, Leave, Goto, NoAcc, TypeInv, TypeOK, AccOK, AccType, CacheOK, LocalOK, JobType
<1>2. ValidKnown'
  BY <1>1, Numbers DEF LockInv, ValidKnown
<1>3. ValidUnique'
  <2> SUFFICES ASSUME NEW v \in Workers, NEW x \in Workers, v # x
               PROVE  Distinct(v, x)'
    BY DEF ValidUnique
  <2>1. Distinct(v, x) /\ Distinct(x, v)
    BY DEF LockInv, ValidUnique
  <2>2. QED
    BY <1>1, <2>1, Numbers DEF LockInv, ValidKnown, Distinct
<1>4. HolderKnown'
  BY <1>1, Numbers DEF LockInv, HolderKnown, ValidUnique, ValidKnown, Distinct
<1>5. WriterLocked'
  BY <1>1, Numbers DEF LockInv, WriterLocked, ValidUnique, Distinct, ValidKnown, Space, Writing
<1>6. QED
  BY <1>2, <1>3, <1>4, <1>5 DEF LockInv

(* A lease ends only for a request that is gone. *)
LEMMA ExpireLock ==
    ASSUME LeaseHeld, TypeInv, LockInv, NEW u \in Users, Expire(u)
    PROVE  LockInv'
<1>1. /\ \A w \in Workers : pc[w] # "idle" => acc[w].valid # cache[u].holder
      /\ cache'[u].holder = 0 /\ \A t \in Users : t # u => cache'[t] = cache[t]
      /\ UNCHANGED <<pc, job, acc, started>>
  BY DEF Expire, Orphaned, LeaseHeld, local, TypeInv, TypeOK, AccOK, AccType, CacheOK, LocalOK, JobType
<1>2. ValidKnown'
  BY <1>1, Numbers DEF LockInv, ValidKnown
<1>3. ValidUnique'
  <2> SUFFICES ASSUME NEW v \in Workers, NEW x \in Workers, v # x
               PROVE  Distinct(v, x)'
    BY DEF ValidUnique
  <2>1. Distinct(v, x) /\ Distinct(x, v)
    BY DEF LockInv, ValidUnique
  <2>2. QED
    BY <1>1, <2>1, Numbers DEF LockInv, ValidKnown, Distinct
<1>4. HolderKnown'
  BY <1>1, Numbers DEF LockInv, HolderKnown, ValidUnique, ValidKnown, Distinct
<1>5. WriterLocked'
  BY <1>1, Numbers DEF LockInv, WriterLocked, ValidUnique, Distinct, ValidKnown, Space, Writing
<1>6. QED
  BY <1>2, <1>3, <1>4, <1>5 DEF LockInv

LEMMA LockInit ==
    ASSUME Init
    PROVE  LockInv
  BY DEF Init, LockInv, ValidKnown, ValidUnique, Distinct, HolderKnown, WriterLocked, NoAcc, Writing

LEMMA LockStep ==
    ASSUME LeaseHeld, TypeInv, LockInv, [Next]_vars
    PROVE  LockInv'
<1>1. ASSUME NEW w \in Workers, NEW u \in Users, NEW op \in Ops, Start(w, u, op)
      PROVE  LockInv'
  BY <1>1, StartLock
<1>2. ASSUME NEW w \in Workers, Locking(w)
      PROVE  LockInv'
  <2>1. CASE Query(w)
    BY <2>1, QueryLock
  <2>2. CASE QueryRefused(w)
    BY <2>2, LockFailedQuiet, QuietLock DEF QueryRefused
  <2>3. CASE QueryFails(w)
    BY <2>3, QueryFailsLock
  <2>4. CASE Status(w)
    BY <2>4, StatusLock
  <2>5. CASE StatusRefused(w)
    BY <2>5, LockFailedQuiet, QuietLock DEF StatusRefused
  <2>6. CASE StatusLost(w)
    BY <2>6 DEF StatusLost, LeaseHeld
  <2>7. CASE Check(w)
    BY <2>7, CheckQuiet, QuietLock
  <2>8. QED
    BY <1>2, <2>1, <2>2, <2>3, <2>4, <2>5, <2>6, <2>7 DEF Locking
<1>3. ASSUME NEW w \in Workers, Serving(w)
      PROVE  LockInv'
  BY <1>3, ServingQuiet, QuietLock
<1>4. ASSUME NEW w \in Workers, Recording(w)
      PROVE  LockInv'
  BY <1>4, RecordingQuiet, QuietLock
<1>5. ASSUME NEW w \in Workers, Unlocking(w)
      PROVE  LockInv'
  BY <1>5, UnlockingLock
<1>6. ASSUME NEW w \in Workers, Crash(w)
      PROVE  LockInv'
  BY <1>6, CrashLock
<1>7. ASSUME NEW u \in Users, Expire(u)
      PROVE  LockInv'
  BY <1>7, ExpireLock
<1>8. CASE UNCHANGED vars
  BY <1>8 DEF vars, local, store, LockInv, ValidKnown, ValidUnique, Distinct, HolderKnown, WriterLocked, Space
<1>9. QED
  BY <1>1, <1>2, <1>3, <1>4, <1>5, <1>6, <1>7, <1>8 DEF Next, Step, Rest

(* While the cache server keeps the lock of a running request and every    *)
(* grant is heard, at most one worker writes in a space, so the reads and  *)
(* writes of addi_anchor and reset_capacity never interleave.              *)
THEOREM OneWriterAlways == ASSUME LeaseHeld PROVE Spec => []OneWriter
<1>1. Init => LockInv
  BY LockInit
<1>2. TypeInv /\ LockInv /\ [Next]_vars => LockInv'
  BY LockStep
<1>3. TypeInv /\ LockInv => OneWriter
  BY LockInvOneWriter
<1>4. QED
  BY TypeInvariant, <1>1, <1>2, <1>3, PTL DEF Spec

(* A worker that writes does so in the space of the user it serves, under  *)
(* the lock the cache server keeps for its validation.                     *)
THEOREM WriterOwnsSpaceAlways == ASSUME LeaseHeld PROVE Spec => []WriterOwnsSpace
<1>1. Init => LockInv
  BY LockInit
<1>2. TypeInv /\ LockInv /\ [Next]_vars => LockInv'
  BY LockStep
<1>3. LockInv => WriterOwnsSpace
  BY DEF LockInv, WriterLocked, WriterOwnsSpace
<1>4. QED
  BY TypeInvariant, <1>1, <1>2, <1>3, PTL DEF Spec

-----------------------------------------------------------------------------
(* The anchor index of a user space, also for spaces that start with a log: *)
(* the numbers are dense, the offsets ordered, and the anchor that clients *)
(* are told of exists.                                                     *)


(* What the steps below need of the types. *)
LEMMA Journals ==
    ASSUME TypeInv, NEW u \in Users
    PROVE  /\ idx[u] \in Seq([num : Nat, oset : Nat]) /\ Len(idx[u]) \in Nat
           /\ acd[u] \in Seq(Types) /\ Len(acd[u]) \in Nat
           /\ cache[u].anchor \in Nat
  BY DEF TypeInv, TypeOK, StoreOK, CacheOK

LEMMA LastNumberIsLen ==
    ASSUME TypeInv, AnchorsDense, NEW u \in Users
    PROVE  LastNumber(u) = Len(idx[u])
<1>1. idx[u] \in Seq([num : Nat, oset : Nat])
  BY Journals
<1>2. CASE idx[u] = <<>>
  BY <1>2 DEF LastNumber
<1>3. CASE idx[u] # <<>>
  <2>1. Len(idx[u]) \in DOMAIN idx[u]
    BY <1>1, <1>3
  <2>2. QED
    BY <1>3, <2>1 DEF LastNumber, AnchorsDense
<1>4. QED
  BY <1>2, <1>3

(* Most steps of w leave the log and the index alone, and of what the      *)
(* cache server knows they take at most a lock away.                       *)
Calm(w) ==
    /\ UNCHANGED <<acd, idx>>
    /\ pc[w] # "status" /\ pc'[w] \notin {"status", "addiAppend"}
    /\ \A v \in Workers : v # w => pc'[v] = pc[v] /\ tmp'[v] = tmp[v] /\ acc'[v] = acc[v]
    /\ acc'[w].valid = acc[w].valid
    /\ acc'[w].anchor = acc[w].anchor
    /\ acc'[w].location = acc[w].location
    /\ \A u \in Users : /\ cache'[u].anchor = cache[u].anchor
                        /\ cache'[u].holder \in {0, cache[u].holder}

LEMMA CalmJournal ==
    ASSUME TypeInv, JournalInv, NEW w \in Workers, Calm(w)
    PROVE  JournalInv'
<1>1. AnchorsDense' /\ OffsetsKept'
  BY DEF JournalInv, AnchorsDense, OffsetsKept, OffsetsOrdered, LogThere, Calm
<1>2. AddiReadFresh'
  BY DEF JournalInv, AddiReadFresh, Space, Calm
<1>3. HolderAtHome'
  BY DEF JournalInv, HolderAtHome, Space, Calm
<1>4. PublishedExists'
  BY DEF JournalInv, PublishedExists, Calm
<1>5. QED
  BY <1>1, <1>2, <1>3, <1>4 DEF JournalInv

LEMMA StartCalm ==
    ASSUME TypeInv, NEW w \in Workers, NEW u \in Users, NEW op \in Ops, Start(w, u, op)
    PROVE  Calm(w)
  BY DEF Start, Goto, store, Calm, TypeInv, TypeOK, LocalOK, AccOK, AccType

LEMMA LeaveCalm ==
    ASSUME TypeInv, NEW w \in Workers, Leave(w), pc[w] # "status",
           UNCHANGED <<acc, acd, idx>>,
           \A u \in Users : /\ cache'[u].anchor = cache[u].anchor
                            /\ cache'[u].holder \in {0, cache[u].holder}
    PROVE  Calm(w)
  BY DEF Leave, Goto, Calm, TypeInv, TypeOK, LocalOK

LEMMA LockFailedCalm ==
    ASSUME TypeInv, NEW w \in Workers, LockFailed(w), pc[w] # "status",
           UNCHANGED <<acc, acd, idx>>,
           \A u \in Users : /\ cache'[u].anchor = cache[u].anchor
                            /\ cache'[u].holder \in {0, cache[u].holder}
    PROVE  Calm(w)
<1>1. CASE Leave(w)
  BY <1>1, LeaveCalm
<1>2. CASE Goto(w, "unlock") /\ UNCHANGED local
  BY <1>2 DEF Goto, local, Calm, TypeInv, TypeOK, LocalOK
<1>3. QED
  BY <1>1, <1>2 DEF LockFailed

LEMMA ReleasedCalm ==
    ASSUME TypeInv, NEW w \in Workers, Released(w) \/ SendLost
    PROVE  \A u \in Users : /\ cache'[u].anchor = cache[u].anchor
                            /\ cache'[u].holder \in {0, cache[u].holder}
  BY DEF Released, SendLost, TypeInv, TypeOK, CacheOK

LEMMA ServingCalm ==
    ASSUME TypeInv, NEW w \in Workers, Serving(w) \/ Check(w)
    PROVE  Calm(w)
<1>1. ASSUME NEW item, NEW stage, pc[w] = "body", Record(w, item, stage)
      PROVE  Calm(w)
  BY <1>1 DEF Record, Goto, Calm, TypeInv, TypeOK, LocalOK
<1>2. CASE \E s \in Sizes : \/ Overwrite(w, s) \/ DeleteFile(w, s) \/ CopyFile(w, s)
                            \/ SinglePut(w, s) \/ SingleCopy(w, s)
  BY <1>1, <1>2, DeletesType DEF Deletes, CopyFile, SinglePut, SingleCopy
<1>3. CASE MoveFile(w) \/ SingleMove(w)
  BY <1>1, <1>3 DEF MoveFile, SingleMove
<1>4. CASE \E s \in Sizes : OverwriteUnrecorded(w, s) \/ PutUnrecorded(w, s)
  BY <1>4 DEF OverwriteUnrecorded, PutUnrecorded, Goto, local, Calm, TypeInv, TypeOK, LocalOK
<1>5. CASE EndWalk(w) \/ BodyFails(w) \/ Check(w)
  BY <1>5 DEF EndWalk, BodyFails, Check, Goto, local, store, Calm, TypeInv, TypeOK, LocalOK
<1>6. QED
  BY <1>2, <1>3, <1>4, <1>5 DEF Serving

LEMMA CapacityCalm ==
    ASSUME TypeInv, NEW w \in Workers, CapaRead(w) \/ CapaWrite(w) \/ CapaFails(w)
    PROVE  Calm(w)
<1> USE DEF Goto, store, Calm, TypeInv, TypeOK, LocalOK
<1>1. CASE CapaRead(w)
  BY <1>1 DEF CapaRead
<1>2. CASE CapaWrite(w)
  BY <1>2 DEF CapaWrite, AfterCapa
<1>3. CASE CapaFails(w)
  BY <1>3 DEF CapaFails, AfterCapa
<1>4. QED
  BY <1>1, <1>2, <1>3

(***************************************************************************)
(* The steps that are not calm.                                            *)
(***************************************************************************)
LEMMA QueryJournal ==
    ASSUME TypeInv, LockInv, JournalInv, NEW w \in Workers, Query(w)
    PROVE  JournalInv'
<1>1. /\ pc[w] = "query" /\ pc'[w] = "status" /\ acc[w].uid \in Users
      /\ \A v \in Workers : v # w => pc'[v] = pc[v] /\ acc'[v] = acc[v]
      /\ acc'[w].valid = job[w].id /\ acc'[w].uid = acc[w].uid
      /\ acc'[w].anchor = cache[acc[w].uid].anchor
      /\ UNCHANGED <<tmp, acd, idx>>
  BY DEF Query, Goto, local, store, SpaceKnown, TypeInv, TypeOK, AccOK, AccType, LocalOK
<1>2. \A u \in Users : /\ cache'[u].anchor = cache[u].anchor
                       /\ cache'[u].holder \in {cache[u].holder, job[w].id}
  BY DEF Query, TypeInv, TypeOK, CacheOK
<1>3. \A v \in Workers : v # w => acc[v].valid # job[w].id
  BY <1>1 DEF LockInv, ValidUnique, Distinct
<1>4. AnchorsDense' /\ OffsetsKept' /\ PublishedExists'
  BY <1>1, <1>2 DEF JournalInv, AnchorsDense, OffsetsKept, OffsetsOrdered, LogThere, PublishedExists
<1>5. AddiReadFresh'
  BY <1>1 DEF JournalInv, AddiReadFresh, Space
<1>6. HolderAtHome'
  BY <1>1, <1>2, <1>3 DEF JournalInv, HolderAtHome, PublishedExists, Space
<1>7. QED
  BY <1>4, <1>5, <1>6 DEF JournalInv

LEMMA QueryFailsJournal ==
    ASSUME TypeInv, LockInv, JournalInv, NEW w \in Workers, QueryFails(w)
    PROVE  JournalInv'
<1>1. CASE acc' = acc
  BY <1>1, LockFailedCalm, CalmJournal DEF QueryFails, store, TypeInv, TypeOK, CacheOK
<1>2. CASE acc' = [acc EXCEPT ![w].valid = job[w].id]
  <2>1. /\ pc[w] = "query" /\ pc'[w] \notin {"status", "addiAppend"}
        /\ \A v \in Workers : v # w => pc'[v] = pc[v] /\ tmp'[v] = tmp[v] /\ acc'[v] = acc[v]
        /\ acc'[w].valid = job[w].id
        /\ UNCHANGED <<cache, acd, idx>>
    BY <1>2 DEF QueryFails, LockFailed, Leave, Goto, local, store, TypeInv, TypeOK, AccOK, AccType, LocalOK
  <2>2. \A u \in Users : cache[u].holder # job[w].id
    BY <2>1 DEF LockInv, HolderKnown
  <2>3. AnchorsDense' /\ OffsetsKept' /\ PublishedExists'
    BY <2>1 DEF JournalInv, AnchorsDense, OffsetsKept, OffsetsOrdered, LogThere, PublishedExists
  <2>4. AddiReadFresh'
    BY <2>1 DEF JournalInv, AddiReadFresh, Space
  <2>5. HolderAtHome'
    BY <2>1, <2>2 DEF JournalInv, HolderAtHome, Space
  <2>6. QED
    BY <2>3, <2>4, <2>5 DEF JournalInv
<1>3. QED
  BY <1>1, <1>2 DEF QueryFails

LEMMA StatusJournal ==
    ASSUME TypeInv, LockInv, JournalInv, NEW w \in Workers, Status(w)
    PROVE  JournalInv'
<1>1. /\ pc[w] = "status" /\ pc'[w] \in {"check", "body"} /\ acc[w].uid \in Users
      /\ \A v \in Workers : v # w => pc'[v] = pc[v] /\ acc'[v] = acc[v]
      /\ acc'[w].valid = acc[w].valid /\ acc'[w].anchor = acc[w].anchor
      /\ acc'[w].location = acc[w].uid
      /\ UNCHANGED <<tmp, acd, idx>>
  BY DEF Status, Goto, local, store, SpaceKnown, TypeInv, TypeOK, AccOK, AccType, LocalOK
<1>2. /\ \A u \in Users : cache'[u].anchor = cache[u].anchor
      /\ \A u \in Users : u # acc[w].uid => cache'[u].holder = cache[u].holder
      /\ cache'[acc[w].uid].holder = acc[w].valid
  BY <1>1 DEF Status, GrantTo, TypeInv, TypeOK, CacheOK
<1>3. \A v \in Workers : v # w /\ acc[v].valid = acc[w].valid => acc[v].valid = 0
  BY DEF LockInv, ValidUnique, Distinct
<1>4. AnchorsDense' /\ OffsetsKept' /\ PublishedExists'
  BY <1>1, <1>2 DEF JournalInv, AnchorsDense, OffsetsKept, OffsetsOrdered, LogThere, PublishedExists
<1>5. AddiReadFresh'
  BY <1>1 DEF JournalInv, AddiReadFresh, Space
<1>6. HolderAtHome'
  BY <1>1, <1>2, <1>3 DEF LockInv, HolderKnown, JournalInv, HolderAtHome, Space
<1>7. QED
  BY <1>4, <1>5, <1>6 DEF JournalInv

LEMMA StatusRefusedJournal ==
    ASSUME TypeInv, LockInv, JournalInv, NEW w \in Workers, StatusRefused(w)
    PROVE  JournalInv'
<1>1. /\ pc[w] = "status" /\ pc'[w] \in {"idle", "unlock"} /\ acc[w].uid \in Users
      /\ \A v \in Workers : v # w => pc'[v] = pc[v] /\ tmp'[v] = tmp[v]
      /\ cache[acc[w].uid].holder # acc[w].valid
      /\ UNCHANGED <<acc, cache, acd, idx>>
  BY DEF StatusRefused, LockFailed, Leave, Goto, local, store, SpaceKnown, TypeInv, TypeOK, LocalOK
<1>2. AnchorsDense' /\ OffsetsKept' /\ PublishedExists'
  BY <1>1 DEF JournalInv, AnchorsDense, OffsetsKept, OffsetsOrdered, LogThere, PublishedExists
<1>3. AddiReadFresh'
  BY <1>1 DEF JournalInv, AddiReadFresh, Space
<1>4. HolderAtHome'
  BY <1>1 DEF LockInv, HolderKnown, JournalInv, HolderAtHome, Space
<1>5. QED
  BY <1>2, <1>3, <1>4 DEF JournalInv

(* Nobody else is between the read and the append of addi_anchor in the    *)
(* space where w writes.                                                   *)
LEMMA Alone ==
    ASSUME TypeInv, LockInv, NEW w \in Workers, NEW v \in Workers,
           pc[w] \in Writing, pc[v] \in Writing, Space(v) = Space(w)
    PROVE  v = w
  BY LockInvOneWriter DEF OneWriter, Writes, TypeInv, SpaceKnown

LEMMA FlushJournal ==
    ASSUME TypeInv, LockInv, JournalInv, NEW w \in Workers, Flush(w)
    PROVE  JournalInv'
<1>1. /\ pc[w] = "flush" /\ pc'[w] \in {"addiRead", "capaRead"} /\ Space(w) \in Users
      /\ \A v \in Workers : v # w => pc'[v] = pc[v]
      /\ UNCHANGED <<acc, cache, tmp, idx>>
  BY DEF Flush, Goto, local, SpaceKnown, Writing, TypeInv, TypeOK, LocalOK
<1>2. \A u \in Users : /\ u # Space(w) => acd'[u] = acd[u]
                       /\ Len(acd'[u]) >= Len(acd[u]) /\ Len(acd'[u]) \in Nat
  <2>1. CASE UNCHANGED acd
    BY <2>1, Journals
  <2>2. CASE acd' = [acd EXCEPT ![Space(w)] = Append(@, cur[w].type)]
    BY <1>1, <2>2, Journals DEF TypeInv, TypeOK, StoreOK
  <2>3. QED
    BY <2>1, <2>2 DEF Flush
<1>3. AnchorsDense' /\ PublishedExists' /\ HolderAtHome'
  BY <1>1 DEF JournalInv, AnchorsDense, PublishedExists, HolderAtHome, Space
<1>4. OffsetsKept'
  <2> SUFFICES ASSUME LogThere, NEW u \in Users, NEW i \in DOMAIN idx[u]
               PROVE  idx[u][i].oset <= Len(acd'[u]) /\ (i > 1 => idx[u][i - 1].oset <= idx[u][i].oset)
    BY <1>1 DEF OffsetsKept, OffsetsOrdered, LogThere
  <2>1. idx[u][i].oset <= Len(acd[u]) /\ (i > 1 => idx[u][i - 1].oset <= idx[u][i].oset)
    BY DEF JournalInv, OffsetsKept, OffsetsOrdered, LogThere
  <2>2. idx[u][i].oset \in Nat
    <3> DEFINE Entry == [num : Nat, oset : Nat]
    <3>1. idx[u] \in Seq(Entry)
      BY Journals
    <3> HIDE DEF Entry
    <3>2. idx[u][i] \in Entry
      BY <3>1
    <3>3. QED
      BY <3>2 DEF Entry
  <2>3. QED
    BY SMTT(40), <1>2, <2>1, <2>2, Journals
<1>5. AddiReadFresh'
  <2> SUFFICES ASSUME NEW v \in Workers, pc'[v] = "addiAppend"
               PROVE  /\ tmp[v].num = Len(idx[Space(v)]) + 1
                      /\ LogThere => tmp[v].oset = Len(acd'[Space(v)])
    BY <1>1 DEF AddiReadFresh, Space, LogThere
  <2>1. v # w /\ pc[v] = "addiAppend"
    BY <1>1
  <2>2. Space(v) # Space(w) /\ Space(v) \in Users
    BY <1>1, <2>1, Alone DEF Writing, TypeInv, SpaceKnown
  <2>3. QED
    BY <1>2, <2>1, <2>2 DEF JournalInv, AddiReadFresh
<1>6. QED
  BY <1>3, <1>4, <1>5 DEF JournalInv

LEMMA AddiReadJournal ==
    ASSUME TypeInv, JournalInv, NEW w \in Workers, AddiRead(w)
    PROVE  JournalInv'
<1>1. /\ pc[w] = "addiRead" /\ pc'[w] = "addiAppend" /\ Space(w) \in Users
      /\ \A v \in Workers : v # w => pc'[v] = pc[v] /\ tmp'[v] = tmp[v]
      /\ UNCHANGED <<acc, cache, acd, idx>>
  BY DEF AddiRead, Goto, store, SpaceKnown, Writing, TypeInv, TypeOK, LocalOK
<1>2. tmp'[w].num = LastNumber(Space(w)) + 1 /\ (LogThere => tmp'[w].oset = Len(acd[Space(w)]))
  <2>1. PICK size \in LogSizes(Space(w)) :
           tmp' = [tmp EXCEPT ![w].num = LastNumber(Space(w)) + 1, ![w].oset = size]
    BY DEF AddiRead
  <2>2. LogThere => size = Len(acd[Space(w)])
    BY DEF LogSizes, LogThere
  <2>3. tmp'[w].num = LastNumber(Space(w)) + 1 /\ tmp'[w].oset = size
    BY <2>1 DEF TypeInv, TypeOK, LocalOK, TmpType
  <2>4. QED
    BY <2>2, <2>3
<1>3. AnchorsDense' /\ OffsetsKept' /\ PublishedExists' /\ HolderAtHome'
  BY <1>1 DEF JournalInv, AnchorsDense, OffsetsKept, OffsetsOrdered, LogThere, PublishedExists, HolderAtHome, Space
<1>4. AddiReadFresh'
  BY <1>1, <1>2, LastNumberIsLen DEF JournalInv, AddiReadFresh, Space, LogThere
<1>5. QED
  BY <1>3, <1>4 DEF JournalInv

LEMMA AfterAddiFacts ==
    ASSUME TypeInv, NEW w \in Workers, NEW n \in Nat, AfterAddi(w, n)
    PROVE  /\ pc'[w] \in {"capaRead", "publish"}
           /\ \A v \in Workers : v # w => pc'[v] = pc[v] /\ acc'[v] = acc[v]
           /\ acc'[w].valid = acc[w].valid /\ acc'[w].location = acc[w].location
           /\ acc'[w].anchor \in {acc[w].anchor, n}
<1>1. CASE Final(w)
  BY <1>1 DEF AfterAddi, Goto, TypeInv, TypeOK, LocalOK
<1>2. CASE ~Final(w)
  <2>1. pc' = [pc EXCEPT ![w] = "publish"] /\ acc' = [acc EXCEPT ![w].anchor = n]
    BY <1>2 DEF AfterAddi, Goto
  <2>2. QED
    BY <2>1 DEF TypeInv, TypeOK, LocalOK, AccOK, AccType
<1>3. QED
  BY <1>1, <1>2

LEMMA AddiAppendJournal ==
    ASSUME TypeInv, LockInv, JournalInv, NEW w \in Workers, AddiAppend(w)
    PROVE  JournalInv'
<1> DEFINE s == Space(w)
           entry == [num |-> tmp[w].num, oset |-> tmp[w].oset]
<1>1. /\ pc[w] = "addiAppend" /\ s \in Users
      /\ UNCHANGED <<tmp, cache, acd>>
      /\ idx' = [idx EXCEPT ![s] = Append(@, entry)]
  BY DEF AddiAppend, local, SpaceKnown, Writing, TypeInv
<1>2. tmp[w].num = Len(idx[s]) + 1 /\ (LogThere => tmp[w].oset = Len(acd[s]))
  BY <1>1 DEF JournalInv, AddiReadFresh
<1>3. /\ pc'[w] \in {"capaRead", "publish"}
      /\ \A v \in Workers : v # w => pc'[v] = pc[v] /\ acc'[v] = acc[v]
      /\ acc'[w].valid = acc[w].valid /\ acc'[w].location = acc[w].location
      /\ acc'[w].anchor \in {acc[w].anchor, Len(idx[s]) + 1}
  BY <1>1, <1>2, AfterAddiFacts DEF AddiAppend, TypeInv, TypeOK, LocalOK, TmpType
<1>4. /\ idx[s] \in Seq([num : Nat, oset : Nat]) /\ entry \in [num : Nat, oset : Nat]
      /\ idx'[s] = Append(idx[s], entry)
      /\ \A u \in Users : u # s => idx'[u] = idx[u]
  BY <1>1, Journals DEF TypeInv, TypeOK, LocalOK, TmpType, StoreOK
<1>5. /\ Len(idx'[s]) = Len(idx[s]) + 1
      /\ idx'[s][Len(idx[s]) + 1] = entry
      /\ \A i \in DOMAIN idx[s] : idx'[s][i] = idx[s][i]
      /\ DOMAIN idx'[s] = DOMAIN idx[s] \cup {Len(idx[s]) + 1}
  BY SMTT(40), <1>4
<1>6. \A u \in Users : Len(idx'[u]) \in Nat /\ Len(idx'[u]) >= Len(idx[u])
  BY SMTT(40), <1>4, <1>5, Journals
<1> HIDE DEF entry
<1>7. AnchorsDense'
  <2> SUFFICES ASSUME NEW u \in Users, NEW i \in DOMAIN idx'[u]
               PROVE  idx'[u][i].num = i
    BY DEF AnchorsDense
  <2>1. CASE u # s
    BY <1>4, <2>1 DEF JournalInv, AnchorsDense
  <2>2. CASE u = s /\ i \in DOMAIN idx[s]
    BY <1>1, <1>5, <2>2 DEF JournalInv, AnchorsDense
  <2>3. CASE u = s /\ i = Len(idx[s]) + 1
    BY <1>2, <1>5, <2>3 DEF entry
  <2>4. QED
    BY <1>5, <2>1, <2>2, <2>3
<1>8. OffsetsKept'
  <2> SUFFICES ASSUME LogThere, NEW u \in Users, NEW i \in DOMAIN idx'[u]
               PROVE  /\ idx'[u][i].oset <= Len(acd[u])
                      /\ i > 1 => idx'[u][i - 1].oset <= idx'[u][i].oset
    BY <1>1 DEF OffsetsKept, OffsetsOrdered, LogThere
  <2>1. CASE u # s
    BY <1>4, <2>1 DEF JournalInv, OffsetsKept, OffsetsOrdered, LogThere
  <2>2. CASE u = s /\ i \in DOMAIN idx[s]
    <3>1. i > 1 => i - 1 \in DOMAIN idx[s]
      BY <1>4, <2>2
    <3>2. QED
      BY <1>1, <1>5, <2>2, <3>1 DEF JournalInv, OffsetsKept, OffsetsOrdered, LogThere
  <2>3. CASE u = s /\ i = Len(idx[s]) + 1
    <3>1. idx'[s][i].oset = Len(acd[s]) /\ Len(acd[s]) \in Nat
      BY <1>1, <1>2, <1>5, <2>3, Journals DEF entry
    <3>2. i > 1 => Len(idx[s]) \in DOMAIN idx[s] /\ i - 1 = Len(idx[s])
      BY <1>4, <2>3
    <3>3. i > 1 => idx[s][i - 1].oset <= Len(acd[s])
      BY <1>1, <3>2 DEF JournalInv, OffsetsKept, OffsetsOrdered, LogThere
    <3>4. QED
      BY <1>5, <2>3, <3>1, <3>2, <3>3
  <2>4. QED
    BY <1>5, <2>1, <2>2, <2>3
<1>9. AddiReadFresh'
  <2> SUFFICES ASSUME NEW v \in Workers, pc'[v] = "addiAppend"
               PROVE  /\ tmp[v].num = Len(idx'[Space(v)]) + 1
                      /\ LogThere => tmp[v].oset = Len(acd[Space(v)])
    BY <1>1, <1>3 DEF AddiReadFresh, Space, LogThere
  <2>1. v # w /\ pc[v] = "addiAppend"
    BY <1>3
  <2>2. Space(v) # s /\ Space(v) \in Users
    BY <1>1, <2>1, Alone DEF Writing, TypeInv, SpaceKnown
  <2>3. QED
    BY <1>4, <2>1, <2>2 DEF JournalInv, AddiReadFresh
<1>10. HolderAtHome'
  <2>1. \A v \in Workers : acc[v].anchor \in Nat
    BY DEF TypeInv, TypeOK, AccOK, AccType
  <2>2. \A v \in Workers : pc[v] = "status" => acc[v].uid \in Users
    BY DEF TypeInv, SpaceKnown
  <2>3. \A v \in Workers : pc'[v] = "status" => v # w
    BY <1>3
  <2>4. \A v \in Workers : acc'[v].location = acc[v].location /\ acc'[v].valid = acc[v].valid
    BY <1>3
  <2>5. acc'[w].anchor \in Nat /\ (acc[w].anchor <= Len(idx[s]) => acc'[w].anchor <= Len(idx'[s]))
    BY <1>1, <1>3, <1>5, <2>1, Journals
  <2>6. \A v \in Workers : v # w => pc'[v] = pc[v] /\ acc'[v] = acc[v]
    BY <1>3
  <2>7. ASSUME NEW v \in Workers, pc'[v] = "status"
        PROVE  acc'[v].anchor <= Len(idx'[acc'[v].uid])
    <3>1. v # w /\ acc'[v] = acc[v] /\ pc[v] = "status" /\ acc[v].uid \in Users
      BY <2>7, <2>2, <2>3, <2>6
    <3>2. acc[v].anchor <= Len(idx[acc[v].uid]) /\ acc[v].anchor \in Nat
      BY <2>1, <3>1 DEF JournalInv, HolderAtHome
    <3>3. /\ Len(idx[acc[v].uid]) \in Nat /\ Len(idx'[acc[v].uid]) \in Nat
          /\ Len(idx[acc[v].uid]) <= Len(idx'[acc[v].uid])
      BY <1>6, <3>1, Journals
    <3>4. acc[v].anchor <= Len(idx'[acc[v].uid])
      BY <3>2, <3>3
    <3>5. QED
      BY <3>1, <3>4
  <2>8. ASSUME NEW v \in Workers, NEW u \in Users, acc'[v].valid # 0,
               cache[u].holder = acc'[v].valid, pc'[v] # "status"
        PROVE  acc'[v].location = u /\ acc'[v].anchor <= Len(idx'[u])
    <3>1. CASE v = w
      BY <2>8, <3>1, <1>1, <2>4, <2>5 DEF JournalInv, HolderAtHome, Space
    <3>2. CASE v # w
      BY <2>8, <3>2, <1>6, <2>1, <2>6, Journals DEF JournalInv, HolderAtHome, Space
    <3>3. QED
      BY <3>1, <3>2
  <2>9. QED
    BY <1>1, <2>7, <2>8 DEF HolderAtHome, Space
<1>11. PublishedExists'
  BY <1>1, <1>6, Journals DEF JournalInv, PublishedExists
<1>12. QED
  BY <1>7, <1>8, <1>9, <1>10, <1>11 DEF JournalInv

LEMMA AddiFailsJournal ==
    ASSUME TypeInv, JournalInv, NEW w \in Workers, AddiFails(w)
    PROVE  JournalInv'
<1>1. /\ pc[w] \in {"addiRead", "addiAppend"} /\ pc'[w] \in {"capaRead", "publish"}
      /\ \A v \in Workers : v # w => pc'[v] = pc[v] /\ acc'[v] = acc[v]
      /\ acc'[w].valid = acc[w].valid /\ acc'[w].location = acc[w].location
      /\ acc'[w].anchor \in {acc[w].anchor, 0}
      /\ UNCHANGED <<tmp, cache, acd, idx>>
  BY AfterAddiFacts DEF AddiFails, local, store
<1>2. AnchorsDense' /\ OffsetsKept' /\ PublishedExists'
  BY <1>1 DEF JournalInv, AnchorsDense, OffsetsKept, OffsetsOrdered, LogThere, PublishedExists
<1>3. AddiReadFresh'
  BY <1>1 DEF JournalInv, AddiReadFresh, Space
<1>4. HolderAtHome'
  BY <1>1, Journals DEF JournalInv, HolderAtHome, Space
<1>5. QED
  BY <1>2, <1>3, <1>4 DEF JournalInv

(* The anchor that the cache server takes is one of the space it unlocks:  *)
(* it takes one only from the validation it honours.                       *)
LEMMA PublishJournal ==
    ASSUME TypeInv, JournalInv, NEW w \in Workers, Publish(w)
    PROVE  JournalInv'
<1>1. /\ pc[w] \in {"publish", "republish"} /\ pc'[w] = "idle" /\ acc[w].uid \in Users
      /\ \A v \in Workers : v # w => pc'[v] = pc[v] /\ tmp'[v] = tmp[v]
      /\ UNCHANGED <<acc, acd, idx>>
  BY DEF Publish, Leave, Goto, store, SpaceKnown, TypeInv, TypeOK, LocalOK
<1>2. \A u \in Users :
         \/ cache'[u] = cache[u]
         \/ /\ cache'[u].holder = 0 /\ cache'[u].anchor = acc[w].anchor
            /\ acc[w].anchor <= Len(idx[u])
  <2>1. CASE Honoured(w) /\ Published(w)
    <3>1. acc[w].anchor <= Len(idx[acc[w].uid])
      BY <1>1, <2>1 DEF Honoured, JournalInv, HolderAtHome
    <3>2. QED
      BY <2>1, <3>1 DEF Published, TypeInv, TypeOK, CacheOK
  <2>2. CASE UNCHANGED cache
    BY <2>2
  <2>3. QED
    BY <2>1, <2>2 DEF Publish, Published, SendLost
<1>3. AnchorsDense' /\ OffsetsKept' /\ PublishedExists'
  BY <1>1, <1>2 DEF JournalInv, AnchorsDense, OffsetsKept, OffsetsOrdered, LogThere, PublishedExists
<1>4. AddiReadFresh'
  BY <1>1 DEF JournalInv, AddiReadFresh, Space
<1>5. HolderAtHome'
  BY <1>1, <1>2 DEF JournalInv, HolderAtHome, Space
<1>6. QED
  BY <1>3, <1>4, <1>5 DEF JournalInv

LEMMA UnlockJournal ==
    ASSUME TypeInv, JournalInv, NEW w \in Workers, Unlock(w)
    PROVE  JournalInv'
<1>1. CASE UNCHANGED acc
  BY <1>1, CalmJournal DEF Unlock, Goto, Calm, local, store, TypeInv, TypeOK, LocalOK, CacheOK
<1>2. CASE Space(w) \in Users /\ acc' = [acc EXCEPT ![w].anchor = LastNumber(Space(w))]
  <2>1. /\ pc[w] = "unlock" /\ pc'[w] \in {"release", "republish"}
        /\ \A v \in Workers : v # w => pc'[v] = pc[v] /\ acc'[v] = acc[v]
        /\ acc'[w].valid = acc[w].valid /\ acc'[w].location = acc[w].location
        /\ UNCHANGED <<tmp, cache, acd, idx>>
    BY <1>2 DEF Unlock, Goto, local, store, TypeInv, TypeOK, LocalOK, AccOK, AccType
  <2>2. acc'[w].anchor = Len(idx[Space(w)]) /\ Len(idx[Space(w)]) \in Nat
    BY <1>2, LastNumberIsLen, Journals DEF JournalInv, TypeInv, TypeOK, AccOK, AccType
  <2>3. AnchorsDense' /\ OffsetsKept' /\ PublishedExists'
    BY <2>1 DEF JournalInv, AnchorsDense, OffsetsKept, OffsetsOrdered, LogThere, PublishedExists
  <2>4. AddiReadFresh'
    BY <2>1 DEF JournalInv, AddiReadFresh, Space
  <2>5. HolderAtHome'
    BY <2>1, <2>2 DEF JournalInv, HolderAtHome, Space
  <2>6. QED
    BY <2>3, <2>4, <2>5 DEF JournalInv
<1>3. QED
  BY <1>1, <1>2 DEF Unlock

LEMMA CrashJournal ==
    ASSUME TypeInv, JournalInv, NEW w \in Workers, Crash(w)
    PROVE  JournalInv'
<1>1. /\ pc'[w] = "idle" /\ acc'[w].valid = 0
      /\ \A v \in Workers : v # w => pc'[v] = pc[v] /\ tmp'[v] = tmp[v] /\ acc'[v] = acc[v]
      /\ UNCHANGED <<cache, acd, idx>>
  BY DEF Crash, Leave, Goto, NoAcc, store, TypeInv, TypeOK, LocalOK, AccOK
<1>2. AnchorsDense' /\ OffsetsKept' /\ PublishedExists'
  BY <1>1 DEF JournalInv, AnchorsDense, OffsetsKept, OffsetsOrdered, LogThere, PublishedExists
<1>3. AddiReadFresh'
  BY <1>1 DEF JournalInv, AddiReadFresh, Space
<1>4. HolderAtHome'
  BY <1>1 DEF JournalInv, HolderAtHome, Space
<1>5. QED
  BY <1>2, <1>3, <1>4 DEF JournalInv

LEMMA ExpireJournal ==
    ASSUME TypeInv, JournalInv, NEW t \in Users, Expire(t)
    PROVE  JournalInv'
<1>1. /\ \A u \in Users : /\ cache'[u].anchor = cache[u].anchor
                          /\ cache'[u].holder \in {0, cache[u].holder}
      /\ UNCHANGED <<pc, tmp, acc, acd, idx>>
  BY DEF Expire, local, store, TypeInv, TypeOK, CacheOK
<1>2. AnchorsDense' /\ OffsetsKept' /\ PublishedExists'
  BY <1>1 DEF JournalInv, AnchorsDense, OffsetsKept, OffsetsOrdered, LogThere, PublishedExists
<1>3. AddiReadFresh'
  BY <1>1 DEF JournalInv, AddiReadFresh, Space
<1>4. HolderAtHome'
  BY <1>1 DEF JournalInv, HolderAtHome, Space
<1>5. QED
  BY <1>2, <1>3, <1>4 DEF JournalInv

LEMMA JournalInit ==
    ASSUME Init
    PROVE  JournalInv
  BY DEF Init, JournalInv, AnchorsDense, OffsetsKept, OffsetsOrdered, LogThere, AddiReadFresh, HolderAtHome,
         PublishedExists, NoAcc

LEMMA JournalStep ==
    ASSUME LeaseHeld, TypeInv, LockInv, JournalInv, [Next]_vars
    PROVE  JournalInv'
<1>1. ASSUME NEW w \in Workers, NEW u \in Users, NEW op \in Ops, Start(w, u, op)
      PROVE  JournalInv'
  BY <1>1, StartCalm, CalmJournal
<1>2. ASSUME NEW w \in Workers, Locking(w)
      PROVE  JournalInv'
  <2>1. CASE Query(w)
    BY <2>1, QueryJournal
  <2>2. CASE QueryRefused(w)
    BY <2>2, LockFailedCalm, CalmJournal DEF QueryRefused, store, TypeInv, TypeOK, CacheOK
  <2>3. CASE QueryFails(w)
    BY <2>3, QueryFailsJournal
  <2>4. CASE Status(w)
    BY <2>4, StatusJournal
  <2>5. CASE StatusRefused(w)
    BY <2>5, StatusRefusedJournal
  <2>6. CASE StatusLost(w)
    BY <2>6 DEF StatusLost, LeaseHeld
  <2>7. CASE Check(w)
    BY <2>7, ServingCalm, CalmJournal
  <2>8. QED
    BY <1>2, <2>1, <2>2, <2>3, <2>4, <2>5, <2>6, <2>7 DEF Locking
<1>3. ASSUME NEW w \in Workers, Serving(w)
      PROVE  JournalInv'
  BY <1>3, ServingCalm, CalmJournal
<1>4. ASSUME NEW w \in Workers, Recording(w)
      PROVE  JournalInv'
  <2>1. CASE Flush(w)
    BY <2>1, FlushJournal
  <2>2. CASE AddiRead(w)
    BY <2>2, AddiReadJournal
  <2>3. CASE AddiAppend(w)
    BY <2>3, AddiAppendJournal
  <2>4. CASE AddiFails(w)
    BY <2>4, AddiFailsJournal
  <2>5. CASE CapaRead(w) \/ CapaWrite(w) \/ CapaFails(w)
    BY <2>5, CapacityCalm, CalmJournal
  <2>6. QED
    BY <1>4, <2>1, <2>2, <2>3, <2>4, <2>5 DEF Recording
<1>5. ASSUME NEW w \in Workers, Unlocking(w)
      PROVE  JournalInv'
  <2>1. CASE Publish(w)
    BY <2>1, PublishJournal
  <2>2. CASE UnlockFull(w)
    BY <2>2, ReleasedCalm, LockFailedCalm, CalmJournal DEF UnlockFull, store
  <2>3. CASE Unlock(w)
    BY <2>3, UnlockJournal
  <2>4. CASE Release(w)
    BY <2>4, ReleasedCalm, LeaveCalm, CalmJournal DEF Release, store
  <2>5. QED
    BY <1>5, <2>1, <2>2, <2>3, <2>4 DEF Unlocking
<1>6. ASSUME NEW w \in Workers, Crash(w)
      PROVE  JournalInv'
  BY <1>6, CrashJournal
<1>7. ASSUME NEW u \in Users, Expire(u)
      PROVE  JournalInv'
  BY <1>7, ExpireJournal
<1>8. CASE UNCHANGED vars
  BY <1>8 DEF vars, local, store, JournalInv, AnchorsDense, OffsetsKept, OffsetsOrdered, LogThere, AddiReadFresh,
              HolderAtHome, PublishedExists, Space
<1>9. QED
  BY <1>1, <1>2, <1>3, <1>4, <1>5, <1>6, <1>7, <1>8 DEF Next, Step, Rest

(* The anchors of a space are numbered without gap or repetition, however  *)
(* the workers interleave, fail or die in the middle of addi_anchor.       *)
THEOREM AnchorsDenseAlways == ASSUME LeaseHeld PROVE Spec => []AnchorsDense
<1>1. Init => LockInv /\ JournalInv
  BY LockInit, JournalInit
<1>2. TypeInv /\ LockInv /\ JournalInv /\ [Next]_vars => LockInv' /\ JournalInv'
  BY LockStep, JournalStep
<1>3. JournalInv => AnchorsDense
  BY DEF JournalInv
<1>4. QED
  BY TypeInvariant, <1>1, <1>2, <1>3, PTL DEF Spec

(* No anchor points beyond the log or behind the anchor before it.         *)
THEOREM OffsetsOrderedAlways == ASSUME LeaseHeld, LogThere PROVE Spec => []OffsetsOrdered
<1>1. Init => LockInv /\ JournalInv
  BY LockInit, JournalInit
<1>2. TypeInv /\ LockInv /\ JournalInv /\ [Next]_vars => LockInv' /\ JournalInv'
  BY LockStep, JournalStep
<1>3. JournalInv => OffsetsOrdered
  BY DEF JournalInv, OffsetsKept
<1>4. QED
  BY TypeInvariant, <1>1, <1>2, <1>3, PTL DEF Spec

(* Clients are never told of an anchor that the index of the space lacks.  *)
THEOREM PublishedExistsAlways == ASSUME LeaseHeld PROVE Spec => []PublishedExists
<1>1. Init => LockInv /\ JournalInv
  BY LockInit, JournalInit
<1>2. TypeInv /\ LockInv /\ JournalInv /\ [Next]_vars => LockInv' /\ JournalInv'
  BY LockStep, JournalStep
<1>3. JournalInv => PublishedExists
  BY DEF JournalInv
<1>4. QED
  BY TypeInvariant, <1>1, <1>2, <1>3, PTL DEF Spec

(* The strengthened invariant as a whole: the locks and the files of every  *)
(* space stay consistent through crashes and the failures of calls.         *)
THEOREM SpaceInvAlways == ASSUME LeaseHeld PROVE Spec => []SpaceInv
<1>1. Init => LockInv /\ JournalInv
  BY LockInit, JournalInit
<1>2. TypeInv /\ LockInv /\ JournalInv /\ [Next]_vars => LockInv' /\ JournalInv'
  BY LockStep, JournalStep
<1>3. LockInv /\ JournalInv => SpaceInv
  BY DEF SpaceInv
<1>4. QED
  BY TypeInvariant, <1>1, <1>2, <1>3, PTL DEF Spec

-----------------------------------------------------------------------------
(* CloudSpace implements SpaceJournal: what the clients synchronise with is a *)
(* journal under one lock, although each entry of it is several steps of   *)
(* several workers.                                                        *)


-----------------------------------------------------------------------------
(* How a change of the files or of the cache server maps to the journal. *)

(* The journal has no other state than the log, the index and the cache. *)
LEMMA JournalStutters ==
    ASSUME UNCHANGED <<cache, acd, idx>>
    PROVE  UNCHANGED Journal!jvars
  BY DEF Journal!jvars

(* A validation other than the empty one in a free lock. *)
LEMMA GrantLocks ==
    ASSUME TypeInv, NEW u \in Users, NEW valid \in Nat \ {0}, cache[u].holder = 0,
           cache' = [cache EXCEPT ![u].holder = valid], UNCHANGED <<acd, idx>>
    PROVE  Journal!Lock(u)
<1>1. /\ cache'[u].holder # 0 /\ cache'[u].anchor = cache[u].anchor
      /\ \A t \in Users : t # u => cache'[t] = cache[t]
  BY DEF TypeInv, TypeOK, CacheOK
<1>2. [t \in Users |-> cache'[t].holder # 0]
        = [[t \in Users |-> cache[t].holder # 0] EXCEPT ![u] = TRUE]
  BY <1>1
<1>3. [t \in Users |-> cache'[t].anchor] = [t \in Users |-> cache[t].anchor]
  BY <1>1
<1>4. QED
  BY <1>2, <1>3 DEF Journal!Lock

(* A lock that is given back, with an anchor of the index. *)
LEMMA FreeUnlocks ==
    ASSUME TypeInv, NEW u \in Users, NEW n \in Nat, n <= Len(idx[u]), cache[u].holder # 0,
           cache' = [cache EXCEPT ![u] = [holder |-> 0, anchor |-> n]], UNCHANGED <<acd, idx>>
    PROVE  Journal!Unlock(u)
<1>1. /\ cache'[u].holder = 0 /\ cache'[u].anchor = n
      /\ \A t \in Users : t # u => cache'[t] = cache[t]
  BY DEF TypeInv, TypeOK, CacheOK
<1>2. [t \in Users |-> cache'[t].holder # 0]
        = [[t \in Users |-> cache[t].holder # 0] EXCEPT ![u] = FALSE]
  BY <1>1
<1>3. [t \in Users |-> cache'[t].anchor] = [[t \in Users |-> cache[t].anchor] EXCEPT ![u] = n]
  <2>1. \A t \in Users : cache'[t].anchor = IF t = u THEN n ELSE cache[t].anchor
    BY <1>1
  <2>2. QED
    BY <2>1
<1>4. n \in 0 .. Len(idx[u])
  BY Journals
<1>5. QED
  BY <1>2, <1>3, <1>4 DEF Journal!Unlock

(* The lock alone goes: the anchor that was announced is still in the index. *)
LEMMA HolderGone ==
    ASSUME TypeInv, JournalInv, NEW u \in Users, cache[u].holder # 0,
           cache' = [cache EXCEPT ![u].holder = 0], UNCHANGED <<acd, idx>>
    PROVE  Journal!Unlock(u)
<1>1. cache[u].anchor \in Nat /\ cache[u].anchor <= Len(idx[u])
  BY Journals DEF JournalInv, PublishedExists
<1>2. cache' = [cache EXCEPT ![u] = [holder |-> 0, anchor |-> cache[u].anchor]]
  <2>1. cache[u] \in [holder : Nat, anchor : Nat]
    BY DEF TypeInv, TypeOK, CacheOK
  <2>2. [cache[u] EXCEPT !.holder = 0] = [holder |-> 0, anchor |-> cache[u].anchor]
    BY <2>1
  <2>3. QED
    BY <2>2
<1>3. QED
  BY <1>1, <1>2, FreeUnlocks

-----------------------------------------------------------------------------
(* The steps of a worker. *)

(* A handler that waits, walks or counts is not seen in the journal. *)
LEMMA ServingUnseen ==
    ASSUME NEW w \in Workers,
           Serving(w) \/ CapaRead(w) \/ CapaWrite(w) \/ CapaFails(w) \/ AddiRead(w)
             \/ AddiFails(w) \/ Check(w) \/ QueryRefused(w) \/ QueryFails(w)
             \/ StatusRefused(w) \/ Unlock(w) \/ Crash(w)
    PROVE  UNCHANGED <<cache, acd, idx>>
<1>1. CASE Serving(w)
  BY <1>1 DEF Serving, Overwrite, OverwriteUnrecorded, DeleteFile, MisjudgeFile, MoveFile, CopyFile, SinglePut,
              SingleMove, SingleCopy, PutUnrecorded, EndWalk, BodyFails, Record, store
<1>2. CASE CapaRead(w) \/ CapaWrite(w) \/ CapaFails(w)
  BY <1>2 DEF CapaRead, CapaWrite, CapaFails, store
<1>3. CASE AddiRead(w) \/ AddiFails(w) \/ Check(w)
  BY <1>3 DEF AddiRead, AddiFails, Check, store
<1>4. CASE QueryRefused(w) \/ QueryFails(w) \/ StatusRefused(w)
  BY <1>4 DEF QueryRefused, QueryFails, StatusRefused, store
<1>5. CASE Unlock(w) \/ Crash(w)
  BY <1>5 DEF Unlock, Crash, store
<1>6. QED
  BY <1>1, <1>2, <1>3, <1>4, <1>5

(* The query locks the space if the cache server locks there. *)
LEMMA QueryMaps ==
    ASSUME TypeInv, LockInv, NEW w \in Workers, Query(w)
    PROVE  Journal!Next \/ UNCHANGED Journal!jvars
<1>1. acc[w].uid \in Users /\ job[w].id \in Nat \ {0} /\ UNCHANGED <<acd, idx>>
  BY DEF Query, store, LockInv, ValidKnown, TypeInv, TypeOK, CacheOK, SpaceKnown
<1>2. CASE LockAtQuery
  <2>1. cache[acc[w].uid].holder = 0 /\ cache' = [cache EXCEPT ![acc[w].uid].holder = job[w].id]
    BY <1>2 DEF Query
  <2>2. QED
    BY <1>1, <2>1, GrantLocks DEF Journal!Next
<1>3. CASE ~LockAtQuery
  BY <1>1, <1>3, JournalStutters DEF Query
<1>4. QED
  BY <1>2, <1>3

(* The status locks it, or finds the lock of this request there. *)
LEMMA StatusMaps ==
    ASSUME TypeInv, LockInv, NEW w \in Workers, Status(w)
    PROVE  Journal!Next \/ UNCHANGED Journal!jvars
<1> DEFINE u == acc[w].uid
<1>1. u \in Users /\ acc[w].valid \in Nat \ {0} /\ UNCHANGED <<acd, idx>>
  BY DEF Status, store, LockInv, ValidKnown, TypeInv, TypeOK, CacheOK, SpaceKnown
<1>2. cache[u].holder \in {0, acc[w].valid} /\ cache' = [cache EXCEPT ![u].holder = acc[w].valid]
  BY DEF Status, GrantTo
<1>3. CASE cache[u].holder = 0
  BY <1>1, <1>2, <1>3, GrantLocks DEF Journal!Next
<1>4. CASE cache[u].holder = acc[w].valid
  <2>1. cache' = cache
    BY <1>1, <1>2, <1>4 DEF TypeInv, TypeOK, CacheOK
  <2>2. QED
    BY <1>1, <2>1, JournalStutters
<1>5. QED
  BY <1>2, <1>3, <1>4

(* A record goes to the log of a locked space, or nowhere. *)
LEMMA FlushMaps ==
    ASSUME TypeInv, LockInv, NEW w \in Workers, Flush(w)
    PROVE  Journal!Next \/ UNCHANGED Journal!jvars
<1>1. /\ Space(w) \in Users /\ cache[Space(w)].holder # 0
      /\ cur[w].type \in Types /\ UNCHANGED <<cache, idx>>
  <2>1. pc[w] = "flush" /\ pc[w] \in Writing
    BY DEF Flush, Writing
  <2>2. cur[w].type \in Types
    BY <2>1 DEF TypeInv, TypeOK, LocalOK, ItemType, ItemKnown
  <2>3. QED
    BY <2>1, <2>2 DEF Flush, LockInv, WriterLocked, TypeInv, SpaceKnown
<1>2. CASE UNCHANGED acd
  BY <1>1, <1>2, JournalStutters
<1>3. CASE acd' = [acd EXCEPT ![Space(w)] = Append(@, cur[w].type)]
  BY <1>1, <1>3 DEF Journal!Next, Journal!Record
<1>4. QED
  BY <1>2, <1>3 DEF Flush

(* The entry that addi_anchor appends has the next number and covers the    *)
(* whole log, although number and size were read in a step before.          *)
LEMMA AddiAppendMaps ==
    ASSUME LogThere, TypeInv, LockInv, JournalInv, NEW w \in Workers, AddiAppend(w)
    PROVE  Journal!Next
<1>1. /\ Space(w) \in Users /\ cache[Space(w)].holder # 0
      /\ UNCHANGED <<cache, acd>>
  <2>1. pc[w] \in Writing
    BY DEF AddiAppend, Writing
  <2>2. QED
    BY <2>1 DEF AddiAppend, LockInv, WriterLocked, TypeInv, SpaceKnown
<1>2. tmp[w].num = Len(idx[Space(w)]) + 1 /\ tmp[w].oset = Len(acd[Space(w)])
  BY DEF AddiAppend, JournalInv, AddiReadFresh
<1>3. idx' = [idx EXCEPT ![Space(w)] =
                Append(@, [num |-> Len(@) + 1, oset |-> Len(acd[Space(w)])])]
  BY <1>2 DEF AddiAppend
<1>4. QED
  BY <1>1, <1>3 DEF Journal!Next, Journal!AddAnchor

(* set anchor or set locked free the lock of an honoured validation and     *)
(* announce an anchor of its own space.                                     *)
LEMMA UnlockingMaps ==
    ASSUME TypeInv, LockInv, JournalInv, NEW w \in Workers,
           Publish(w) \/ UnlockFull(w) \/ Release(w)
    PROVE  Journal!Next \/ UNCHANGED Journal!jvars
<1> DEFINE u == acc[w].uid
<1>1. /\ pc[w] \notin {"idle", "status"} /\ UNCHANGED <<acd, idx>>
      /\ Released(w) \/ Published(w) \/ SendLost
  BY DEF Publish, UnlockFull, Release, store
<1>2. u \in Users /\ acc[w].anchor \in Nat /\ acc[w].valid \in Nat
  BY <1>1 DEF TypeInv, TypeOK, AccOK, AccType, SpaceKnown
<1>3. CASE UNCHANGED cache
  BY <1>1, <1>3, JournalStutters
<1>4. CASE Honoured(w) /\ cache' = [cache EXCEPT ![u].holder = 0]
  BY <1>1, <1>2, <1>4, HolderGone DEF Honoured, Journal!Next
<1>5. CASE Honoured(w) /\ cache' = [cache EXCEPT ![u] = [holder |-> 0, anchor |-> acc[w].anchor]]
  <2>1. acc[w].anchor <= Len(idx[u])
    BY <1>1, <1>2, <1>5 DEF JournalInv, HolderAtHome, Honoured
  <2>2. QED
    BY <1>1, <1>2, <1>5, <2>1, FreeUnlocks DEF Honoured, Journal!Next
<1>6. QED
  BY <1>1, <1>3, <1>4, <1>5 DEF Released, Published, SendLost

-----------------------------------------------------------------------------

LEMMA JournalMaps ==
    ASSUME LeaseHeld, LogThere, TypeInv, LockInv, JournalInv, [Next]_vars
    PROVE  [Journal!Next]_(Journal!jvars)
<1>1. ASSUME NEW w \in Workers, NEW u \in Users, NEW op \in Ops, Start(w, u, op)
      PROVE  UNCHANGED Journal!jvars
  BY <1>1, JournalStutters DEF Start, store
<1>2. ASSUME NEW w \in Workers, Step(w) \/ Crash(w)
      PROVE  Journal!Next \/ UNCHANGED Journal!jvars
  <2>1. CASE Query(w)
    BY <2>1, QueryMaps
  <2>2. CASE Status(w)
    BY <2>2, StatusMaps
  <2>3. CASE Flush(w)
    BY <2>3, FlushMaps
  <2>4. CASE AddiAppend(w)
    BY <2>4, AddiAppendMaps
  <2>5. CASE Publish(w) \/ UnlockFull(w) \/ Release(w)
    BY <2>5, UnlockingMaps
  <2>6. ~StatusLost(w)
    BY DEF StatusLost, LeaseHeld
  <2>7. CASE \/ Serving(w) \/ CapaRead(w) \/ CapaWrite(w) \/ CapaFails(w) \/ AddiRead(w)
             \/ AddiFails(w) \/ Check(w) \/ QueryRefused(w) \/ QueryFails(w)
             \/ StatusRefused(w) \/ Unlock(w) \/ Crash(w)
    BY <2>7, ServingUnseen, JournalStutters
  <2>8. QED
    BY <1>2, <2>1, <2>2, <2>3, <2>4, <2>5, <2>6, <2>7 DEF Step, Locking, Recording, Unlocking
<1>3. ASSUME NEW u \in Users, Expire(u)
      PROVE  Journal!Next
  BY <1>3, HolderGone DEF Expire, store, Journal!Next
<1>4. CASE UNCHANGED vars
  BY <1>4, JournalStutters DEF vars
<1>5. QED
  BY <1>1, <1>2, <1>3, <1>4 DEF Next, Rest

LEMMA JournalStarts ==
    ASSUME Init
    PROVE  Journal!Init
  BY DEF Init, Journal!Init

(* The log and the index of a space change only under its lock, one record   *)
(* or one whole anchor at a time, and the announced anchor is one of the     *)
(* index: through every interleaving, crash and failed call of a cloud where *)
(* the lock of a running request is kept and a space starts with a log.      *)
THEOREM ImplementsJournalAlways ==
    ASSUME LeaseHeld, LogThere PROVE Spec => ImplementsJournal
<1>1. Init => LockInv /\ JournalInv /\ Journal!Init
  BY LockInit, JournalInit, JournalStarts
<1>2. TypeInv /\ LockInv /\ JournalInv /\ [Next]_vars => LockInv' /\ JournalInv'
  BY LockStep, JournalStep
<1>3. TypeInv /\ LockInv /\ JournalInv /\ [Next]_vars => [Journal!Next]_(Journal!jvars)
  BY JournalMaps
<1>4. QED
  BY TypeInvariant, <1>1, <1>2, <1>3, PTL DEF Spec, ImplementsJournal, Journal!Spec

-----------------------------------------------------------------------------
(* The log as its readers take it: pairs by adjacency, anchors by coverage. *)

(* The faults that the log survives: the other ones lose a record, the lock *)
(* or the log itself.                                                       *)
LogFaults == {"query", "sendLost", "backup", "copy", "alloc"}

(* A worker has written the EXIST of a pair and not yet its second record. *)
PairOpen(w) == \/ pc[w] = "flush" /\ cur[w].type \in {"MOVE", "COPY"}
               \/ pc[w] \in {"capaRead", "capaWrite"} /\ cur[w].type = "EXIST"
EndsOpen(u) == acd[u] # <<>> /\ acd[u][Len(acd[u])] = "EXIST"

PairsKept ==
    /\ \A w \in Workers : cur[w].type = "EXIST" => cur[w].then \in {"MOVE", "COPY"}
    /\ \A w \in Workers : PairOpen(w) => EndsOpen(Space(w))
    /\ \A u \in Users : EndsOpen(u) => \E w \in Workers : PairOpen(w) /\ Space(w) = u

(* From its anchor to its publication a worker adds no record. *)
Covering(w) == pc[w] = "publish" \/ (pc[w] \in {"capaRead", "capaWrite"} /\ Final(w))
Covers(u) == idx[u] # <<>> /\ idx[u][Len(idx[u])].oset = Len(acd[u])
Covered == \A w \in Workers : Covering(w) => Covers(Space(w))

LogInv == PairsAdjacent /\ PairsKept /\ Covered

LEMMA LogInvReadable ==
    ASSUME LogInv
    PROVE  LogReadable
  BY DEF LogInv, Covered, Covering, Covers, LogReadable, PublishCoversLog

(* A step of w leaves the others where they are. *)
Others(w) == \A v \in Workers : v # w => /\ pc'[v] = pc[v] /\ cur'[v] = cur[v]
                                         /\ acc'[v].location = acc[v].location

(* Most steps of w change neither the log nor the index, nor what w owes to *)
(* them.                                                                    *)
LogLeft(w) ==
    /\ UNCHANGED <<acd, idx>> /\ Others(w)
    /\ PairOpen(w)' <=> PairOpen(w)
    /\ Covering(w)' => Covering(w)
    /\ PairOpen(w) \/ Covering(w)' => acc'[w].location = acc[w].location
    /\ cur'[w].type = "EXIST" => cur'[w].then \in {"MOVE", "COPY"}

LEMMA LogCalm ==
    ASSUME LogInv, NEW w \in Workers, LogLeft(w)
    PROVE  LogInv'
<1>1. PairsAdjacent'
  BY DEF LogInv, LogLeft, PairsAdjacent
<1>2. \A v \in Workers : PairOpen(v)' <=> PairOpen(v)
  BY DEF LogLeft, Others, PairOpen
<1>3. \A v \in Workers : PairOpen(v) => Space(v)' = Space(v)
  BY DEF LogLeft, Others, Space
<1>4. \A u \in Users : EndsOpen(u)' <=> EndsOpen(u)
  BY DEF LogLeft, EndsOpen
<1>5. PairsKept'
  <2>1. \A v \in Workers : cur'[v].type = "EXIST" => cur'[v].then \in {"MOVE", "COPY"}
    BY DEF LogInv, PairsKept, LogLeft, Others
  <2>2. ASSUME NEW v \in Workers, PairOpen(v)'
        PROVE  EndsOpen(Space(v))'
    BY <1>2, <1>3, <2>2 DEF LogInv, PairsKept, LogLeft, EndsOpen
  <2>3. \A u \in Users : EndsOpen(u)' => \E v \in Workers : PairOpen(v)' /\ Space(v)' = u
    BY <1>2, <1>3, <1>4 DEF LogInv, PairsKept
  <2>4. QED
    BY <2>1, <2>2, <2>3 DEF PairsKept
<1>6. Covered'
  <2>1. ASSUME NEW v \in Workers, Covering(v)'
        PROVE  Covers(Space(v))'
    <3>1. Covering(v) /\ Space(v)' = Space(v)
      BY <2>1 DEF LogLeft, Others, Covering, Final, Space
    <3>2. Covers(Space(v))
      BY <3>1 DEF LogInv, Covered
    <3>3. QED
      BY <3>1, <3>2 DEF LogLeft, Covers
  <2>2. QED
    BY <2>1 DEF Covered
<1>7. QED
  BY <1>1, <1>5, <1>6 DEF LogInv

LEMMA LeaveLog ==
    ASSUME TypeInv, NEW w \in Workers, Leave(w), UNCHANGED <<acd, idx, acc>>, pc[w] \notin {"flush", "capaRead", "capaWrite"}
    PROVE  LogLeft(w)
  BY DEF Leave, Goto, NoItem, LogLeft, Others, PairOpen, Covering, Final, TypeInv, TypeOK, LocalOK

LEMMA GotoLog ==
    ASSUME TypeInv, PairsKept, NEW w \in Workers, NEW label, Goto(w, label), UNCHANGED <<cur, acd, idx>>,
           pc[w] \notin {"flush", "capaRead", "capaWrite"},
           label \notin {"flush", "capaRead", "capaWrite", "publish"},
           \A v \in Workers : v # w => acc'[v].location = acc[v].location
    PROVE  LogLeft(w)
  BY DEF Goto, LogLeft, Others, PairOpen, Covering, Final, TypeInv, TypeOK, LocalOK, PairsKept

LEMMA LockFailedLog ==
    ASSUME TypeInv, PairsKept, NEW w \in Workers, LockFailed(w), UNCHANGED <<acd, idx>>,
           \A v \in Workers : acc'[v].location = acc[v].location,
           pc[w] \in {"query", "status", "full"}
    PROVE  LogLeft(w)
<1>1. CASE Leave(w)
  BY <1>1 DEF Leave, Goto, NoItem, LogLeft, Others, PairOpen, Covering, Final, TypeInv, TypeOK, LocalOK
<1>2. CASE Goto(w, "unlock") /\ UNCHANGED local
  BY <1>2, GotoLog DEF local
<1>3. QED
  BY <1>1, <1>2 DEF LockFailed

LEMMA LockingLog ==
    ASSUME Faults \subseteq LogFaults, TypeInv, PairsKept, NEW w \in Workers, Locking(w)
    PROVE  LogLeft(w)
<1>1. CASE Query(w)
  <2>1. \A v \in Workers : v # w => acc'[v].location = acc[v].location
    BY <1>1 DEF Query, TypeInv, TypeOK, AccOK, AccType
  <2>2. QED
    BY <1>1, <2>1, GotoLog DEF Query, local, store
<1>2. CASE QueryRefused(w) \/ StatusRefused(w)
  BY <1>2, LockFailedLog DEF QueryRefused, StatusRefused, store
<1>3. CASE QueryFails(w)
  <2>1. \A v \in Workers : acc'[v].location = acc[v].location
    BY <1>3 DEF QueryFails, TypeInv, TypeOK, AccOK, AccType
  <2>2. QED
    BY <1>3, <2>1, LockFailedLog DEF QueryFails, store
<1>4. CASE Status(w)
  <2>1. \A v \in Workers : v # w => acc'[v].location = acc[v].location
    BY <1>4 DEF Status, TypeInv, TypeOK, AccOK, AccType
  <2>2. QED
    BY <1>4, <2>1, GotoLog DEF Status, local, store
<1>5. CASE StatusLost(w)
  BY <1>5 DEF StatusLost, LogFaults
<1>6. CASE Check(w)
  BY <1>6, GotoLog DEF Check, local, store
<1>7. QED
  BY <1>1, <1>2, <1>3, <1>4, <1>5, <1>6 DEF Locking

LEMMA ServingLog ==
    ASSUME TypeInv, PairsKept, NEW w \in Workers, Serving(w)
    PROVE  LogLeft(w)
<1>1. ASSUME NEW item, NEW stage, pc[w] = "body", Record(w, item, stage),
             item.type \notin {"MOVE", "COPY"}, item.type = "EXIST" => item.then \in {"MOVE", "COPY"}
      PROVE  LogLeft(w)
  BY <1>1 DEF Record, Goto, LogLeft, Others, PairOpen, Covering, Final, TypeInv, TypeOK, LocalOK
<1>2. \A s : Deleted(s).type = "DELE" /\ Added(s).type = "ADDI"
  BY DEF Deleted, Added
<1>3. CASE \E s \in Sizes : \/ Overwrite(w, s) \/ DeleteFile(w, s) \/ SinglePut(w, s)
  BY <1>1, <1>2, <1>3, DeletesType DEF Deletes, SinglePut
<1>4. ASSUME NEW t \in {"MOVE", "COPY"}, NEW s, NEW f, NEW stage, pc[w] = "body", Record(w, Paired(t, s, f), stage)
      PROVE  LogLeft(w)
  BY <1>1, <1>4 DEF Paired
<1>5. CASE \E s \in Sizes : CopyFile(w, s)
  BY <1>4, <1>5 DEF CopyFile
<1>6. CASE \E s \in Sizes : SingleCopy(w, s)
  BY <1>4, <1>6 DEF SingleCopy
<1>7. CASE MoveFile(w)
  BY <1>4, <1>7 DEF MoveFile
<1>8. CASE SingleMove(w)
  BY <1>4, <1>8 DEF SingleMove
<1>9. CASE \E s \in Sizes : OverwriteUnrecorded(w, s)
  BY <1>9 DEF OverwriteUnrecorded, LogLeft, Others, PairOpen, Covering, Final, PairsKept
<1>10. CASE \/ \E s \in Sizes : PutUnrecorded(w, s)
           \/ EndWalk(w) \/ BodyFails(w)
  BY <1>10, GotoLog DEF PutUnrecorded, EndWalk, BodyFails, local, store
<1>11. QED
  BY <1>3, <1>5, <1>6, <1>7, <1>8, <1>9, <1>10 DEF Serving

LEMMA CapacityLog ==
    ASSUME TypeInv, PairsKept, NEW w \in Workers, AddiRead(w) \/ CapaRead(w) \/ CapaWrite(w)
    PROVE  LogLeft(w)
<1> USE DEF Goto, store, LogLeft, Others, PairOpen, Covering, Final, TypeInv, TypeOK, LocalOK, PairsKept
<1>1. CASE AddiRead(w)
  BY <1>1 DEF AddiRead
<1>2. CASE CapaRead(w)
  BY <1>2 DEF CapaRead
<1>3. CASE CapaWrite(w)
  <2>1. pc[w] = "capaWrite" /\ UNCHANGED <<acc, acd, idx>> /\ AfterCapa(w)
    BY <1>3 DEF CapaWrite
  <2>2. CASE cur[w].type = "EXIST"
    <3>1. pc' = [pc EXCEPT ![w] = "flush"] /\ cur' = [cur EXCEPT ![w].type = cur[w].then]
      BY <2>1, <2>2 DEF AfterCapa
    <3>2. cur'[w].type = cur[w].then /\ cur[w].then \in {"MOVE", "COPY"} /\ pc'[w] = "flush"
          /\ \A v \in Workers : v # w => cur'[v] = cur[v] /\ pc'[v] = pc[v]
      BY <2>2, <3>1 DEF ItemType
    <3>3. QED
      BY <2>1, <2>2, <3>2
  <2>3. CASE cur[w].type # "EXIST"
    BY <2>1, <2>3 DEF AfterCapa
  <2>4. QED
    BY <2>2, <2>3
<1>4. QED
  BY <1>1, <1>2, <1>3

LEMMA UnlockingLog ==
    ASSUME TypeInv, PairsKept, NEW w \in Workers, Unlocking(w)
    PROVE  LogLeft(w)
<1>1. CASE Publish(w) \/ Release(w)
  BY <1>1, LeaveLog DEF Publish, Release, store
<1>2. CASE UnlockFull(w)
  BY <1>2, LockFailedLog DEF UnlockFull, store
<1>3. CASE Unlock(w)
  <2>1. \A v \in Workers : acc'[v].location = acc[v].location
    BY <1>3 DEF Unlock, TypeInv, TypeOK, AccOK, AccType
  <2>2. CASE Goto(w, "release")
    BY <1>3, <2>1, <2>2, GotoLog DEF Unlock, local, store
  <2>3. CASE Goto(w, "republish")
    BY <1>3, <2>1, <2>3, GotoLog DEF Unlock, local, store
  <2>4. QED
    BY <1>3, <2>2, <2>3 DEF Unlock
<1>4. QED
  BY <1>1, <1>2, <1>3 DEF Unlocking

LEMMA FlushLog ==
    ASSUME Faults \subseteq LogFaults, TypeInv, LockInv, LogInv, NEW w \in Workers, Flush(w)
    PROVE  LogInv'
<1> DEFINE s == Space(w)
           t == cur[w].type
<1>1. /\ pc[w] = "flush" /\ s \in Users /\ t \in Types
      /\ pc'[w] = (IF Final(w) THEN "addiRead" ELSE "capaRead")
      /\ \A v \in Workers : v # w => pc'[v] = pc[v]
      /\ UNCHANGED <<acc, cur, idx>>
  BY DEF Flush, Goto, local, SpaceKnown, ItemKnown, Writing, TypeInv, TypeOK, LocalOK, ItemType
<1>2. acd' = [acd EXCEPT ![s] = Append(@, t)] /\ s' = s
  BY DEF Flush, LogFaults, Space
<1>3. /\ \A u \in Users : acd[u] \in Seq(Types) /\ Len(acd[u]) \in Nat /\ DOMAIN acd[u] = 1 .. Len(acd[u])
      /\ \A u \in Users : u # s => acd'[u] = acd[u]
      /\ acd'[s] = Append(acd[s], t) /\ Len(acd'[s]) = Len(acd[s]) + 1 /\ DOMAIN acd'[s] = 1 .. Len(acd[s]) + 1
      /\ acd'[s][Len(acd[s]) + 1] = t
      /\ \A i \in 1 .. Len(acd[s]) : acd'[s][i] = acd[s][i]
  BY <1>1, <1>2 DEF TypeInv, TypeOK, StoreOK
<1> HIDE DEF s, t
<1>4. \A v \in Workers : v # w /\ (PairOpen(v) \/ Covering(v)) => Space(v) # s /\ Space(v) \in Users
  BY <1>1, Alone DEF s, PairOpen, Covering, Writing, TypeInv, SpaceKnown
<1>5. IF t \in {"MOVE", "COPY"} THEN EndsOpen(s) ELSE ~EndsOpen(s)
  <2>1. CASE t \in {"MOVE", "COPY"}
    BY <1>1, <2>1 DEF PairOpen, LogInv, PairsKept, s, t
  <2>2. CASE t \notin {"MOVE", "COPY"}
    <3>1. ~PairOpen(w)
      BY <1>1, <2>2 DEF PairOpen, t
    <3>2. QED
      BY <1>1, <1>4, <2>2, <3>1 DEF LogInv, PairsKept
  <2>3. QED
    BY <2>1, <2>2
<1>6. PairsAdjacent'
  <2> SUFFICES ASSUME NEW u \in Users, NEW i \in DOMAIN acd'[u]
               PROVE  /\ acd'[u][i] \in {"MOVE", "COPY"} => i > 1 /\ acd'[u][i - 1] = "EXIST"
                      /\ acd'[u][i] = "EXIST" /\ i < Len(acd'[u]) => acd'[u][i + 1] \in {"MOVE", "COPY"}
    BY DEF PairsAdjacent
  <2>1. CASE u # s
    BY <1>3, <2>1 DEF LogInv, PairsAdjacent
  <2>2. CASE u = s /\ i = Len(acd[s]) + 1
    <3>1. acd'[u][i] = t /\ ~(i < Len(acd'[u]))
      BY <1>1, <1>3, <2>2
    <3>2. t \in {"MOVE", "COPY"} => i > 1 /\ acd'[u][i - 1] = "EXIST"
      BY <1>1, <1>3, <1>5, <2>2 DEF EndsOpen
    <3>3. QED
      BY <3>1, <3>2
  <2>3. CASE u = s /\ i \in 1 .. Len(acd[s])
    <3>1. /\ acd[s][i] \in {"MOVE", "COPY"} => i > 1 /\ acd[s][i - 1] = "EXIST"
          /\ acd[s][i] = "EXIST" /\ i < Len(acd[s]) => acd[s][i + 1] \in {"MOVE", "COPY"}
      BY <1>1, <1>3, <2>3 DEF LogInv, PairsAdjacent
    <3>2. acd'[s][i] = acd[s][i] /\ (i > 1 => acd'[s][i - 1] = acd[s][i - 1])
          /\ (i < Len(acd[s]) => acd'[s][i + 1] = acd[s][i + 1])
      BY <1>1, <1>3, <2>3
    <3>3. i = Len(acd[s]) /\ acd[s][i] = "EXIST" => t \in {"MOVE", "COPY"}
      BY <1>3, <1>5, <2>3 DEF EndsOpen
    <3>4. CASE i = Len(acd[s])
      <4>1. acd'[s][i + 1] = t
        BY <1>3, <3>4
      <4>2. QED
        BY <2>3, <3>1, <3>2, <3>3, <3>4, <4>1
    <3>5. CASE i # Len(acd[s])
      <4>1. i < Len(acd[s])
        BY <1>1, <1>3, <2>3, <3>5
      <4>2. QED
        BY <2>3, <3>1, <3>2, <4>1
    <3>6. QED
      BY <3>4, <3>5
  <2>4. QED
    BY <1>1, <1>3, <2>1, <2>2, <2>3
<1>7. /\ PairOpen(w)' <=> t = "EXIST"
      /\ \A v \in Workers : v # w => (PairOpen(v)' <=> PairOpen(v))
      /\ \A v \in Workers : Space(v)' = Space(v)
  BY <1>1 DEF PairOpen, Final, Space, t
<1>8. /\ EndsOpen(s)' <=> t = "EXIST"
      /\ \A u \in Users : u # s => (EndsOpen(u)' <=> EndsOpen(u))
  <2>1. acd'[s] # <<>> /\ acd'[s][Len(acd'[s])] = t
    <3>1. Len(acd[s]) \in Nat /\ Len(acd'[s]) = Len(acd[s]) + 1 /\ acd'[s][Len(acd[s]) + 1] = t
      BY <1>1, <1>3
    <3>2. Len(<<>>) = 0
      OBVIOUS
    <3>3. acd'[s] # <<>>
      BY <3>1, <3>2
    <3>4. QED
      BY <3>1, <3>3
  <2>2. EndsOpen(s)' <=> t = "EXIST"
    <3>1. EndsOpen(s)' <=> (acd'[s] # <<>> /\ acd'[s][Len(acd'[s])] = "EXIST")
      BY <1>2 DEF EndsOpen
    <3>2. QED
      BY Zenon, <2>1, <3>1
  <2>3. QED
    BY <1>3, <2>2 DEF EndsOpen
<1>9. PairsKept'
  <2>1. \A v \in Workers : cur'[v].type = "EXIST" => cur'[v].then \in {"MOVE", "COPY"}
    BY <1>1 DEF LogInv, PairsKept
  <2>2. ASSUME NEW v \in Workers, PairOpen(v)'
        PROVE  EndsOpen(Space(v))'
    <3>1. CASE v = w
      BY <1>7, <1>8, <2>2, <3>1 DEF EndsOpen, s
    <3>2. CASE v # w
      <4>1. PairOpen(v) /\ Space(v) # s /\ Space(v) \in Users
        BY <1>4, <1>7, <2>2, <3>2
      <4>2. EndsOpen(Space(v)) /\ acd'[Space(v)] = acd[Space(v)]
        BY <1>3, <4>1 DEF LogInv, PairsKept
      <4>3. QED
        BY <1>7, <4>2 DEF EndsOpen
    <3>3. QED
      BY <3>1, <3>2
  <2>3. ASSUME NEW u \in Users, EndsOpen(u)'
        PROVE  \E v \in Workers : PairOpen(v)' /\ Space(v)' = u
    <3>1. CASE u = s
      BY <1>7, <1>8, <2>3, <3>1 DEF s
    <3>2. CASE u # s
      <4>1. PICK v \in Workers : PairOpen(v) /\ Space(v) = u
        BY <1>8, <2>3, <3>2 DEF LogInv, PairsKept
      <4>2. v # w
        BY <3>2, <4>1 DEF s
      <4>3. QED
        BY <1>7, <4>1, <4>2
    <3>3. QED
      BY <3>1, <3>2
  <2>4. QED
    BY <2>1, <2>2, <2>3 DEF PairsKept
<1>10. Covered'
  <2>1. ASSUME NEW v \in Workers, Covering(v)'
        PROVE  Covers(Space(v))'
    <3>1. v # w /\ Covering(v)
      BY <1>1, <2>1 DEF Covering, Final
    <3>2. Covers(Space(v)) /\ acd'[Space(v)] = acd[Space(v)] /\ Space(v)' = Space(v)
      BY <1>3, <1>4, <1>7, <3>1 DEF LogInv, Covered
    <3>3. QED
      BY <1>1, <3>2 DEF Covers
  <2>2. QED
    BY <2>1 DEF Covered
<1>11. QED
  BY <1>6, <1>9, <1>10 DEF LogInv

LEMMA AddiAppendLog ==
    ASSUME Faults \subseteq LogFaults, TypeInv, LockInv, JournalInv, LogInv, NEW w \in Workers, AddiAppend(w)
    PROVE  LogInv'
<1> DEFINE s == Space(w)
<1>1. /\ pc[w] = "addiAppend" /\ s \in Users
      /\ pc'[w] \in {"capaRead", "publish"} /\ (pc'[w] = "capaRead" => cur[w].type # "EXIST")
      /\ \A v \in Workers : v # w => pc'[v] = pc[v]
      /\ \A v \in Workers : Space(v)' = Space(v)
      /\ UNCHANGED <<acd, cur>>
  <2>1. CASE Final(w)
    BY <2>1 DEF AddiAppend, AfterAddi, Goto, local, Final, Space, SpaceKnown, Writing, TypeInv, TypeOK, LocalOK
  <2>2. CASE ~Final(w)
    <3>1. acc' = [acc EXCEPT ![w].anchor = tmp[w].num] /\ Goto(w, "publish") /\ UNCHANGED <<acd, cur>>
          /\ pc[w] = "addiAppend"
      BY <2>2 DEF AddiAppend, AfterAddi, local
    <3>2. \A v \in Workers : acc'[v].location = acc[v].location
      BY <3>1 DEF TypeInv, TypeOK, AccOK, AccType
    <3>3. QED
      BY <3>1, <3>2 DEF Goto, Space, SpaceKnown, Writing, TypeInv, TypeOK, LocalOK
  <2>3. QED
    BY <2>1, <2>2
<1>2. tmp[w].oset = Len(acd[s])
  BY <1>1 DEF JournalInv, AddiReadFresh, LogThere, LogFaults
<1>3. \A u \in Users : u # s => idx'[u] = idx[u]
  BY <1>1 DEF AddiAppend, TypeInv, TypeOK, StoreOK
<1>4. idx'[s] # <<>> /\ idx'[s][Len(idx'[s])].oset = tmp[w].oset
  <2> DEFINE e == [num |-> tmp[w].num, oset |-> tmp[w].oset]
             Entry == [num : Nat, oset : Nat]
  <2>1. idx[s] \in Seq(Entry) /\ e \in Entry /\ e.oset = tmp[w].oset
    BY <1>1, Journals DEF TypeInv, TypeOK, LocalOK, TmpType
  <2>2. idx'[s] = Append(idx[s], e)
    BY <1>1 DEF AddiAppend, TypeInv, TypeOK, StoreOK
  <2> HIDE DEF e, Entry
  <2>3. Len(idx'[s]) = Len(idx[s]) + 1 /\ idx'[s][Len(idx[s]) + 1] = e /\ Len(idx[s]) \in Nat
    BY <2>1, <2>2
  <2>4. QED
    BY <2>1, <2>3
<1>5. PairsAdjacent'
  BY <1>1 DEF LogInv, PairsAdjacent
<1>6. PairsKept'
  <2>1. \A v \in Workers : PairOpen(v)' <=> PairOpen(v)
    BY <1>1 DEF PairOpen
  <2>2. QED
    BY <1>1, <2>1 DEF LogInv, PairsKept, EndsOpen
<1> HIDE DEF s
<1>7. Covered'
  <2>1. ASSUME NEW v \in Workers, Covering(v)'
        PROVE  Covers(Space(v))'
    <3>1. CASE v = w
      BY <1>1, <1>2, <1>4, <3>1 DEF Covers, s
    <3>2. CASE v # w
      <4>1. Covering(v)
        BY <1>1, <2>1, <3>2 DEF Covering, Final
      <4>2. Space(v) # s /\ Space(v) \in Users
        BY <1>1, <3>2, <4>1, Alone DEF s, Covering, Writing, TypeInv, SpaceKnown
      <4>3. Covers(Space(v)) /\ idx'[Space(v)] = idx[Space(v)]
        BY <1>3, <4>1, <4>2 DEF LogInv, Covered
      <4>4. QED
        BY <1>1, <4>3 DEF Covers
    <3>3. QED
      BY <3>1, <3>2
  <2>2. QED
    BY <2>1 DEF Covered
<1>8. QED
  BY <1>5, <1>6, <1>7 DEF LogInv

LEMMA LogInit ==
    ASSUME Init
    PROVE  LogInv
  BY DEF Init, NoItem, LogInv, PairsAdjacent, PairsKept, PairOpen, EndsOpen, Covered, Covering, Final

LEMMA LogStep ==
    ASSUME Faults \subseteq LogFaults, TypeInv, LockInv, JournalInv, LogInv, [Next]_vars
    PROVE  LogInv'
<1>1. PairsKept
  BY DEF LogInv
<1>2. ASSUME NEW w \in Workers, NEW u \in Users, NEW op \in Ops, Start(w, u, op)
      PROVE  LogInv'
  <2>1. \A v \in Workers : acc'[v].location = acc[v].location
    BY <1>2 DEF Start, TypeInv, TypeOK, AccOK, AccType
  <2>2. LogLeft(w)
    BY <1>1, <1>2, <2>1, GotoLog DEF Start, store
  <2>3. QED
    BY <2>2, LogCalm
<1>3. ASSUME NEW w \in Workers, Locking(w) \/ Serving(w) \/ Unlocking(w)
      PROVE  LogInv'
  BY <1>1, <1>3, LockingLog, ServingLog, UnlockingLog, LogCalm
<1>4. ASSUME NEW w \in Workers, Recording(w)
      PROVE  LogInv'
  <2>1. CASE Flush(w)
    BY <2>1, FlushLog
  <2>2. CASE AddiAppend(w)
    BY <2>2, AddiAppendLog
  <2>3. CASE AddiRead(w) \/ CapaRead(w) \/ CapaWrite(w)
    BY <1>1, <2>3, CapacityLog, LogCalm
  <2>4. CASE AddiFails(w) \/ CapaFails(w)
    BY <2>4 DEF AddiFails, CapaFails, LogFaults
  <2>5. QED
    BY <1>4, <2>1, <2>2, <2>3, <2>4 DEF Recording
<1>5. ASSUME NEW w \in Workers, Crash(w)
      PROVE  LogInv'
  BY <1>5 DEF Crash, LogFaults
<1>6. CASE (\E u \in Users : Expire(u)) \/ Rest \/ UNCHANGED vars
  <2>1. UNCHANGED <<pc, cur, acc, acd, idx>>
    BY <1>6 DEF Expire, Rest, vars, local, store
  <2>2. QED
    BY <2>1 DEF LogInv, PairsAdjacent, PairsKept, PairOpen, EndsOpen, Covered, Covering, Covers, Final, Space
<1>7. QED
  BY <1>2, <1>3, <1>4, <1>5, <1>6 DEF Next, Step

(* Whatever the interleaving, the records of a pair stay together and the  *)
(* anchor that is published covers the whole log, as long as no record, no *)
(* worker and no lock is lost on the way.                                  *)
THEOREM LogReadableAlways == ASSUME Faults \subseteq LogFaults PROVE Spec => []LogReadable
<1>1. Init => LockInv /\ JournalInv /\ LogInv
  BY LockInit, JournalInit, LogInit
<1>2. LeaseHeld
  BY DEF LeaseHeld, LogFaults
<1>3. TypeInv /\ LockInv /\ JournalInv /\ LogInv /\ [Next]_vars => LockInv' /\ JournalInv' /\ LogInv'
  BY <1>2, LockStep, JournalStep, LogStep
<1>4. LogInv => LogReadable
  BY LogInvReadable
<1>5. QED
  BY TypeInvariant, <1>1, <1>3, <1>4, PTL DEF Spec

-----------------------------------------------------------------------------
(* The capacity file: what a request has written to the tree and not yet   *)
(* counted is all that parts the two.                                      *)

(* The faults that the count survives: the other ones change the tree and  *)
(* record nothing, or lose a record, a worker or the lock.                 *)
CapacityFaults == {"query", "sendLost", "nolog"}

(* No file is larger than b, and a pool with the files of one request fits *)
(* the word that counts it.                                                *)
PoolFits(b) ==
    /\ b \in Sizes /\ \A s \in Sizes : s <= b
    /\ PoolSize + b * MaxItems <= Word

(* The record that counts: of a pair the second one. *)
Due(w) == IF cur[w].type = "EXIST" THEN cur[w].then ELSE cur[w].type

(* Between the change of the tree and the write of the capacity file. *)
Uncounted(w) == \/ pc[w] \in {"flush", "capaRead", "capaWrite"}
                \/ pc[w] \in {"addiRead", "addiAppend"} /\ Final(w)
Owed(w)  == IF Uncounted(w) THEN UsedIncrement(Due(w), cur[w].size) ELSE 0
Incoming(w) == IF Uncounted(w) /\ Due(w) \in {"ADDI", "COPY"} THEN cur[w].size ELSE 0

Total(u) == capa[u].used + capa[u].bakup

(* The files that a request has added to a pool that was not full. *)
Files(w) == IF job[w].op = "COPY" /\ job[w].stage = "walk" THEN job[w].items
            ELSE IF cur[w].final THEN 1 ELSE 0
Counting == Writing \ {"check", "full"}

ItemOfJob(w) ==
    /\ pc[w] = "idle" => cur[w] = NoItem
    /\ pc[w] \in {"query", "status", "check", "body"} => ~cur[w].final
    /\ cur[w].type = "EXIST" => cur[w].then \in {"MOVE", "COPY"}
    /\ Due(w) \in {"ADDI", "COPY"} => job[w].op \in {"PUT", "COPY"} /\ cur[w].size \in Sizes
    /\ job[w].op = "COPY" /\ job[w].stage = "walk" => job[w].items <= MaxItems

CapaFresh(w) ==
    pc[w] = "capaWrite" => /\ tmp[w].used = capa[Space(w)].used
                           /\ tmp[w].bakup = capa[Space(w)].bakup

Balanced(w) == pc[w] \in Writing => bytes[Space(w)] = capa[Space(w)].used + Owed(w)

Bounded(w, b) ==
    pc[w] \in Counting /\ job[w].op \in {"PUT", "COPY"} =>
        Total(Space(w)) + Incoming(w) < PoolSize + b * Files(w)

(* The count is kept where no request acted on an outdated look at the tree. *)
Counted(w, b) == Space(w) \notin raced => Balanced(w) /\ Bounded(w, b)

Kept(w, b) == ItemOfJob(w) /\ CapaFresh(w) /\ Counted(w, b)
PoolKept(b) == \A u \in Users \ raced : Total(u) < PoolSize + b * MaxItems

CapInv(b) == UsedMatchesTree /\ PoolKept(b) /\ \A w \in Workers : Kept(w, b)

LEMMA CapInvSound ==
    ASSUME NEW b, PoolFits(b), CapInv(b)
    PROVE  CapacitySound
<1>1. ASSUME NEW s \in Sizes, \A r \in Sizes : r <= s
      PROVE  s = b
  BY <1>1, SizesNat DEF PoolFits
<1>2. QED
  BY <1>1 DEF CapInv, PoolKept, Total, CapacitySound, OverdrawnOnce

LEMMA Small ==
    ASSUME NEW x \in Nat, NEW m \in Nat \ {0}, x < m
    PROVE  x % m = x
  OBVIOUS

LEMMA Times ==
    ASSUME NEW b \in Nat, NEW n \in Nat, NEW m \in Nat, n <= m
    PROVE  /\ b * n <= b * m /\ b * n \in Nat /\ b * m \in Nat
           /\ b * (n + 1) = b * n + b /\ b * 0 = 0 /\ b * 1 = b
<1>1. b * (m - n) \in Nat /\ b * m = b * n + b * (m - n)
  OBVIOUS
<1>2. QED
  BY <1>1

(* What the lemmas below know of the files of a space. *)
LEMMA Counts ==
    ASSUME TypeInv
    PROVE  /\ \A u \in Users : /\ capa[u].used \in 0 .. Word - 1 /\ capa[u].bakup \in 0 .. Word - 1
                               /\ bytes[u] \in Nat /\ Total(u) \in Nat
           /\ \A w \in Workers : /\ cur[w].size \in Nat /\ job[w].items \in Nat /\ Files(w) \in Nat
                                 /\ Owed(w) \in Int /\ Incoming(w) \in Nat
                                 /\ pc[w] \in Writing => Space(w) \in Users
  BY SpaceAssumption DEF TypeInv, TypeOK, StoreOK, LocalOK, JobType, ItemType, Total, Files, Owed, Incoming,
     UsedIncrement, SpaceKnown

(* A step of w leaves the others where they are and touches no space but   *)
(* the one it writes in; when it leaves that one it owes it nothing.       *)
Confined(w) ==
    /\ \A v \in Workers : v # w => /\ pc'[v] = pc[v] /\ cur'[v] = cur[v] /\ job'[v] = job[v]
                                   /\ tmp'[v] = tmp[v] /\ acc'[v].location = acc[v].location
    /\ \A u \in Users : (pc[w] \in Writing => u # Space(w)) =>
          capa'[u] = capa[u] /\ bytes'[u] = bytes[u]
    /\ raced \subseteq raced'
    /\ pc[w] \in Writing => \/ pc'[w] \in Writing /\ Space(w)' = Space(w)
                            \/ pc'[w] \notin Writing /\ UNCHANGED <<capa, bytes>> /\ ~Uncounted(w)

LEMMA ConfinedCap ==
    ASSUME NEW b, TypeInv, LockInv, CapInv(b), NEW w \in Workers, Confined(w), Kept(w, b)',
           pc[w] \in Writing /\ pc'[w] \in Writing =>
               Space(w)' \in raced' \/ Total(Space(w))' < PoolSize + b * MaxItems
    PROVE  CapInv(b)'
<1>1. ASSUME NEW v \in Workers, v # w
      PROVE  Kept(v, b)'
  <2>1. /\ pc'[v] = pc[v] /\ cur'[v] = cur[v] /\ job'[v] = job[v] /\ tmp'[v] = tmp[v]
        /\ Space(v)' = Space(v)
    BY <1>1 DEF Confined, Space
  <2>2. pc[v] \in Writing => capa'[Space(v)] = capa[Space(v)] /\ bytes'[Space(v)] = bytes[Space(v)]
    BY <1>1, Alone, Counts DEF Confined
  <2>3. Kept(v, b)
    BY DEF CapInv
  <2>4. ItemOfJob(v)' /\ (Owed(v)' = Owed(v)) /\ (Incoming(v)' = Incoming(v)) /\ (Files(v)' = Files(v))
    BY <2>1, <2>3 DEF Kept, ItemOfJob, Due, Owed, Incoming, Uncounted, Final, Files
  <2>5. CapaFresh(v)'
    BY <2>1, <2>2, <2>3 DEF Kept, CapaFresh, Writing
  <2>6. ASSUME Space(v)' \notin raced'
        PROVE  Balanced(v)' /\ Bounded(v, b)'
    <3>1. Balanced(v) /\ Bounded(v, b)
      BY <2>1, <2>3, <2>6 DEF Confined, Kept, Counted
    <3>2. Balanced(v)'
      BY <2>1, <2>2, <2>4, <3>1 DEF Balanced
    <3>3. Bounded(v, b)'
      BY <2>1, <2>2, <2>4, <3>1 DEF Bounded, Counting, Total
    <3>4. QED
      BY <3>2, <3>3
  <2>7. QED
    BY <2>4, <2>5, <2>6 DEF Kept, Counted
<1>2. PoolKept(b)'
  <2> SUFFICES ASSUME NEW u \in Users, u \notin raced'
               PROVE  Total(u)' < PoolSize + b * MaxItems
    BY DEF PoolKept
  <2>0. u \notin raced
    BY DEF Confined
  <2>1. CASE pc[w] \in Writing /\ u = Space(w)
    <3>1. CASE pc'[w] \in Writing /\ Space(w)' = Space(w)
      BY <2>1, <3>1 DEF Total
    <3>2. CASE UNCHANGED capa
      BY <2>0, <3>2 DEF CapInv, PoolKept, Total
    <3>3. QED
      BY <2>1, <3>1, <3>2 DEF Confined
  <2>2. CASE ~(pc[w] \in Writing /\ u = Space(w))
    BY <2>0, <2>2 DEF Confined, CapInv, PoolKept, Total
  <2>3. QED
    BY <2>1, <2>2
<1>3. UsedMatchesTree'
  <2> SUFFICES ASSUME NEW u \in Users, u \notin raced', \A v \in Workers : ~Writes(v, u)'
               PROVE  capa'[u].used = bytes'[u]
    BY DEF UsedMatchesTree
  <2>0. u \notin raced
    BY DEF Confined
  <2>1. CASE pc[w] \in Writing /\ u = Space(w)
    <3>1. pc'[w] \notin Writing /\ UNCHANGED <<capa, bytes>> /\ ~Uncounted(w)
      BY <2>1 DEF Confined, Writes
    <3>2. bytes[u] = capa[u].used + Owed(w) /\ Owed(w) = 0
      BY <2>0, <2>1, <3>1 DEF CapInv, Kept, Counted, Balanced, Owed
    <3>3. QED
      BY <3>1, <3>2, Counts
  <2>2. CASE ~(pc[w] \in Writing /\ u = Space(w))
    <3>1. \A v \in Workers : ~Writes(v, u)
      BY <2>2 DEF Confined, Writes, Space
    <3>2. QED
      BY <2>0, <2>2, <3>1 DEF Confined, CapInv, UsedMatchesTree
  <2>3. QED
    BY <2>1, <2>2
<1>4. QED
  BY <1>1, <1>2, <1>3 DEF CapInv

(* Steps that change neither the tree nor its count. *)
Untouched(w) ==
    /\ UNCHANGED <<capa, bytes, raced>>
    /\ \A v \in Workers : v # w => /\ pc'[v] = pc[v] /\ cur'[v] = cur[v] /\ job'[v] = job[v]
                                   /\ tmp'[v] = tmp[v] /\ acc'[v].location = acc[v].location

LEMMA UntouchedCap ==
    ASSUME NEW b, TypeInv, LockInv, CapInv(b), NEW w \in Workers, Untouched(w), Kept(w, b)',
           pc[w] \in Writing => IF pc'[w] \in Writing THEN Space(w)' = Space(w) ELSE ~Uncounted(w)
    PROVE  CapInv(b)'
<1>1. Confined(w)
  BY DEF Untouched, Confined
<1>2. pc[w] \in Writing /\ pc'[w] \in Writing =>
          Space(w)' \in raced' \/ Total(Space(w))' < PoolSize + b * MaxItems
  BY Counts DEF CapInv, PoolKept, Total, Untouched
<1>3. QED
  BY <1>1, <1>2, ConfinedCap

(* A worker that does not write keeps its part. *)
LEMMA AwayKept ==
    ASSUME NEW b, TypeInv, CapInv(b), NEW w \in Workers, UNCHANGED <<cur, job>>, pc'[w] \notin Writing \cup {"idle"},
           pc'[w] \notin {"query", "status"} \/ pc[w] \in {"idle", "query"}
    PROVE  Kept(w, b)'
<1>1. Kept(w, b)
  BY DEF CapInv
<1>2. ItemOfJob(w)'
  BY <1>1 DEF Kept, ItemOfJob, Due, Writing, NoItem
<1>3. CapaFresh(w)' /\ Balanced(w)' /\ Bounded(w, b)'
  BY DEF CapaFresh, Balanced, Bounded, Counting, Writing
<1>4. QED
  BY <1>2, <1>3 DEF Kept, Counted

LEMMA LeaveCap ==
    ASSUME NEW b, TypeInv, LockInv, CapInv(b), NEW w \in Workers, Leave(w), UNCHANGED <<capa, bytes, raced>>,
           \A v \in Workers : acc'[v].location = acc[v].location, ~Uncounted(w)
    PROVE  CapInv(b)'
<1>1. /\ pc'[w] = "idle" /\ cur'[w] = NoItem /\ job'[w] = NoJob
      /\ Untouched(w)
  BY DEF Leave, Goto, Untouched, TypeInv, TypeOK, LocalOK
<1>2. Kept(w, b)'
  BY <1>1 DEF Kept, Counted, ItemOfJob, CapaFresh, Balanced, Bounded, Counting, Writing, Due, NoItem, NoJob
<1>3. QED
  BY <1>1, <1>2, UntouchedCap DEF Writing

LEMMA AwayCap ==
    ASSUME NEW b, TypeInv, LockInv, CapInv(b), NEW w \in Workers, NEW label, Goto(w, label),
           label \in {"unlock", "release", "republish"} \/ (pc[w] = "query" /\ label = "status"),
           UNCHANGED <<local, capa, bytes, raced>>,
           \A v \in Workers : v # w => acc'[v].location = acc[v].location, ~Uncounted(w)
    PROVE  CapInv(b)'
<1>1. pc'[w] = label /\ UNCHANGED <<cur, job>> /\ Untouched(w)
  BY DEF Goto, local, Untouched, TypeInv, TypeOK, LocalOK
<1>2. Kept(w, b)'
  BY <1>1, AwayKept DEF Writing
<1>3. QED
  BY <1>1, <1>2, UntouchedCap DEF Writing

LEMMA LockFailedCap ==
    ASSUME NEW b, TypeInv, LockInv, CapInv(b), NEW w \in Workers, LockFailed(w), UNCHANGED <<capa, bytes, raced>>,
           \A v \in Workers : acc'[v].location = acc[v].location, ~Uncounted(w)
    PROVE  CapInv(b)'
<1>1. CASE Leave(w)
  BY <1>1, LeaveCap
<1>2. CASE Goto(w, "unlock") /\ UNCHANGED local
  BY <1>2, AwayCap
<1>3. QED
  BY <1>1, <1>2 DEF LockFailed

LEMMA StartCap ==
    ASSUME NEW b, TypeInv, LockInv, CapInv(b), NEW w \in Workers, NEW u \in Users, NEW op \in Ops, Start(w, u, op)
    PROVE  CapInv(b)'
<1>1. /\ pc[w] = "idle" /\ pc'[w] = "query" /\ UNCHANGED cur /\ job'[w].op = op /\ job'[w].stage = "start"
      /\ Untouched(w)
  BY DEF Start, Goto, store, Untouched, TypeInv, TypeOK, LocalOK, AccOK, AccType
<1>2. cur[w] = NoItem
  BY <1>1 DEF CapInv, Kept, ItemOfJob
<1>3. Kept(w, b)'
  BY <1>1, <1>2 DEF Kept, Counted, ItemOfJob, CapaFresh, Balanced, Bounded, Counting, Writing, Due, NoItem
<1>4. QED
  BY <1>1, <1>3, UntouchedCap DEF Writing

(* The lock is given when nobody writes in the space, so that its count is *)
(* right when the request begins.                                          *)
LEMMA StatusCap ==
    ASSUME NEW b, b \in Nat, TypeInv, LockInv, CapInv(b), NEW w \in Workers, Status(w)
    PROVE  CapInv(b)'
<1> DEFINE s == acc[w].uid
<1>1. /\ pc[w] = "status" /\ s \in Users /\ cache[s].holder \in {0, acc[w].valid}
      /\ pc'[w] = (IF job[w].op \in {"PUT", "COPY"} THEN "check" ELSE "body")
      /\ UNCHANGED <<cur, job, capa, bytes, raced>>
  BY DEF Status, GrantTo, Goto, local, store, TypeInv, TypeOK, LocalOK, SpaceKnown
<1>2. Untouched(w) /\ Space(w)' = s
  BY DEF Status, Goto, local, store, Untouched, Space, TypeInv, TypeOK, LocalOK, AccOK, AccType
<1>3. \A v \in Workers : ~Writes(v, s)
  BY <1>1 DEF Writes, Writing, LockInv, WriterLocked, ValidUnique, Distinct
<1>4. s \notin raced => capa[s].used = bytes[s]
  BY <1>1, <1>3 DEF CapInv, UsedMatchesTree
<1>5. Kept(w, b)
  BY DEF CapInv
<1>6. ItemOfJob(w)' /\ CapaFresh(w)' /\ Bounded(w, b)'
  BY <1>1, <1>5 DEF Kept, ItemOfJob, Due, CapaFresh, Bounded, Counting
<1>7. s \notin raced => Balanced(w)'
  <2>1. ~Uncounted(w)'
    BY <1>1 DEF Uncounted
  <2>2. Owed(w)' = 0
    BY <2>1 DEF Owed
  <2>3. QED
    BY <1>1, <1>2, <1>4, <2>2, Counts DEF Balanced
<1>8. Counted(w, b)'
  BY <1>1, <1>2, <1>6, <1>7 DEF Counted
<1>9. QED
  BY <1>1, <1>2, <1>6, <1>8, UntouchedCap DEF Kept, Writing

LEMMA CheckCap ==
    ASSUME NEW b, b \in Nat, TypeInv, LockInv, CapInv(b), NEW w \in Workers, Check(w)
    PROVE  CapInv(b)'
<1>1. /\ pc[w] = "check" /\ pc'[w] \in {"full", "body"} /\ (pc'[w] = "body" => ~IsFull(Space(w)))
      /\ UNCHANGED <<cur, job, tmp, acc, capa, bytes, raced>>
      /\ Untouched(w) /\ Space(w)' = Space(w) /\ Space(w) \in Users
  BY DEF Check, Goto, local, store, Untouched, Space, SpaceKnown, Writing, TypeInv, TypeOK, LocalOK
<1>2. Kept(w, b)
  BY DEF CapInv
<1>3. ItemOfJob(w)' /\ CapaFresh(w)'
  BY <1>1, <1>2 DEF Kept, ItemOfJob, Due, CapaFresh
<1>4. ~Uncounted(w) /\ ~Uncounted(w)'
  BY <1>1 DEF Uncounted
<1>5. Space(w) \notin raced => Balanced(w)'
  BY <1>1, <1>2, <1>4 DEF Kept, Counted, Balanced, Owed, Writing
<1>6. Bounded(w, b)'
  <2> SUFFICES ASSUME pc'[w] = "body"
               PROVE  Total(Space(w)) + 0 < PoolSize + b * Files(w)
    BY <1>1, <1>4 DEF Bounded, Counting, Writing, Incoming, Total, Files
  <2>1. Total(Space(w)) < PoolSize
    BY <1>1, Counts, SpaceAssumption DEF IsFull, Total
  <2>2. b * Files(w) \in Nat
    BY Counts, Times
  <2>3. QED
    BY <1>1, <2>1, <2>2, Counts, SpaceAssumption
<1>7. QED
  BY <1>1, <1>3, <1>5, <1>6, UntouchedCap DEF Kept, Counted, Writing

(* What a body keeps that records an item, whatever it did to its space. *)
LEMMA RecordKept ==
    ASSUME NEW b, TypeInv, CapInv(b), NEW w \in Workers, NEW item \in ItemType, NEW stage, NEW due,
           pc[w] = "body", Record(w, item, stage),
           due = (IF item.type = "EXIST" THEN item.then ELSE item.type),
           item.type = "EXIST" => due \in {"MOVE", "COPY"},
           due \in {"ADDI", "COPY"} => job[w].op \in {"PUT", "COPY"} /\ item.size \in Sizes,
           job[w].op = "COPY" /\ stage = "walk" => job[w].items < MaxItems,
           \A u \in Users : u # Space(w) => bytes'[u] = bytes[u], raced \subseteq raced'
    PROVE  ItemOfJob(w)' /\ CapaFresh(w)' /\ Confined(w)
<1>1. /\ pc'[w] = "flush" /\ cur'[w] = item /\ UNCHANGED <<tmp, acc, capa>>
      /\ job'[w].op = job[w].op /\ job'[w].stage = stage /\ job'[w].items = job[w].items + 1
      /\ Space(w)' = Space(w)
  BY DEF Record, Goto, Space, TypeInv, TypeOK, LocalOK, JobType
<1>2. ItemOfJob(w)'
  <2>1. job[w].op = "COPY" /\ stage = "walk" => job[w].items + 1 <= MaxItems
    BY SpaceAssumption, Counts
  <2>2. Due(w)' = due
    BY <1>1 DEF Due
  <2>3. QED
    BY <1>1, <2>1, <2>2 DEF ItemOfJob
<1>3. CapaFresh(w)'
  BY <1>1 DEF CapaFresh
<1>4. Confined(w)
  BY <1>1 DEF Record, Goto, Confined, Writing, TypeInv, TypeOK, LocalOK
<1>5. QED
  BY <1>2, <1>3, <1>4

(* A request that acts on an outdated look gives up the count of its space. *)
LEMMA MisjudgedCap ==
    ASSUME NEW b, TypeInv, LockInv, CapInv(b), NEW w \in Workers, NEW item \in ItemType, NEW stage, NEW s,
           pc[w] = "body", Misjudge(w, s), Record(w, item, stage),
           item.type = "DELE" \/ (item.type = "EXIST" /\ item.then \in {"MOVE", "COPY"}),
           item.then = "COPY" => job[w].op = "COPY" /\ item.size \in Sizes,
           job[w].op = "COPY" => stage # "walk"
    PROVE  CapInv(b)'
<1> DEFINE due == IF item.type = "EXIST" THEN item.then ELSE item.type
<1>1. /\ item.type = "EXIST" => due \in {"MOVE", "COPY"}
      /\ due \in {"ADDI", "COPY"} => job[w].op \in {"PUT", "COPY"} /\ item.size \in Sizes
  OBVIOUS
<1> HIDE DEF due
<1>2. due = (IF item.type = "EXIST" THEN item.then ELSE item.type)
  BY DEF due
<1>3. /\ \A u \in Users : u # Space(w) => bytes'[u] = bytes[u]
      /\ raced \subseteq raced' /\ Space(w) \in raced'
  <2>1. PICK gone : bytes' = [bytes EXCEPT ![Space(w)] = @ - gone + s]
    BY DEF Misjudge
  <2>2. QED
    BY <2>1 DEF Misjudge, TypeInv, TypeOK, StoreOK
<1>4. ItemOfJob(w)' /\ CapaFresh(w)' /\ Confined(w)
  BY <1>1, <1>2, <1>3, RecordKept
<1>5. Space(w)' = Space(w)
  BY DEF Record, Space
<1>6. Counted(w, b)'
  BY <1>3, <1>5 DEF Counted
<1>7. QED
  BY <1>3, <1>4, <1>5, <1>6, ConfinedCap DEF Kept

(* A body that records an item has changed the tree by what it owes. *)
LEMMA RecordCap ==
    ASSUME NEW b, b \in Nat, TypeInv, LockInv, CapInv(b), NEW w \in Workers, NEW item \in ItemType, NEW stage, NEW due,
           pc[w] = "body", Record(w, item, stage),
           due = (IF item.type = "EXIST" THEN item.then ELSE item.type),
           item.type = "EXIST" => due \in {"MOVE", "COPY"},
           due \in {"ADDI", "COPY"} => job[w].op \in {"PUT", "COPY"} /\ item.size \in Sizes,
           job[w].op = "COPY" /\ stage = "walk" => job[w].items < MaxItems,
           bytes' = [bytes EXCEPT ![Space(w)] = @ + UsedIncrement(due, item.size)], UNCHANGED raced,
           Space(w) \notin raced /\ job[w].op \in {"PUT", "COPY"} =>
              Total(Space(w)) + (IF due \in {"ADDI", "COPY"} THEN item.size ELSE 0)
                 < PoolSize + b * Files(w)'
    PROVE  CapInv(b)'
<1>1. /\ pc'[w] = "flush" /\ cur'[w] = item /\ UNCHANGED <<tmp, acc, capa>>
      /\ job'[w].op = job[w].op /\ job'[w].stage = stage /\ job'[w].items = job[w].items + 1
      /\ Space(w)' = Space(w) /\ Space(w) \in Users
  BY DEF Record, Goto, Space, SpaceKnown, Writing, TypeInv, TypeOK, LocalOK, JobType
<1>2. /\ Uncounted(w)' /\ Due(w)' = due /\ Owed(w)' = UsedIncrement(due, item.size)
      /\ Incoming(w)' = (IF due \in {"ADDI", "COPY"} THEN item.size ELSE 0)
  BY <1>1 DEF Uncounted, Due, Owed, Incoming
<1>3. bytes'[Space(w)] = bytes[Space(w)] + UsedIncrement(due, item.size)
      /\ \A u \in Users : u # Space(w) => bytes'[u] = bytes[u]
  BY <1>1 DEF TypeInv, TypeOK, StoreOK
<1>4. Kept(w, b) /\ Owed(w) = 0
  BY DEF CapInv, Owed, Uncounted
<1>5. ItemOfJob(w)' /\ CapaFresh(w)' /\ Confined(w)
  BY <1>3, RecordKept
<1>6. ASSUME Space(w) \notin raced
      PROVE  Balanced(w)' /\ Bounded(w, b)' /\ Total(Space(w))' < PoolSize + b * MaxItems
  <2>1. bytes[Space(w)] = capa[Space(w)].used
    BY <1>1, <1>4, <1>6, Counts DEF Kept, Counted, Balanced, Writing
  <2>2. Balanced(w)'
    BY <1>1, <1>2, <1>3, <2>1 DEF Balanced
  <2>3. Bounded(w, b)'
    BY <1>1, <1>2, <1>6 DEF Bounded, Total
  <2>4. Total(Space(w))' < PoolSize + b * MaxItems
    BY <1>1, <1>6 DEF CapInv, PoolKept, Total
  <2>5. QED
    BY <2>2, <2>3, <2>4
<1>7. Kept(w, b)'
  BY <1>1, <1>5, <1>6 DEF Kept, Counted
<1>8. QED
  BY <1>1, <1>5, <1>6, <1>7, ConfinedCap

LEMMA BodyKnown ==
    ASSUME NEW b, TypeInv, CapInv(b), NEW w \in Workers, pc[w] = "body"
    PROVE  /\ ~cur[w].final /\ Space(w) \in Users
           /\ job[w].op = "COPY" /\ job[w].stage = "walk" => job[w].items <= MaxItems
           /\ Space(w) \notin raced /\ job[w].op \in {"PUT", "COPY"} =>
                 Total(Space(w)) < PoolSize + b * Files(w)
<1>1. Incoming(w) = 0
  BY DEF Incoming, Uncounted
<1>2. QED
  BY <1>1, Counts DEF CapInv, Kept, Counted, ItemOfJob, Bounded, Counting, Writing

(* The files that the request has now added, with the one it records. *)
LEMMA FilesGrow ==
    ASSUME NEW b, b \in Nat, TypeInv, CapInv(b), NEW w \in Workers, pc[w] = "body", NEW s \in Sizes, s <= b,
           NEW item \in ItemType, NEW stage, Record(w, item, stage), job[w].op \in {"PUT", "COPY"},
           Space(w) \notin raced,
           \/ item.final /\ (job[w].op = "COPY" => stage # "walk" /\ job[w].stage # "walk")
           \/ job[w].op = "COPY" /\ stage = "walk"
    PROVE  Total(Space(w)) + s < PoolSize + b * Files(w)'
<1>1. /\ cur'[w] = item /\ job'[w].op = job[w].op /\ job'[w].stage = stage /\ job'[w].items = job[w].items + 1
  BY DEF Record, TypeInv, TypeOK, LocalOK, JobType
<1>2. Total(Space(w)) < PoolSize + b * Files(w) /\ ~cur[w].final /\ Space(w) \in Users
  BY BodyKnown
<1>3. Files(w)' \in Nat /\ Files(w) + 1 <= Files(w)'
  <2>1. CASE item.final /\ (job[w].op = "COPY" => stage # "walk" /\ job[w].stage # "walk")
    BY <1>1, <1>2, <2>1 DEF Files
  <2>2. CASE job[w].op = "COPY" /\ stage = "walk"
    BY <1>1, <1>2, <2>2, Counts DEF Files
  <2>3. QED
    BY <2>1, <2>2
<1>4. b * (Files(w) + 1) <= b * Files(w)' /\ b * (Files(w) + 1) = b * Files(w) + b
  <2>1. Files(w) \in Nat /\ Files(w) + 1 \in Nat
    BY Counts
  <2>2. b * (Files(w) + 1) <= b * Files(w)'
    BY <1>3, <2>1, Times
  <2>3. b * (Files(w) + 1) = b * Files(w) + b
    BY <2>1, Times
  <2>4. QED
    BY <2>2, <2>3
<1>5. /\ b * Files(w) \in Int /\ b * Files(w)' \in Int /\ s \in Int /\ PoolSize \in Int
      /\ Total(Space(w)) \in Int
  BY <1>2, <1>3, Counts, Times, SizesNat, SpaceAssumption
<1>6. QED
  BY <1>2, <1>4, <1>5

LEMMA DeletedCap ==
    ASSUME NEW b, b \in Nat, TypeInv, LockInv, CapInv(b), NEW w \in Workers, pc[w] = "body", NEW s \in Sizes, NEW stage,
           DropBytes(w, s), Record(w, Deleted(s), stage),
           job[w].op \in {"PUT", "COPY"} => job[w].stage = "start" /\ stage = "cleared"
    PROVE  CapInv(b)'
<1> DEFINE item == Deleted(s)
<1>1. /\ item \in ItemType /\ item.type = "DELE" /\ item.size = s /\ ~item.final
      /\ UsedIncrement("DELE", s) = -s
  BY SizesNat, ItemTypes DEF Deleted, UsedIncrement, ItemType, Types
<1>2. bytes' = [bytes EXCEPT ![Space(w)] = @ + UsedIncrement("DELE", s)]
  <2>1. bytes[Space(w)] \in Nat /\ s \in Nat
    BY BodyKnown, Counts, SizesNat
  <2>2. bytes[Space(w)] - s = bytes[Space(w)] + UsedIncrement("DELE", s)
    BY <1>1, <2>1
  <2>3. QED
    BY <2>2 DEF DropBytes
<1>3. UNCHANGED raced
  BY DEF DropBytes
<1>4. Space(w) \notin raced /\ job[w].op \in {"PUT", "COPY"} => Total(Space(w)) + 0 < PoolSize + b * Files(w)'
  <2> SUFFICES ASSUME Space(w) \notin raced, job[w].op \in {"PUT", "COPY"}
               PROVE  Total(Space(w)) + 0 < PoolSize + b * Files(w)'
    OBVIOUS
  <2>1. Files(w) = 0 /\ Files(w)' = 0
    BY <1>1, BodyKnown DEF Files, Record, TypeInv, TypeOK, LocalOK, JobType
  <2>2. QED
    BY <2>1, BodyKnown, Counts
<1> HIDE DEF item
<1>5. Record(w, item, stage)
  BY DEF item
<1>6. QED
  BY <1>1, <1>2, <1>3, <1>4, <1>5, RecordCap

LEMMA CopiedCap ==
    ASSUME NEW b, PoolFits(b), TypeInv, LockInv, CapInv(b), NEW w \in Workers, pc[w] = "body", NEW s \in Sizes,
           NEW item \in {Added(s), Paired("COPY", s, FALSE), Paired("COPY", s, TRUE)}, NEW stage,
           AddBytes(w, s), Record(w, item, stage), job[w].op \in {"PUT", "COPY"},
           \/ item.final /\ (job[w].op = "COPY" => stage # "walk" /\ job[w].stage # "walk")
           \/ job[w].op = "COPY" /\ stage = "walk" /\ job[w].items < MaxItems
    PROVE  CapInv(b)'
<1> DEFINE due == IF item.type = "EXIST" THEN item.then ELSE item.type
<1>1. b \in Nat /\ s <= b /\ s \in Nat
  BY SizesNat DEF PoolFits
<1>2. item \in ItemType /\ item.size = s /\ due \in {"ADDI", "COPY"} /\ (item.type = "EXIST" => due = "COPY")
  <2>1. /\ Added(s) \in ItemType /\ Paired("COPY", s, FALSE) \in ItemType /\ Paired("COPY", s, TRUE) \in ItemType
    BY <1>1, ItemTypes DEF Types
  <2>2. /\ Added(s).size = s /\ Added(s).type = "ADDI"
        /\ \A f : /\ Paired("COPY", s, f).size = s /\ Paired("COPY", s, f).type = "EXIST"
                 /\ Paired("COPY", s, f).then = "COPY"
    BY DEF Added, Paired
  <2>3. QED
    BY <2>1, <2>2
<1>3. UsedIncrement(due, s) = s
  BY <1>2 DEF UsedIncrement
<1>4. bytes' = [bytes EXCEPT ![Space(w)] = @ + UsedIncrement(due, item.size)]
  BY <1>2, <1>3 DEF AddBytes
<1>5. Space(w) \notin raced => Total(Space(w)) + s < PoolSize + b * Files(w)'
  BY <1>1, <1>2, FilesGrow
<1> HIDE DEF due
<1>6. due = (IF item.type = "EXIST" THEN item.then ELSE item.type)
  BY DEF due
<1>7. job[w].op = "COPY" /\ stage = "walk" => job[w].items < MaxItems
  OBVIOUS
<1>8. Space(w) \notin raced =>
          Total(Space(w)) + (IF due \in {"ADDI", "COPY"} THEN item.size ELSE 0) < PoolSize + b * Files(w)'
  BY <1>2, <1>5
<1>9. (item.type = "EXIST" => due \in {"MOVE", "COPY"}) /\ item.size \in Sizes /\ UNCHANGED raced
  BY <1>2 DEF AddBytes
<1>10. QED
  BY <1>1, <1>2, <1>4, <1>6, <1>7, <1>8, <1>9, RecordCap

LEMMA MovedCap ==
    ASSUME NEW b, PoolFits(b), TypeInv, LockInv, CapInv(b), NEW w \in Workers, pc[w] = "body",
           NEW f \in BOOLEAN, NEW stage, SameBytes, Record(w, Paired("MOVE", 0, f), stage), job[w].op = "MOVE"
    PROVE  CapInv(b)'
<1> DEFINE item == Paired("MOVE", 0, f)
<1>1. item \in ItemType /\ item.type = "EXIST" /\ item.then = "MOVE" /\ item.size = 0
  BY ItemTypes DEF Paired, Types
<1>2. bytes' = [bytes EXCEPT ![Space(w)] = @ + UsedIncrement("MOVE", 0)]
  <2>1. UsedIncrement("MOVE", 0) = 0
    BY DEF UsedIncrement
  <2>2. bytes \in [Users -> Nat] /\ bytes[Space(w)] + 0 = bytes[Space(w)]
    <3>1. Space(w) \in Users
      BY BodyKnown
    <3>2. bytes \in [Users -> Nat] /\ bytes[Space(w)] \in Nat
      BY <3>1 DEF TypeInv, TypeOK, StoreOK
    <3>3. QED
      BY <3>2
  <2>3. QED
    BY <2>1, <2>2 DEF SameBytes
<1> HIDE DEF item
<1>3. Record(w, item, stage) /\ UNCHANGED raced
  BY DEF item, SameBytes
<1>4. b \in Nat
  BY SizesNat DEF PoolFits
<1>5. QED
  BY <1>1, <1>2, <1>3, <1>4, RecordCap

LEMMA BodyLeftCap ==
    ASSUME NEW b, TypeInv, LockInv, CapInv(b), NEW w \in Workers, EndWalk(w) \/ BodyFails(w)
    PROVE  CapInv(b)'
<1>1. pc[w] = "body" /\ ~Uncounted(w) /\ UNCHANGED <<local, acc, capa, bytes, raced>>
  BY DEF EndWalk, BodyFails, store, Uncounted
<1>2. CASE BodyFails(w)
  BY <1>1, <1>2, AwayCap DEF BodyFails
<1>3. CASE EndWalk(w)
  <2>1. pc'[w] = "addiRead" /\ UNCHANGED <<cur, job, tmp, acc>> /\ Untouched(w) /\ Space(w)' = Space(w)
    BY <1>1, <1>3 DEF EndWalk, Goto, local, Untouched, Space, TypeInv, TypeOK, LocalOK
  <2>2. Kept(w, b) /\ ~cur[w].final
    BY <1>1, BodyKnown DEF CapInv
  <2>3. ~Uncounted(w)'
    BY <2>1, <2>2 DEF Uncounted, Final
  <2>4. ItemOfJob(w)' /\ CapaFresh(w)'
    BY <2>1, <2>2 DEF Kept, ItemOfJob, CapaFresh, Due
  <2>5. Space(w) \notin raced => Balanced(w)' /\ Bounded(w, b)'
    BY <1>1, <2>1, <2>2, <2>3 DEF Kept, Counted, Balanced, Bounded, Owed, Incoming, Files, Total, Counting, Writing,
       Untouched
  <2>6. QED
    BY <1>1, <2>1, <2>4, <2>5, UntouchedCap DEF Kept, Counted, Writing
<1>4. QED
  BY <1>2, <1>3

LEMMA ServingCap ==
    ASSUME NEW b, PoolFits(b), Faults \subseteq CapacityFaults, TypeInv, LockInv, CapInv(b), NEW w \in Workers, Serving(w)
    PROVE  CapInv(b)'
<1> b \in Nat
  BY SizesNat DEF PoolFits
<1> USE DEF CapacityFaults
<1>0. ASSUME NEW stage, pc[w] = "body", job[w].op = "COPY" => stage # "walk", MisjudgeFile(w, stage)
      PROVE  CapInv(b)'
  <2>1. PICK size \in Nat : Record(w, Deleted(size), stage)
    BY <1>0, SpaceAssumption DEF MisjudgeFile
  <2>2. Deleted(size) \in ItemType /\ Deleted(size).type = "DELE" /\ Deleted(size).then = "none"
    BY ItemTypes DEF Deleted, Types
  <2>3. QED
    BY <1>0, <2>1, <2>2, MisjudgedCap DEF MisjudgeFile
<1>1. CASE \E s \in Sizes : Overwrite(w, s)
  BY <1>0, <1>1, DeletedCap DEF Overwrite
<1>2. CASE \E s \in Sizes : DeleteFile(w, s)
  BY <1>0, <1>2, DeletedCap DEF DeleteFile
<1>3. CASE \E s \in Sizes : CopyFile(w, s)
  BY <1>3, CopiedCap DEF CopyFile
<1>4. CASE \E s \in Sizes : SinglePut(w, s)
  BY <1>4, CopiedCap DEF SinglePut, Added
<1>5. ASSUME NEW s \in Sizes, SingleCopy(w, s)
      PROVE  CapInv(b)'
  <2> DEFINE item == Paired("COPY", s, TRUE)
  <2>1. item \in ItemType /\ item.type = "EXIST" /\ item.then = "COPY" /\ item.size = s /\ item.final
    BY SizesNat, ItemTypes DEF Paired, Types
  <2>2. CASE AddBytes(w, s)
    BY <1>5, <2>1, <2>2, CopiedCap DEF SingleCopy
  <2>3. CASE Misjudge(w, s)
    <3> HIDE DEF item
    <3>1. Record(w, item, job[w].stage)
      BY <1>5 DEF SingleCopy, item
    <3>2. QED
      BY <1>5, <2>1, <2>3, <3>1, MisjudgedCap DEF SingleCopy
  <2>4. QED
    BY <1>5, <2>2, <2>3 DEF SingleCopy
<1>6. CASE MoveFile(w) \/ SingleMove(w)
  <2>1. CASE SameBytes
    BY <1>6, <2>1, MovedCap DEF MoveFile, SingleMove
  <2>2. CASE SingleMove(w) /\ Misjudge(w, 0)
    <3> DEFINE item == Paired("MOVE", 0, TRUE)
    <3>1. item \in ItemType /\ item.type = "EXIST" /\ item.then = "MOVE"
      BY ItemTypes DEF Paired, Types
    <3> HIDE DEF item
    <3>2. Record(w, item, job[w].stage)
      BY <2>2 DEF SingleMove, item
    <3>3. QED
      BY <2>2, <3>1, <3>2, MisjudgedCap DEF SingleMove
  <2>3. QED
    BY <1>6, <2>1, <2>2 DEF MoveFile, SingleMove
<1>7. CASE \E s \in Sizes : OverwriteUnrecorded(w, s) \/ PutUnrecorded(w, s)
  BY <1>7 DEF OverwriteUnrecorded, PutUnrecorded
<1>8. CASE EndWalk(w) \/ BodyFails(w)
  BY <1>8, BodyLeftCap
<1>9. QED
  BY <1>1, <1>2, <1>3, <1>4, <1>5, <1>6, <1>7, <1>8 DEF Serving

(* Steps on the way from a record to its count: w goes on owing the same. *)
LEMMA OwedCap ==
    ASSUME NEW b, TypeInv, LockInv, CapInv(b), NEW w \in Workers, Untouched(w), UNCHANGED <<cur, job>>,
           pc[w] \in Counting, pc'[w] \in Counting \ {"body"}, Space(w)' = Space(w),
           Uncounted(w)' <=> Uncounted(w), CapaFresh(w)'
    PROVE  CapInv(b)'
<1>1. Kept(w, b)
  BY DEF CapInv
<1>2. ItemOfJob(w)'
  BY <1>1 DEF Kept, ItemOfJob, Due, Counting, Writing
<1>3. Due(w)' = Due(w) /\ Owed(w)' = Owed(w) /\ Incoming(w)' = Incoming(w) /\ Files(w)' = Files(w)
  BY DEF Due, Owed, Incoming, Files
<1>4. Counted(w, b)'
  BY <1>1, <1>3 DEF Kept, Counted, Balanced, Bounded, Total, Untouched, Counting
<1>5. QED
  BY <1>2, <1>4, UntouchedCap DEF Kept, Counting

LEMMA RecordingCap ==
    ASSUME NEW b, TypeInv, LockInv, CapInv(b), NEW w \in Workers,
           Flush(w) \/ AddiRead(w) \/ AddiAppend(w) \/ CapaRead(w)
    PROVE  CapInv(b)'
<1> USE DEF Goto, local, store, TypeInv, TypeOK, LocalOK, AccOK
<1>1. CASE Flush(w)
  <2>1. /\ Untouched(w) /\ UNCHANGED <<cur, job>> /\ Space(w)' = Space(w)
        /\ pc[w] = "flush" /\ pc'[w] = (IF Final(w) THEN "addiRead" ELSE "capaRead")
    BY <1>1 DEF Flush, Untouched, Space
  <2>2. QED
    BY <2>1, OwedCap DEF Uncounted, Final, CapaFresh, Counting, Writing
<1>2. CASE AddiRead(w)
  <2>1. /\ Untouched(w) /\ UNCHANGED <<cur, job>> /\ Space(w)' = Space(w)
        /\ pc[w] = "addiRead" /\ pc'[w] = "addiAppend"
    BY <1>2 DEF AddiRead, Untouched, Space
  <2>2. QED
    BY <2>1, OwedCap DEF Uncounted, Final, CapaFresh, Counting, Writing
<1>3. CASE AddiAppend(w)
  <2>1. /\ UNCHANGED <<cur, job, tmp, capa, bytes, raced>> /\ pc[w] = "addiAppend"
        /\ pc' = [pc EXCEPT ![w] = IF Final(w) THEN "capaRead" ELSE "publish"]
        /\ UNCHANGED acc \/ acc' = [acc EXCEPT ![w].anchor = tmp[w].num]
    BY <1>3 DEF AddiAppend, AfterAddi
  <2>2. \A v \in Workers : acc'[v].location = acc[v].location
    BY <2>1 DEF AccType
  <2>3. Untouched(w) /\ Space(w)' = Space(w) /\ pc'[w] = (IF Final(w) THEN "capaRead" ELSE "publish")
    BY <2>1, <2>2 DEF Untouched, Space
  <2>4. QED
    BY <2>1, <2>3, OwedCap DEF Uncounted, Final, CapaFresh, Counting, Writing
<1>4. CASE CapaRead(w)
  <2>1. /\ Untouched(w) /\ UNCHANGED <<cur, job, capa>> /\ Space(w)' = Space(w)
        /\ pc[w] = "capaRead" /\ pc'[w] = "capaWrite"
    BY <1>4 DEF CapaRead, Untouched, Space
  <2>2. tmp'[w] = [tmp[w] EXCEPT !.used = capa[Space(w)].used, !.bakup = capa[Space(w)].bakup]
    BY <1>4 DEF CapaRead
  <2>3. tmp'[w].used = capa[Space(w)].used /\ tmp'[w].bakup = capa[Space(w)].bakup
    BY <2>2 DEF TmpType
  <2>4. CapaFresh(w)'
    BY <2>1, <2>3 DEF CapaFresh
  <2>5. QED
    BY <2>1, <2>4, OwedCap DEF Uncounted, Counting, Writing
<1>5. QED
  BY <1>1, <1>2, <1>3, <1>4

(* The write of the capacity file: neither sum wraps, and the count is then *)
(* that of the tree.                                                       *)
LEMMA CapaWriteCap ==
    ASSUME NEW b, PoolFits(b), TypeInv, LockInv, CapInv(b), NEW w \in Workers, CapaWrite(w)
    PROVE  CapInv(b)'
<1> DEFINE u == Space(w)
           T == cur[w].type
           n == cur[w].size
<1>1. pc[w] = "capaWrite" /\ UNCHANGED <<job, tmp, acc, acd, idx, bytes, raced>> /\ u \in Users
  BY Counts DEF CapaWrite, Writing
<1>2. Kept(w, b) /\ Uncounted(w) /\ (u \notin raced => Total(u) < PoolSize + b * MaxItems)
  BY <1>1 DEF CapInv, Uncounted, PoolKept
<1>3. /\ capa[u].used \in 0 .. Word - 1 /\ capa[u].bakup \in 0 .. Word - 1 /\ n \in Nat
      /\ PoolSize \in Nat /\ b \in Nat /\ Word \in Nat \ {0} /\ PoolSize + b * MaxItems <= Word /\ bytes[u] \in Nat
      /\ b * MaxItems \in Nat /\ Total(u) = capa[u].used + capa[u].bakup
  BY <1>1, Counts, SizesNat, SpaceAssumption, Times DEF PoolFits, Total
<1>4. capa'[u] = [used  |-> (capa[u].used + UsedIncrement(T, n)) % Word,
                  bakup |-> (capa[u].bakup + BakupIncrement(T, n)) % Word]
      /\ \A v \in Users : v # u => capa'[v] = capa[v]
  BY <1>1, <1>2 DEF CapaWrite, Kept, CapaFresh, TypeInv, TypeOK, StoreOK
<1>5. /\ \A v \in Workers : v # w => pc'[v] = pc[v] /\ cur'[v] = cur[v]
      /\ cur'[w].size = n /\ cur'[w].final = cur[w].final
      /\ T = "EXIST" => pc'[w] = "flush" /\ cur'[w].type = cur[w].then /\ cur'[w].then = cur[w].then
      /\ T # "EXIST" => pc'[w] = (IF cur[w].final THEN "publish" ELSE "body") /\ cur'[w] = cur[w]
      /\ Space(w)' = u
  BY <1>1 DEF CapaWrite, AfterCapa, Goto, Final, Space, TypeInv, TypeOK, LocalOK, ItemType
<1>6. T = "EXIST" => cur[w].then \in {"MOVE", "COPY"}
  BY <1>2 DEF Kept, ItemOfJob
<1> HIDE DEF u, T, n
<1>7. Due(w)' = Due(w) /\ Files(w)' = Files(w) /\ (Uncounted(w)' <=> T = "EXIST")
  BY <1>1, <1>5, <1>6 DEF Due, Files, Uncounted, Final, T
<1>8. ItemOfJob(w)'
  BY <1>1, <1>2, <1>5, <1>6, <1>7 DEF Kept, ItemOfJob, n
<1>9. CapaFresh(w)'
  BY <1>1, <1>5 DEF CapaFresh
<1>10. Confined(w)
  <2>1. pc'[w] \in Writing /\ pc[w] \in Writing
    BY <1>1, <1>5 DEF Writing
  <2>2. QED
    BY <1>1, <1>4, <1>5, <2>1 DEF Confined, u
<1>11. CASE u \in raced
  <2>1. Counted(w, b)'
    BY <1>1, <1>5, <1>11 DEF Counted
  <2>2. QED
    BY <1>1, <1>5, <1>8, <1>9, <1>10, <1>11, <2>1, ConfinedCap DEF Kept
<1> SUFFICES ASSUME u \notin raced
             PROVE  CapInv(b)'
  BY <1>11
<1>12. Balanced(w) /\ Bounded(w, b) /\ Total(u) < PoolSize + b * MaxItems
  BY <1>2 DEF Kept, Counted, u
<1>13. bytes[u] = capa[u].used + UsedIncrement(Due(w), n)
  BY <1>1, <1>2, <1>12 DEF Balanced, Owed, Writing, u, n
<1>14. Due(w) \in {"ADDI", "COPY"} => /\ job[w].op \in {"PUT", "COPY"}
                                     /\ Total(u) + n < PoolSize + b * Files(w)
  BY <1>1, <1>2, <1>12 DEF Kept, ItemOfJob, Bounded, Counting, Writing, Incoming, u, n
<1>15. b * Files(w) \in Nat /\ b * Files(w) <= b * MaxItems
  <2>1. Files(w) \in Nat /\ Files(w) <= MaxItems
    BY <1>2, Counts, SpaceAssumption DEF Kept, ItemOfJob, Files
  <2>2. QED
    BY <1>3, <2>1, Times, SpaceAssumption
<1>16. /\ bytes[u] = capa'[u].used + Owed(w)'
       /\ capa'[u].used + capa'[u].bakup = Total(u) + (IF T \in {"ADDI", "COPY"} THEN n ELSE 0)
  <2>1. CASE T \in {"ADDI", "COPY"}
    <3>1. Due(w) = T /\ UsedIncrement(T, n) = n /\ BakupIncrement(T, n) = 0 /\ Owed(w)' = 0
      BY <1>7, <2>1 DEF Due, UsedIncrement, BakupIncrement, T, Owed
    <3>2. capa[u].used + n \in Nat /\ capa[u].used + n < Word
      BY <1>3, <1>14, <1>15, <2>1, <3>1
    <3>3. capa'[u].used = capa[u].used + n /\ capa'[u].bakup = capa[u].bakup
      BY <1>3, <1>4, <3>1, <3>2, Small
    <3>4. QED
      BY <1>3, <1>13, <2>1, <3>1, <3>3
  <2>2. CASE T = "DELE"
    <3>1. Due(w) = T /\ UsedIncrement(T, n) = -n /\ BakupIncrement(T, n) = n /\ Owed(w)' = 0
      BY <1>7, <2>2 DEF Due, UsedIncrement, BakupIncrement, T, Owed
    <3>2. /\ capa[u].used - n \in Nat /\ capa[u].used - n < Word /\ capa[u].used + (-n) = capa[u].used - n
          /\ capa[u].bakup + n \in Nat /\ capa[u].bakup + n < Word
      BY <1>3, <1>13, <1>12, <3>1
    <3>3. capa'[u].used = capa[u].used - n /\ capa'[u].bakup = capa[u].bakup + n
      <4>1. capa'[u].used = (capa[u].used - n) % Word /\ capa'[u].bakup = (capa[u].bakup + n) % Word
        BY <1>4, <3>1, <3>2
      <4>2. (capa[u].used - n) % Word = capa[u].used - n /\ (capa[u].bakup + n) % Word = capa[u].bakup + n
        BY <1>3, <3>2, Small
      <4>3. QED
        BY <4>1, <4>2
    <3>4. /\ bytes[u] = capa[u].used - n
          /\ capa'[u].used + capa'[u].bakup = Total(u) + 0
      <4>1. bytes[u] = capa[u].used + (-n)
        BY <1>13, <3>1
      <4>2. bytes[u] = capa[u].used - n
        BY <3>2, <4>1
      <4>3. (capa[u].used - n) + (capa[u].bakup + n) = capa[u].used + capa[u].bakup
        BY <1>3
      <4>4. QED
        BY <1>3, <3>3, <4>2, <4>3
    <3>5. QED
      BY <1>3, <2>2, <3>1, <3>2, <3>3, <3>4
  <2>3. CASE T \notin {"ADDI", "COPY", "DELE"}
    <3>1. UsedIncrement(T, n) = 0 /\ BakupIncrement(T, n) = 0
      BY <2>3 DEF UsedIncrement, BakupIncrement
    <3>2. capa'[u].used = capa[u].used /\ capa'[u].bakup = capa[u].bakup
      <4>1. capa'[u].used = (capa[u].used + 0) % Word /\ capa'[u].bakup = (capa[u].bakup + 0) % Word
        BY <1>4, <3>1
      <4>2. (capa[u].used + 0) % Word = capa[u].used /\ (capa[u].bakup + 0) % Word = capa[u].bakup
        BY <1>3, Small
      <4>3. QED
        BY <4>1, <4>2
    <3>3. Owed(w)' = UsedIncrement(Due(w), n)
      <4>1. CASE T = "EXIST"
        BY <1>5, <1>7, <4>1 DEF Owed
      <4>2. CASE T # "EXIST"
        BY <1>7, <3>1, <4>2 DEF Owed, Due, T
      <4>3. QED
        BY <4>1, <4>2
    <3>4. QED
      BY <1>3, <1>13, <2>3, <3>2, <3>3
  <2>4. QED
    BY <2>1, <2>2, <2>3
<1>17. Balanced(w)'
  BY <1>1, <1>5, <1>16 DEF Balanced
<1>18. Bounded(w, b)'
  <2> SUFFICES ASSUME job[w].op \in {"PUT", "COPY"}
               PROVE  capa'[u].used + capa'[u].bakup + Incoming(w)' < PoolSize + b * Files(w)
    BY <1>1, <1>5, <1>7 DEF Bounded, Total
  <2>1. capa'[u].used + capa'[u].bakup + Incoming(w)' = Total(u) + Incoming(w)
    <3>1. CASE T = "EXIST"
      BY <1>2, <1>3, <1>5, <1>7, <1>16, <3>1 DEF Incoming, n
    <3>2. CASE T # "EXIST"
      BY <1>2, <1>3, <1>5, <1>7, <1>16, <3>2 DEF Incoming, Due, T, n
    <3>3. QED
      BY <3>1, <3>2
  <2>2. Total(u) + Incoming(w) < PoolSize + b * Files(w)
    BY <1>1, <1>12 DEF Bounded, Counting, Writing, u
  <2>3. QED
    BY <2>1, <2>2
<1>19. capa'[u].used + capa'[u].bakup < PoolSize + b * MaxItems
  <2>1. CASE T \in {"ADDI", "COPY"}
    <3>1. Due(w) = T
      BY <2>1 DEF Due, T
    <3>2. QED
      BY <1>3, <1>14, <1>15, <1>16, <2>1, <3>1
  <2>2. CASE T \notin {"ADDI", "COPY"}
    BY <1>3, <1>16, <1>12, <2>2
  <2>3. QED
    BY <2>1, <2>2
<1>20. QED
  BY <1>5, <1>8, <1>9, <1>17, <1>18, <1>19, <1>10, ConfinedCap DEF Kept, Counted, Total, u

LEMMA CapInit ==
    ASSUME NEW b, PoolFits(b), Init
    PROVE  CapInv(b)
<1>1. /\ \A u \in Users : capa[u].used = 0 /\ capa[u].bakup = 0 /\ bytes[u] = 0
      /\ \A w \in Workers : pc[w] = "idle" /\ cur[w] = NoItem /\ job[w] = NoJob
  BY DEF Init
<1>2. \A w \in Workers : Kept(w, b)
  BY <1>1 DEF Kept, Counted, ItemOfJob, CapaFresh, Balanced, Bounded, Counting, Writing, Due, NoItem, NoJob
<1>3. b * MaxItems \in Nat /\ b * MaxItems >= b /\ b \in Nat \ {0}
  <2>1. b \in Nat \ {0} /\ MaxItems \in Nat /\ 1 <= MaxItems
    BY SpaceAssumption DEF PoolFits
  <2>2. b * 1 <= b * MaxItems /\ b * MaxItems \in Nat /\ b * 1 = b
    BY <2>1, Times
  <2>3. QED
    BY <2>1, <2>2
<1>4. PoolKept(b)
  BY <1>1, <1>3, SpaceAssumption DEF PoolKept, Total
<1>5. QED
  BY <1>1, <1>2, <1>4 DEF CapInv, UsedMatchesTree

LEMMA CapStep ==
    ASSUME NEW b, PoolFits(b), Faults \subseteq CapacityFaults, TypeInv, LockInv, CapInv(b), [Next]_vars
    PROVE  CapInv(b)'
<1> b \in Nat
  BY SizesNat DEF PoolFits
<1>1. ASSUME NEW w \in Workers, NEW u \in Users, NEW op \in Ops, Start(w, u, op)
      PROVE  CapInv(b)'
  BY <1>1, StartCap
<1>2. ASSUME NEW w \in Workers, Locking(w)
      PROVE  CapInv(b)'
  <2> USE DEF Uncounted
  <2>1. CASE Query(w)
    <3>1. \A v \in Workers : v # w => acc'[v].location = acc[v].location
      BY <2>1 DEF Query, TypeInv, TypeOK, AccOK
    <3>2. QED
      BY <2>1, <3>1, AwayCap DEF Query, store
  <2>2. CASE QueryRefused(w) \/ StatusRefused(w)
    BY <2>2, LockFailedCap DEF QueryRefused, StatusRefused, store
  <2>3. CASE QueryFails(w)
    <3>1. \A v \in Workers : acc'[v].location = acc[v].location
      BY <2>3 DEF QueryFails, TypeInv, TypeOK, AccOK, AccType
    <3>2. QED
      BY <2>3, <3>1, LockFailedCap DEF QueryFails, store
  <2>4. CASE Status(w)
    BY <2>4, StatusCap
  <2>5. CASE StatusLost(w)
    BY <2>5 DEF StatusLost, CapacityFaults
  <2>6. CASE Check(w)
    BY <2>6, CheckCap
  <2>7. QED
    BY <1>2, <2>1, <2>2, <2>3, <2>4, <2>5, <2>6 DEF Locking
<1>3. ASSUME NEW w \in Workers, Serving(w)
      PROVE  CapInv(b)'
  BY <1>3, ServingCap
<1>4. ASSUME NEW w \in Workers, Recording(w)
      PROVE  CapInv(b)'
  <2>1. CASE AddiFails(w) \/ CapaFails(w)
    BY <2>1 DEF AddiFails, CapaFails, CapacityFaults
  <2>2. QED
    BY <1>4, <2>1, RecordingCap, CapaWriteCap DEF Recording
<1>5. ASSUME NEW w \in Workers, Unlocking(w)
      PROVE  CapInv(b)'
  <2> USE DEF Uncounted
  <2>1. CASE Publish(w) \/ Release(w)
    BY <2>1, LeaveCap DEF Publish, Release, store
  <2>2. CASE UnlockFull(w)
    BY <2>2, LockFailedCap DEF UnlockFull, store
  <2>3. CASE Unlock(w)
    <3>1. \A v \in Workers : acc'[v].location = acc[v].location
      BY <2>3 DEF Unlock, TypeInv, TypeOK, AccOK, AccType
    <3>2. PICK label \in {"release", "republish"} : Goto(w, label)
      BY <2>3 DEF Unlock
    <3>3. QED
      BY <2>3, <3>1, <3>2, AwayCap DEF Unlock, store
  <2>4. QED
    BY <1>5, <2>1, <2>2, <2>3 DEF Unlocking
<1>6. ASSUME NEW w \in Workers, Crash(w)
      PROVE  CapInv(b)'
  BY <1>6 DEF Crash, CapacityFaults
<1>7. CASE (\E u \in Users : Expire(u)) \/ Rest \/ UNCHANGED vars
  <2>1. UNCHANGED <<pc, job, cur, tmp, acc, capa, bytes, raced>>
    BY <1>7 DEF Expire, Rest, vars, local, store
  <2>2. UsedMatchesTree' /\ PoolKept(b)'
    BY <2>1 DEF CapInv, UsedMatchesTree, PoolKept, Total, Writes, Space
  <2>3. ASSUME NEW w \in Workers
        PROVE  Kept(w, b)'
    <3>1. /\ Due(w)' = Due(w) /\ Owed(w)' = Owed(w) /\ Incoming(w)' = Incoming(w) /\ Files(w)' = Files(w)
          /\ Space(w)' = Space(w) /\ Total(Space(w))' = Total(Space(w))
      BY <2>1 DEF Due, Owed, Incoming, Files, Uncounted, Final, Space, Total
    <3>2. Kept(w, b)
      BY DEF CapInv
    <3>3. QED
      BY <2>1, <3>1, <3>2 DEF Kept, Counted, ItemOfJob, CapaFresh, Balanced, Bounded
  <2>4. QED
    BY <2>2, <2>3 DEF CapInv
<1>8. QED
  BY <1>1, <1>2, <1>3, <1>4, <1>5, <1>6, <1>7 DEF Next, Step

(* In a space where no DELETE, MOVE or COPY acted on an outdated look at   *)
(* the tree, the capacity file is the size of the tree whenever nobody     *)
(* writes, and the pool is overdrawn by the files of one request at most:  *)
(* for any pool and any word that holds both, whatever replies to the lock *)
(* are lost.                                                               *)
THEOREM CapacitySoundAlways ==
    ASSUME Faults \subseteq CapacityFaults, \E b \in Sizes : PoolFits(b)
    PROVE  Spec => []CapacitySound
<1>1. PICK b \in Sizes : PoolFits(b)
  OBVIOUS
<1>2. Init => LockInv /\ CapInv(b)
  BY <1>1, LockInit, CapInit
<1>3. LeaseHeld
  BY DEF LeaseHeld, CapacityFaults
<1>4. TypeInv /\ LockInv /\ CapInv(b) /\ [Next]_vars => LockInv' /\ CapInv(b)'
  BY <1>1, <1>3, LockStep, CapStep
<1>5. CapInv(b) => CapacitySound
  BY <1>1, CapInvSound
<1>6. QED
  BY TypeInvariant, <1>2, <1>4, <1>5, PTL DEF Spec

=============================================================================
