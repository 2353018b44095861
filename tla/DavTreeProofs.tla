--------------------------- MODULE DavTreeProofs ---------------------------
(***************************************************************************)
(* The handlers of DavTree, whatever the requests, the tree and the calls  *)
(* that fail: the lock of a space is given back on every way out, the log  *)
(* tells a client what the space has, and what was stored is kept.         *)
(*                                                                         *)
(* The first part has the lock.  The second has paths and trees: which     *)
(* path leads to which, what each of the calls of the file system does to  *)
(* the files of a tree, and that whatever is there lies in directories.    *)
(* The third has the invariant: what a handler relies on at each place     *)
(* where it changes files (JobSound), among it that the entries a MOVE or  *)
(* COPY has yet to see go where there is no file, and that a file without  *)
(* a record has one due (ReplaySound).  The last part has the listings of  *)
(* PROPFIND, which read the tree while those handlers change it.           *)
(***************************************************************************)
EXTENDS DavExt, SequenceTheorems, FiniteSetTheorems, WellFoundedInduction, TLAPS

\* Each worker has a job with a place in its handler.
JobsKept == DOMAIN jobs = Worker /\ \A w \in Worker : "at" \in DOMAIN jobs[w]

\* What a handler does under the lock leaves the worker at one of the places
\* there, or it gives the lock back and ends.
GivenBackInv == JobsKept /\ LockGivenBack

\* The worker w goes to the place at.
GoneTo(w, at) ==
  /\ DOMAIN jobs' = Worker
  /\ "at" \in DOMAIN jobs'[w] /\ jobs'[w].at = at
  /\ \A v \in Worker \ {w} : jobs'[v] = jobs[v]

-----------------------------------------------------------------------------
(* The three ways to change a job *)

\* Finish and Goto lead to the places they name.
LEMMA FinishGoes ==
  ASSUME JobsKept, NEW w \in Worker, NEW code, Finish(w, code)
  PROVE  GoneTo(w, "idle")
BY DEF JobsKept, Finish, IdleJob, GoneTo

LEMMA GotoGoes ==
  ASSUME JobsKept, NEW w \in Worker, NEW at, Goto(w, at)
  PROVE  GoneTo(w, at)
BY DEF JobsKept, Goto, GoneTo

\* A change of the walk leaves the worker where it is.
LEMMA WalkStays ==
  ASSUME JobsKept, NEW w \in Worker, NEW walk,
         jobs' = [jobs EXCEPT ![w].walk = walk]
  PROVE  GoneTo(w, jobs[w].at)
BY DEF JobsKept, GoneTo

LEMMA OnwardStays ==
  ASSUME JobsKept, NEW w \in Worker, NEW name, NEW above, Onward(w, name, above)
  PROVE  GoneTo(w, jobs[w].at)
BY DEF JobsKept, Onward, GoneTo

-----------------------------------------------------------------------------
(* What such a change does to the lock *)

\* The holder goes on under the lock.
LEMMA HolderGoesOn ==
  ASSUME GivenBackInv, NEW w \in Worker, NEW at, at \notin {"idle", "lock"},
         spaceLock = w, GoneTo(w, at), spaceLock' = spaceLock
  PROVE  GivenBackInv'
BY DEF GivenBackInv, JobsKept, LockGivenBack, GoneTo

\* The holder ends and gives the lock back.
LEMMA HolderLeaves ==
  ASSUME GivenBackInv, NEW w \in Worker, NEW code, spaceLock = w, Leave(w, code)
  PROVE  GivenBackInv'
<1>1. GoneTo(w, "idle") /\ spaceLock' = Nobody
  BY FinishGoes DEF GivenBackInv, Leave
<1>2. QED
  BY <1>1, DavAssumption DEF GivenBackInv, JobsKept, LockGivenBack, GoneTo

\* A worker without the lock ends, or waits for it.
LEMMA OtherMoves ==
  ASSUME GivenBackInv, NEW w \in Worker, NEW at \in {"idle", "lock"},
         jobs[w].at \in {"idle", "lock"}, GoneTo(w, at), spaceLock' = spaceLock
  PROVE  GivenBackInv'
BY DEF GivenBackInv, JobsKept, LockGivenBack, GoneTo

-----------------------------------------------------------------------------
(* The actions *)

LEMMA RequestStep ==
  ASSUME GivenBackInv, NEW w \in Worker, Idle(w), NEW r \in DavRequests,
         Decline(w, r) \/ Refuse(w, r) \/ MakeCollection(w, r) \/ Accept(w, r)
  PROVE  GivenBackInv'
<1>1. spaceLock' = spaceLock
  BY DEF Decline, Refuse, MakeCollection, Accept
<1>2. CASE Decline(w, r) \/ Refuse(w, r) \/ MakeCollection(w, r)
  <2>1. \E code : Finish(w, code)
    BY ZenonT(40), <1>2 DEF Decline, Refuse, MakeCollection
  <2>2. GoneTo(w, "idle")
    BY <2>1, FinishGoes DEF GivenBackInv
  <2>3. QED
    BY <1>1, <2>2, OtherMoves DEF Idle
<1>3. CASE Accept(w, r)
  <2>1. GoneTo(w, "lock")
    BY <1>3 DEF Accept, GivenBackInv, JobsKept, GoneTo
  <2>2. QED
    BY <1>1, <2>1, OtherMoves DEF Idle
<1>4. QED
  BY <1>2, <1>3

LEMMA LockStep ==
  ASSUME GivenBackInv, NEW w \in Worker, Lock(w)
  PROVE  GivenBackInv'
<1>1. GoneTo(w, FirstStep(jobs[w])) /\ spaceLock = Nobody /\ spaceLock' = w
  BY GotoGoes DEF GivenBackInv, Lock
<1>2. FirstStep(jobs[w]) \notin {"idle", "lock"}
  BY DEF FirstStep
<1>3. QED
  BY <1>1, <1>2, DavAssumption DEF GivenBackInv, JobsKept, LockGivenBack, GoneTo

LEMMA LockFailsStep ==
  ASSUME GivenBackInv, NEW w \in Worker, LockFails(w)
  PROVE  GivenBackInv'
<1>1. GoneTo(w, "idle") /\ spaceLock' = spaceLock /\ jobs[w].at = "lock"
  BY FinishGoes DEF GivenBackInv, LockFails
<1>2. QED
  BY <1>1, OtherMoves

\* One file, or the first step for a directory: each ends in Leave or in Goto.
LEMMA FileStep ==
  ASSUME GivenBackInv, NEW w \in Worker,
         Erase(w) \/ PutRename(w) \/ PutRecord(w) \/ MoveOne(w) \/ CopyOne(w) \/ MakeDest(w)
  PROVE  GivenBackInv'
<1>1. spaceLock = w
  BY DEF Erase, PutRename, PutRecord, MoveOne, CopyOne, MakeDest, Working
<1>2. \/ \E code : Leave(w, code)
      \/ \E at \in {"make", "record", "open"} : Goto(w, at) /\ spaceLock' = spaceLock
  <2>1. CASE Erase(w)
    BY ZenonT(40), <2>1 DEF Erase
  <2>2. CASE PutRename(w)
    BY <2>2 DEF PutRename
  <2>3. CASE PutRecord(w)
    BY <2>3 DEF PutRecord
  <2>4. CASE MoveOne(w)
    BY SMTT(40), <2>4 DEF MoveOne
  <2>5. CASE CopyOne(w)
    BY <2>5 DEF CopyOne
  <2>6. CASE MakeDest(w)
    BY <2>6 DEF MakeDest
  <2>7. QED
    BY <2>1, <2>2, <2>3, <2>4, <2>5, <2>6
<1>3. CASE \E code : Leave(w, code)
  BY <1>1, <1>3, HolderLeaves
<1>4. CASE \E at \in {"make", "record", "open"} : Goto(w, at) /\ spaceLock' = spaceLock
  <2>1. PICK at \in {"make", "record", "open"} : Goto(w, at) /\ spaceLock' = spaceLock
    BY <1>4
  <2>2. GoneTo(w, at)
    BY <2>1, GotoGoes DEF GivenBackInv
  <2>3. QED
    BY <1>1, <2>1, <2>2, HolderGoesOn
<1>5. QED
  BY <1>2, <1>3, <1>4

\* The two that change more of a job than its place.
LEMMA LookStep ==
  ASSUME GivenBackInv, NEW w \in Worker, PutLook(w) \/ OpenRoot(w)
  PROVE  GivenBackInv'
<1>1. spaceLock = w
  BY DEF PutLook, OpenRoot, Working
<1>2. \/ \E code : Leave(w, code)
      \/ \E at \in {"rename", "walk"} : GoneTo(w, at) /\ spaceLock' = spaceLock
  <2>1. CASE PutLook(w)
    BY <2>1 DEF PutLook, GivenBackInv, JobsKept, GoneTo
  <2>2. CASE OpenRoot(w)
    BY <2>2 DEF OpenRoot, GivenBackInv, JobsKept, GoneTo
  <2>3. QED
    BY <2>1, <2>2
<1>3. CASE \E code : Leave(w, code)
  BY <1>1, <1>3, HolderLeaves
<1>4. CASE \E at \in {"rename", "walk"} : GoneTo(w, at) /\ spaceLock' = spaceLock
  BY <1>1, <1>4, HolderGoesOn
<1>5. QED
  BY <1>2, <1>3, <1>4

\* A step of a walk over a directory.
LEMMA WalkStepKeeps ==
  ASSUME GivenBackInv, NEW w \in Worker, WalkStep(w)
  PROVE  GivenBackInv'
<1>1. spaceLock = w /\ jobs[w].at = "walk"
  BY DEF WalkStep, WalkOut, WalkEnds, WalkAborts, Walking, Working
<1>2. \/ \E code : Leave(w, code)
      \/ GoneTo(w, "walk") /\ spaceLock' = spaceLock
  <2>1. CASE \E name \in (IF Walking(w) THEN Top(jobs[w]).left ELSE {}) :
               \/ WalkDelete(w, name) \/ WalkMove(w, name)
               \/ WalkCopy(w, name) \/ WalkInto(w, name) \/ WalkSpec(w, name)
    <3>1. spaceLock' = spaceLock
      BY <2>1 DEF WalkDelete, WalkMove, WalkCopy, WalkInto, WalkSpec
    <3>2. \E name, above : Onward(w, name, above)
      BY <2>1 DEF WalkDelete, WalkMove, WalkCopy, WalkInto, WalkSpec
    <3>3. QED
      BY <1>1, <3>1, <3>2, OnwardStays DEF GivenBackInv
  <2>2. CASE WalkOut(w)
    BY <1>1, <2>2, WalkStays DEF WalkOut, GivenBackInv
  <2>3. CASE WalkEnds(w)
    BY <2>3 DEF WalkEnds
  <2>4. CASE WalkAborts(w)
    BY <2>4 DEF WalkAborts
  <2>5. QED
    BY <2>1, <2>2, <2>3, <2>4 DEF WalkStep
<1>3. CASE \E code : Leave(w, code)
  BY <1>1, <1>3, HolderLeaves
<1>4. CASE GoneTo(w, "walk") /\ spaceLock' = spaceLock
  BY <1>1, <1>4, HolderGoesOn
<1>5. QED
  BY <1>2, <1>3, <1>4

-----------------------------------------------------------------------------
LEMMA GivenBackStep == GivenBackInv /\ [DavNext]_davVars => GivenBackInv'
<1>1. SUFFICES ASSUME GivenBackInv, [DavNext]_davVars PROVE GivenBackInv'
  OBVIOUS
<1>2. CASE UNCHANGED davVars
  BY <1>1, <1>2 DEF davVars, GivenBackInv, JobsKept, LockGivenBack
<1>3. CASE DavNext
  <2>1. PICK w \in Worker : DavStep(w)
    BY <1>3 DEF DavNext
  <2>2. CASE Idle(w) /\ \E r \in DavRequests :
               Decline(w, r) \/ Refuse(w, r) \/ MakeCollection(w, r) \/ Accept(w, r)
    BY <1>1, <2>2, RequestStep
  <2>3. CASE Lock(w)
    BY <1>1, <2>3, LockStep
  <2>4. CASE LockFails(w)
    BY <1>1, <2>4, LockFailsStep
  <2>5. CASE Erase(w) \/ PutRename(w) \/ PutRecord(w) \/ MoveOne(w) \/ CopyOne(w) \/ MakeDest(w)
    BY <1>1, <2>5, FileStep
  <2>6. CASE PutLook(w) \/ OpenRoot(w)
    BY <1>1, <2>6, LookStep
  <2>7. CASE WalkStep(w)
    BY <1>1, <2>7, WalkStepKeeps
  <2>8. QED
    BY <2>1, <2>2, <2>3, <2>4, <2>5, <2>6, <2>7 DEF DavStep
<1>4. QED
  BY <1>1, <1>2, <1>3

(* Whoever works on files has the lock of the space, and nobody else has it: *)
(* every error, refusal and end of a handler that took it gives it back.     *)
THEOREM LockGivenBackAlways == DavSpec => []LockGivenBack
<1>1. DavInit => GivenBackInv
  BY DavAssumption DEF DavInit, IdleJob, GivenBackInv, JobsKept, LockGivenBack
<1>2. GivenBackInv => LockGivenBack
  BY DEF GivenBackInv
<1>3. QED
  BY <1>1, <1>2, GivenBackStep, PTL DEF DavSpec

-----------------------------------------------------------------------------
LEMMA Part ==
  ASSUME NEW x \in Path, NEW n \in 0 .. Len(x)
  PROVE  /\ SubSeq(x, 1, n) \in Path /\ Len(SubSeq(x, 1, n)) = n
         /\ \A i \in 1 .. n : SubSeq(x, 1, n)[i] = x[i]
<1>1. \A i \in 1 .. n : x[i] \in Names
  BY DEF Path
<1>2. QED
  BY <1>1, SubSeqProperties DEF Path

LEMMA LeadsAt ==
  ASSUME NEW p \in Path, NEW x \in Path
  PROVE  Leads(p, x) <=> Len(p) <= Len(x) /\ \A i \in 1 .. Len(p) : x[i] = p[i]
<1>1. Len(p) \in Nat /\ Len(x) \in Nat
  BY LenProperties DEF Path
<1>2. CASE Len(p) <= Len(x)
  <2>1. /\ SubSeq(x, 1, Len(p)) \in Path /\ Len(SubSeq(x, 1, Len(p))) = Len(p)
        /\ \A i \in 1 .. Len(p) : SubSeq(x, 1, Len(p))[i] = x[i]
    BY <1>1, <1>2, Part
  <2>2. (\A i \in 1 .. Len(p) : x[i] = p[i]) => SubSeq(x, 1, Len(p)) = p
    BY <2>1, SeqEqual DEF Path
  <2>3. QED
    BY <1>1, <1>2, <2>1, <2>2 DEF Leads
<1>3. CASE ~(Len(p) <= Len(x))
  BY <1>1, <1>3 DEF Leads
<1>4. QED
  BY <1>2, <1>3

LEMMA PartLeads ==
  ASSUME NEW x \in Path, NEW n \in 0 .. Len(x)
  PROVE  Leads(SubSeq(x, 1, n), x)
<1>1. Len(x) \in Nat
  BY LenProperties DEF Path
<1> DEFINE y == SubSeq(x, 1, n)
<1>2. y \in Path /\ Len(y) = n /\ \A i \in 1 .. n : y[i] = x[i]
  BY Part
<1> HIDE DEF y
<1>3. Len(y) <= Len(x) /\ \A i \in 1 .. Len(y) : x[i] = y[i]
  BY <1>1, <1>2
<1>4. Leads(y, x)
  BY <1>2, <1>3, LeadsAt
<1>5. QED
  BY <1>4 DEF y

LEMMA LeadsSelf ==
  ASSUME NEW x \in Path
  PROVE  Leads(x, x)
<1>1. Len(x) \in Nat
  BY LenProperties DEF Path
<1>2. QED
  BY <1>1, LeadsAt

LEMMA LeadsOn ==
  ASSUME NEW p \in Path, NEW q \in Path, NEW x \in Path, Leads(p, q), Leads(q, x)
  PROVE  Leads(p, x)
<1>1. Len(p) \in Nat /\ Len(q) \in Nat /\ Len(x) \in Nat
  BY LenProperties DEF Path
<1>2. QED
  BY <1>1, LeadsAt

LEMMA LeadsBetween ==
  ASSUME NEW p \in Path, NEW q \in Path, NEW x \in Path, Leads(p, x), Leads(q, x), Len(p) <= Len(q)
  PROVE  Leads(p, q)
<1>1. Len(p) \in Nat /\ Len(q) \in Nat /\ Len(x) \in Nat
  BY LenProperties DEF Path
<1>2. QED
  BY <1>1, LeadsAt

LEMMA LeadsEqual ==
  ASSUME NEW p \in Path, NEW x \in Path, Leads(p, x), Len(x) <= Len(p)
  PROVE  p = x
<1>1. Len(p) \in Nat /\ Len(x) \in Nat
  BY LenProperties DEF Path
<1>2. QED
  BY <1>1, LeadsAt, SeqEqual DEF Path

LEMMA LeadsBack ==
  ASSUME NEW p \in Path, NEW x \in Path, Leads(p, x), Leads(x, p)
  PROVE  p = x
<1>1. Len(p) \in Nat /\ Len(x) \in Nat
  BY LenProperties DEF Path
<1>2. QED
  BY <1>1, LeadsAt, SeqEqual DEF Path

\* Nothing but the root leads to the root.
LEMMA RootIsFirst ==
  ASSUME NEW p \in Path, Leads(p, << >>)
  PROVE  p = << >>
<1>1. << >> \in Path /\ Len(<< >>) = 0
  BY EmptySeq DEF Path
<1>2. Len(p) \in Nat
  BY LenProperties DEF Path
<1>3. QED
  BY <1>1, <1>2, LeadsEqual

\* The ancestors of a path are the others that lead to it.
LEMMA AncestorsLead ==
  ASSUME NEW p \in Path, NEW q
  PROVE  q \in Ancestors(p) <=> q \in Path /\ Leads(q, p) /\ q # p
<1>1. Len(p) \in Nat
  BY LenProperties DEF Path
<1>2. ASSUME NEW n \in 0 .. Len(p) - 1, q = SubSeq(p, 1, n)
      PROVE  q \in Path /\ Leads(q, p) /\ q # p
  <2>1. n \in 0 .. Len(p)
    BY <1>1
  <2>2. q \in Path /\ Len(q) = n
    BY <1>2, <2>1, Part
  <2>3. Leads(q, p)
    BY <1>2, <2>1, PartLeads
  <2>4. QED
    BY <1>1, <2>2, <2>3
<1>3. ASSUME q \in Path, Leads(q, p), q # p
      PROVE  q \in Ancestors(p)
  <2>1. Len(q) \in Nat /\ Len(q) <= Len(p) /\ SubSeq(p, 1, Len(q)) = q
    BY <1>1, <1>3, LenProperties DEF Path, Leads
  <2>2. Len(q) # Len(p)
    BY <1>1, <1>3, <2>1, LeadsEqual
  <2>3. Len(q) \in 0 .. Len(p) - 1
    BY <1>1, <2>1, <2>2
  <2>4. QED
    BY <2>1, <2>3 DEF Ancestors
<1>4. QED
  BY <1>2, <1>3 DEF Ancestors

\* An entry of a directory.
LEMMA Child ==
  ASSUME NEW d \in Path, NEW name \in Names
  PROVE  /\ Append(d, name) \in Path /\ Append(d, name) # << >>
         /\ Leads(d, Append(d, name)) /\ d # Append(d, name)
         /\ Parent(Append(d, name)) = d
<1>1. Len(d) \in Nat
  BY LenProperties DEF Path
<1> DEFINE c == Append(d, name)
<1>2. c \in Seq(Names) /\ Len(c) = Len(d) + 1 /\ \A i \in 1 .. Len(d) : c[i] = d[i]
  <2>1. d \in Seq(Names)
    BY DEF Path
  <2>2. c \in Seq(Names)
    BY <2>1
  <2>3. Len(c) = Len(d) + 1
    BY <2>1
  <2>4. \A i \in 1 .. Len(d) : c[i] = d[i]
    BY <1>1, <2>1
  <2>5. QED
    BY <2>2, <2>3, <2>4
<1>3. c \in Path
  BY <1>2 DEF Path
<1> HIDE DEF c
<1>4. Leads(d, c)
  BY <1>1, <1>2, <1>3, LeadsAt
<1>5. Parent(c) = d
  BY <1>1, <1>2, <1>4 DEF Leads, Parent
<1>6. c # << >> /\ d # c
  BY <1>1, <1>2
<1>7. QED
  BY <1>3, <1>4, <1>5, <1>6 DEF c

LEMMA OneChild ==
  ASSUME NEW d \in Path, NEW e \in Path, NEW n \in Names, NEW m \in Names, Append(d, n) = Append(e, m)
  PROVE  d = e /\ n = m
<1>1. d \in Seq(Names) /\ e \in Seq(Names)
  BY DEF Path
<1>2. QED
  BY <1>1, AppendInjective

LEMMA ParentPath ==
  ASSUME NEW p \in Path, p # << >>
  PROVE  /\ Parent(p) \in Path /\ Leads(Parent(p), p) /\ Parent(p) # p
         /\ p[Len(p)] \in Names /\ p = Append(Parent(p), p[Len(p)])
<1>1. Len(p) \in Nat \ {0}
  BY EmptySeq DEF Path
<1>2. Len(p) - 1 \in 0 .. Len(p)
  BY <1>1
<1>3. /\ Parent(p) \in Path /\ Len(Parent(p)) = Len(p) - 1
      /\ \A i \in 1 .. Len(p) - 1 : Parent(p)[i] = p[i]
  BY <1>2, Part DEF Parent
<1>4. Leads(Parent(p), p)
  BY <1>2, PartLeads DEF Parent
<1>5. p[Len(p)] \in Names
  BY <1>1 DEF Path
<1> DEFINE c == Append(Parent(p), p[Len(p)])
<1>6. /\ c \in Seq(Names) /\ Len(c) = Len(Parent(p)) + 1 /\ c[Len(Parent(p)) + 1] = p[Len(p)]
      /\ \A i \in 1 .. Len(Parent(p)) : c[i] = Parent(p)[i]
  <2>1. Parent(p) \in Seq(Names)
    BY <1>3 DEF Path
  <2>2. QED
    BY <1>5, <2>1, AppendProperties
<1> HIDE DEF c
<1>7. Len(c) = Len(p) /\ \A i \in 1 .. Len(p) : p[i] = c[i]
  BY <1>1, <1>3, <1>6
<1>8. p = c
  BY <1>6, <1>7, SeqEqual DEF Path
<1>9. Parent(p) # p
  BY <1>1, <1>3
<1>10. QED
  BY <1>3, <1>4, <1>5, <1>8, <1>9 DEF c

\* Whatever leads to an entry is the entry itself or leads to its directory.
LEMMA LeadsToChild ==
  ASSUME NEW d \in Path, NEW name \in Names, NEW q \in Path, Leads(q, Append(d, name))
  PROVE  q = Append(d, name) \/ Leads(q, d)
<1> DEFINE c == Append(d, name)
<1>1. c \in Path /\ Leads(d, c) /\ Len(c) = Len(d) + 1
  <2>1. Len(c) = Len(d) + 1
    BY AppendProperties DEF Path
  <2>2. QED
    BY <2>1, Child
<1>2. Leads(q, c)
  OBVIOUS
<1> HIDE DEF c
<1>3. Len(d) \in Nat /\ Len(q) \in Nat /\ Len(c) \in Nat
  BY <1>1, LenProperties DEF Path
<1>4. CASE Len(q) <= Len(d)
  BY <1>1, <1>2, <1>4, LeadsBetween
<1>5. CASE ~(Len(q) <= Len(d))
  <2>1. Len(c) <= Len(q)
    BY <1>1, <1>3, <1>5
  <2>2. q = c
    BY <1>1, <1>2, <2>1, LeadsEqual
  <2>3. QED
    BY <2>2 DEF c
<1>6. QED
  BY <1>4, <1>5

\* Below a directory, every path goes through one of its entries.
LEMMA NextBelow ==
  ASSUME NEW d \in Path, NEW x \in Path, Leads(d, x), d # x
  PROVE  \E y \in Path : Leads(y, x) /\ y # << >> /\ Parent(y) = d
<1> DEFINE y == SubSeq(x, 1, Len(d) + 1)
<1>1. Len(d) \in Nat /\ Len(x) \in Nat
  BY LenProperties DEF Path
<1>2. Len(d) + 1 \in 0 .. Len(x)
  BY <1>1, LeadsEqual DEF Leads
<1>3. y \in Path /\ Len(y) = Len(d) + 1
  BY <1>2, Part
<1>4. Leads(y, x)
  BY <1>2, PartLeads
<1> HIDE DEF y
<1>5. Leads(d, y)
  <2>1. Len(d) <= Len(y)
    BY <1>1, <1>3
  <2>2. QED
    BY <1>3, <1>4, <2>1, LeadsBetween
<1>6. Parent(y) = d
  BY <1>1, <1>3, <1>5 DEF Leads, Parent
<1>7. y # << >>
  BY <1>1, <1>3
<1>8. QED
  BY <1>3, <1>4, <1>6, <1>7

(* What lies below p lies, moved, below q. *)
Carried(p, q, x) == q \o SubSeq(x, Len(p) + 1, Len(x))

IsCarried(c, p, q, x) ==
  /\ c \in Path /\ Len(c) = Len(q) + Len(x) - Len(p)
  /\ \A i \in 1 .. Len(q) : c[i] = q[i]
  /\ \A i \in Len(q) + 1 .. Len(q) + Len(x) - Len(p) : c[i] = x[i - Len(q) + Len(p)]
  /\ Leads(q, c)

LEMMA CarriedPath ==
  ASSUME NEW p \in Path, NEW q \in Path, NEW x \in Path, Len(p) <= Len(x)
  PROVE  IsCarried(Carried(p, q, x), p, q, x)
<1> DEFINE s == SubSeq(x, Len(p) + 1, Len(x))
<1>1. Len(p) \in Nat /\ Len(q) \in Nat /\ Len(x) \in Nat /\ \A i \in 1 .. Len(x) : x[i] \in Names
  BY LenProperties DEF Path
<1>2. /\ s \in Path /\ Len(s) = Len(x) - Len(p)
      /\ \A i \in 1 .. Len(x) - Len(p) : s[i] = x[Len(p) + i]
  <2>1. /\ s \in Path /\ Len(s) = (IF Len(p) + 1 <= Len(x) THEN Len(x) - (Len(p) + 1) + 1 ELSE 0)
        /\ \A i \in 1 .. Len(x) - (Len(p) + 1) + 1 : s[i] = x[(Len(p) + 1) + i - 1]
    BY <1>1, SubSeqProperties DEF Path
  <2>2. QED
    BY <1>1, <2>1
<1> HIDE DEF s
<1>3. /\ q \o s \in Path /\ Len(q \o s) = Len(q) + Len(s)
      /\ \A i \in 1 .. Len(q) + Len(s) : (q \o s)[i] = IF i <= Len(q) THEN q[i] ELSE s[i - Len(q)]
  BY <1>2, ConcatProperties DEF Path
<1>4. Carried(p, q, x) = q \o s
  BY DEF Carried, s
<1>5. /\ \A i \in 1 .. Len(q) : (q \o s)[i] = q[i]
      /\ \A i \in Len(q) + 1 .. Len(q) + Len(x) - Len(p) : (q \o s)[i] = x[i - Len(q) + Len(p)]
  BY <1>1, <1>2, <1>3
<1>6. Leads(q, q \o s)
  <2>1. Len(q) <= Len(q \o s)
    BY <1>1, <1>2, <1>3
  <2>2. QED
    BY <1>3, <1>5, <2>1, LeadsAt
<1>7. QED
  BY <1>1, <1>2, <1>3, <1>4, <1>5, <1>6 DEF IsCarried

LEMMA CarriedBack ==
  ASSUME NEW p \in Path, NEW q \in Path, NEW x \in Path, Leads(p, x)
  PROVE  Carried(q, p, Carried(p, q, x)) = x
<1> DEFINE y == Carried(p, q, x)
<1>1. Len(p) \in Nat /\ Len(q) \in Nat /\ Len(x) \in Nat /\ Len(p) <= Len(x)
  BY LenProperties DEF Path, Leads
<1>2. /\ y \in Path /\ Len(y) = Len(q) + Len(x) - Len(p)
      /\ \A i \in Len(q) + 1 .. Len(q) + Len(x) - Len(p) : y[i] = x[i - Len(q) + Len(p)]
  BY <1>1, CarriedPath DEF IsCarried
<1> HIDE DEF y
<1>3. Len(q) <= Len(y)
  BY <1>1, <1>2
<1>4. /\ Carried(q, p, y) \in Path /\ Len(Carried(q, p, y)) = Len(p) + Len(y) - Len(q)
      /\ \A i \in 1 .. Len(p) : Carried(q, p, y)[i] = p[i]
      /\ \A i \in Len(p) + 1 .. Len(p) + Len(y) - Len(q) : Carried(q, p, y)[i] = y[i - Len(p) + Len(q)]
  <2>1. IsCarried(Carried(q, p, y), q, p, y)
    BY <1>2, <1>3, CarriedPath
  <2>2. QED
    BY <2>1 DEF IsCarried
<1>5. \A i \in 1 .. Len(p) : x[i] = p[i]
  BY LeadsAt
<1> DEFINE z == Carried(q, p, y)
<1> HIDE DEF z
<1>6. z \in Path /\ Len(z) = Len(x)
  BY <1>1, <1>2, <1>4 DEF z
<1>7. ASSUME NEW i \in 1 .. Len(x) PROVE z[i] = x[i]
  <2>1. CASE i <= Len(p)
    BY <1>1, <1>4, <1>5, <2>1 DEF z
  <2>2. CASE ~(i <= Len(p))
    <3>1. i \in Len(p) + 1 .. Len(p) + Len(y) - Len(q)
      BY <1>1, <1>2, <2>2
    <3>2. z[i] = y[i - Len(p) + Len(q)]
      BY <1>4, <3>1 DEF z
    <3>3. i - Len(p) + Len(q) \in Len(q) + 1 .. Len(q) + Len(x) - Len(p)
      BY <1>1, <2>2
    <3>4. y[i - Len(p) + Len(q)] = x[(i - Len(p) + Len(q)) - Len(q) + Len(p)]
      BY <1>2, <3>3
    <3>5. (i - Len(p) + Len(q)) - Len(q) + Len(p) = i
      BY <1>1
    <3>6. QED
      BY <3>2, <3>4, <3>5
  <2>3. QED
    BY <2>1, <2>2
<1>8. z = x
  BY <1>6, <1>7, SeqEqual DEF Path
<1>9. QED
  BY <1>8 DEF z, y

LEMMA CarriedLeads ==
  ASSUME NEW p \in Path, NEW q \in Path, NEW x \in Path, NEW y \in Path, Leads(p, x), Leads(x, y)
  PROVE  Leads(Carried(p, q, x), Carried(p, q, y))
<1>1. Leads(p, y)
  BY LeadsOn
<1>2. /\ Len(p) \in Nat /\ Len(q) \in Nat /\ Len(x) \in Nat /\ Len(y) \in Nat
      /\ Len(p) <= Len(x) /\ Len(x) <= Len(y) /\ \A i \in 1 .. Len(x) : y[i] = x[i]
  <2>1. Len(p) \in Nat /\ Len(q) \in Nat /\ Len(x) \in Nat /\ Len(y) \in Nat
    BY LenProperties DEF Path
  <2>2. QED
    BY <2>1, LeadsAt
<1> DEFINE a == Carried(p, q, x)
           b == Carried(p, q, y)
<1>3. /\ a \in Path /\ Len(a) = Len(q) + Len(x) - Len(p)
      /\ \A i \in 1 .. Len(q) : a[i] = q[i]
      /\ \A i \in Len(q) + 1 .. Len(q) + Len(x) - Len(p) : a[i] = x[i - Len(q) + Len(p)]
  <2>1. IsCarried(Carried(p, q, x), p, q, x)
    BY <1>2, CarriedPath
  <2>2. QED
    BY <2>1 DEF IsCarried
<1>4. Len(p) <= Len(y)
  BY <1>2
<1>5. /\ b \in Path /\ Len(b) = Len(q) + Len(y) - Len(p)
      /\ \A i \in 1 .. Len(q) : b[i] = q[i]
      /\ \A i \in Len(q) + 1 .. Len(q) + Len(y) - Len(p) : b[i] = y[i - Len(q) + Len(p)]
  <2>1. IsCarried(Carried(p, q, y), p, q, y)
    BY <1>4, CarriedPath
  <2>2. QED
    BY <2>1 DEF IsCarried
<1> HIDE DEF a, b
<1>6. Len(a) <= Len(b)
  BY <1>2, <1>3, <1>5
<1>7. ASSUME NEW i \in 1 .. Len(a) PROVE b[i] = a[i]
  <2>1. CASE i <= Len(q)
    BY <1>2, <1>3, <1>5, <2>1
  <2>2. CASE ~(i <= Len(q))
    <3>1. /\ i \in Len(q) + 1 .. Len(q) + Len(x) - Len(p)
          /\ i \in Len(q) + 1 .. Len(q) + Len(y) - Len(p)
          /\ i - Len(q) + Len(p) \in 1 .. Len(x)
      BY <1>2, <1>3, <2>2
    <3>2. QED
      BY <1>2, <1>3, <1>5, <3>1
  <2>3. QED
    BY <2>1, <2>2
<1>8. QED
  BY <1>3, <1>5, <1>6, <1>7, LeadsAt DEF a, b

\* What is carried keeps its order, and its place.
LEMMA CarriedTree ==
  ASSUME NEW p \in Path, NEW q \in Path, NEW x \in Path, NEW y \in Path, Leads(p, x), Leads(p, y)
  PROVE  /\ Carried(p, q, x) \in Path /\ Leads(q, Carried(p, q, x))
         /\ Leads(Carried(p, q, x), Carried(p, q, y)) <=> Leads(x, y)
<1>1. Len(p) <= Len(x) /\ Len(p) <= Len(y)
  BY DEF Leads
<1>2. /\ Carried(p, q, x) \in Path /\ Leads(q, Carried(p, q, x))
      /\ Carried(p, q, y) \in Path /\ Leads(q, Carried(p, q, y))
  BY <1>1, CarriedPath DEF IsCarried
<1>3. Carried(q, p, Carried(p, q, x)) = x /\ Carried(q, p, Carried(p, q, y)) = y
  BY CarriedBack
<1>4. Leads(Carried(p, q, x), Carried(p, q, y)) => Leads(x, y)
  BY <1>2, <1>3, CarriedLeads
<1>5. Leads(x, y) => Leads(Carried(p, q, x), Carried(p, q, y))
  BY CarriedLeads
<1>6. QED
  BY <1>2, <1>4, <1>5

-----------------------------------------------------------------------------
(* Trees *)

\* The files of u are those of t without the ones that are gone and with the
\* ones that came; the rest has the contents it had.
Changed(t, u, gone, come) ==
  /\ FilesOf(u) = (FilesOf(t) \ gone) \cup come
  /\ \A x \in FilesOf(t) \ (gone \cup come) : u[x].content = t[x].content

LEMMA RootedLeads ==
  ASSUME NEW t
  PROVE  Rooted(t) <=>
           \A p \in DOMAIN t : p \in Path /\ \A q \in Path : Leads(q, p) /\ q # p => IsDir(t, q)
<1>1. ASSUME Rooted(t), NEW p \in DOMAIN t
      PROVE  p \in Path /\ \A q \in Path : Leads(q, p) /\ q # p => IsDir(t, q)
  BY <1>1, AncestorsLead DEF Rooted
<1>2. ASSUME \A p \in DOMAIN t : p \in Path /\ \A q \in Path : Leads(q, p) /\ q # p => IsDir(t, q)
      PROVE  Rooted(t)
  BY <1>2, AncestorsLead DEF Rooted
<1>3. QED
  BY <1>1, <1>2

\* Only a directory has something below it.
LEMMA NothingBelow ==
  ASSUME NEW t, Rooted(t), NEW p \in Path, ~IsDir(t, p), NEW x \in DOMAIN t, Leads(p, x)
  PROVE  x = p
BY RootedLeads

LEMMA EmptyHasNothingBelow ==
  ASSUME NEW t, Rooted(t), NEW p \in Path, Entries(t, p) = {}, NEW x \in DOMAIN t, Leads(p, x)
  PROVE  x = p
<1>1. SUFFICES ASSUME x # p PROVE FALSE
  OBVIOUS
<1>2. x \in Path
  BY RootedLeads
<1>3. PICK y \in Path : Leads(y, x) /\ y # << >> /\ Parent(y) = p
  BY <1>1, <1>2, NextBelow
<1>4. y \in DOMAIN t
  BY <1>3, RootedLeads DEF IsDir
<1>5. y[Len(y)] \in Entries(t, p)
  BY <1>3, <1>4 DEF Entries
<1>6. QED
  BY <1>5

LEMMA EntriesAreNames ==
  ASSUME NEW t, Rooted(t), NEW p
  PROVE  Entries(t, p) \subseteq Names
<1>1. ASSUME NEW x \in DOMAIN t, x # << >> PROVE x[Len(x)] \in Names
  BY <1>1, RootedLeads, ParentPath
<1>2. QED
  BY <1>1 DEF Entries

\* Something comes into a directory, or to the root.
LEMMA WithRooted ==
  ASSUME NEW t, Rooted(t), NEW q \in Path, NEW x, q = << >> \/ IsDir(t, Parent(q)), ~IsDir(t, q)
  PROVE  Rooted(With(t, q, x))
<1> DEFINE u == With(t, q, x)
<1>1. DOMAIN u = DOMAIN t \cup {q} /\ \A z \in DOMAIN t \ {q} : u[z] = t[z]
  BY DEF With
<1> HIDE DEF u
<1>2. ASSUME NEW z \in Path, IsDir(t, z) PROVE IsDir(u, z)
  BY <1>1, <1>2 DEF IsDir
<1>3. ASSUME NEW z \in Path, Leads(z, q), z # q PROVE IsDir(t, z)
  <2>1. CASE q = << >>
    <3>1. q \notin DOMAIN t \/ t[q].kind # "dir"
      BY DEF IsDir
    <3>2. z = q
      BY <1>3, <2>1, RootIsFirst
    <3>3. QED
      BY <1>3, <3>2
  <2>2. CASE q # << >>
    <3>1. /\ Parent(q) \in Path /\ q[Len(q)] \in Names /\ q = Append(Parent(q), q[Len(q)])
      BY <2>2, ParentPath
    <3>2. Leads(z, Parent(q))
      BY <1>3, <3>1, LeadsToChild
    <3>3. QED
      BY <2>2, <3>1, <3>2, RootedLeads DEF IsDir
  <2>3. QED
    BY <2>1, <2>2
<1>4. Rooted(u)
  BY <1>1, <1>2, <1>3, RootedLeads
<1>5. QED
  BY <1>4 DEF u

LEMMA WithFile ==
  ASSUME NEW t, NEW q, NEW x, x.kind = "file"
  PROVE  Changed(t, With(t, q, x), {}, {q}) /\ With(t, q, x)[q] = x
BY DEF With, Changed, FilesOf, IsFile

LEMMA WithOther ==
  ASSUME NEW t, NEW q, NEW x, x.kind # "file"
  PROVE  Changed(t, With(t, q, x), {q}, {}) /\ With(t, q, x)[q] = x
BY DEF With, Changed, FilesOf, IsFile

\* Something goes, with all that is below it.
LEMMA WithoutRooted ==
  ASSUME NEW t, Rooted(t), NEW S, \A p \in DOMAIN t \cap S, x \in DOMAIN t : Leads(p, x) => x \in S
  PROVE  Rooted(Without(t, S)) /\ Changed(t, Without(t, S), S, {})
<1> DEFINE u == Without(t, S)
<1>1. DOMAIN u = DOMAIN t \ S /\ \A z \in DOMAIN u : u[z] = t[z]
  BY DEF Without
<1> HIDE DEF u
<1>2. Rooted(u)
  <2>1. ASSUME NEW z \in DOMAIN u
        PROVE  z \in Path /\ \A q \in Path : Leads(q, z) /\ q # z => IsDir(u, q)
    <3>1. z \in DOMAIN t /\ z \notin S
      BY <1>1
    <3>2. z \in Path /\ \A q \in Path : Leads(q, z) /\ q # z => IsDir(t, q)
      BY <3>1, RootedLeads
    <3>3. QED
      BY <1>1, <3>1, <3>2 DEF IsDir
  <2>2. QED
    BY <2>1, RootedLeads
<1>3. Changed(t, u, S, {})
  BY <1>1 DEF Changed, FilesOf, IsFile
<1>4. QED
  BY <1>2, <1>3 DEF u

LEMMA WithoutOne ==
  ASSUME NEW t, Rooted(t), NEW p, \A x \in DOMAIN t : Leads(p, x) => x = p
  PROVE  Rooted(Without(t, {p})) /\ Changed(t, Without(t, {p}), {p}, {})
BY WithoutRooted

LEMMA RmdirRooted ==
  ASSUME NEW t, Rooted(t), NEW d \in Path
  PROVE  Rooted(Rmdir(t, d)) /\ Changed(t, Rmdir(t, d), {}, {})
<1>1. CASE IsDir(t, d) /\ Entries(t, d) = {}
  <2>1. \A x \in DOMAIN t : Leads(d, x) => x = d
    BY <1>1, EmptyHasNothingBelow
  <2>2. Rooted(Without(t, {d})) /\ Changed(t, Without(t, {d}), {d}, {})
    BY <2>1, WithoutOne
  <2>3. d \notin FilesOf(t)
    BY <1>1 DEF IsDir, FilesOf, IsFile
  <2>4. QED
    BY <1>1, <2>2, <2>3 DEF Rmdir, Changed
<1>2. CASE ~(IsDir(t, d) /\ Entries(t, d) = {})
  BY <1>2 DEF Rmdir, Changed
<1>3. QED
  BY <1>1, <1>2

LEMMA PathMadeRooted ==
  ASSUME NEW t, Rooted(t), NEW p \in Path
  PROVE  /\ Rooted(PathMade(t, p)) /\ Changed(t, PathMade(t, p), {}, {})
         /\ DOMAIN t \subseteq DOMAIN PathMade(t, p) /\ \A x \in DOMAIN t : PathMade(t, p)[x] = t[x]
<1> DEFINE u == PathMade(t, p)
<1>1. CASE Len(p) <= MaxPath /\ \A q \in Ancestors(p) : q \in DOMAIN t => IsDir(t, q)
  <2>1. /\ DOMAIN u = DOMAIN t \cup Ancestors(p) /\ \A x \in DOMAIN t : u[x] = t[x]
        /\ \A x \in Ancestors(p) \ DOMAIN t : u[x] = DirNode
    BY <1>1 DEF PathMade
  <2> HIDE DEF u
  <2>2. \A x \in Ancestors(p) : IsDir(u, x)
    BY <1>1, <2>1 DEF IsDir, DirNode
  <2>3. ASSUME NEW z \in DOMAIN u
        PROVE  z \in Path /\ \A q \in Path : Leads(q, z) /\ q # z => IsDir(u, q)
    <3>1. CASE z \in DOMAIN t
      BY <2>1, <3>1, RootedLeads DEF IsDir
    <3>2. CASE z \in Ancestors(p)
      <4>1. z \in Path /\ Leads(z, p) /\ z # p
        BY <3>2, AncestorsLead
      <4>2. ASSUME NEW q \in Path, Leads(q, z), q # z PROVE q \in Ancestors(p)
        BY <4>1, <4>2, LeadsOn, LeadsBack, AncestorsLead
      <4>3. QED
        BY <2>2, <4>1, <4>2
    <3>3. QED
      BY <2>1, <3>1, <3>2
  <2>4. Rooted(u)
    BY <2>3, RootedLeads
  <2>5. Changed(t, u, {}, {})
    BY <2>1 DEF Changed, FilesOf, IsFile, DirNode
  <2>6. QED
    BY <2>1, <2>4, <2>5 DEF u
<1>2. CASE ~(Len(p) <= MaxPath /\ \A q \in Ancestors(p) : q \in DOMAIN t => IsDir(t, q))
  BY <1>2 DEF PathMade, Changed
<1>3. QED
  BY <1>1, <1>2

\* Whatever leads to a place in a directory, and is not that place, is a directory.
LEMMA WayToPlace ==
  ASSUME NEW t, Rooted(t), NEW q \in Path, IsDir(t, Parent(q)), ~IsDir(t, q),
         NEW z \in Path, Leads(z, q), z # q
  PROVE  IsDir(t, z)
<1>1. q # << >>
  <2>1. Parent(<< >>) = << >>
    BY SubSeqEmpty DEF Parent
  <2>2. QED
    BY <2>1
<1>2. /\ Parent(q) \in Path /\ q[Len(q)] \in Names /\ q = Append(Parent(q), q[Len(q)])
  BY <1>1, ParentPath
<1>3. Leads(z, Parent(q))
  BY <1>2, LeadsToChild
<1>4. QED
  BY <1>2, <1>3, RootedLeads DEF IsDir

\* A file or a special node that is renamed takes the place of what is there.
LEMMA RenamedNode ==
  ASSUME NEW t, Rooted(t), NEW p \in Path, NEW q \in Path,
         p \in DOMAIN t, ~IsDir(t, p), Open(t, q)
  PROVE  /\ Rooted(Renamed(t, p, q))
         /\ \A x \in DOMAIN t : x = p \/ x \in DOMAIN Renamed(t, p, q)
         /\ IsFile(t, p) => Changed(t, Renamed(t, p, q), {p}, {q}) /\ Renamed(t, p, q)[q] = t[p]
         /\ ~IsFile(t, p) => Changed(t, Renamed(t, p, q), {q}, {})
<1> DEFINE v == Without(t, {p})
           u == With(v, q, t[p])
           R == Renamed(t, p, q)
<1>1. \A x \in DOMAIN t : Leads(p, x) <=> x = p
  BY NothingBelow, LeadsSelf
<1>2. R = u
  <2>1. {x \in DOMAIN t : Leads(p, x)} = {p}
    BY <1>1
  <2>2. /\ SubSeq(p, Len(p) + 1, Len(p)) = << >> /\ q \o << >> = q
        /\ SubSeq(q, Len(q) + 1, Len(q)) = << >> /\ p \o << >> = p
    <3>1. Len(p) \in Nat /\ Len(q) \in Nat
      BY LenProperties DEF Path
    <3>2. QED
      BY <3>1, SubSeqEmpty, ConcatEmptySeq DEF Path
  <2>3. {q \o SubSeq(x, Len(p) + 1, Len(x)) : x \in {p}} = {q}
    BY <2>2
  <2>4. R = [y \in (DOMAIN t \ {p}) \cup {q} |->
               IF y \in {q} THEN t[p \o SubSeq(y, Len(q) + 1, Len(y))] ELSE t[y]]
    BY <2>1, <2>3 DEF Renamed
  <2>5. u = [y \in (DOMAIN t \ {p}) \cup {q} |-> IF y = q THEN t[p] ELSE v[y]]
    BY DEF With, Without
  <2>6. \A y \in DOMAIN t \ {p} : v[y] = t[y]
    BY DEF Without
  <2> HIDE DEF R, u, v
  <2>7. QED
    BY <2>2, <2>4, <2>5, <2>6
<1>3. Rooted(v) /\ Changed(t, v, {p}, {})
  BY <1>1, WithoutOne
<1>4. Rooted(u)
  <2>1. IsDir(v, Parent(q)) /\ ~IsDir(v, q)
    BY DEF Open, IsDir, Without
  <2> HIDE DEF v
  <2>2. QED
    BY <1>3, <2>1, WithRooted
<1>5. \A x \in DOMAIN t : x = p \/ x \in DOMAIN u
  BY DEF With, Without
<1>6. CASE IsFile(t, p)
  <2>1. Changed(v, u, {}, {q}) /\ u[q] = t[p]
    BY <1>6, WithFile DEF IsFile
  <2> HIDE DEF v, u
  <2>2. Changed(t, u, {p}, {q})
    BY <1>3, <2>1 DEF Changed
  <2>3. QED
    BY <1>2, <1>4, <1>5, <1>6, <2>1, <2>2
<1>7. CASE ~IsFile(t, p)
  <2>1. Changed(v, u, {q}, {}) /\ u[q] = t[p] /\ p \notin FilesOf(t)
    BY <1>7, WithOther DEF IsFile, FilesOf
  <2> HIDE DEF v, u
  <2>2. Changed(t, u, {q}, {})
    BY <1>3, <2>1 DEF Changed
  <2>3. QED
    BY <1>2, <1>4, <1>5, <1>7, <2>1, <2>2
<1>8. QED
  BY <1>6, <1>7

\* A directory that is renamed takes with it what is below it.
LEMMA RenamedDir ==
  ASSUME NEW t, Rooted(t), NEW p \in Path, NEW q \in Path,
         IsDir(t, p), CanRename(t, p, q)
  PROVE  /\ Rooted(Renamed(t, p, q))
         /\ \A x \in DOMAIN t : Leads(p, x) \/ x \in DOMAIN Renamed(t, p, q)
         /\ ContentsOf(t) \subseteq ContentsOf(Renamed(t, p, q))
<1> DEFINE R == Renamed(t, p, q)
           under == {x \in DOMAIN t : Leads(p, x)}
           arrived == {Carried(p, q, x) : x \in under}
<1>1. /\ DOMAIN R = (DOMAIN t \ under) \cup arrived
      /\ \A y \in arrived : R[y] = t[Carried(q, p, y)]
      /\ \A y \in (DOMAIN t \ under) \ arrived : R[y] = t[y]
  BY DEF Renamed, Carried
<1>2. \A x \in under : x \in Path /\ x \in DOMAIN t /\ Leads(p, x)
  BY RootedLeads
<1>3. p \in DOMAIN t /\ q \notin DOMAIN t /\ ~IsDir(t, q) /\ IsDir(t, Parent(q)) /\ ~Leads(p, q)
  <2>1. p \in DOMAIN t /\ q \notin DOMAIN t /\ p \notin Ancestors(q) /\ Open(t, q)
    BY DEF CanRename, IsDir
  <2>2. QED
    BY <2>1, AncestorsLead DEF Open
<1>4. \A x \in under : /\ Carried(p, q, x) \in arrived /\ Carried(p, q, x) \in Path
                        /\ Leads(q, Carried(p, q, x)) /\ R[Carried(p, q, x)] = t[x]
  <2>1. ASSUME NEW x \in under
        PROVE  /\ Carried(p, q, x) \in arrived /\ Carried(p, q, x) \in Path
               /\ Leads(q, Carried(p, q, x)) /\ R[Carried(p, q, x)] = t[x]
    <3>1. Carried(p, q, x) \in arrived
      OBVIOUS
    <3>2. Carried(p, q, x) \in Path /\ Leads(q, Carried(p, q, x)) /\ Carried(q, p, Carried(p, q, x)) = x
      BY <1>2, CarriedTree, CarriedBack
    <3>3. QED
      BY <1>1, <3>1, <3>2
  <2>2. QED
    BY <2>1
<1>5. \A x \in DOMAIN t : x \in Path /\ ~Leads(q, x)
  BY <1>3, RootedLeads DEF IsDir
<1>6. \A y \in arrived : \E x \in under : y = Carried(p, q, x)
  OBVIOUS
<1>7. \A x \in DOMAIN t : Leads(p, x) => x \in under
  OBVIOUS
<1> HIDE DEF R, under, arrived
<1>8. \A x \in DOMAIN t \ under : x \in DOMAIN R /\ R[x] = t[x]
  BY <1>1, <1>4, <1>5, <1>6
<1>9. \A x \in under : Carried(p, q, x) \in DOMAIN R
  BY <1>1, <1>4
<1>10. Rooted(R)
  <2>1. ASSUME NEW y \in DOMAIN R, NEW z \in Path, Leads(z, y), z # y PROVE y \in Path /\ IsDir(R, z)
    <3>1. CASE y \in DOMAIN t \ under
      <4>1. y \in Path /\ IsDir(t, z)
        BY <2>1, <3>1, RootedLeads
      <4>2. z \notin under
        BY <1>2, <1>7, <2>1, <3>1, <4>1, LeadsOn
      <4>3. QED
        BY <1>8, <4>1, <4>2 DEF IsDir
    <3>2. CASE y \in arrived
      <4>1. PICK x \in under : y = Carried(p, q, x)
        BY <1>6, <3>2
      <4>2. x \in Path /\ x \in DOMAIN t /\ Leads(p, x) /\ y \in Path /\ Leads(q, y)
        BY <1>2, <1>4, <4>1
      <4>3. CASE Leads(q, z)
        <5> DEFINE a == Carried(q, p, z)
        <5>1. a \in Path /\ Leads(p, a) /\ Carried(p, q, a) = z
          BY <4>3, CarriedTree, CarriedBack
        <5> HIDE DEF a
        <5>2. Leads(a, x)
          BY <2>1, <4>1, <4>2, <5>1, CarriedTree
        <5>3. a # x
          BY <2>1, <4>1, <5>1
        <5>4. IsDir(t, a)
          BY <4>2, <5>1, <5>2, <5>3, RootedLeads
        <5>5. a \in under
          BY <1>7, <5>1, <5>4 DEF IsDir
        <5>6. z \in DOMAIN R /\ R[z] = t[a]
          BY <1>4, <1>9, <5>1, <5>5
        <5>7. QED
          BY <4>2, <5>4, <5>6 DEF IsDir
      <4>4. CASE ~Leads(q, z)
        <5>1. Leads(z, q) /\ z # q
          <6>1. Len(z) \in Nat /\ Len(q) \in Nat
            BY LenProperties DEF Path
          <6>2. Leads(z, q)
            BY <2>1, <4>2, <4>4, <6>1, LeadsBetween
          <6>3. QED
            BY <4>4, <6>2
        <5>2. IsDir(t, z)
          BY <1>3, <5>1, WayToPlace
        <5>3. z \notin under
          BY <1>2, <1>3, <5>1, LeadsOn
        <5>4. QED
          BY <1>8, <4>2, <5>2, <5>3 DEF IsDir
      <4>5. QED
        BY <4>3, <4>4
    <3>3. QED
      BY <1>1, <3>1, <3>2
  <2>2. ASSUME NEW y \in DOMAIN R PROVE y \in Path
    BY <1>1, <1>4, <1>5, <1>6
  <2>3. QED
    BY <2>1, <2>2, RootedLeads
<1>11. ContentsOf(t) \subseteq ContentsOf(R)
  <2>1. ASSUME NEW x \in FilesOf(t) PROVE \E y \in FilesOf(R) : R[y].content = t[x].content
    <3>1. CASE x \in under
      <4>1. Carried(p, q, x) \in FilesOf(R) /\ R[Carried(p, q, x)] = t[x]
        BY <1>4, <1>9, <2>1, <3>1 DEF FilesOf, IsFile
      <4>2. QED
        BY <4>1
    <3>2. CASE x \notin under
      <4>1. x \in FilesOf(R) /\ R[x] = t[x]
        BY <1>8, <2>1, <3>2 DEF FilesOf, IsFile
      <4>2. QED
        BY <4>1
    <3>3. QED
      BY <3>1, <3>2
  <2>2. QED
    BY <2>1 DEF ContentsOf
<1>12. \A x \in DOMAIN t : Leads(p, x) \/ x \in DOMAIN R
  BY <1>2, <1>8
<1>13. QED
  BY <1>10, <1>11, <1>12 DEF R

-----------------------------------------------------------------------------
(* The invariant *)

Fields == {"at", "r", "content", "fi", "overwrite", "status", "walk"}
Transfers == {"MOVE", "COPY"}

\* No file of t is at q or below it.
Free(t, q) == \A f \in FilesOf(t) : ~Leads(q, f)

\* A walk stays below u, deeper at each level, and no name that is left leads
\* to a directory that was opened.
Level == [dir : Path, left : SUBSET Names]
WalkSound(u, walk) ==
  /\ walk \in Seq(Level)
  /\ \A k \in 1 .. Len(walk) : Leads(u, walk[k].dir)
  /\ \A k \in 1 .. Len(walk) : \A i \in 1 .. k - 1 :
       /\ Leads(walk[i].dir, walk[k].dir) /\ walk[i].dir # walk[k].dir
       /\ \A n \in walk[i].left : ~Leads(Append(walk[i].dir, n), walk[k].dir)

\* Where the entries go that are left, there is no file.
TargetsFree(t, j) ==
  \A i \in 1 .. Len(j.walk) : \A n \in j.walk[i].left : Free(t, Target(j, Append(j.walk[i].dir, n)))

\* A file at p has a content that is counted as spoiled.
Spoilt(t, s, p) == IsFile(t, p) => t[p].content \in s

\* What a handler relies on at the places where it changes files.
JobSound(j, t, s) ==
  j.at # "idle" =>
    /\ Fields \subseteq DOMAIN j /\ j.r \in DavRequests
    /\ j.at = "rename" => Spoilt(t, s, j.r.uri)
    /\ j.at = "record" => IsFile(t, j.r.uri)
    /\ j.at = "make" /\ j.overwrite => Spoilt(t, s, Dest(j.r))
    /\ j.at = "open" /\ j.r.method \in Transfers => Free(t, Dest(j.r))
    /\ j.at = "walk" => WalkSound(j.r.uri, j.walk) /\ (j.r.method \in Transfers => TargetsFree(t, j))

\* The files whose record is due.
Due == {jobs[w].r.uri : w \in {v \in Worker : jobs[v].at = "record"}}

ReplaySound ==
  \A p \in FilesOf(davTree) \cup replica :
    p \in blurred \cup Due \/ p[1] = Astray \/ (p \in FilesOf(davTree) /\ p \in replica)

DavInv ==
  /\ GivenBackInv
  /\ Rooted(davTree)
  /\ \A w \in Worker : JobSound(jobs[w], davTree, spoiled)
  /\ ContentsKept
  /\ ReplaySound

\* A step of the worker w.
Moves(w) ==
  /\ Rooted(davTree')
  /\ JobSound(jobs'[w], davTree', spoiled')
  /\ \A v \in Worker \ {w} : jobs'[v] = jobs[v]
  /\ ContentsKept'
  /\ ReplaySound'

-----------------------------------------------------------------------------
(* What changes keep *)

\* What was stored is kept when what is gone or overwritten is somewhere else.
LEMMA KeptBy ==
  ASSUME ContentsKept, NEW gone, NEW come, Changed(davTree, davTree', gone, come),
         stored' \subseteq stored \cup ContentsOf(davTree'), Backups \subseteq Backups',
         spoiled \subseteq spoiled',
         \A x \in FilesOf(davTree) \cap (gone \cup come) :
           davTree[x].content \in ContentsOf(davTree') \cup Backups' \cup spoiled' \cup BigContents
  PROVE  ContentsKept'
<1>1. ContentsOf(davTree) \subseteq ContentsOf(davTree') \cup Backups' \cup spoiled' \cup BigContents
  <2>1. ASSUME NEW x \in FilesOf(davTree)
        PROVE  davTree[x].content \in ContentsOf(davTree') \cup Backups' \cup spoiled' \cup BigContents
    <3>1. CASE x \in gone \cup come
      BY <3>1
    <3>2. CASE x \notin gone \cup come
      BY <3>2 DEF Changed, ContentsOf
    <3>3. QED
      BY <3>1, <3>2
  <2>2. QED
    BY <2>1 DEF ContentsOf
<1>2. QED
  BY <1>1 DEF ContentsKept

LEMMA SameBackups ==
  ASSUME versions' = versions
  PROVE  Backups' = Backups
BY DEF Backups

\* Without a change of the files, all that is said of them stays.
LEMMA FilesStay ==
  ASSUME NEW t, NEW u, Changed(t, u, {}, {})
  PROVE  /\ FilesOf(u) = FilesOf(t) /\ ContentsOf(u) = ContentsOf(t)
         /\ \A q : Free(t, q) <=> Free(u, q)
         /\ \A p : IsFile(t, p) <=> IsFile(u, p)
         /\ \A s, p : Spoilt(t, s, p) <=> Spoilt(u, s, p)
<1>1. FilesOf(u) = FilesOf(t) /\ \A x \in FilesOf(t) : u[x].content = t[x].content
  BY DEF Changed
<1>2. \A p : IsFile(t, p) <=> IsFile(u, p)
  BY <1>1 DEF FilesOf, IsFile
<1>3. \A p : IsFile(t, p) => p \in FilesOf(t)
  BY DEF FilesOf, IsFile
<1>4. \A s, p : Spoilt(t, s, p) <=> Spoilt(u, s, p)
  BY <1>1, <1>2, <1>3 DEF Spoilt
<1>5. \A q : Free(t, q) <=> Free(u, q)
  BY <1>1 DEF Free
<1>6. ContentsOf(u) = ContentsOf(t)
  BY <1>1 DEF ContentsOf
<1>7. QED
  BY <1>1, <1>2, <1>4, <1>5, <1>6

LEMMA SoundStays ==
  ASSUME NEW j, NEW t, NEW u, NEW s, NEW s2, Changed(t, u, {}, {}), s \subseteq s2, JobSound(j, t, s)
  PROVE  JobSound(j, u, s2)
<1>1. \A p : Spoilt(t, s, p) => Spoilt(u, s2, p)
  BY FilesStay DEF Spoilt
<1>2. TargetsFree(t, j) => TargetsFree(u, j)
  BY FilesStay DEF TargetsFree
<1>3. QED
  BY <1>1, <1>2, FilesStay DEF JobSound

\* A worker that waits relies on nothing.
LEMMA SoundIdle ==
  ASSUME NEW j, NEW t, NEW u, NEW s, NEW s2, JobSound(j, t, s), j.at \in {"idle", "lock"}
  PROVE  JobSound(j, u, s2)
BY DEF JobSound

\* A step of the holder of the lock, or one that changes no file, keeps the
\* invariant if it does so for the worker that takes it.
LEMMA HolderMoves ==
  ASSUME DavInv, NEW w \in Worker, spaceLock = w, Moves(w), GivenBackInv'
  PROVE  DavInv'
<1>1. ASSUME NEW v \in Worker PROVE JobSound(jobs'[v], davTree', spoiled')
  <2>1. CASE v = w
    BY <2>1 DEF Moves
  <2>2. CASE v # w
    <3>1. jobs[v].at \in {"idle", "lock"} /\ jobs'[v] = jobs[v]
      BY <2>2 DEF DavInv, GivenBackInv, LockGivenBack, Moves
    <3>2. QED
      BY <3>1, SoundIdle DEF DavInv
  <2>3. QED
    BY <2>1, <2>2
<1>2. QED
  BY <1>1 DEF DavInv, Moves

LEMMA OtherStays ==
  ASSUME DavInv, NEW w \in Worker, Moves(w), GivenBackInv',
         Changed(davTree, davTree', {}, {}), spoiled' = spoiled
  PROVE  DavInv'
<1>1. ASSUME NEW v \in Worker PROVE JobSound(jobs'[v], davTree', spoiled')
  <2>1. CASE v = w
    BY <2>1 DEF Moves
  <2>2. CASE v # w
    BY <2>2, SoundStays DEF DavInv, Moves
  <2>3. QED
    BY <2>1, <2>2
<1>2. QED
  BY <1>1 DEF DavInv, Moves

-----------------------------------------------------------------------------
(* The ways to change a job *)

LEMMA GotoDoes ==
  ASSUME JobsKept, NEW w \in Worker, Fields \subseteq DOMAIN jobs[w], NEW at, Goto(w, at)
  PROVE  /\ Fields \subseteq DOMAIN jobs'[w] /\ jobs'[w].at = at
         /\ jobs'[w].r = jobs[w].r /\ jobs'[w].overwrite = jobs[w].overwrite /\ jobs'[w].walk = jobs[w].walk
         /\ \A v \in Worker \ {w} : jobs'[v] = jobs[v]
BY DEF JobsKept, Goto, Fields

LEMMA FinishDoes ==
  ASSUME JobsKept, NEW w \in Worker, NEW code, Finish(w, code)
  PROVE  /\ jobs'[w].at = "idle" /\ JobSound(jobs'[w], davTree', spoiled')
         /\ \A v \in Worker \ {w} : jobs'[v] = jobs[v]
BY DEF JobsKept, Finish, IdleJob, JobSound

LEMMA JobHas ==
  ASSUME DavInv, NEW w \in Worker, jobs[w].at # "idle"
  PROVE  /\ JobsKept /\ Fields \subseteq DOMAIN jobs[w] /\ jobs[w].r \in DavRequests
         /\ JobSound(jobs[w], davTree, spoiled)
BY DEF DavInv, GivenBackInv, JobSound

LEMMA DestPath ==
  ASSUME NEW r \in DavRequests
  PROVE  /\ r.uri \in Path /\ r.dest \in Path /\ Dest(r) \in Path
         /\ \A p \in Path : Named(r, p) \in Path
         /\ \A p \in Path : r.escaped => Named(r, p)[1] = Astray
         /\ \A p : ~r.escaped => Named(r, p) = p
         /\ Dest(r) = Named(r, r.dest)
<1>1. r.uri \in Path /\ r.dest \in Path /\ Astray \in Names
  BY TreeAssumption
<1>2. ASSUME NEW p \in Path PROVE <<Astray>> \o p \in Path /\ (<<Astray>> \o p)[1] = Astray
  <2>1. p \in Seq(Names) /\ <<Astray>> \in Seq(Names) /\ Len(<<Astray>>) = 1 /\ <<Astray>>[1] = Astray
    BY <1>1 DEF Path
  <2>2. Len(p) \in Nat
    BY LenProperties DEF Path
  <2>3. <<Astray>> \o p \in Seq(Names)
    BY <2>1, ConcatProperties
  <2>4. (<<Astray>> \o p)[1] = <<Astray>>[1]
    BY <2>1, <2>2, ConcatProperties
  <2>5. QED
    BY <2>1, <2>3, <2>4 DEF Path
<1>3. QED
  BY <1>1, <1>2 DEF Named, Dest, dav_uri_to_path

-----------------------------------------------------------------------------
(* Steps that change no file *)

LEMMA DueStays ==
  ASSUME NEW w \in Worker, jobs[w].at # "record", \A v \in Worker \ {w} : jobs'[v] = jobs[v]
  PROVE  Due \subseteq Due'
<1>1. ASSUME NEW v \in Worker, jobs[v].at = "record" PROVE jobs'[v].at = "record" /\ jobs'[v].r.uri = jobs[v].r.uri
  BY <1>1
<1>2. QED
  BY <1>1 DEF Due

LEMMA StillMoves ==
  ASSUME DavInv, NEW w \in Worker, jobs[w].at # "record", \A v \in Worker \ {w} : jobs'[v] = jobs[v],
         Rooted(davTree'), Changed(davTree, davTree', {}, {}), JobSound(jobs'[w], davTree', spoiled'),
         stored' = stored, versions' = versions, spoiled \subseteq spoiled',
         replica' = replica, blurred \subseteq blurred'
  PROVE  Moves(w)
<1>1. ContentsKept'
  BY KeptBy, SameBackups DEF DavInv
<1>2. FilesOf(davTree') = FilesOf(davTree) /\ Due \subseteq Due'
  BY FilesStay, DueStays
<1>3. ReplaySound'
  BY <1>2 DEF DavInv, ReplaySound
<1>4. QED
  BY <1>1, <1>3 DEF Moves

LEMMA SameTree ==
  ASSUME NEW t
  PROVE  Changed(t, t, {}, {})
BY DEF Changed

LEMMA DirMade ==
  ASSUME NEW t, Rooted(t), NEW q \in Path, MkdirError(t, q) = ""
  PROVE  /\ q \notin DOMAIN t /\ Rooted(With(t, q, DirNode)) /\ Changed(t, With(t, q, DirNode), {}, {})
         /\ IsDir(With(t, q, DirNode), q)
<1>1. q \notin DOMAIN t
  BY DEF MkdirError
<1>2. q = << >> \/ IsDir(t, Parent(q))
  <2>1. SUFFICES ASSUME ~(q = << >> \/ IsDir(t, Parent(q))) PROVE FALSE
    OBVIOUS
  <2>2. Info(t, q) = ""
    BY <1>1, <2>1 DEF MkdirError
  <2>3. QED
    BY <1>1, <2>2 DEF Info
<1>3. Rooted(With(t, q, DirNode))
  BY <1>1, <1>2, WithRooted DEF IsDir
<1>4. Changed(t, With(t, q, DirNode), {q}, {})
  <2>1. DirNode.kind # "file"
    BY DEF DirNode
  <2>2. QED
    BY <2>1, WithOther
<1>5. q \notin FilesOf(t)
  BY <1>1 DEF FilesOf
<1>6. Changed(t, With(t, q, DirNode), {}, {})
  BY <1>4, <1>5 DEF Changed
<1>7. IsDir(With(t, q, DirNode), q)
  BY DEF IsDir, With, DirNode
<1>8. QED
  BY <1>1, <1>3, <1>6, <1>7

LEMMA RequestMoves ==
  ASSUME DavInv, NEW w \in Worker, Idle(w), NEW r \in DavRequests,
         Decline(w, r) \/ Refuse(w, r) \/ MakeCollection(w, r) \/ Accept(w, r)
  PROVE  Moves(w) /\ Changed(davTree, davTree', {}, {}) /\ spoiled' = spoiled
<1>1. /\ stored' = stored /\ versions' = versions /\ spoiled' = spoiled /\ replica' = replica
      /\ blurred' = blurred
  BY DEF Decline, Refuse, MakeCollection, Accept
<1>2. jobs[w].at # "record" /\ JobsKept /\ Rooted(davTree)
  BY DEF Idle, DavInv, GivenBackInv
<1>3. Rooted(davTree') /\ Changed(davTree, davTree', {}, {})
  <2>1. CASE Decline(w, r) \/ Refuse(w, r) \/ Accept(w, r)
    BY <1>2, <2>1, SameTree DEF Decline, Refuse, Accept
  <2>2. CASE MakeCollection(w, r)
    <3>1. r.uri \in Path
      BY TreeAssumption
    <3>2. \/ MkdirError(davTree, r.uri) = "" /\ davTree' = With(davTree, r.uri, DirNode)
          \/ davTree' = davTree
      BY <2>2 DEF MakeCollection
    <3>3. QED
      BY <1>2, <3>1, <3>2, DirMade, SameTree
  <2>3. QED
    BY <2>1, <2>2
<1>4. JobSound(jobs'[w], davTree', spoiled') /\ \A v \in Worker \ {w} : jobs'[v] = jobs[v]
  <2>1. CASE Decline(w, r) \/ Refuse(w, r) \/ MakeCollection(w, r)
    <3>1. \E code : Finish(w, code)
      BY ZenonT(40), <2>1 DEF Decline, Refuse, MakeCollection
    <3>2. QED
      BY <1>2, <3>1, FinishDoes
  <2>2. CASE Accept(w, r)
    <3>1. jobs'[w].at = "lock" /\ Fields \subseteq DOMAIN jobs'[w] /\ jobs'[w].r = r
      BY <1>2, <2>2 DEF Accept, JobsKept, Fields
    <3>2. \A v \in Worker \ {w} : jobs'[v] = jobs[v]
      BY <1>2, <2>2 DEF Accept, JobsKept
    <3>3. QED
      BY <3>1, <3>2 DEF JobSound
  <2>3. QED
    BY <2>1, <2>2
<1>5. QED
  BY <1>1, <1>2, <1>3, <1>4, StillMoves

LEMMA LockMoves ==
  ASSUME DavInv, NEW w \in Worker, Lock(w) \/ LockFails(w)
  PROVE  Moves(w) /\ Changed(davTree, davTree', {}, {}) /\ spoiled' = spoiled
<1>1. /\ stored' = stored /\ versions' = versions /\ spoiled' = spoiled /\ replica' = replica
      /\ blurred' = blurred /\ davTree' = davTree /\ jobs[w].at = "lock"
  BY DEF Lock, LockFails
<1>2. JobsKept /\ Rooted(davTree) /\ Changed(davTree, davTree', {}, {})
  BY <1>1, SameTree DEF DavInv, GivenBackInv
<1>3. JobSound(jobs'[w], davTree', spoiled') /\ \A v \in Worker \ {w} : jobs'[v] = jobs[v]
  <2>1. CASE Lock(w)
    <3>1. Goto(w, FirstStep(jobs[w])) /\ Fields \subseteq DOMAIN jobs[w] /\ jobs[w].r \in DavRequests
      BY <1>1, <2>1, JobHas DEF Lock
    <3>2. /\ Fields \subseteq DOMAIN jobs'[w] /\ jobs'[w].at = FirstStep(jobs[w])
          /\ jobs'[w].r = jobs[w].r /\ jobs'[w].overwrite = jobs[w].overwrite
          /\ \A v \in Worker \ {w} : jobs'[v] = jobs[v]
      BY <1>2, <3>1, GotoDoes
    <3>3. /\ FirstStep(jobs[w]) \in {"look", "open", "erase", "make"}
          /\ FirstStep(jobs[w]) = "make" => ~jobs[w].overwrite
          /\ FirstStep(jobs[w]) = "open" => jobs[w].r.method = "DELETE"
      BY DEF FirstStep
    <3>4. QED
      BY <3>1, <3>2, <3>3 DEF JobSound, Transfers
  <2>2. CASE LockFails(w)
    <3>1. \E code : Finish(w, code)
      BY <2>2 DEF LockFails
    <3>2. QED
      BY <1>2, <3>1, FinishDoes
  <2>3. QED
    BY <2>1, <2>2
<1>4. QED
  BY <1>1, <1>2, <1>3, StillMoves

-----------------------------------------------------------------------------
(* Deletion *)

LEMMA NoneDue ==
  ASSUME DavInv, NEW w \in Worker, spaceLock = w, jobs[w].at # "record"
  PROVE  Due = {}
BY DEF DavInv, GivenBackInv, LockGivenBack, Due

LEMMA BelowFile ==
  ASSUME Rooted(davTree), NEW p \in Path, IsFile(davTree, p)
  PROVE  Below(p) = {p}
<1>1. p \in DOMAIN davTree /\ ~IsDir(davTree, p)
  BY DEF IsFile, IsDir
<1>2. \A x \in DOMAIN davTree : Leads(p, x) <=> x = p
  BY <1>1, NothingBelow, LeadsSelf
<1>3. QED
  BY <1>1, <1>2 DEF Below

\* What cloud_delete may have come to.
Outcome(result, r, p) ==
  /\ result.gone \in BOOLEAN /\ result.saved \in BOOLEAN
  /\ result.gone => ~r.escaped /\ p \in DOMAIN davTree /\ result.ok
  /\ result.saved => result.gone /\ ~TooBig(p)
  /\ result.gone => result.saved \/ ~IsDir(davTree, p)

LEMMA OutcomeIs ==
  ASSUME NEW r, NEW p, NEW result \in cloud_delete(r, p)
  PROVE  Outcome(result, r, p)
<1> DEFINE kept   == [gone |-> FALSE, ok |-> TRUE, saved |-> FALSE]
           failed == [gone |-> FALSE, ok |-> FALSE, saved |-> FALSE]
           backed == [gone |-> TRUE, ok |-> TRUE, saved |-> TRUE]
           gone   == [gone |-> TRUE, ok |-> TRUE, saved |-> FALSE]
<1>1. CASE r.escaped \/ p \notin DOMAIN davTree
  <2>1. result = kept
    BY <1>1 DEF cloud_delete
  <2>2. QED
    BY <2>1 DEF Outcome
<1>2. CASE ~(r.escaped \/ p \notin DOMAIN davTree)
  <2>1. \/ result = kept
        \/ ~TooBig(p) /\ result \in {failed, backed}
        \/ ~IsDir(davTree, p) /\ result = gone
    BY <1>2 DEF cloud_delete
  <2>2. CASE result = kept
    BY <2>2 DEF Outcome
  <2>3. CASE ~TooBig(p) /\ result = failed
    BY <2>3 DEF Outcome
  <2>4. CASE ~TooBig(p) /\ result = backed
    BY <1>2, <2>4 DEF Outcome
  <2>5. CASE ~IsDir(davTree, p) /\ result = gone
    BY <1>2, <2>5 DEF Outcome
  <2>6. QED
    BY <2>1, <2>2, <2>3, <2>4, <2>5
<1>3. QED
  BY <1>1, <1>2

LEMMA DeletionChanges ==
  ASSUME Rooted(davTree), NEW r, NEW p \in Path, NEW result \in cloud_delete(r, p), NEW recorded,
         Deletion(r, p, result, recorded)
  PROVE  /\ Rooted(davTree')
         /\ result.gone => /\ Changed(davTree, davTree', Below(p), {})
                           /\ ~r.escaped /\ p \in Below(p) /\ result.ok
         /\ ~result.gone => davTree' = davTree
         /\ result.gone \in BOOLEAN
<1>1. /\ result.gone \in BOOLEAN
      /\ result.gone => ~r.escaped /\ p \in DOMAIN davTree /\ result.ok
  BY OutcomeIs DEF Outcome
<1>2. CASE result.gone
  <2>1. davTree' = Without(davTree, Below(p))
    BY <1>2 DEF Deletion
  <2>2. ASSUME NEW z \in DOMAIN davTree \cap Below(p), NEW x \in DOMAIN davTree, Leads(z, x) PROVE x \in Below(p)
    <3>1. z \in Path /\ x \in Path /\ Leads(p, z)
      BY RootedLeads DEF Below
    <3>2. QED
      BY <2>2, <3>1, LeadsOn DEF Below
  <2>3. Rooted(Without(davTree, Below(p))) /\ Changed(davTree, Without(davTree, Below(p)), Below(p), {})
    BY <2>2, WithoutRooted
  <2>4. p \in Below(p)
    BY <1>1, <1>2, LeadsSelf DEF Below
  <2>5. QED
    BY <1>1, <1>2, <2>1, <2>3, <2>4
<1>3. CASE ~result.gone
  BY <1>1, <1>3 DEF Deletion
<1>4. QED
  BY <1>1, <1>2, <1>3

\* What the version store has is never taken back, but for the files that one of
\* their name replaces.
LEMMA DeletionBackups ==
  ASSUME NEW r, NEW p, NEW result \in cloud_delete(r, p), NEW recorded, Deletion(r, p, result, recorded)
  PROVE  /\ Backups \subseteq Backups'
         /\ result.saved => Backed(p) \subseteq Backups'
         /\ ~result.saved /\ Known(p) => Unsaved(p, result) \subseteq Backups'
<1>1. CASE result.saved
  <2>1. PICK twins \in SUBSET Namesakes(p) : versions' = VersionsAfter(p, twins)
    BY <1>1 DEF Deletion
  <2> DEFINE new == [path |-> p, contents |-> Backed(p), spared |-> UNION {v.contents : v \in twins}]
             next(v) == [path |-> v.path, contents |-> IF v \in twins THEN Backed(p) ELSE v.contents,
                         spared |-> v.spared]
  <2>2. new \in versions' /\ \A v \in versions : next(v) \in versions'
    BY <2>1 DEF VersionsAfter
  <2>3. /\ new.contents = Backed(p) /\ new.spared = UNION {v.contents : v \in twins}
        /\ \A v \in versions : next(v).spared = v.spared /\ (v \notin twins => next(v).contents = v.contents)
    OBVIOUS
  <2> HIDE DEF new, next
  <2>4. new.contents \cup new.spared \subseteq Backups'
    BY <2>2 DEF Backups
  <2>5. ASSUME NEW v \in versions PROVE v.contents \cup v.spared \subseteq Backups'
    <3>1. next(v).contents \cup next(v).spared \subseteq Backups'
      BY <2>2 DEF Backups
    <3>2. v \in twins => v.contents \subseteq new.spared
      BY <2>3
    <3>3. QED
      BY <2>3, <2>4, <3>1, <3>2
  <2>6. QED
    BY <1>1, <2>3, <2>4, <2>5 DEF Backups
<1>2. CASE ~result.saved
  <2> DEFINE next(v) == [path |-> v.path, contents |-> v.contents,
                         spared |-> v.spared \cup (IF v.path = p THEN Unsaved(p, result) ELSE {})]
  <2>1. \A v \in versions : next(v) \in versions'
    BY <1>2 DEF Deletion, Spared
  <2>2. \A v \in versions : /\ next(v).contents = v.contents /\ v.spared \subseteq next(v).spared
                            /\ v.path = p => Unsaved(p, result) \subseteq next(v).spared
    OBVIOUS
  <2> HIDE DEF next
  <2>3. \A v \in versions : next(v).contents \cup next(v).spared \subseteq Backups'
    BY <2>1 DEF Backups
  <2>4. Known(p) => Unsaved(p, result) \subseteq Backups'
    BY <2>2, <2>3 DEF Known
  <2>5. Backups \subseteq Backups'
    BY <2>2, <2>3 DEF Backups
  <2>6. QED
    BY <1>2, <2>4, <2>5
<1>3. QED
  BY <1>1, <1>2

LEMMA DeletionKeeps ==
  ASSUME DavInv, NEW r \in DavRequests, NEW p \in Path, NEW result \in cloud_delete(r, p), NEW recorded,
         Deletion(r, p, result, recorded), result.gone => recorded,
         spoiled \cup Unlogged(p, result) \subseteq spoiled', Due = {}
  PROVE  /\ Rooted(davTree') /\ ContentsKept' /\ ReplaySound'
         /\ \A x : IsFile(davTree', x) => IsFile(davTree, x) /\ davTree'[x] = davTree[x]
         /\ result.gone => ~IsFile(davTree', p)
<1>1. Rooted(davTree) /\ ContentsKept /\ ReplaySound
  BY DEF DavInv
<1>2. /\ Rooted(davTree') /\ result.gone \in BOOLEAN
      /\ result.gone => Changed(davTree, davTree', Below(p), {}) /\ ~r.escaped /\ p \in Below(p)
      /\ ~result.gone => davTree' = davTree
  BY <1>1, DeletionChanges
<1>3. /\ stored' = stored /\ Backups \subseteq Backups' /\ blurred \subseteq blurred'
      /\ spoiled \subseteq spoiled'
  BY DeletionBackups DEF Deletion
<1>4. ContentsKept'
  <2>1. CASE result.gone
    <3>1. ASSUME NEW x \in FilesOf(davTree) \cap (Below(p) \cup {})
          PROVE  davTree[x].content \in ContentsOf(davTree') \cup Backups' \cup spoiled' \cup BigContents
      <4>1. x \in Below(p) /\ IsFile(davTree, x)
        BY DEF FilesOf
      <4>2. CASE result.saved
        <5>1. davTree[x].content \in Backed(p)
          BY DEF Backed
        <5>2. QED
          BY <4>2, <5>1, DeletionBackups
      <4>3. CASE ~result.saved
        <5>1. x = p
          <6>1. p \in DOMAIN davTree /\ ~IsDir(davTree, p)
            BY <2>1, <4>3, OutcomeIs DEF Outcome
          <6>2. QED
            BY <1>1, <4>1, <6>1, NothingBelow DEF Below
        <5>2. CASE TooBig(p)
          BY <5>1, <5>2 DEF TooBig
        <5>3. CASE ~TooBig(p)
          <6>1. davTree[x].content \in Unsaved(p, result)
            BY <2>1, <4>1, <4>3, <5>1, <5>3 DEF Unsaved
          <6>2. CASE Known(p)
            BY <4>3, <6>1, <6>2, DeletionBackups
          <6>3. CASE ~Known(p)
            BY <6>1, <6>3 DEF Unlogged
          <6>4. QED
            BY <6>2, <6>3
        <5>4. QED
          BY <5>2, <5>3
      <4>4. QED
        BY <4>2, <4>3
    <3>2. QED
      BY <1>1, <1>2, <1>3, <2>1, <3>1, KeptBy
  <2>2. CASE ~result.gone
    BY <1>1, <1>2, <1>3, <2>2, SameTree, KeptBy
  <2>3. QED
    BY <2>1, <2>2
<1>5. ReplaySound'
  <2>1. (recorded /\ replica' = replica \ {Named(r, p)}) \/ replica' = replica
    BY DEF Deletion
  <2>2. \A x \in FilesOf(davTree) \cup replica :
          x \in blurred \/ x[1] = Astray \/ (x \in FilesOf(davTree) /\ x \in replica)
    BY <1>1 DEF ReplaySound
  <2>3. (r.escaped => Named(r, p)[1] = Astray) /\ (~r.escaped => Named(r, p) = p)
    BY DestPath
  <2>4. CASE result.gone
    <3>1. FilesOf(davTree') = FilesOf(davTree) \ Below(p) /\ p \in Below(p)
      BY <1>2, <2>4 DEF Changed
    <3>2. replica' = replica \ {p}
      BY <1>2, <2>3, <2>4 DEF Deletion
    <3>3. Below(p) = {p} \/ Below(p) \subseteq blurred'
      <4>1. CASE IsFile(davTree, p)
        BY <1>1, <4>1, BelowFile
      <4>2. CASE ~IsFile(davTree, p)
        <5>1. result.gone # IsFile(davTree, p)
          BY <2>4, <4>2
        <5>2. QED
          BY <5>1 DEF Deletion
      <4>3. QED
        BY <4>1, <4>2
    <3>4. QED
      BY <1>3, <2>2, <3>1, <3>2, <3>3 DEF ReplaySound
  <2>5. CASE ~result.gone
    <3>1. FilesOf(davTree') = FilesOf(davTree)
      BY <1>2, <2>5
    <3>2. p \in FilesOf(davTree) => p \in blurred'
      <4>1. SUFFICES ASSUME p \in FilesOf(davTree) PROVE p \in blurred'
        OBVIOUS
      <4>2. IsFile(davTree, p)
        BY <4>1 DEF FilesOf
      <4>3. Below(p) = {p}
        BY <1>1, <4>2, BelowFile
      <4>4. result.gone # IsFile(davTree, p)
        BY <2>5, <4>2
      <4>5. QED
        BY <4>3, <4>4 DEF Deletion
    <3>3. QED
      BY <1>3, <2>1, <2>2, <2>3, <3>1, <3>2 DEF ReplaySound
  <2>6. QED
    BY <2>4, <2>5
<1>6. \A x : IsFile(davTree', x) => IsFile(davTree, x) /\ davTree'[x] = davTree[x]
  <2>1. CASE result.gone
    BY <2>1 DEF Deletion, Without, IsFile
  <2>2. CASE ~result.gone
    BY <1>2, <2>2
  <2>3. QED
    BY <2>1, <2>2
<1>7. result.gone => ~IsFile(davTree', p)
  BY <1>2 DEF Deletion, Without, IsFile
<1>8. QED
  BY <1>2, <1>4, <1>5, <1>6, <1>7

LEMMA EraseMoves ==
  ASSUME DavInv, NEW w \in Worker, Erase(w)
  PROVE  Moves(w)
<1>1. /\ JobsKept /\ Fields \subseteq DOMAIN jobs[w] /\ jobs[w].r \in DavRequests
      /\ spaceLock = w /\ jobs[w].at = "erase"
  BY JobHas DEF Erase, Working
<1> DEFINE r == jobs[w].r
           p == IF r.method = "DELETE" THEN r.uri ELSE Dest(r)
<1>2. PICK result \in cloud_delete(r, p) :
        /\ Deletion(r, p, result, result.ok)
        /\ spoiled' = spoiled \cup Left(p, result) \cup Unlogged(p, result)
        /\ IF ~result.ok THEN Leave(w, dav_http_errno("EIO", 404))
           ELSE IF r.method = "DELETE" THEN Leave(w, 204)
           ELSE Goto(w, "make") /\ UNCHANGED spaceLock
  BY DEF Erase
<1>3. Due = {} /\ p \in Path /\ Rooted(davTree)
  BY <1>1, NoneDue, DestPath DEF DavInv
<1>4. result.gone => result.ok
  BY OutcomeIs DEF Outcome
<1>5. /\ Rooted(davTree') /\ ContentsKept' /\ ReplaySound'
      /\ \A x : IsFile(davTree', x) => IsFile(davTree, x) /\ davTree'[x] = davTree[x]
      /\ result.gone => ~IsFile(davTree', p)
  <2>1. spoiled \cup Unlogged(p, result) \subseteq spoiled'
    BY <1>2
  <2> HIDE DEF p
  <2>2. QED
    BY <1>1, <1>2, <1>3, <1>4, <2>1, DeletionKeeps
<1>6. JobSound(jobs'[w], davTree', spoiled') /\ \A v \in Worker \ {w} : jobs'[v] = jobs[v]
  <2>1. CASE ~result.ok \/ r.method = "DELETE"
    <3>1. \E code : Finish(w, code)
      BY <1>2, <2>1 DEF Leave
    <3>2. QED
      BY <1>1, <3>1, FinishDoes
  <2>2. CASE result.ok /\ r.method # "DELETE"
    <3>1. Goto(w, "make") /\ p = Dest(r)
      BY <1>2, <2>2
    <3>2. /\ Fields \subseteq DOMAIN jobs'[w] /\ jobs'[w].at = "make" /\ jobs'[w].r = r
          /\ \A v \in Worker \ {w} : jobs'[v] = jobs[v]
      BY <1>1, <3>1, GotoDoes
    <3>3. Spoilt(davTree', spoiled', p)
      <4>1. SUFFICES ASSUME IsFile(davTree', p) PROVE davTree'[p].content \in spoiled'
        BY DEF Spoilt
      <4>2. IsFile(davTree, p) /\ davTree'[p] = davTree[p] /\ ~result.gone
        BY <1>5, <4>1
      <4>3. QED
        BY <1>2, <4>2 DEF Left
    <3>4. QED
      BY <1>1, <3>1, <3>2, <3>3 DEF JobSound
  <2>3. QED
    BY <2>1, <2>2
<1>7. QED
  BY <1>5, <1>6 DEF Moves

-----------------------------------------------------------------------------
(* PUT *)

LEMMA PutLookMoves ==
  ASSUME DavInv, NEW w \in Worker, PutLook(w)
  PROVE  Moves(w)
<1>1. /\ JobsKept /\ Fields \subseteq DOMAIN jobs[w] /\ jobs[w].r \in DavRequests
      /\ spaceLock = w /\ jobs[w].at = "look"
  BY JobHas DEF PutLook, Working
<1> DEFINE r == jobs[w].r
<1>2. Due = {} /\ r.uri \in Path /\ Rooted(davTree)
  BY <1>1, NoneDue, DestPath DEF DavInv
<1>3. ASSUME NEW status, jobs' = [jobs EXCEPT ![w].at = "rename", ![w].status = status],
             Spoilt(davTree', spoiled', r.uri)
      PROVE  JobSound(jobs'[w], davTree', spoiled') /\ \A v \in Worker \ {w} : jobs'[v] = jobs[v]
  <2>1. /\ Fields \subseteq DOMAIN jobs'[w] /\ jobs'[w].at = "rename" /\ jobs'[w].r = r
        /\ \A v \in Worker \ {w} : jobs'[v] = jobs[v]
    BY <1>1, <1>3 DEF JobsKept, Fields
  <2>2. QED
    BY <1>1, <1>3, <2>1 DEF JobSound
<1>4. CASE /\ Info(davTree, r.uri) \in Missing
           /\ jobs' = [jobs EXCEPT ![w].at = "rename", ![w].status = 201]
           /\ UNCHANGED <<davTree, versions, replica, spaceLock, asked, stored, spoiled, blurred>>
  <2>1. ~IsFile(davTree, r.uri)
    BY <1>4 DEF Info, Missing, IsFile
  <2>2. Spoilt(davTree', spoiled', r.uri)
    BY <1>4, <2>1 DEF Spoilt
  <2>3. QED
    BY <1>1, <1>2, <1>3, <1>4, <2>2, SameTree, StillMoves
<1>5. CASE /\ Leave(w, 409)
           /\ UNCHANGED <<davTree, versions, replica, asked, stored, spoiled, blurred>>
  <2>1. JobSound(jobs'[w], davTree', spoiled') /\ \A v \in Worker \ {w} : jobs'[v] = jobs[v]
    BY <1>1, <1>5, FinishDoes DEF Leave
  <2>2. QED
    BY <1>1, <1>2, <1>5, <2>1, SameTree, StillMoves
<1>6. CASE /\ \E result \in cloud_delete(r, r.uri) :
                 /\ Deletion(r, r.uri, result, result.ok)
                 /\ spoiled' = spoiled \cup Left(r.uri, result) \cup Unlogged(r.uri, result)
           /\ jobs' = [jobs EXCEPT ![w].at = "rename", ![w].status = 204]
  <2>1. PICK result \in cloud_delete(r, r.uri) :
           /\ Deletion(r, r.uri, result, result.ok)
           /\ spoiled' = spoiled \cup Left(r.uri, result) \cup Unlogged(r.uri, result)
    BY <1>6
  <2>2. result.gone => result.ok
    BY <1>2, <2>1, DeletionChanges
  <2>3. spoiled \cup Unlogged(r.uri, result) \subseteq spoiled'
    BY <2>1
  <2>4. /\ Rooted(davTree') /\ ContentsKept' /\ ReplaySound'
        /\ \A x : IsFile(davTree', x) => IsFile(davTree, x) /\ davTree'[x] = davTree[x]
        /\ result.gone => ~IsFile(davTree', r.uri)
    BY <1>1, <1>2, <2>1, <2>2, <2>3, DeletionKeeps
  <2>5. Spoilt(davTree', spoiled', r.uri)
    <3>1. SUFFICES ASSUME IsFile(davTree', r.uri) PROVE davTree'[r.uri].content \in spoiled'
      BY DEF Spoilt
    <3>2. IsFile(davTree, r.uri) /\ davTree'[r.uri] = davTree[r.uri] /\ ~result.gone
      BY <2>4, <3>1
    <3>3. QED
      BY <2>1, <3>2 DEF Left
  <2>6. JobSound(jobs'[w], davTree', spoiled') /\ \A v \in Worker \ {w} : jobs'[v] = jobs[v]
    <3>1. jobs' = [jobs EXCEPT ![w].at = "rename", ![w].status = 204]
      BY <1>6
    <3>2. QED
      BY <1>3, <2>5, <3>1
  <2>7. QED
    BY <2>4, <2>6 DEF Moves
<1>7. QED
  BY <1>4, <1>5, <1>6 DEF PutLook

LEMMA PutRenameMoves ==
  ASSUME DavInv, NEW w \in Worker, PutRename(w)
  PROVE  Moves(w)
<1>1. /\ JobsKept /\ Fields \subseteq DOMAIN jobs[w] /\ jobs[w].r \in DavRequests
      /\ spaceLock = w /\ jobs[w].at = "rename"
  BY JobHas DEF PutRename, Working
<1> DEFINE u == jobs[w].r.uri
           t == IF CreateFullPutPath THEN PathMade(davTree, u) ELSE davTree
           new == With(t, u, FileNode(jobs[w].content))
<1>2. Due = {} /\ u \in Path /\ Rooted(davTree) /\ ContentsKept /\ ReplaySound
  BY <1>1, NoneDue, DestPath DEF DavInv
<1>3. Rooted(t) /\ Changed(davTree, t, {}, {})
  BY <1>2, PathMadeRooted, SameTree
<1>4. versions' = versions /\ replica' = replica /\ spoiled' = spoiled
  BY DEF PutRename
<1>5. \/ /\ Open(t, u) /\ davTree' = new /\ stored' = stored \cup {jobs[w].content}
         /\ \/ Goto(w, "record") /\ blurred' = blurred
            \/ Leave(w, 500) /\ blurred' = blurred \cup {u}
      \/ davTree' = t /\ Leave(w, 500) /\ stored' = stored /\ blurred' = blurred
  BY DEF PutRename
<1>6. CASE /\ Open(t, u) /\ davTree' = new /\ stored' = stored \cup {jobs[w].content}
           /\ \/ Goto(w, "record") /\ blurred' = blurred
              \/ Leave(w, 500) /\ blurred' = blurred \cup {u}
  <2>1. FileNode(jobs[w].content).kind = "file" /\ FileNode(jobs[w].content).content = jobs[w].content
    BY DEF FileNode
  <2>2. /\ Rooted(new) /\ Changed(t, new, {}, {u}) /\ new[u] = FileNode(jobs[w].content)
    <3> HIDE DEF t
    <3>1. IsDir(t, Parent(u)) /\ ~IsDir(t, u)
      BY <1>6 DEF Open
    <3>2. Rooted(new)
      BY <1>2, <1>3, <3>1, WithRooted
    <3>3. Changed(t, new, {}, {u}) /\ new[u] = FileNode(jobs[w].content)
      BY <2>1, WithFile
    <3>4. QED
      BY <3>2, <3>3
  <2>3. Changed(davTree, davTree', {}, {u}) /\ Rooted(davTree') /\ davTree'[u] = FileNode(jobs[w].content)
    <3> HIDE DEF new, t
    <3>1. QED
      BY <1>3, <1>6, <2>2 DEF Changed
  <2>4. FilesOf(davTree') = FilesOf(davTree) \cup {u} /\ IsFile(davTree', u)
    BY <2>1, <2>3 DEF Changed, FilesOf
  <2>5. ContentsKept'
    <3>1. stored' \subseteq stored \cup ContentsOf(davTree')
      BY <1>6, <2>1, <2>3, <2>4 DEF ContentsOf
    <3>2. ASSUME NEW x \in FilesOf(davTree) \cap ({} \cup {u})
          PROVE  davTree[x].content \in ContentsOf(davTree') \cup Backups' \cup spoiled' \cup BigContents
      <4>1. IsFile(davTree, u) /\ x = u /\ Spoilt(davTree, spoiled, u)
        BY <1>1, JobHas DEF JobSound, FilesOf
      <4>2. QED
        BY <1>4, <4>1 DEF Spoilt
    <3>3. QED
      BY <1>2, <1>4, <2>3, <3>1, <3>2, KeptBy, SameBackups
  <2>6. CASE Goto(w, "record") /\ blurred' = blurred
    <3>1. /\ Fields \subseteq DOMAIN jobs'[w] /\ jobs'[w].at = "record" /\ jobs'[w].r = jobs[w].r
          /\ \A v \in Worker \ {w} : jobs'[v] = jobs[v]
      BY <1>1, <2>6, GotoDoes
    <3>2. JobSound(jobs'[w], davTree', spoiled')
      BY <1>1, <2>4, <3>1 DEF JobSound
    <3>3. u \in Due'
      BY <3>1 DEF Due
    <3>4. ReplaySound'
      BY <1>2, <1>4, <2>4, <2>6, <3>3 DEF ReplaySound
    <3>5. QED
      BY <2>3, <2>5, <3>1, <3>2, <3>4 DEF Moves
  <2>7. CASE Leave(w, 500) /\ blurred' = blurred \cup {u}
    <3>1. JobSound(jobs'[w], davTree', spoiled') /\ \A v \in Worker \ {w} : jobs'[v] = jobs[v]
      BY <1>1, <2>7, FinishDoes DEF Leave
    <3>2. ReplaySound'
      BY <1>2, <1>4, <2>4, <2>7 DEF ReplaySound
    <3>3. QED
      BY <2>3, <2>5, <3>1, <3>2 DEF Moves
  <2>8. QED
    BY <1>6, <2>6, <2>7
<1>7. CASE davTree' = t /\ Leave(w, 500) /\ stored' = stored /\ blurred' = blurred
  <2>1. JobSound(jobs'[w], davTree', spoiled') /\ \A v \in Worker \ {w} : jobs'[v] = jobs[v]
    BY <1>1, <1>7, FinishDoes DEF Leave
  <2> HIDE DEF t
  <2>2. Rooted(davTree') /\ Changed(davTree, davTree', {}, {}) /\ jobs[w].at # "record"
    BY <1>1, <1>3, <1>7
  <2>3. QED
    BY <1>4, <1>7, <2>1, <2>2, StillMoves
<1>8. QED
  BY <1>5, <1>6, <1>7

LEMMA PutRecordMoves ==
  ASSUME DavInv, NEW w \in Worker, PutRecord(w)
  PROVE  Moves(w)
<1>1. /\ JobsKept /\ jobs[w].r \in DavRequests /\ spaceLock = w /\ jobs[w].at = "record"
      /\ JobSound(jobs[w], davTree, spoiled)
  BY JobHas DEF PutRecord, Working
<1> DEFINE r == jobs[w].r
<1>2. Due \subseteq {r.uri}
  BY <1>1 DEF DavInv, GivenBackInv, LockGivenBack, Due
<1>3. r.uri \in FilesOf(davTree)
  BY <1>1 DEF JobSound, FilesOf, IsFile
<1>4. /\ davTree' = davTree /\ stored' = stored /\ versions' = versions /\ spoiled' = spoiled
      /\ replica' = replica \cup {Named(r, r.uri)}
      /\ blurred' = blurred \cup (IF r.escaped THEN {r.uri} ELSE {})
      /\ Leave(w, jobs[w].status)
  BY DEF PutRecord
<1>5. ContentsKept' /\ Rooted(davTree')
  BY <1>4, SameBackups DEF DavInv, ContentsKept
<1>6. (r.escaped => Named(r, r.uri)[1] = Astray) /\ (~r.escaped => Named(r, r.uri) = r.uri)
  BY <1>1, DestPath
<1>7. ReplaySound'
  <2>1. \A x \in FilesOf(davTree) \cup replica :
          x \in blurred \cup {r.uri} \/ x[1] = Astray \/ (x \in FilesOf(davTree) /\ x \in replica)
    BY <1>2 DEF DavInv, ReplaySound
  <2>2. CASE r.escaped
    <3>1. Named(r, r.uri)[1] = Astray /\ r.uri \in blurred'
      BY <1>4, <1>6, <2>2
    <3>2. QED
      BY <1>4, <2>1, <3>1 DEF ReplaySound
  <2>3. CASE ~r.escaped
    <3>1. replica' = replica \cup {r.uri} /\ blurred \subseteq blurred'
      BY <1>4, <1>6, <2>3
    <3>2. QED
      BY <1>3, <1>4, <2>1, <3>1 DEF ReplaySound
  <2>4. QED
    BY <2>2, <2>3
<1>8. JobSound(jobs'[w], davTree', spoiled') /\ \A v \in Worker \ {w} : jobs'[v] = jobs[v]
  BY <1>1, <1>4, FinishDoes DEF Leave
<1>9. QED
  BY <1>5, <1>7, <1>8 DEF Moves

-----------------------------------------------------------------------------
(* MOVE and COPY of one file *)

LEMMA AllBlurred ==
  ASSUME ReplaySound, Due = {}, NEW p, NEW dest, NEW gone,
         replica' = (replica \ gone) \cup {dest},
         blurred \cup Below(p) \cup DOMAIN davTree' \cup {dest} \subseteq blurred',
         \A x \in DOMAIN davTree : x \in Below(p) \/ x \in DOMAIN davTree'
  PROVE  ReplaySound'
<1>1. FilesOf(davTree) \subseteq blurred' /\ FilesOf(davTree') \subseteq blurred'
  BY DEF FilesOf
<1>2. \A x \in replica : x \in blurred \/ x[1] = Astray \/ x \in FilesOf(davTree)
  BY DEF ReplaySound
<1>3. QED
  BY <1>1, <1>2 DEF ReplaySound

LEMMA MoveOneMoves ==
  ASSUME DavInv, NEW w \in Worker, MoveOne(w)
  PROVE  Moves(w)
<1>1. /\ JobsKept /\ jobs[w].r \in DavRequests /\ spaceLock = w /\ jobs[w].at = "make"
      /\ JobSound(jobs[w], davTree, spoiled)
  BY JobHas DEF MoveOne, Working
<1> DEFINE r == jobs[w].r
           p == r.uri
           q == Dest(r)
           t == PathMade(davTree, q)
           R == Renamed(t, p, q)
           cost == IF jobs[w].overwrite THEN {} ELSE Overrun(q)
           smear == IF r.escaped \/ ~IsFile(davTree, p) THEN Below(p) \cup DOMAIN davTree' \cup {r.dest} ELSE {}
<1>2. /\ Due = {} /\ p \in Path /\ q \in Path /\ Rooted(davTree) /\ ContentsKept /\ ReplaySound
  BY <1>1, NoneDue, DestPath DEF DavInv
<1>3. /\ Rooted(t) /\ Changed(davTree, t, {}, {})
      /\ DOMAIN davTree \subseteq DOMAIN t /\ \A x \in DOMAIN davTree : t[x] = davTree[x]
  BY <1>2, PathMadeRooted
<1>4. \/ /\ CanRename(t, p, q) /\ davTree' = R
         /\ replica' = (replica \ {Named(r, p)}) \cup {r.dest}
         /\ spoiled' = spoiled \cup cost /\ blurred' = blurred \cup smear
         /\ Leave(w, 204)
      \/ /\ davTree' = t /\ Leave(w, 500) /\ replica' = replica /\ spoiled' = spoiled /\ blurred' = blurred
  BY DEF MoveOne
<1>5. versions' = versions /\ stored' = stored
  BY DEF MoveOne
<1>6. /\ JobSound(jobs'[w], davTree', spoiled')
      /\ \A v \in Worker \ {w} : jobs'[v] = jobs[v]
  <2>1. \E code : Finish(w, code)
    BY <1>4 DEF Leave
  <2>2. QED
    BY <1>1, <2>1, FinishDoes
<1>7. CASE /\ davTree' = t /\ replica' = replica /\ spoiled' = spoiled /\ blurred' = blurred
  <2> HIDE DEF t
  <2>1. jobs[w].at # "record" /\ Rooted(davTree') /\ Changed(davTree, davTree', {}, {})
    BY <1>1, <1>3, <1>7
  <2>2. QED
    BY <1>5, <1>6, <1>7, <2>1, StillMoves
<1>8. CASE /\ CanRename(t, p, q) /\ davTree' = R
           /\ replica' = (replica \ {Named(r, p)}) \cup {r.dest}
           /\ spoiled' = spoiled \cup cost /\ blurred' = blurred \cup smear
  <2>1. p \in DOMAIN t /\ Open(t, q)
    BY <1>8 DEF CanRename
  <2>2. IsFile(davTree, q) => davTree[q].content \in spoiled'
    <3>1. CASE jobs[w].overwrite
      BY <1>1, <1>8, <3>1 DEF JobSound, Spoilt
    <3>2. CASE ~jobs[w].overwrite
      BY <1>8, <3>2 DEF Overrun
    <3>3. QED
      BY <3>1, <3>2
  <2>3. \A x : IsFile(t, x) <=> IsFile(davTree, x)
    BY <1>3, FilesStay
  <2>4. /\ Named(r, p) = p \/ r.escaped
        /\ r.dest = q \/ r.escaped
    BY <1>1, <1>2, DestPath
  <2>5. spoiled \subseteq spoiled'
    BY <1>8
  <2>6. CASE IsFile(t, p)
    <3>1. /\ Rooted(R) /\ \A x \in DOMAIN t : x = p \/ x \in DOMAIN R
          /\ Changed(t, R, {p}, {q}) /\ R[q] = t[p]
      <4>1. ~IsDir(t, p)
        BY <2>6 DEF IsFile, IsDir
      <4> HIDE DEF t, p, q
      <4>2. QED
        BY <1>2, <1>3, <2>1, <2>6, <4>1, RenamedNode
    <3> HIDE DEF R, t, cost
    <3>2. Changed(davTree, davTree', {p}, {q}) /\ Rooted(davTree')
      BY <1>3, <1>8, <3>1 DEF Changed
    <3>3. IsFile(davTree, p) /\ p \in DOMAIN davTree /\ davTree'[q] = davTree[p] /\ q \in FilesOf(davTree')
      BY <1>3, <1>8, <2>3, <2>6, <3>1, <3>2 DEF IsFile, Changed
    <3>4. ASSUME NEW x \in FilesOf(davTree) \cap ({p} \cup {q})
          PROVE  davTree[x].content \in ContentsOf(davTree') \cup Backups' \cup spoiled' \cup BigContents
      <4>1. CASE x = p
        BY <3>3, <4>1 DEF ContentsOf
      <4>2. CASE x = q
        BY <2>2, <4>2 DEF FilesOf
      <4>3. QED
        BY <4>1, <4>2
    <3>5. ContentsKept'
      BY <1>2, <1>5, <2>5, <3>2, <3>4, KeptBy, SameBackups
    <3>6. ReplaySound'
      <4>1. CASE r.escaped
        <5>1. \A x \in DOMAIN davTree : x \in Below(p) \/ x \in DOMAIN davTree'
          BY <1>2, <1>3, <1>8, <3>1, <3>3, BelowFile
        <5>2. blurred \cup Below(p) \cup DOMAIN davTree' \cup {r.dest} \subseteq blurred'
          BY <1>8, <4>1
        <5>3. QED
          BY <1>2, <1>8, <5>1, <5>2, AllBlurred
      <4>2. CASE ~r.escaped
        <5>1. replica' = (replica \ {p}) \cup {q}
          BY <1>8, <2>4, <4>2
        <5>2. FilesOf(davTree') = (FilesOf(davTree) \ {p}) \cup {q} /\ blurred \subseteq blurred'
          BY <1>8, <3>2 DEF Changed
        <5>3. QED
          BY <1>2, <5>1, <5>2 DEF ReplaySound
      <4>3. QED
        BY <4>1, <4>2
    <3>7. QED
      BY <1>6, <3>2, <3>5, <3>6 DEF Moves
  <2>7. CASE ~IsFile(t, p)
    <3>1. ~IsFile(davTree, p)
      BY <2>3, <2>7
    <3>2. Rooted(R) /\ \A x \in DOMAIN t : Leads(p, x) \/ x \in DOMAIN R
      <4>1. CASE IsDir(t, p)
        <5> HIDE DEF t
        <5>1. QED
          BY <1>2, <1>3, <1>8, <4>1, RenamedDir
      <4>2. CASE ~IsDir(t, p)
        <5> HIDE DEF t, p, q
        <5>1. Rooted(R) /\ \A x \in DOMAIN t : x = p \/ x \in DOMAIN R
          BY <1>2, <1>3, <2>1, <4>2, RenamedNode
        <5>2. Leads(p, p)
          BY <1>2, LeadsSelf
        <5> HIDE DEF R
        <5>3. QED
          BY <5>1, <5>2
      <4>3. QED
        BY <4>1, <4>2
    <3>3. ContentsKept'
      <4>1. CASE IsDir(t, p)
        <5>1. ContentsOf(t) = ContentsOf(davTree)
          BY <1>3, FilesStay
        <5>2. ContentsOf(t) \subseteq ContentsOf(R)
          <6> HIDE DEF t
          <6>1. QED
            BY <1>2, <1>3, <1>8, <4>1, RenamedDir
        <5> HIDE DEF R, t, cost
        <5>3. ContentsOf(davTree) \subseteq ContentsOf(davTree')
          BY <1>8, <5>1, <5>2
        <5>4. QED
          BY <1>2, <1>5, <2>5, <5>3, SameBackups DEF ContentsKept
      <4>2. CASE ~IsDir(t, p)
        <5>1. Changed(t, R, {q}, {})
          <6> HIDE DEF t
          <6>1. QED
            BY <1>2, <1>3, <2>1, <2>7, <4>2, RenamedNode
        <5> HIDE DEF R, t, cost
        <5>2. Changed(davTree, davTree', {q}, {})
          BY <1>3, <1>8, <5>1 DEF Changed
        <5>3. ASSUME NEW x \in FilesOf(davTree) \cap ({q} \cup {})
              PROVE  davTree[x].content \in ContentsOf(davTree') \cup Backups' \cup spoiled' \cup BigContents
          BY <2>2 DEF FilesOf
        <5>4. QED
          BY <1>2, <1>5, <2>5, <5>2, <5>3, KeptBy, SameBackups
      <4>3. QED
        BY <4>1, <4>2
    <3>4. ReplaySound'
      <4> HIDE DEF R, t, cost
      <4>1. \A x \in DOMAIN davTree : x \in Below(p) \/ x \in DOMAIN davTree'
        BY <1>3, <1>8, <3>2 DEF Below
      <4>2. blurred \cup Below(p) \cup DOMAIN davTree' \cup {r.dest} \subseteq blurred'
        BY <1>8, <3>1
      <4>3. QED
        BY <1>2, <1>8, <4>1, <4>2, AllBlurred
    <3>5. QED
      BY <1>6, <1>8, <3>2, <3>3, <3>4 DEF Moves
  <2>8. QED
    BY <2>6, <2>7
<1>9. QED
  BY <1>4, <1>7, <1>8

\* What a copy may leave.
LEMMA CopyChanges ==
  ASSUME Rooted(davTree), NEW p, NEW q \in Path, NEW result \in CopyResults(p, q)
  PROVE  \/ result.tree = davTree /\ ~result.ok
         \/ /\ Rooted(result.tree) /\ Changed(davTree, result.tree, {}, {q}) /\ q \in FilesOf(result.tree)
            /\ IsFile(davTree, p) /\ Open(davTree, q)
            /\ result.ok => result.tree[q] = davTree[p]
<1>1. CASE result = [ok |-> FALSE, tree |-> davTree]
  BY <1>1
<1>2. CASE /\ IsFile(davTree, p) /\ Open(davTree, q)
           /\ result = [ok |-> TRUE, tree |-> With(davTree, q, davTree[p])]
  <2>1. davTree[p].kind = "file" /\ IsDir(davTree, Parent(q)) /\ ~IsDir(davTree, q)
    BY <1>2 DEF IsFile, Open
  <2>2. /\ Changed(davTree, With(davTree, q, davTree[p]), {}, {q})
        /\ With(davTree, q, davTree[p])[q] = davTree[p]
    BY <2>1, WithFile
  <2>3. Rooted(With(davTree, q, davTree[p]))
    BY <2>1, WithRooted
  <2>4. q \in FilesOf(With(davTree, q, davTree[p]))
    BY <2>2 DEF Changed
  <2>5. QED
    BY <1>2, <2>2, <2>3, <2>4
<1>3. CASE /\ IsFile(davTree, p) /\ Open(davTree, q)
           /\ result = [ok |-> FALSE, tree |-> With(davTree, q, FileNode(Torn))]
  <2>1. FileNode(Torn).kind = "file" /\ IsDir(davTree, Parent(q)) /\ ~IsDir(davTree, q)
    BY <1>3 DEF FileNode, Open
  <2>2. Changed(davTree, With(davTree, q, FileNode(Torn)), {}, {q})
    BY <2>1, WithFile
  <2>3. Rooted(With(davTree, q, FileNode(Torn)))
    BY <2>1, WithRooted
  <2>4. q \in FilesOf(With(davTree, q, FileNode(Torn)))
    BY <2>2 DEF Changed
  <2>5. QED
    BY <1>3, <2>2, <2>3, <2>4
<1>4. QED
  BY <1>1, <1>2, <1>3 DEF CopyResults

LEMMA CopyOneMoves ==
  ASSUME DavInv, NEW w \in Worker, CopyOne(w)
  PROVE  Moves(w)
<1>1. /\ JobsKept /\ jobs[w].r \in DavRequests /\ spaceLock = w /\ jobs[w].at = "make"
      /\ JobSound(jobs[w], davTree, spoiled)
  BY JobHas DEF CopyOne, Working
<1> DEFINE r == jobs[w].r
           q == Dest(r)
<1>2. PICK result \in CopyResults(r.uri, q) :
         /\ davTree' = result.tree
         /\ spoiled' = spoiled \cup
              IF result.tree # davTree /\ ~jobs[w].overwrite THEN Overrun(q) ELSE {}
         /\ IF result.ok
            THEN /\ replica' = replica \cup {r.dest}
                 /\ blurred' = blurred \cup IF r.escaped THEN {r.dest} ELSE {}
                 /\ Leave(w, 204)
            ELSE replica' = replica /\ Leave(w, 500) /\ blurred' = blurred \cup {q}
  BY DEF CopyOne
<1>3. versions' = versions /\ stored' = stored
  BY DEF CopyOne
<1>4. /\ Due = {} /\ q \in Path /\ Rooted(davTree) /\ ContentsKept /\ ReplaySound
  BY <1>1, NoneDue, DestPath DEF DavInv
<1>5. /\ JobSound(jobs'[w], davTree', spoiled')
      /\ \A v \in Worker \ {w} : jobs'[v] = jobs[v]
  <2>1. \E code : Finish(w, code)
    BY <1>2 DEF Leave
  <2>2. QED
    BY <1>1, <2>1, FinishDoes
<1>6. CASE result.tree = davTree /\ ~result.ok
  <2>1. /\ davTree' = davTree /\ replica' = replica /\ blurred \subseteq blurred' /\ spoiled \subseteq spoiled'
        /\ jobs[w].at # "record"
    BY <1>1, <1>2, <1>6
  <2>2. QED
    BY <1>3, <1>4, <1>5, <2>1, SameTree, StillMoves
<1>7. CASE /\ Rooted(davTree') /\ Changed(davTree, davTree', {}, {q}) /\ q \in FilesOf(davTree')
  <2>1. spoiled \subseteq spoiled' /\ blurred \subseteq blurred'
    BY <1>2
  <2>2. ContentsKept'
    <3>1. CASE davTree' = davTree
      BY <1>3, <1>4, <2>1, <3>1, SameBackups DEF ContentsKept
    <3>2. CASE davTree' # davTree
      <4>1. ASSUME NEW x \in FilesOf(davTree) \cap ({} \cup {q})
            PROVE  davTree[x].content \in ContentsOf(davTree') \cup Backups' \cup spoiled' \cup BigContents
        <5>1. IsFile(davTree, q) /\ x = q
          BY DEF FilesOf
        <5>2. CASE jobs[w].overwrite
          BY <1>1, <2>1, <5>1, <5>2 DEF JobSound, Spoilt
        <5>3. CASE ~jobs[w].overwrite
          BY <1>2, <3>2, <5>1, <5>3 DEF Overrun
        <5>4. QED
          BY <5>2, <5>3
      <4>2. QED
        BY <1>3, <1>4, <1>7, <2>1, <4>1, KeptBy, SameBackups
    <3>3. QED
      BY <3>1, <3>2
  <2>3. FilesOf(davTree') = FilesOf(davTree) \cup {q}
    BY <1>7 DEF Changed
  <2>4. (r.escaped => q[1] = Astray) /\ (~r.escaped => q = r.dest)
    BY <1>1, DestPath
  <2>5. ReplaySound'
    <3>1. \A x \in FilesOf(davTree) \cup replica :
            x \in blurred \/ x[1] = Astray \/ (x \in FilesOf(davTree) /\ x \in replica)
      BY <1>4 DEF ReplaySound
    <3>2. CASE result.ok
      <4>1. CASE r.escaped
        BY <1>2, <2>1, <2>3, <2>4, <3>1, <3>2, <4>1 DEF ReplaySound
      <4>2. CASE ~r.escaped
        <5>1. replica' = replica \cup {q}
          BY <1>2, <2>4, <3>2, <4>2
        <5>2. QED
          BY <2>1, <2>3, <3>1, <5>1 DEF ReplaySound
      <4>3. QED
        BY <4>1, <4>2
    <3>3. CASE ~result.ok
      BY <1>2, <2>1, <2>3, <3>1, <3>3 DEF ReplaySound
    <3>4. QED
      BY <3>2, <3>3
  <2>6. QED
    BY <1>5, <1>7, <2>2, <2>5 DEF Moves
<1>8. QED
  BY <1>2, <1>4, <1>6, <1>7, CopyChanges

-----------------------------------------------------------------------------
(* Walks *)

NewWalk(walk, name, above) ==
  Append(SubSeq(walk, 1, Len(walk) - 1), [walk[Len(walk)] EXCEPT !.left = @ \ {name}]) \o above

GoesOn(new, walk, name, above) ==
  /\ new \in Seq(Level) /\ Len(new) = Len(walk) + Len(above)
  /\ \A i \in 1 .. Len(walk) - 1 : new[i] = walk[i]
  /\ new[Len(walk)] = [dir |-> walk[Len(walk)].dir, left |-> walk[Len(walk)].left \ {name}]
  /\ \A i \in 1 .. Len(above) : new[Len(walk) + i] = above[i]

LEMMA LeftIs ==
  ASSUME NEW d, NEW l, NEW k
  PROVE  [[dir |-> d, left |-> l] EXCEPT !.left = k] = [dir |-> d, left |-> k]
OBVIOUS

LEMMA NewWalkIs ==
  ASSUME NEW walk, walk \in Seq(Level), walk # << >>, NEW name, NEW above, above \in Seq(Level)
  PROVE  GoesOn(NewWalk(walk, name, above), walk, name, above)
<1> DEFINE top == walk[Len(walk)]
           low == SubSeq(walk, 1, Len(walk) - 1)
           new == [top EXCEPT !.left = @ \ {name}]
           a   == Append(low, new)
<1>1. Len(walk) \in Nat \ {0}
  BY EmptySeq
<1>2. top \in Level
  BY <1>1
<1> HIDE DEF top
<1>3. new = [dir |-> top.dir, left |-> top.left \ {name}] /\ new \in Level
  <2>1. PICK d \in Path, l \in SUBSET Names : top = [dir |-> d, left |-> l]
    BY <1>2 DEF Level
  <2>2. new = [dir |-> d, left |-> l \ {name}] /\ top.dir = d /\ top.left = l
    <3>1. top.dir = d /\ top.left = l
      BY <2>1
    <3>2. new = [[dir |-> d, left |-> l] EXCEPT !.left = l \ {name}]
      BY <2>1, <3>1
    <3>3. [[dir |-> d, left |-> l] EXCEPT !.left = l \ {name}] = [dir |-> d, left |-> l \ {name}]
      BY LeftIs
    <3>4. QED
      BY <3>1, <3>2, <3>3
  <2>3. [dir |-> d, left |-> l \ {name}] \in Level
    BY DEF Level
  <2> HIDE DEF new
  <2>4. QED
    BY <2>2, <2>3
<1>4. /\ low \in Seq(Level) /\ Len(low) = Len(walk) - 1
      /\ \A i \in 1 .. Len(walk) - 1 : low[i] = walk[i]
  <2>1. \A i \in 1 .. Len(walk) - 1 : walk[i] \in Level
    BY <1>1
  <2>2. 1 \in Int /\ Len(walk) - 1 \in Int
    BY <1>1
  <2>3. /\ low \in Seq(Level) /\ Len(low) = (IF 1 <= Len(walk) - 1 THEN Len(walk) - 1 - 1 + 1 ELSE 0)
        /\ \A i \in 1 .. Len(walk) - 1 - 1 + 1 : low[i] = walk[1 + i - 1]
    BY <2>1, <2>2, SubSeqProperties
  <2> HIDE DEF low
  <2>4. Len(low) = Len(walk) - 1
    <3>1. Len(low) = (IF 1 <= Len(walk) - 1 THEN Len(walk) - 1 - 1 + 1 ELSE 0)
      BY <2>3
    <3>2. CASE Len(walk) = 1
      BY <3>1, <3>2
    <3>3. CASE Len(walk) # 1
      <4>1. 1 <= Len(walk) - 1 /\ Len(walk) - 1 - 1 + 1 = Len(walk) - 1
        <5>1. \A k \in Nat \ {0} : k # 1 => 1 <= k - 1 /\ k - 1 - 1 + 1 = k - 1
          OBVIOUS
        <5>2. QED
          BY ONLY <1>1, <3>3, <5>1
      <4>2. QED
        BY <3>1, <4>1
    <3>4. QED
      BY <3>2, <3>3
  <2>5. \A i \in 1 .. Len(walk) - 1 : 1 + i - 1 = i /\ i \in 1 .. Len(walk) - 1 - 1 + 1
    BY <1>1
  <2>6. QED
    BY <2>3, <2>4, <2>5
<1> HIDE DEF low, new
<1>5. /\ a \in Seq(Level) /\ Len(a) = Len(walk) /\ a[Len(walk)] = new
      /\ \A i \in 1 .. Len(walk) - 1 : a[i] = walk[i]
  <2>1. /\ a \in Seq(Level) /\ Len(a) = Len(low) + 1 /\ a[Len(low) + 1] = new
        /\ \A i \in 1 .. Len(low) : a[i] = low[i]
    BY <1>3, <1>4, AppendProperties
  <2>2. QED
    BY <1>1, <1>4, <2>1
<1> HIDE DEF a
<1> DEFINE n == a \o above
<1>6. /\ n \in Seq(Level) /\ Len(n) = Len(a) + Len(above) /\ Len(above) \in Nat
      /\ \A i \in 1 .. Len(a) + Len(above) : n[i] = IF i <= Len(a) THEN a[i] ELSE above[i - Len(a)]
  BY <1>5, ConcatProperties, LenProperties
<1>7. NewWalk(walk, name, above) = n
  BY DEF NewWalk, a, new, low, top
<1> HIDE DEF n
<1>8. \A i \in 1 .. Len(walk) - 1 : n[i] = walk[i]
  <2>1. ASSUME NEW i \in 1 .. Len(walk) - 1 PROVE n[i] = walk[i]
    <3>1. i \in 1 .. Len(a) + Len(above) /\ i <= Len(a)
      BY <1>1, <1>5, <1>6
    <3>2. n[i] = a[i]
      BY <1>6, <3>1
    <3>3. QED
      BY <1>5, <3>2
  <2>2. QED
    BY <2>1
<1>9. n[Len(walk)] = new
  BY <1>1, <1>5, <1>6
<1>10. \A i \in 1 .. Len(above) : n[Len(walk) + i] = above[i]
  <2>1. ASSUME NEW i \in 1 .. Len(above) PROVE n[Len(walk) + i] = above[i]
    <3>1. /\ Len(a) + i \in 1 .. Len(a) + Len(above) /\ ~(Len(a) + i <= Len(a))
          /\ Len(a) + i - Len(a) = i /\ Len(a) + i = Len(walk) + i
      BY <1>1, <1>5, <1>6
    <3>2. n[Len(a) + i] = above[Len(a) + i - Len(a)]
      BY <1>6, <3>1
    <3>3. QED
      BY <3>1, <3>2
  <2>2. QED
    BY <2>1
<1>11. QED
  BY <1>3, <1>5, <1>6, <1>7, <1>8, <1>9, <1>10 DEF GoesOn, top

\* The names left of a walk do not lead to the entry that is handled.
LEMMA OthersLeadAside ==
  ASSUME NEW u, NEW walk, WalkSound(u, walk), walk # << >>, NEW name \in walk[Len(walk)].left,
         NEW i \in 1 .. Len(walk), NEW n \in walk[i].left, i = Len(walk) => n # name
  PROVE  ~Leads(Append(walk[i].dir, n), Append(walk[Len(walk)].dir, name))
<1> DEFINE top == walk[Len(walk)]
           b == Append(top.dir, name)
           c == Append(walk[i].dir, n)
<1>1. walk \in Seq(Level) /\ Len(walk) \in Nat \ {0}
  BY EmptySeq DEF WalkSound
<1>2. /\ top.dir \in Path /\ name \in Names /\ walk[i].dir \in Path /\ n \in Names
  <2>1. walk[Len(walk)] \in Level /\ walk[i] \in Level
    BY <1>1
  <2>2. QED
    BY <2>1 DEF Level
<1>3. SUFFICES ASSUME Leads(c, b) PROVE FALSE
  OBVIOUS
<1>4. c \in Path /\ b \in Path /\ Leads(walk[i].dir, c) /\ walk[i].dir # c
  BY <1>2, Child
<1>5. c = b \/ Leads(c, top.dir)
  BY <1>2, <1>3, <1>4, LeadsToChild
<1>6. CASE c = b
  <2>1. walk[i].dir = top.dir /\ n = name
    <3>1. Append(walk[i].dir, n) = Append(top.dir, name)
      BY <1>6
    <3> HIDE DEF top
    <3>2. QED
      BY <1>2, <3>1, OneChild
  <2>2. i < Len(walk)
    BY <1>1, <2>1
  <2>3. QED
    BY <1>1, <2>1, <2>2 DEF WalkSound
<1>7. CASE Leads(c, top.dir)
  <2>1. CASE i = Len(walk)
    BY <1>2, <1>4, <1>7, <2>1, LeadsBack
  <2>2. CASE i # Len(walk)
    BY <1>1, <1>7, <2>2 DEF WalkSound
  <2>3. QED
    BY <2>1, <2>2
<1>8. QED
  BY <1>5, <1>6, <1>7

\* The names left of the walk new are some of those of walk that do not lead to
\* b, or they are among L below b.
Remaining(new, walk, b, L, above) ==
  \A i \in 1 .. Len(new) : \A n \in new[i].left :
    \/ /\ i \in 1 .. Len(walk) /\ new[i].dir = walk[i].dir /\ n \in walk[i].left
       /\ ~Leads(Append(walk[i].dir, n), b)
    \/ above # << >> /\ n \in L /\ new[i].dir = b

\* One entry further, or into it.
LEMMA NewWalkSound ==
  ASSUME NEW u \in Path, NEW walk, WalkSound(u, walk), walk # << >>, NEW name \in walk[Len(walk)].left,
         NEW L \in SUBSET Names,
         NEW above \in {<< >>, <<[dir |-> Append(walk[Len(walk)].dir, name), left |-> L]>>}
  PROVE  /\ WalkSound(u, NewWalk(walk, name, above))
         /\ Remaining(NewWalk(walk, name, above), walk, Append(walk[Len(walk)].dir, name), L, above)
<1> DEFINE top == walk[Len(walk)]
           b == Append(top.dir, name)
           new == NewWalk(walk, name, above)
           m == Len(walk)
<1>1. walk \in Seq(Level) /\ m \in Nat \ {0}
  BY EmptySeq DEF WalkSound
<1>2. top \in Level /\ top.dir \in Path /\ name \in Names /\ Leads(u, top.dir)
  <2>1. top \in Level
    BY <1>1
  <2>2. QED
    BY <1>1, <2>1 DEF Level, WalkSound
<1>3. b \in Path /\ Leads(top.dir, b) /\ top.dir # b /\ Leads(u, b)
  <2>1. b \in Path /\ Leads(top.dir, b) /\ top.dir # b
    BY <1>2, Child
  <2>2. QED
    BY <1>2, <2>1, LeadsOn
<1> HIDE DEF b
<1>4. above \in Seq(Level) /\ Len(above) \in {0, 1} /\ (Len(above) = 1 => above # << >> /\ above[1] = [dir |-> b, left |-> L])
  <2>1. CASE above = << >>
    BY <2>1, EmptySeq
  <2>2. CASE above = <<[dir |-> b, left |-> L]>>
    <3>1. [dir |-> b, left |-> L] \in Level
      BY <1>3 DEF Level
    <3>2. QED
      BY <2>2, <3>1
  <2>3. QED
    BY <2>1, <2>2 DEF b
<1>5. /\ new \in Seq(Level) /\ Len(new) = m + Len(above)
      /\ \A i \in 1 .. m - 1 : new[i] = walk[i]
      /\ new[m] = [dir |-> top.dir, left |-> top.left \ {name}]
      /\ \A i \in 1 .. Len(above) : new[m + i] = above[i]
  <2>1. walk \in Seq(Level) /\ walk # << >>
    BY <1>1
  <2>2. above \in Seq(Level)
    BY <1>4
  <2>3. GoesOn(NewWalk(walk, name, above), walk, name, above)
    BY <2>1, <2>2, NewWalkIs
  <2>4. QED
    BY <2>3 DEF GoesOn
<1> HIDE DEF new, m, top
<1>6. \A i \in 1 .. m : new[i].dir = walk[i].dir /\ new[i].left \subseteq walk[i].left /\ (i = m => name \notin new[i].left)
  <2>1. ASSUME NEW i \in 1 .. m
        PROVE new[i].dir = walk[i].dir /\ new[i].left \subseteq walk[i].left /\ (i = m => name \notin new[i].left)
    <3>1. CASE i = m
      BY <1>5, <3>1 DEF m, top
    <3>2. CASE i # m
      BY <1>1, <1>5, <3>2
    <3>3. QED
      BY <3>1, <3>2
  <2>2. QED
    BY <2>1
<1>7. \A i \in 1 .. m : \A n \in new[i].left : n \in walk[i].left /\ ~Leads(Append(walk[i].dir, n), b)
  BY <1>6, OthersLeadAside DEF b, m, top
<1>8. \A i \in 1 .. Len(new) : i \in 1 .. m \/ (i = m + 1 /\ Len(above) = 1 /\ new[i] = [dir |-> b, left |-> L])
  <2>1. ASSUME NEW i \in 1 .. Len(new), i \notin 1 .. m
        PROVE  i = m + 1 /\ Len(above) = 1
    <3>1. CASE Len(above) = 0
      BY <1>1, <1>5, <2>1, <3>1
    <3>2. CASE Len(above) = 1
      BY <1>1, <1>5, <2>1, <3>2
    <3>3. QED
      BY <1>4, <3>1, <3>2
  <2>2. Len(above) = 1 => new[m + 1] = [dir |-> b, left |-> L]
    BY <1>4, <1>5
  <2>3. QED
    BY <2>1, <2>2
<1>9. /\ \A k \in 1 .. m : Leads(u, walk[k].dir) /\ walk[k].dir \in Path
      /\ \A k \in 1 .. m : \A i \in 1 .. k - 1 :
           /\ Leads(walk[i].dir, walk[k].dir) /\ walk[i].dir # walk[k].dir
           /\ \A n \in walk[i].left : ~Leads(Append(walk[i].dir, n), walk[k].dir)
  <2>1. \A k \in 1 .. m : walk[k].dir \in Path
    <3>1. \A k \in 1 .. m : walk[k] \in Level
      BY <1>1 DEF m
    <3>2. QED
      BY <3>1 DEF Level
  <2>2. \A k \in 1 .. m : Leads(u, walk[k].dir)
    BY DEF WalkSound, m
  <2>3. \A k \in 1 .. m : \A i \in 1 .. k - 1 :
           /\ Leads(walk[i].dir, walk[k].dir) /\ walk[i].dir # walk[k].dir
           /\ \A n \in walk[i].left : ~Leads(Append(walk[i].dir, n), walk[k].dir)
    BY Zenon DEF WalkSound, m
  <2>4. QED
    BY <2>1, <2>2, <2>3
<1>10. \A k \in 1 .. m : walk[k].dir # b /\ Leads(walk[k].dir, b)
  <2>1. ASSUME NEW k \in 1 .. m PROVE walk[k].dir # b /\ Leads(walk[k].dir, b)
    <3>1. Leads(walk[k].dir, top.dir) /\ walk[k].dir \in Path
      <4>1. CASE k = m
        BY <1>2, <4>1, LeadsSelf DEF m, top
      <4>2. CASE k # m
        <5>1. k \in 1 .. m - 1 /\ m \in 1 .. m
          BY <1>1, <4>2
        <5>2. QED
          BY <1>9, <5>1 DEF m, top
      <4>3. QED
        BY <4>1, <4>2
    <3>2. Leads(walk[k].dir, b)
      BY <1>2, <1>3, <3>1, LeadsOn
    <3>3. walk[k].dir # b
      BY <1>2, <1>3, <3>1, LeadsBack
    <3>4. QED
      BY <3>2, <3>3
  <2>2. QED
    BY <2>1
<1>11. WalkSound(u, new)
  <2>1. \A k \in 1 .. Len(new) : Leads(u, new[k].dir)
    BY <1>3, <1>6, <1>8, <1>9
  <2>2. ASSUME NEW k \in 1 .. Len(new), NEW i \in 1 .. k - 1
        PROVE  /\ Leads(new[i].dir, new[k].dir) /\ new[i].dir # new[k].dir
               /\ \A n \in new[i].left : ~Leads(Append(new[i].dir, n), new[k].dir)
    <3>1. i \in 1 .. m
      <4>1. k \in Nat /\ i \in Nat /\ 1 <= i /\ i <= k - 1 /\ k <= m + 1 /\ m \in Nat
        BY <1>1, <1>8
      <4>2. QED
        BY <4>1
    <3>2. CASE k \in 1 .. m
      BY <1>6, <1>9, <3>1, <3>2
    <3>3. CASE k \notin 1 .. m
      BY <1>6, <1>7, <1>8, <1>10, <3>1, <3>3
    <3>4. QED
      BY <3>2, <3>3
  <2>3. QED
    BY <1>5, <2>1, <2>2 DEF WalkSound
<1>12. ASSUME NEW i \in 1 .. Len(new), NEW n \in new[i].left
       PROVE  \/ i \in 1 .. m /\ new[i].dir = walk[i].dir /\ n \in walk[i].left /\ ~Leads(Append(walk[i].dir, n), b)
              \/ above # << >> /\ n \in L /\ new[i].dir = b
  <2>1. CASE i \in 1 .. m
    BY <1>6, <1>7, <2>1
  <2>2. CASE i \notin 1 .. m
    BY <1>4, <1>8, <2>2
  <2>3. QED
    BY <2>1, <2>2
<1>13. QED
  BY <1>11, <1>12 DEF Remaining, new, m, b, top

\* What is below a place without files is without files too.
LEMMA FreeBelow ==
  ASSUME NEW t, Rooted(t), NEW q \in Path, NEW x \in Path, Leads(q, x), Free(t, q)
  PROVE  Free(t, x)
<1>1. ASSUME NEW f \in FilesOf(t), Leads(x, f) PROVE FALSE
  <2>1. f \in Path
    BY RootedLeads DEF FilesOf
  <2>2. Leads(q, f)
    BY <1>1, <2>1, LeadsOn
  <2>3. QED
    BY <2>2 DEF Free
<1>2. QED
  BY <1>1 DEF Free

\* The places of a MOVE or COPY are ordered as what goes there.
LEMMA TargetPlace ==
  ASSUME NEW j, j.r \in DavRequests, NEW x \in Path, NEW y \in Path, Leads(j.r.uri, x), Leads(j.r.uri, y)
  PROVE  /\ Target(j, x) \in Path /\ Leads(Dest(j.r), Target(j, x))
         /\ Leads(Target(j, x), Target(j, y)) <=> Leads(x, y)
<1>1. j.r.uri \in Path /\ Dest(j.r) \in Path
  BY DestPath
<1>2. Target(j, x) = Carried(j.r.uri, Dest(j.r), x) /\ Target(j, y) = Carried(j.r.uri, Dest(j.r), y)
  BY DEF Target, Carried
<1> DEFINE u == j.r.uri
           d == Dest(j.r)
<1>3. u \in Path /\ d \in Path /\ Leads(u, x) /\ Leads(u, y)
  BY <1>1
<1> HIDE DEF u, d
<1>4. /\ Carried(u, d, x) \in Path /\ Leads(d, Carried(u, d, x))
      /\ Leads(Carried(u, d, x), Carried(u, d, y)) <=> Leads(x, y)
  BY <1>3, CarriedTree
<1>5. QED
  BY <1>2, <1>4 DEF u, d

\* With a wrong name they are astray.
LEMMA TargetAstray ==
  ASSUME NEW r \in DavRequests, r.escaped, NEW q \in Path, Leads(Dest(r), q)
  PROVE  q[1] = Astray
<1>1. Dest(r) \in Path /\ Dest(r) = <<Astray>> \o r.dest /\ r.dest \in Seq(Names) /\ Astray \in Names
  BY DestPath, TreeAssumption DEF Named, Path
<1>2. Dest(r)[1] = Astray
  BY DestPath
<1>3. Len(Dest(r)) \in Nat /\ Len(Dest(r)) >= 1
  <2>1. <<Astray>> \in Seq(Names) /\ Len(<<Astray>>) = 1
    BY <1>1
  <2>2. Len(r.dest) \in Nat
    BY <1>1, LenProperties
  <2>3. Len(<<Astray>> \o r.dest) = 1 + Len(r.dest)
    BY <1>1, <2>1, ConcatProperties
  <2>4. QED
    BY <1>1, <2>2, <2>3
<1>4. \A i \in 1 .. Len(Dest(r)) : q[i] = Dest(r)[i]
  BY <1>1, LeadsAt
<1>5. 1 \in 1 .. Len(Dest(r))
  BY <1>3
<1>6. QED
  BY <1>2, <1>4, <1>5

LEMMA OnwardDoes ==
  ASSUME JobsKept, NEW w \in Worker, Fields \subseteq DOMAIN jobs[w], NEW name, NEW above, Onward(w, name, above)
  PROVE  /\ Fields \subseteq DOMAIN jobs'[w] /\ jobs'[w].at = jobs[w].at /\ jobs'[w].r = jobs[w].r
         /\ jobs'[w].walk = NewWalk(jobs[w].walk, name, above)
         /\ \A v \in Worker \ {w} : jobs'[v] = jobs[v]
BY DEF JobsKept, Onward, NewWalk, Top, Fields

\* The entry that a walk is at.
LEMMA EntryHas ==
  ASSUME DavInv, NEW w \in Worker, Walking(w), NEW name, Entry(w, name)
  PROVE  /\ JobsKept /\ Fields \subseteq DOMAIN jobs[w] /\ jobs[w].r \in DavRequests
         /\ spaceLock = w /\ jobs[w].at = "walk" /\ Due = {} /\ Rooted(davTree)
         /\ WalkSound(jobs[w].r.uri, jobs[w].walk) /\ jobs[w].walk # << >>
         /\ name \in jobs[w].walk[Len(jobs[w].walk)].left
         /\ At(w, name) = Append(jobs[w].walk[Len(jobs[w].walk)].dir, name)
         /\ jobs[w].r.uri \in Path /\ At(w, name) \in Path /\ Leads(jobs[w].r.uri, At(w, name))
         /\ jobs[w].r.method \in Transfers => TargetsFree(davTree, jobs[w]) /\ Free(davTree, Target(jobs[w], At(w, name)))
<1> DEFINE walk == jobs[w].walk
           u == jobs[w].r.uri
           top == walk[Len(walk)]
<1>1. jobs[w].at = "walk" /\ spaceLock = w /\ walk # << >>
  BY DEF Walking, Working
<1>2. /\ JobsKept /\ Fields \subseteq DOMAIN jobs[w] /\ jobs[w].r \in DavRequests
      /\ JobSound(jobs[w], davTree, spoiled)
  BY <1>1, JobHas
<1>3. WalkSound(u, walk) /\ (jobs[w].r.method \in Transfers => TargetsFree(davTree, jobs[w]))
  BY <1>1, <1>2 DEF JobSound
<1>4. Due = {} /\ Rooted(davTree)
  BY <1>1, NoneDue DEF DavInv
<1>5. name \in top.left /\ At(w, name) = Append(top.dir, name)
  BY DEF Entry, At, Top
<1>6. u \in Path
  BY <1>2, DestPath
<1>7. walk \in Seq(Level) /\ Len(walk) \in 1 .. Len(walk)
  <2>1. walk \in Seq(Level)
    BY <1>3 DEF WalkSound
  <2>2. Len(walk) \in Nat \ {0}
    BY <1>1, <2>1, EmptySeq
  <2>3. QED
    BY <2>1, <2>2
<1>8. top.dir \in Path /\ name \in Names /\ Leads(u, top.dir)
  <2>1. top \in Level
    BY <1>7
  <2>2. QED
    BY <1>3, <1>5, <1>7, <2>1 DEF Level, WalkSound
<1>9. At(w, name) \in Path /\ Leads(u, At(w, name))
  <2>1. Append(top.dir, name) \in Path /\ Leads(top.dir, Append(top.dir, name))
    BY <1>8, Child
  <2>2. QED
    BY <1>5, <1>6, <1>8, <2>1, LeadsOn
<1>10. TargetsFree(davTree, jobs[w]) => Free(davTree, Target(jobs[w], At(w, name)))
  BY <1>5, <1>7 DEF TargetsFree
<1>11. QED
  BY <1>1, <1>2, <1>3, <1>4, <1>5, <1>6, <1>9, <1>10

\* A walk that goes on stays sound, when the only new file is the one the entry
\* became.
LEMMA OnwardSound ==
  ASSUME DavInv, NEW w \in Worker, Walking(w), NEW name, Entry(w, name),
         NEW L \in SUBSET Names, NEW above \in {<< >>, <<[dir |-> At(w, name), left |-> L]>>},
         Onward(w, name, above),
         jobs[w].r.method \in Transfers =>
           \A f \in FilesOf(davTree') :
             f \in FilesOf(davTree) \/ (above = << >> /\ f = Target(jobs[w], At(w, name)))
  PROVE  JobSound(jobs'[w], davTree', spoiled') /\ \A v \in Worker \ {w} : jobs'[v] = jobs[v]
<1> DEFINE j == jobs[w]
           walk == j.walk
           u == j.r.uri
           b == At(w, name)
           new == NewWalk(walk, name, above)
<1>1. /\ JobsKept /\ Fields \subseteq DOMAIN j /\ j.r \in DavRequests
      /\ spaceLock = w /\ j.at = "walk" /\ Rooted(davTree)
      /\ WalkSound(u, walk) /\ walk # << >> /\ name \in walk[Len(walk)].left
      /\ b = Append(walk[Len(walk)].dir, name) /\ u \in Path /\ b \in Path /\ Leads(u, b)
      /\ j.r.method \in Transfers => TargetsFree(davTree, j) /\ Free(davTree, Target(j, b))
  BY EntryHas
<1>2. /\ Fields \subseteq DOMAIN jobs'[w] /\ jobs'[w].at = "walk" /\ jobs'[w].r = j.r
      /\ jobs'[w].walk = new
      /\ \A v \in Worker \ {w} : jobs'[v] = jobs[v]
  <2>1. JobsKept /\ Fields \subseteq DOMAIN jobs[w] /\ j.at = "walk"
    BY <1>1
  <2>2. /\ Fields \subseteq DOMAIN jobs'[w] /\ jobs'[w].at = jobs[w].at /\ jobs'[w].r = jobs[w].r
        /\ jobs'[w].walk = NewWalk(jobs[w].walk, name, above)
        /\ \A v \in Worker \ {w} : jobs'[v] = jobs[v]
    BY Zenon, <2>1, OnwardDoes
  <2>3. QED
    BY <2>1, <2>2
<1>3. above \in {<< >>, <<[dir |-> Append(walk[Len(walk)].dir, name), left |-> L]>>}
  BY <1>1
<1>4. /\ WalkSound(u, new)
      /\ \A i \in 1 .. Len(new) : \A n \in new[i].left :
           \/ /\ i \in 1 .. Len(walk) /\ new[i].dir = walk[i].dir /\ n \in walk[i].left
              /\ ~Leads(Append(walk[i].dir, n), b)
           \/ above # << >> /\ n \in L /\ new[i].dir = b
  <2>1. /\ WalkSound(u, NewWalk(walk, name, above))
        /\ Remaining(NewWalk(walk, name, above), walk, Append(walk[Len(walk)].dir, name), L, above)
    <3>1. u \in Path /\ WalkSound(u, walk) /\ walk # << >> /\ name \in walk[Len(walk)].left
      BY <1>1
    <3> HIDE DEF u, walk, new, b
    <3>2. QED
      BY <1>3, <3>1, NewWalkSound
  <2>2. QED
    BY <1>1, <2>1 DEF Remaining
<1> HIDE DEF new, b, walk
<1>5. ASSUME j.r.method \in Transfers, NEW i \in 1 .. Len(new), NEW n \in new[i].left
      PROVE  Free(davTree', Target(j, Append(new[i].dir, n)))
  <2> DEFINE x == Append(new[i].dir, n)
  <2>1. CASE /\ i \in 1 .. Len(walk) /\ new[i].dir = walk[i].dir /\ n \in walk[i].left
             /\ ~Leads(Append(walk[i].dir, n), b)
    <3>1. Free(davTree, Target(j, x)) /\ ~Leads(x, b)
      BY <1>1, <1>5, <2>1 DEF TargetsFree, walk
    <3>2. x \in Path /\ Leads(u, x)
      <4>1. walk[i] \in Level /\ Leads(u, walk[i].dir)
        BY <1>1, <2>1 DEF WalkSound
      <4>2. walk[i].dir \in Path /\ n \in Names
        BY <2>1, <4>1 DEF Level
      <4>3. QED
        BY <1>1, <2>1, <4>1, <4>2, Child, LeadsOn
    <3> HIDE DEF x
    <3>3. ~Leads(Target(j, x), Target(j, b))
      BY <1>1, <3>1, <3>2, TargetPlace
    <3>4. ASSUME NEW f \in FilesOf(davTree') PROVE ~Leads(Target(j, x), f)
      <4>1. f \in FilesOf(davTree) \/ f = Target(j, b)
        BY <1>5 DEF b
      <4>2. QED
        BY <3>1, <3>3, <4>1 DEF Free
    <3>5. QED
      BY <3>4 DEF Free, x
  <2>2. CASE above # << >> /\ n \in L /\ new[i].dir = b
    <3>1. x \in Path /\ Leads(b, x) /\ Leads(u, x)
      <4>1. n \in Names
        BY <2>2
      <4>2. x \in Path /\ Leads(b, x)
        BY <1>1, <2>2, <4>1, Child
      <4>3. QED
        BY <1>1, <4>2, LeadsOn
    <3> HIDE DEF x
    <3>2. Target(j, b) \in Path /\ Target(j, x) \in Path /\ Leads(Target(j, b), Target(j, x))
      BY <1>1, <3>1, TargetPlace
    <3>3. Free(davTree, Target(j, x))
      BY <1>1, <1>5, <3>2, FreeBelow
    <3>4. FilesOf(davTree') \subseteq FilesOf(davTree)
      BY <1>5, <2>2
    <3>5. QED
      BY <3>3, <3>4 DEF Free, x
  <2>3. QED
    BY <1>4, <2>1, <2>2
<1>6. jobs'[w].r.method \in Transfers => TargetsFree(davTree', jobs'[w])
  <2>1. \A x : Target(jobs'[w], x) = Target(j, x)
    BY <1>2 DEF Target
  <2>2. QED
    BY <1>2, <1>5, <2>1 DEF TargetsFree
<1>7. QED
  BY <1>1, <1>2, <1>4, <1>6 DEF JobSound

-----------------------------------------------------------------------------
(* The steps of a walk *)

LEMMA WalkDeleteMoves ==
  ASSUME DavInv, NEW w \in Worker, NEW name, WalkDelete(w, name)
  PROVE  Moves(w)
<1>1. Walking(w) /\ Entry(w, name) /\ Onward(w, name, << >>) /\ jobs[w].r.method = "DELETE"
  BY DEF WalkDelete
<1>2. jobs[w].r \in DavRequests /\ Due = {} /\ At(w, name) \in Path
  BY <1>1, EntryHas
<1>3. PICK result \in cloud_delete(jobs[w].r, At(w, name)) :
         /\ Deletion(jobs[w].r, At(w, name), result, TRUE)
         /\ spoiled' = spoiled \cup Unlogged(At(w, name), result)
  BY DEF WalkDelete
<1>4. Rooted(davTree') /\ ContentsKept' /\ ReplaySound'
  <2>1. spoiled \cup Unlogged(At(w, name), result) \subseteq spoiled'
    BY <1>3
  <2>2. QED
    BY <1>2, <1>3, <2>1, DeletionKeeps
<1>5. JobSound(jobs'[w], davTree', spoiled') /\ \A v \in Worker \ {w} : jobs'[v] = jobs[v]
  <2>1. jobs[w].r.method \notin Transfers
    BY <1>1 DEF Transfers
  <2>2. QED
    BY <1>1, <2>1, OnwardSound
<1>6. QED
  BY <1>4, <1>5 DEF Moves

\* A step that changes no file and goes on.
LEMMA WalkKeepsFiles ==
  ASSUME DavInv, NEW w \in Worker, NEW name, Walking(w), Entry(w, name),
         NEW L \in SUBSET Names, NEW above \in {<< >>, <<[dir |-> At(w, name), left |-> L]>>},
         Onward(w, name, above), Rooted(davTree'), Changed(davTree, davTree', {}, {}),
         UNCHANGED <<versions, replica, stored, spoiled, blurred>>
  PROVE  Moves(w)
<1>1. JobSound(jobs'[w], davTree', spoiled') /\ \A v \in Worker \ {w} : jobs'[v] = jobs[v]
  <2>1. FilesOf(davTree') = FilesOf(davTree)
    BY FilesStay
  <2>2. QED
    BY <2>1, OnwardSound
<1>2. jobs[w].at # "record"
  BY EntryHas
<1>3. QED
  BY <1>1, <1>2, StillMoves

LEMMA WalkSpecMoves ==
  ASSUME DavInv, NEW w \in Worker, NEW name, WalkSpec(w, name)
  PROVE  Moves(w)
<1> DEFINE p == At(w, name)
<1>1. /\ Walking(w) /\ Entry(w, name) /\ Onward(w, name, << >>)
      /\ UNCHANGED <<versions, replica, stored, spoiled, blurred>>
      /\ Info(davTree, p) = "spec"
      /\ davTree' = davTree \/ davTree' = Without(davTree, {p})
  BY DEF WalkSpec
<1>2. p \in Path /\ Rooted(davTree)
  BY <1>1, EntryHas
<1> HIDE DEF p
<1>3. ~IsDir(davTree, p) /\ p \notin FilesOf(davTree)
  BY <1>1 DEF Info, IsDir, FilesOf, IsFile
<1>4. Rooted(davTree') /\ Changed(davTree, davTree', {}, {})
  <2>1. CASE davTree' = davTree
    BY <1>2, <2>1, SameTree
  <2>2. CASE davTree' = Without(davTree, {p})
    <3>1. Rooted(davTree') /\ Changed(davTree, davTree', {p}, {})
      BY <1>2, <1>3, <2>2, NothingBelow, WithoutOne
    <3>2. QED
      BY <1>3, <3>1 DEF Changed
  <2>3. QED
    BY <1>1, <2>1, <2>2
<1>5. QED
  BY <1>1, <1>4, WalkKeepsFiles

LEMMA WalkIntoMoves ==
  ASSUME DavInv, NEW w \in Worker, NEW name, WalkInto(w, name)
  PROVE  Moves(w)
<1> DEFINE p == At(w, name)
           q == Target(jobs[w], p)
<1>1. /\ Walking(w) /\ Entry(w, name) /\ UNCHANGED <<versions, replica, stored, spoiled, blurred>>
      /\ davTree' = davTree \/ davTree' = CounterpartMade(q)
      /\ \/ Onward(w, name, <<Opened(davTree', p)>>)
         \/ Onward(w, name, <<[dir |-> p, left |-> {}]>>)
  BY DEF WalkInto
<1>2. Rooted(davTree) /\ q \in Path
  BY <1>1, EntryHas, TargetPlace
<1>3. Rooted(davTree') /\ Changed(davTree, davTree', {}, {})
  <2> HIDE DEF q
  <2>1. davTree' = davTree \/ (MkdirError(davTree, q) = "" /\ davTree' = With(davTree, q, DirNode))
    BY <1>1 DEF CounterpartMade
  <2>2. QED
    BY <1>2, <2>1, DirMade, SameTree
<1>4. Entries(davTree', p) \in SUBSET Names /\ {} \in SUBSET Names
  BY <1>3, EntriesAreNames
<1>5. CASE Onward(w, name, <<Opened(davTree', p)>>)
  <2>1. Onward(w, name, <<[dir |-> At(w, name), left |-> Entries(davTree', p)]>>)
    BY <1>5 DEF Opened
  <2>2. QED
    BY <1>1, <1>3, <1>4, <2>1, WalkKeepsFiles
<1>6. CASE Onward(w, name, <<[dir |-> p, left |-> {}]>>)
  BY <1>1, <1>3, <1>4, <1>6, WalkKeepsFiles
<1>7. QED
  BY <1>1, <1>5, <1>6

LEMMA WalkCopyMoves ==
  ASSUME DavInv, NEW w \in Worker, NEW name, WalkCopy(w, name)
  PROVE  Moves(w)
<1> DEFINE p == At(w, name)
           q == Target(jobs[w], p)
           r == jobs[w].r
<1>1. /\ Walking(w) /\ Entry(w, name) /\ Onward(w, name, << >>) /\ UNCHANGED <<versions, stored, spoiled>>
      /\ r.method = "COPY"
  BY DEF WalkCopy
<1>2. PICK result \in CopyResults(p, q) :
         /\ davTree' = result.tree
         /\ replica' = replica \cup {Named(r, q)}
         /\ blurred' = IF result.ok THEN blurred ELSE blurred \cup {q}
  BY DEF WalkCopy
<1>3. /\ r \in DavRequests /\ Due = {} /\ Rooted(davTree) /\ ContentsKept /\ ReplaySound
      /\ p \in Path /\ q \in Path /\ Leads(Dest(r), q) /\ Free(davTree, q)
  <2>1. r.method \in Transfers
    BY <1>1 DEF Transfers
  <2>2. QED
    BY <1>1, <2>1, EntryHas, TargetPlace DEF DavInv
<1>4. q \notin FilesOf(davTree)
  BY <1>3, LeadsSelf DEF Free
<1>5. /\ r.escaped => q[1] = Astray /\ Named(r, q)[1] = Astray
      /\ ~r.escaped => Named(r, q) = q
  BY <1>3, TargetAstray, DestPath
<1>6. \/ davTree' = davTree /\ ~result.ok
      \/ Rooted(davTree') /\ Changed(davTree, davTree', {}, {q}) /\ q \in FilesOf(davTree')
  BY <1>2, <1>3, CopyChanges
<1>7. JobSound(jobs'[w], davTree', spoiled') /\ \A v \in Worker \ {w} : jobs'[v] = jobs[v]
  <2>1. \A f \in FilesOf(davTree') : f \in FilesOf(davTree) \/ f = q
    BY <1>6 DEF Changed
  <2>2. QED
    BY <1>1, <2>1, OnwardSound
<1> HIDE DEF q, p
<1>8. Rooted(davTree') /\ ContentsKept'
  <2>1. CASE davTree' = davTree /\ ~result.ok
    BY <1>1, <1>3, <2>1, SameBackups DEF ContentsKept
  <2>2. CASE Rooted(davTree') /\ Changed(davTree, davTree', {}, {q})
    <3>1. FilesOf(davTree) \cap ({} \cup {q}) = {}
      BY <1>4
    <3>2. QED
      BY <1>1, <1>3, <2>2, <3>1, KeptBy, SameBackups
  <2>3. QED
    BY <1>6, <2>1, <2>2
<1>9. ReplaySound'
  <2>1. \A x \in FilesOf(davTree) \cup replica :
          x \in blurred \/ x[1] = Astray \/ (x \in FilesOf(davTree) /\ x \in replica)
    BY <1>3 DEF ReplaySound
  <2>2. FilesOf(davTree) \subseteq FilesOf(davTree') /\ FilesOf(davTree') \subseteq FilesOf(davTree) \cup {q}
    BY <1>6 DEF Changed
  <2>3. blurred \subseteq blurred' /\ (q \in FilesOf(davTree') \/ q \in blurred')
    BY <1>2, <1>6
  <2>4. CASE r.escaped
    BY <1>2, <1>5, <2>1, <2>2, <2>3, <2>4 DEF ReplaySound
  <2>5. CASE ~r.escaped
    <3>1. replica' = replica \cup {q}
      BY <1>2, <1>5, <2>5
    <3>2. QED
      BY <2>1, <2>2, <2>3, <3>1 DEF ReplaySound
  <2>6. QED
    BY <2>4, <2>5
<1>10. QED
  BY <1>7, <1>8, <1>9 DEF Moves

\* What a move of the file at p to the free place q leaves.
Carries(p, q, gone, come) ==
  /\ Rooted(davTree') /\ Changed(davTree, davTree', gone, come) /\ gone \subseteq {p} /\ come \subseteq {q}
  /\ gone = {p} \/ p \in blurred'
  /\ come = {q} \/ q \in blurred'
  /\ davTree[p].content \in ContentsOf(davTree') \cup spoiled'
  /\ spoiled \subseteq spoiled' /\ blurred \subseteq blurred'

LEMMA MoveCarries ==
  ASSUME DavInv, NEW p \in Path, NEW q \in Path, IsFile(davTree, p), q \notin FilesOf(davTree), NEW wrong,
         \/ /\ CanRename(davTree, p, q)
            /\ davTree' = Renamed(davTree, p, q)
            /\ blurred' = blurred \cup wrong
            /\ spoiled' = spoiled
         \/ \E result \in CopyResults(p, q), removed \in BOOLEAN :
              /\ davTree' = IF removed THEN Without(result.tree, {p}) ELSE result.tree
              /\ spoiled' = IF result.ok \/ ~removed THEN spoiled ELSE spoiled \cup {davTree[p].content}
              /\ blurred' = blurred \cup wrong \cup (IF result.ok THEN {} ELSE {q})
                                    \cup (IF removed THEN {} ELSE {p})
  PROVE  \E gone, come : Carries(p, q, gone, come)
<1>1. IsFile(davTree, p)
  OBVIOUS
<1>2. Rooted(davTree) /\ p # q /\ p \in FilesOf(davTree) /\ ~IsDir(davTree, p)
  BY <1>1 DEF DavInv, FilesOf, IsFile, IsDir
<1>3. CASE /\ CanRename(davTree, p, q)
           /\ davTree' = Renamed(davTree, p, q)
           /\ blurred' = blurred \cup wrong
           /\ spoiled' = spoiled
  <2>1. p \in DOMAIN davTree /\ Open(davTree, q)
    BY <1>3 DEF CanRename
  <2>2. Rooted(davTree') /\ Changed(davTree, davTree', {p}, {q}) /\ davTree'[q] = davTree[p]
    BY <1>1, <1>2, <1>3, <2>1, RenamedNode
  <2>3. davTree[p].content \in ContentsOf(davTree')
    BY <2>2 DEF ContentsOf, Changed
  <2>4. Carries(p, q, {p}, {q})
    BY <1>3, <2>2, <2>3 DEF Carries
  <2>5. QED
    BY <2>4
<1>4. ASSUME NEW result \in CopyResults(p, q), NEW removed \in BOOLEAN,
             davTree' = IF removed THEN Without(result.tree, {p}) ELSE result.tree,
             spoiled' = IF result.ok \/ ~removed THEN spoiled ELSE spoiled \cup {davTree[p].content},
             blurred' = blurred \cup wrong \cup (IF result.ok THEN {} ELSE {q})
                                \cup (IF removed THEN {} ELSE {p})
      PROVE  \E gone, come : Carries(p, q, gone, come)
  <2> DEFINE gone == IF removed THEN {p} ELSE {}
  <2>0. gone \subseteq {p} /\ (gone = {p} \/ p \in blurred')
    BY <1>4
  <2>1. spoiled \subseteq spoiled' /\ blurred \subseteq blurred'
    BY <1>4
  <2>2. CASE result.tree = davTree /\ ~result.ok
    <3>1. \A x \in DOMAIN davTree : Leads(p, x) => x = p
      BY <1>2, NothingBelow
    <3>2. Rooted(davTree') /\ Changed(davTree, davTree', gone, {})
      <4>1. CASE removed
        BY <1>2, <1>4, <2>2, <3>1, <4>1, WithoutOne
      <4>2. CASE ~removed
        BY <1>2, <1>4, <2>2, <4>2, SameTree
      <4>3. QED
        BY <4>1, <4>2
    <3>3. davTree[p].content \in ContentsOf(davTree') \cup spoiled' /\ q \in blurred'
      BY <1>2, <1>4, <2>2 DEF ContentsOf
    <3> HIDE DEF gone
    <3>4. Carries(p, q, gone, {})
      BY <2>0, <2>1, <3>2, <3>3 DEF Carries
    <3>5. QED
      BY <3>4
  <2>3. CASE /\ Rooted(result.tree) /\ Changed(davTree, result.tree, {}, {q})
             /\ result.ok => result.tree[q] = davTree[p]
    <3> DEFINE t == result.tree
    <3>1. p \in FilesOf(t) /\ p \in DOMAIN t /\ ~IsDir(t, p)
      <4>1. p \in FilesOf(t)
        BY <1>2, <2>3 DEF Changed
      <4>2. QED
        BY <4>1 DEF FilesOf, IsFile, IsDir
    <3>2. Rooted(davTree') /\ Changed(t, davTree', gone, {})
      <4>1. \A x \in DOMAIN t : Leads(p, x) => x = p
        BY <2>3, <3>1, NothingBelow
      <4>2. CASE removed
        BY <1>4, <2>3, <4>1, <4>2, WithoutOne
      <4>3. CASE ~removed
        BY <1>4, <2>3, <4>3, SameTree
      <4>4. QED
        BY <4>2, <4>3
    <3>3. Changed(davTree, t, {}, {q}) /\ (result.ok => t[q] = davTree[p])
      BY <2>3
    <3> HIDE DEF t
    <3>4. Changed(davTree, davTree', gone, {q})
      BY <1>2, <2>0, <3>2, <3>3 DEF Changed
    <3>5. davTree[p].content \in ContentsOf(davTree') \cup spoiled'
      <4>1. CASE result.ok
        <5>1. q \in FilesOf(davTree') /\ davTree'[q].content = davTree[p].content
          BY <1>2, <2>0, <3>2, <3>3, <4>1 DEF Changed
        <5>2. QED
          BY <5>1 DEF ContentsOf
      <4>2. CASE ~result.ok /\ removed
        BY <1>4, <4>2
      <4>3. CASE ~removed
        <5>1. p \in FilesOf(davTree') /\ davTree'[p].content = davTree[p].content
          BY <1>2, <3>4, <4>3 DEF Changed
        <5>2. QED
          BY <5>1 DEF ContentsOf
      <4>4. QED
        BY <4>1, <4>2, <4>3
    <3> HIDE DEF gone
    <3>6. Carries(p, q, gone, {q})
      BY <2>0, <2>1, <3>2, <3>4, <3>5 DEF Carries
    <3>7. QED
      BY <3>6
  <2>4. \/ result.tree = davTree /\ ~result.ok
        \/ /\ Rooted(result.tree) /\ Changed(davTree, result.tree, {}, {q})
           /\ result.ok => result.tree[q] = davTree[p]
    BY <1>2, CopyChanges
  <2>5. QED
    BY <2>2, <2>3, <2>4
<1>5. QED
  BY <1>3, <1>4

LEMMA WalkMoveMoves ==
  ASSUME DavInv, NEW w \in Worker, NEW name, WalkMove(w, name)
  PROVE  Moves(w)
<1> DEFINE p == At(w, name)
           q == Target(jobs[w], p)
           r == jobs[w].r
<1>1. /\ Walking(w) /\ Entry(w, name) /\ Onward(w, name, << >>) /\ UNCHANGED <<versions, stored>>
      /\ r.method = "MOVE" /\ IsFile(davTree, p)
      /\ replica' = (replica \ {Named(r, p)}) \cup {Named(r, q)}
      /\ r.escaped => p \in blurred'
  BY DEF WalkMove
<1>2. /\ r \in DavRequests /\ Due = {} /\ Rooted(davTree) /\ ContentsKept /\ ReplaySound
      /\ p \in Path /\ q \in Path /\ Leads(Dest(r), q) /\ Free(davTree, q)
  <2>1. r.method \in Transfers
    BY <1>1 DEF Transfers
  <2>2. QED
    BY <1>1, <2>1, EntryHas, TargetPlace DEF DavInv
<1>3. q \notin FilesOf(davTree) /\ p \in FilesOf(davTree)
  BY <1>1, <1>2, LeadsSelf DEF Free, FilesOf, IsFile
<1>4. PICK gone, come : Carries(p, q, gone, come)
  <2> DEFINE wrong == IF r.escaped THEN {p} ELSE {}
  <2>1. \/ /\ CanRename(davTree, p, q)
           /\ davTree' = Renamed(davTree, p, q)
           /\ blurred' = blurred \cup wrong
           /\ spoiled' = spoiled
        \/ \E result \in CopyResults(p, q), removed \in BOOLEAN :
             /\ davTree' = IF removed THEN Without(result.tree, {p}) ELSE result.tree
             /\ spoiled' = IF result.ok \/ ~removed THEN spoiled ELSE spoiled \cup {davTree[p].content}
             /\ blurred' = blurred \cup wrong \cup (IF result.ok THEN {} ELSE {q})
                                   \cup (IF removed THEN {} ELSE {p})
    BY DEF WalkMove
  <2> HIDE DEF wrong, p, q
  <2>2. QED
    BY <1>1, <1>2, <1>3, <2>1, MoveCarries
<1>5. /\ r.escaped => q[1] = Astray /\ Named(r, q)[1] = Astray /\ Named(r, p)[1] = Astray
      /\ ~r.escaped => Named(r, q) = q /\ Named(r, p) = p
  BY <1>2, TargetAstray, DestPath
<1>6. JobSound(jobs'[w], davTree', spoiled') /\ \A v \in Worker \ {w} : jobs'[v] = jobs[v]
  <2>1. \A f \in FilesOf(davTree') : f \in FilesOf(davTree) \/ f = q
    BY <1>4 DEF Carries, Changed
  <2>2. QED
    BY <1>1, <2>1, OnwardSound
<1> HIDE DEF p, q
<1>7. /\ Rooted(davTree') /\ Changed(davTree, davTree', gone, come) /\ gone \subseteq {p} /\ come \subseteq {q}
      /\ gone = {p} \/ p \in blurred'
      /\ come = {q} \/ q \in blurred'
      /\ davTree[p].content \in ContentsOf(davTree') \cup spoiled'
      /\ spoiled \subseteq spoiled' /\ blurred \subseteq blurred'
  BY <1>4 DEF Carries
<1>8. ContentsKept'
  <2>1. ASSUME NEW x \in FilesOf(davTree) \cap (gone \cup come)
        PROVE  davTree[x].content \in ContentsOf(davTree') \cup Backups' \cup spoiled' \cup BigContents
    <3>1. x = p
      BY <1>3, <1>7
    <3>2. QED
      BY <1>7, <3>1
  <2>2. QED
    BY <1>1, <1>2, <1>7, <2>1, KeptBy, SameBackups
<1>9. ReplaySound'
  <2>1. \A x \in FilesOf(davTree) \cup replica :
          x \in blurred \/ x[1] = Astray \/ (x \in FilesOf(davTree) /\ x \in replica)
    BY <1>2 DEF ReplaySound
  <2>2. FilesOf(davTree') = (FilesOf(davTree) \ gone) \cup come
    BY <1>7 DEF Changed
  <2>3. ASSUME NEW x \in FilesOf(davTree') \cup replica'
        PROVE  x \in blurred' \/ x[1] = Astray \/ (x \in FilesOf(davTree') /\ x \in replica')
    <3>1. CASE r.escaped
      <4>1. CASE x = p \/ x = q \/ x = Named(r, p) \/ x = Named(r, q)
        BY <1>1, <1>5, <3>1, <4>1
      <4>2. CASE ~(x = p \/ x = q \/ x = Named(r, p) \/ x = Named(r, q))
        <5>1. (x \in FilesOf(davTree') <=> x \in FilesOf(davTree)) /\ (x \in replica' <=> x \in replica)
          BY <1>1, <1>7, <2>2, <4>2
        <5>2. QED
          BY <1>7, <2>1, <2>3, <5>1
      <4>3. QED
        BY <4>1, <4>2
    <3>2. CASE ~r.escaped
      <4>1. replica' = (replica \ {p}) \cup {q}
        BY <1>1, <1>5, <3>2
      <4>2. CASE x = q
        BY <1>7, <2>2, <4>1, <4>2
      <4>3. CASE x # q
        <5>1. CASE x = p
          <6>1. x \notin FilesOf(davTree) \ {p} /\ x \notin come /\ x \notin replica'
            BY <1>3, <1>7, <4>1, <4>3, <5>1
          <6>2. gone # {p}
            BY <2>2, <2>3, <6>1
          <6>3. QED
            BY <1>7, <5>1, <6>2
        <5>2. CASE x # p
          <6>1. (x \in FilesOf(davTree') <=> x \in FilesOf(davTree)) /\ (x \in replica' <=> x \in replica)
            BY <1>7, <2>2, <4>1, <4>3, <5>2
          <6>2. QED
            BY <1>7, <2>1, <2>3, <6>1
        <5>3. QED
          BY <5>1, <5>2
      <4>4. QED
        BY <4>2, <4>3
    <3>3. QED
      BY <3>1, <3>2
  <2>4. QED
    BY <2>3 DEF ReplaySound
<1>10. QED
  BY <1>6, <1>7, <1>8, <1>9 DEF Moves

\* A walk without its last level.
LEMMA ShorterWalk ==
  ASSUME NEW u, NEW walk, WalkSound(u, walk), Len(walk) > 1
  PROVE  /\ WalkSound(u, SubSeq(walk, 1, Len(walk) - 1))
         /\ Len(SubSeq(walk, 1, Len(walk) - 1)) = Len(walk) - 1
         /\ \A i \in 1 .. Len(walk) - 1 : SubSeq(walk, 1, Len(walk) - 1)[i] = walk[i]
<1> DEFINE low == SubSeq(walk, 1, Len(walk) - 1)
           m == Len(walk) - 1
<1>1. walk \in Seq(Level) /\ Len(walk) \in Nat /\ m \in Nat /\ m <= Len(walk)
  <2>1. walk \in Seq(Level)
    BY DEF WalkSound
  <2>2. Len(walk) \in Nat
    BY <2>1, LenProperties
  <2>3. QED
    BY <2>1, <2>2
<1>2. low \in Seq(Level) /\ Len(low) = m /\ \A i \in 1 .. m : low[i] = walk[i]
  <2>1. \A i \in 1 .. m : walk[i] \in Level
    BY <1>1
  <2>2. /\ low \in Seq(Level) /\ Len(low) = (IF 1 <= m THEN m - 1 + 1 ELSE 0)
        /\ \A i \in 1 .. m - 1 + 1 : low[i] = walk[1 + i - 1]
    BY <1>1, <2>1, SubSeqProperties
  <2> HIDE DEF low
  <2>3. 1 <= m /\ m - 1 + 1 = m /\ \A i \in 1 .. m : 1 + i - 1 = i
    BY <1>1
  <2> HIDE DEF m
  <2>4. QED
    BY <2>2, <2>3
<1> HIDE DEF low
<1>3. \A k \in 1 .. m : Leads(u, walk[k].dir)
  BY <1>1 DEF WalkSound
<1>4. \A k \in 1 .. m : \A i \in 1 .. k - 1 :
        /\ i \in 1 .. m /\ Leads(walk[i].dir, walk[k].dir) /\ walk[i].dir # walk[k].dir
        /\ \A n \in walk[i].left : ~Leads(Append(walk[i].dir, n), walk[k].dir)
  <2>1. ASSUME NEW k \in 1 .. m, NEW i \in 1 .. k - 1
        PROVE  i \in 1 .. m /\ k \in 1 .. Len(walk)
    BY <1>1
  <2> HIDE DEF m
  <2>2. QED
    BY <2>1 DEF WalkSound
<1> HIDE DEF m
<1>5. WalkSound(u, low)
  BY <1>2, <1>3, <1>4 DEF WalkSound
<1>6. QED
  BY <1>2, <1>5 DEF low, m

LEMMA WalkOutMoves ==
  ASSUME DavInv, NEW w \in Worker, WalkOut(w)
  PROVE  Moves(w)
<1> DEFINE j == jobs[w]
           walk == j.walk
           d == Top(j).dir
           low == SubSeq(walk, 1, Len(walk) - 1)
<1>1. /\ j.at = "walk" /\ Len(walk) > 1 /\ UNCHANGED <<versions, replica, stored, spoiled, blurred>>
      /\ davTree' = davTree \/ davTree' = Rmdir(davTree, d)
      /\ jobs' = [jobs EXCEPT ![w].walk = SubSeq(@, 1, Len(@) - 1)]
  BY DEF WalkOut, Walking, Working
<1>2. JobsKept /\ Fields \subseteq DOMAIN j /\ j.r \in DavRequests /\ JobSound(j, davTree, spoiled)
  BY <1>1, JobHas
<1>3. /\ Fields \subseteq DOMAIN jobs'[w] /\ jobs'[w].at = "walk" /\ jobs'[w].r = j.r /\ jobs'[w].walk = low
      /\ \A v \in Worker \ {w} : jobs'[v] = jobs[v]
  BY <1>1, <1>2 DEF JobsKept, Fields
<1>4. WalkSound(j.r.uri, walk) /\ (j.r.method \in Transfers => TargetsFree(davTree, j))
  BY <1>1, <1>2 DEF JobSound
<1>5. d \in Path
  <2>1. walk \in Seq(Level)
    BY <1>4 DEF WalkSound
  <2>2. Len(walk) \in 1 .. Len(walk)
    BY <1>1, <2>1, LenProperties
  <2>3. walk[Len(walk)] \in Level
    BY <2>1, <2>2
  <2>4. QED
    BY <2>3 DEF Level, Top
<1>6. Rooted(davTree') /\ Changed(davTree, davTree', {}, {})
  <2>1. Rooted(davTree)
    BY DEF DavInv
  <2> HIDE DEF d
  <2>2. QED
    BY <1>1, <1>5, <2>1, RmdirRooted, SameTree
<1>7. /\ WalkSound(j.r.uri, low) /\ Len(low) = Len(walk) - 1
      /\ \A i \in 1 .. Len(walk) - 1 : low[i] = walk[i]
  BY <1>1, <1>4, ShorterWalk
<1>8. j.r.method \in Transfers => TargetsFree(davTree', jobs'[w])
  <2> HIDE DEF low
  <2>1. ASSUME j.r.method \in Transfers, NEW i \in 1 .. Len(low), NEW n \in low[i].left
        PROVE  Free(davTree', Target(jobs'[w], Append(low[i].dir, n)))
    <3>1. low[i] = walk[i] /\ i \in 1 .. Len(walk)
      <4>1. Len(walk) \in Nat
        BY <1>4, LenProperties DEF WalkSound
      <4>2. i \in 1 .. Len(walk) - 1
        BY <1>7, <2>1
      <4>3. QED
        BY <1>7, <4>1, <4>2
    <3>2. Free(davTree, Target(j, Append(walk[i].dir, n)))
      BY <1>4, <2>1, <3>1 DEF TargetsFree
    <3>3. \A x : Target(jobs'[w], x) = Target(j, x)
      BY <1>3 DEF Target
    <3>4. QED
      BY <1>6, <3>1, <3>2, <3>3, FilesStay
  <2>2. QED
    BY <1>3, <2>1 DEF TargetsFree
<1>9. JobSound(jobs'[w], davTree', spoiled')
  BY <1>2, <1>3, <1>7, <1>8 DEF JobSound
<1>10. QED
  BY <1>1, <1>3, <1>6, <1>9, StillMoves

LEMMA WalkStopMoves ==
  ASSUME DavInv, NEW w \in Worker, WalkEnds(w) \/ WalkAborts(w)
  PROVE  Moves(w)
<1> DEFINE d == jobs[w].r.uri
<1>1. /\ jobs[w].at = "walk" /\ UNCHANGED <<versions, replica, stored, spoiled, blurred>>
      /\ davTree' = davTree \/ davTree' = Rmdir(davTree, d)
  BY DEF WalkEnds, WalkAborts, Walking, Working
<1>2. \E code : Finish(w, code)
  BY DEF WalkEnds, WalkAborts, Leave
<1>3. JobsKept /\ d \in Path /\ Rooted(davTree)
  BY <1>1, JobHas, DestPath DEF DavInv
<1>4. JobSound(jobs'[w], davTree', spoiled') /\ \A v \in Worker \ {w} : jobs'[v] = jobs[v]
  BY <1>2, <1>3, FinishDoes
<1> HIDE DEF d
<1>5. Rooted(davTree') /\ Changed(davTree, davTree', {}, {})
  BY <1>1, <1>3, RmdirRooted, SameTree
<1>6. QED
  BY <1>1, <1>4, <1>5, StillMoves

\* The destination that was just made is free.
LEMMA MakeDestMoves ==
  ASSUME DavInv, NEW w \in Worker, MakeDest(w)
  PROVE  Moves(w)
<1> DEFINE q == Dest(jobs[w].r)
<1>1. /\ jobs[w].at = "make" /\ UNCHANGED <<versions, replica, stored, spoiled, blurred>>
      /\ \/ MkdirError(davTree, q) = "" /\ davTree' = With(davTree, q, DirNode) /\ Goto(w, "open")
         \/ davTree' = davTree /\ \E code : Finish(w, code)
  BY DEF MakeDest, Working, Leave
<1>2. /\ JobsKept /\ Fields \subseteq DOMAIN jobs[w] /\ jobs[w].r \in DavRequests
      /\ q \in Path /\ Rooted(davTree)
  BY <1>1, JobHas, DestPath DEF DavInv
<1> HIDE DEF q
<1>3. CASE MkdirError(davTree, q) = "" /\ davTree' = With(davTree, q, DirNode) /\ Goto(w, "open")
  <2>1. q \notin DOMAIN davTree /\ Rooted(davTree') /\ Changed(davTree, davTree', {}, {})
    BY <1>2, <1>3, DirMade
  <2>2. Free(davTree, q)
    <3>1. ASSUME NEW f \in FilesOf(davTree), Leads(q, f) PROVE FALSE
      <4>1. f \in DOMAIN davTree /\ ~IsDir(davTree, q)
        BY <2>1 DEF FilesOf, IsDir
      <4>2. f = q
        BY <1>2, <3>1, <4>1, NothingBelow
      <4>3. QED
        BY <2>1, <4>1, <4>2
    <3>2. QED
      BY <3>1 DEF Free
  <2>3. Free(davTree', q)
    BY <2>1, <2>2, FilesStay
  <2>4. /\ Fields \subseteq DOMAIN jobs'[w] /\ jobs'[w].at = "open" /\ jobs'[w].r = jobs[w].r
        /\ \A v \in Worker \ {w} : jobs'[v] = jobs[v]
    BY <1>2, <1>3, GotoDoes
  <2>5. JobSound(jobs'[w], davTree', spoiled')
    BY <1>2, <2>3, <2>4 DEF JobSound, q
  <2>6. QED
    BY <1>1, <2>1, <2>4, <2>5, StillMoves
<1>4. CASE davTree' = davTree /\ \E code : Finish(w, code)
  <2>1. JobSound(jobs'[w], davTree', spoiled') /\ \A v \in Worker \ {w} : jobs'[v] = jobs[v]
    BY <1>2, <1>4, FinishDoes
  <2>2. QED
    BY <1>1, <1>2, <1>4, <2>1, SameTree, StillMoves
<1>5. QED
  BY <1>1, <1>3, <1>4

LEMMA OpenRootMoves ==
  ASSUME DavInv, NEW w \in Worker, OpenRoot(w)
  PROVE  Moves(w)
<1> DEFINE j == jobs[w]
           d == j.r.uri
           walk == <<Opened(davTree, d)>>
<1>1. /\ j.at = "open" /\ UNCHANGED <<davTree, versions, replica, stored, spoiled, blurred>>
      /\ \/ jobs' = [jobs EXCEPT ![w].at = "walk", ![w].walk = walk]
         \/ \E code : Finish(w, code)
  BY DEF OpenRoot, Working, Leave
<1>2. /\ JobsKept /\ Fields \subseteq DOMAIN j /\ j.r \in DavRequests /\ JobSound(j, davTree, spoiled)
      /\ d \in Path /\ Dest(j.r) \in Path /\ Rooted(davTree)
  BY <1>1, JobHas, DestPath DEF DavInv
<1>3. CASE jobs' = [jobs EXCEPT ![w].at = "walk", ![w].walk = walk]
  <2> HIDE DEF walk
  <2>1. /\ Fields \subseteq DOMAIN jobs'[w] /\ jobs'[w].at = "walk" /\ jobs'[w].r = j.r /\ jobs'[w].walk = walk
        /\ \A v \in Worker \ {w} : jobs'[v] = jobs[v]
    BY <1>2, <1>3 DEF JobsKept, Fields
  <2>2. Entries(davTree, d) \subseteq Names
    BY <1>2, EntriesAreNames
  <2> DEFINE top == [dir |-> d, left |-> Entries(davTree, d)]
  <2>3. top \in Level /\ top.dir = d /\ top.left \subseteq Names
    BY <1>2, <2>2 DEF Level
  <2>4. walk = <<top>>
    BY DEF walk, Opened
  <2> HIDE DEF top
  <2>5. walk \in Seq(Level) /\ Len(walk) = 1 /\ walk[1] = top
    BY <2>3, <2>4
  <2>6. WalkSound(d, walk)
    <3>1. \A k \in 1 .. Len(walk) : k = 1 /\ walk[k].dir = d
      BY <2>3, <2>5
    <3>2. \A k \in 1 .. Len(walk) : 1 .. k - 1 = {}
      BY <3>1
    <3>3. Leads(d, d)
      BY <1>2, LeadsSelf
    <3>4. QED
      BY <2>5, <3>1, <3>2, <3>3 DEF WalkSound
  <2>7. ASSUME j.r.method \in Transfers, NEW i \in 1 .. Len(walk), NEW n \in walk[i].left
        PROVE  Free(davTree', Target(jobs'[w], Append(walk[i].dir, n)))
    <3> DEFINE x == Append(d, n)
    <3>1. walk[i] = top /\ n \in Names
      BY <2>3, <2>5, <2>7
    <3>2. x \in Path /\ Leads(d, x)
      BY <1>2, <3>1, Child
    <3> HIDE DEF x
    <3>3. Target(j, x) \in Path /\ Leads(Dest(j.r), Target(j, x))
      BY <1>2, <3>2, TargetPlace
    <3>4. Free(davTree, Dest(j.r))
      BY <1>1, <1>2, <2>7 DEF JobSound
    <3>5. Free(davTree, Target(j, x))
      BY <1>2, <3>3, <3>4, FreeBelow
    <3>6. Target(jobs'[w], x) = Target(j, x)
      BY <2>1 DEF Target
    <3>7. Append(walk[i].dir, n) = x
      BY <2>3, <3>1 DEF x
    <3>8. QED
      BY <1>1, <3>5, <3>6, <3>7
  <2>8. JobSound(jobs'[w], davTree', spoiled')
    BY <1>2, <2>1, <2>6, <2>7 DEF JobSound, TargetsFree
  <2>9. QED
    BY <1>1, <1>2, <2>1, <2>8, SameTree, StillMoves
<1>4. CASE \E code : Finish(w, code)
  <2>1. JobSound(jobs'[w], davTree', spoiled') /\ \A v \in Worker \ {w} : jobs'[v] = jobs[v]
    BY <1>2, <1>4, FinishDoes
  <2>2. QED
    BY <1>1, <1>2, <2>1, SameTree, StillMoves
<1>5. QED
  BY <1>1, <1>3, <1>4

-----------------------------------------------------------------------------
(* The theorem *)

LEMMA DavInvStep ==
  ASSUME DavInv, [DavNext]_davVars
  PROVE  DavInv'
<1>1. GivenBackInv'
  BY GivenBackStep DEF DavInv
<1>2. CASE UNCHANGED davVars
  BY <1>2 DEF davVars, DavInv, GivenBackInv, JobsKept, LockGivenBack, Rooted, IsDir, JobSound, Spoilt,
              IsFile, Free, FilesOf, TargetsFree, Target, ContentsKept, Backups, ContentsOf, ReplaySound, Due
<1>3. CASE DavNext
  <2>1. PICK w \in Worker : DavStep(w)
    BY <1>3 DEF DavNext
  <2>2. CASE Idle(w) /\ \E r \in DavRequests :
               Decline(w, r) \/ Refuse(w, r) \/ MakeCollection(w, r) \/ Accept(w, r)
    BY <1>1, <2>2, RequestMoves, OtherStays
  <2>3. CASE Lock(w) \/ LockFails(w)
    BY <1>1, <2>3, LockMoves, OtherStays
  <2>4. CASE Erase(w) \/ PutLook(w) \/ PutRename(w) \/ PutRecord(w)
    <3>1. spaceLock = w
      BY <2>4 DEF Erase, PutLook, PutRename, PutRecord, Working
    <3>2. Moves(w)
      BY <2>4, EraseMoves, PutLookMoves, PutRenameMoves, PutRecordMoves
    <3>3. QED
      BY <1>1, <3>1, <3>2, HolderMoves
  <2>5. CASE MoveOne(w) \/ CopyOne(w) \/ MakeDest(w) \/ OpenRoot(w)
    <3>1. spaceLock = w
      BY <2>5 DEF MoveOne, CopyOne, MakeDest, OpenRoot, Working
    <3>2. Moves(w)
      BY <2>5, MoveOneMoves, CopyOneMoves, MakeDestMoves, OpenRootMoves
    <3>3. QED
      BY <1>1, <3>1, <3>2, HolderMoves
  <2>6. CASE \E name : WalkDelete(w, name) \/ WalkMove(w, name) \/ WalkCopy(w, name)
                         \/ WalkInto(w, name) \/ WalkSpec(w, name)
    <3>1. PICK name : WalkDelete(w, name) \/ WalkMove(w, name) \/ WalkCopy(w, name)
                         \/ WalkInto(w, name) \/ WalkSpec(w, name)
      BY <2>6
    <3>2. spaceLock = w
      BY <3>1 DEF WalkDelete, WalkMove, WalkCopy, WalkInto, WalkSpec, Walking, Working
    <3>3. Moves(w)
      BY <3>1, WalkDeleteMoves, WalkMoveMoves, WalkCopyMoves, WalkIntoMoves, WalkSpecMoves
    <3>4. QED
      BY <1>1, <3>2, <3>3, HolderMoves
  <2>7. CASE WalkOut(w) \/ WalkEnds(w) \/ WalkAborts(w)
    <3>1. spaceLock = w
      BY <2>7 DEF WalkOut, WalkEnds, WalkAborts, Walking, Working
    <3>2. Moves(w)
      BY <2>7, WalkOutMoves, WalkStopMoves
    <3>3. QED
      BY <1>1, <3>1, <3>2, HolderMoves
  <2>8. WalkStep(w) => \/ \E name : WalkDelete(w, name) \/ WalkMove(w, name) \/ WalkCopy(w, name)
                                      \/ WalkInto(w, name) \/ WalkSpec(w, name)
                       \/ WalkOut(w) \/ WalkEnds(w) \/ WalkAborts(w)
    BY DEF WalkStep
  <2>9. QED
    BY <2>1, <2>2, <2>3, <2>4, <2>5, <2>6, <2>7, <2>8 DEF DavStep
<1>4. QED
  BY <1>2, <1>3

LEMMA DavInvStarts ==
  ASSUME DavInit
  PROVE  DavInv
<1>1. GivenBackInv
  BY DavAssumption DEF DavInit, IdleJob, GivenBackInv, JobsKept, LockGivenBack
<1>2. Rooted(davTree)
  BY TreeAssumption DEF DavInit
<1>3. \A w \in Worker : JobSound(jobs[w], davTree, spoiled)
  BY DEF DavInit, IdleJob, JobSound
<1>4. ContentsKept /\ ReplaySound
  BY DEF DavInit, ContentsKept, ReplaySound
<1>5. QED
  BY <1>1, <1>2, <1>3, <1>4 DEF DavInv

LEMMA DavInvSuffices ==
  ASSUME DavInv
  PROVE  DavSound
<1>1. LockGivenBack /\ ContentsKept
  BY DEF DavInv, GivenBackInv
<1>2. ReplayMatches
  <2>1. ASSUME spaceLock = Nobody PROVE Due = {}
    BY <1>1, <2>1, DavAssumption DEF LockGivenBack, Due
  <2>2. QED
    BY <2>1 DEF DavInv, ReplaySound, ReplayMatches
<1>3. QED
  BY <1>1, <1>2 DEF DavSound

(* The handlers' bookkeeping holds together, whatever the requests, the tree *)
(* they meet and the calls that fail: the lock is given back, a client that  *)
(* replays the log has the files of the space whenever nobody works on them  *)
(* (but for the paths that a failed call or a wrong name blurred), and no    *)
(* content that was stored is lost but for what was too big to back up and   *)
(* what a failed call, or a change made after the checks, spoiled.           *)
THEOREM DavSoundAlways == DavSpec => []DavSound
<1>1. DavInit => DavInv
  BY DavInvStarts
<1>2. DavInv /\ [DavNext]_davVars => DavInv'
  BY DavInvStep
<1>3. DavInv => DavSound
  BY DavInvSuffices
<1>4. QED
  BY <1>1, <1>2, <1>3, PTL DEF DavSpec

-----------------------------------------------------------------------------
(* The listings *)

FindFields == {"at", "q", "answer", "ctx", "items", "left", "steady"}
Item       == [path : Path, status : Nat]

\* A listing has reported each path once, and not those that are left; what was
\* there throughout is reported or left.
ListingSound(f) ==
  /\ FindFields \subseteq DOMAIN f /\ f.items \in Seq(Item)
  /\ f.at = "idle" => f.items = << >> /\ f.left = {}
  /\ f.at \in {"idle", "open", "close"} => f.left = {} /\ f.steady = {}
  /\ f.at = "open" => f.q.uri \in Path /\ \A i \in DOMAIN f.items : f.items[i].path = f.q.uri
  /\ f.left \subseteq Path
  /\ EachOnce(f)
  /\ \A i \in DOMAIN f.items : f.items[i].path \notin f.left
  /\ f.at = "list" \/ (f.at = "done" /\ f.answer = 207) =>
       \A p \in f.steady :
         \/ f.at = "list" /\ p \in f.left
         \/ \E i \in DOMAIN f.items : f.items[i].path = p /\ f.items[i].status = 200

FindInv ==
  /\ DOMAIN finds = Reader
  /\ \A w \in Reader : ListingSound(finds[w]) /\ finds[w].steady \subseteq DOMAIN davTree


\* What the steps do to the fields of a request.
IsReported(f, r, p, s) ==
  /\ p \in DOMAIN davTree => s = 200
  /\ FindFields \subseteq DOMAIN r
  /\ r.items = Append(f.items, [path |-> p, status |-> s]) /\ r.left = f.left \ {p}
  /\ r.at = f.at /\ r.q = f.q /\ r.answer = f.answer /\ r.steady = f.steady

LEMMA ReportedIs ==
  ASSUME NEW f, FindFields \subseteq DOMAIN f, f.items \in Seq(Item), NEW p \in Path
  PROVE  \E s \in {200, 404} : IsReported(f, Reported(f, p), p, s)
<1> DEFINE s == ItemStatus(f, p)
<1>1. s \in {200, 404} /\ (p \in DOMAIN davTree => s = 200)
  BY DEF ItemStatus
<1>2. HIDE DEF s
<1>3. Reported(f, p) = [f EXCEPT !.items = Append(@, [path |-> p, status |-> s]), !.left = @ \ {p}]
  BY DEF Reported, s
<1>4. QED
  BY <1>1, <1>3 DEF FindFields, IsReported

LEMMA ItemsGrow ==
  ASSUME NEW items \in Seq(Item), NEW x \in Item
  PROVE  /\ Append(items, x) \in Seq(Item) /\ Len(items) \in Nat
         /\ DOMAIN items = 1 .. Len(items) /\ DOMAIN Append(items, x) = 1 .. Len(items) + 1
         /\ Append(items, x)[Len(items) + 1] = x
         /\ \A i \in 1 .. Len(items) : Append(items, x)[i] = items[i]
  OBVIOUS

\* A path more is reported.
HasOneMore(items, new, p, s) ==
  /\ new \in Seq(Item) /\ DOMAIN new = 1 .. Len(new)
  /\ \A i, k \in 1 .. Len(new) : new[i].path = new[k].path => i = k
  /\ \A i \in 1 .. Len(new) : new[i].path = p \/ \E k \in 1 .. Len(items) : new[i] = items[k]
  /\ \A i \in 1 .. Len(items) : \E k \in 1 .. Len(new) : new[k] = items[i]
  /\ \E k \in 1 .. Len(new) : new[k].path = p /\ new[k].status = s

\* Each path once, and p not yet.
NotYet(items, p) ==
  /\ items \in Seq(Item)
  /\ \A i, k \in 1 .. Len(items) : items[i].path = items[k].path => i = k
  /\ \A i \in 1 .. Len(items) : items[i].path # p

LEMMA OneMore ==
  ASSUME NEW g, NEW f, NEW p \in Path, NEW s \in {200, 404},
         NotYet(g.items, p), IsReported(g, f, p, s)
  PROVE  HasOneMore(g.items, f.items, p, s)
<1> DEFINE x     == [path |-> p, status |-> s]
           items == g.items
           new   == f.items
           n     == Len(items)
<1>1. x \in Item /\ x.path = p /\ x.status = s
  BY DEF Item
<1>2. new = Append(items, x)
  BY DEF IsReported
<1>3. /\ items \in Seq(Item) /\ \A i \in 1 .. n : items[i].path # p
      /\ \A i, k \in 1 .. n : items[i].path = items[k].path => i = k
  BY DEF NotYet
<1> HIDE DEF x, items, new
<1>4. /\ new \in Seq(Item) /\ n \in Nat /\ DOMAIN new = 1 .. n + 1 /\ new[n + 1] = x
      /\ \A i \in 1 .. n : new[i] = items[i]
  BY <1>1, <1>2, <1>3, ItemsGrow
<1>5. Len(new) = n + 1 /\ \A i \in 1 .. n + 1 : i \in 1 .. n \/ i = n + 1
  BY <1>4
<1>6. \A i, k \in 1 .. n + 1 : new[i].path = new[k].path => i = k
  BY <1>1, <1>3, <1>4, <1>5
<1>7. n + 1 \in 1 .. n + 1 /\ \A i \in 1 .. n : i \in 1 .. n + 1
  BY <1>4
<1>8. HasOneMore(items, new, p, s)
  BY <1>1, <1>4, <1>5, <1>6, <1>7 DEF HasOneMore
<1>9. QED
  BY <1>8 DEF items, new

\* The entries of a directory are the paths one name longer that are there.
LEMMA EntriesAre ==
  ASSUME Rooted(davTree), NEW u \in Path, NEW n \in Entries(davTree, u)
  PROVE  Append(u, n) \in DOMAIN davTree /\ Append(u, n) \in Path /\ Append(u, n) # u
<1>1. PICK q \in DOMAIN davTree : q # << >> /\ Parent(q) = u /\ n = q[Len(q)]
  BY DEF Entries
<1>2. q \in Seq(Names) /\ u \in Seq(Names)
  BY DEF Rooted, Path
<1>3. Len(q) \in Nat /\ Len(q) # 0
  BY <1>1, <1>2
<1>4. q = Append(u, n)
  BY <1>1, <1>2, <1>3 DEF Parent
<1>5. Len(q) = Len(u) + 1
  BY <1>2, <1>3, <1>4
<1>6. QED
  BY <1>1, <1>2, <1>4, <1>5 DEF Path

\* Another entry for w.
LEMMA FindBecomes ==
  ASSUME FindInv, NEW w \in Reader, DOMAIN finds' = Reader,
         \A v \in Reader : v # w => finds'[v] = finds[v],
         ListingSound(finds'[w]), finds'[w].steady \subseteq DOMAIN davTree, UNCHANGED davVars
  PROVE  FindInv'
<1>1. davTree' = davTree
  BY DEF davVars
<1>2. \A v \in Reader : ListingSound(finds'[v]) /\ finds'[v].steady \subseteq DOMAIN davTree'
  BY <1>1 DEF FindInv
<1>3. QED
  BY <1>2 DEF FindInv, ListingSound, EachOnce

LEMMA AnswerStep ==
  ASSUME FindInv, NEW w \in Reader, finds[w].at = "idle", NEW q,
         ExtAnswer(w, q) \/ FindBroken(w, q)
  PROVE  FindInv'
<1>1. ListingSound(finds[w]) /\ finds[w].steady \subseteq DOMAIN davTree /\ DOMAIN finds = Reader
  BY DEF FindInv
<1>2. /\ DOMAIN finds' = Reader /\ \A v \in Reader : v # w => finds'[v] = finds[v]
      /\ UNCHANGED davVars
  BY <1>1 DEF ExtAnswer, FindBroken
<1>3. DOMAIN finds'[w] = DOMAIN finds[w]
  BY <1>1 DEF ExtAnswer, FindBroken
<1>4. /\ finds'[w].at = "done" /\ finds'[w].answer # 207 /\ finds'[w].items = finds[w].items
      /\ finds'[w].left = finds[w].left /\ finds'[w].steady = finds[w].steady
  <2>1. CASE ExtAnswer(w, q)
    <3> DEFINE a == IF q.method \in ExtMethods THEN 200 ELSE 405
    <3>1. finds' = [finds EXCEPT ![w].at = "done", ![w].q = q, ![w].answer = a]
      BY <2>1 DEF ExtAnswer
    <3>2. a # 207
      OBVIOUS
    <3>3. HIDE DEF a
    <3>4. QED
      BY <1>1, <3>1, <3>2 DEF ListingSound, FindFields
  <2>2. CASE FindBroken(w, q)
    BY <1>1, <2>2 DEF FindBroken, ListingSound, FindFields
  <2>3. QED
    BY <2>1, <2>2
<1>5. ListingSound(finds'[w])
  BY <1>1, <1>3, <1>4 DEF ListingSound, EachOnce
<1>6. QED
  BY <1>1, <1>2, <1>4, <1>5, FindBecomes

LEMMA SelfStep ==
  ASSUME FindInv, NEW w \in Reader, finds[w].at = "idle", NEW q \in Finds, FindSelf(w, q)
  PROVE  FindInv'
<1> DEFINE at == IF OneLevel(q) THEN "open" ELSE "close"
           g  == [finds[w] EXCEPT !.at = at, !.q = q, !.answer = 207, !.ctx = ContextOf(q.body)]
           u  == q.uri
           f  == Reported(g, u)
<1>1. ListingSound(finds[w]) /\ finds[w].steady \subseteq DOMAIN davTree /\ DOMAIN finds = Reader
  BY DEF FindInv
<1>2. finds' = [finds EXCEPT ![w] = f] /\ UNCHANGED davVars /\ u \in Path
  BY FindAssumption DEF FindSelf
<1>3. finds[w].items = << >> /\ finds[w].left = {} /\ finds[w].steady = {}
  BY <1>1 DEF ListingSound
<1>4. /\ FindFields \subseteq DOMAIN g /\ g.at = at /\ g.q = q /\ g.answer = 207
      /\ g.items = << >> /\ g.left = {} /\ g.steady = {}
  BY <1>1, <1>3 DEF ListingSound, FindFields
<1>5. at \in {"open", "close"}
  OBVIOUS
<1> HIDE DEF g, at, u
<1>6. g.items \in Seq(Item)
  BY <1>4
<1>7. PICK s \in {200, 404} : IsReported(g, Reported(g, u), u, s)
  <2>1. FindFields \subseteq DOMAIN g
    BY <1>4
  <2>2. u \in Path
    BY <1>2
  <2>3. QED
    BY <1>6, <2>1, <2>2, ReportedIs
<1>8. HIDE DEF f
<1>9. f.items = <<[path |-> u, status |-> s]>>
  BY <1>4, <1>7 DEF IsReported, f
<1>10. /\ f.items \in Seq(Item) /\ DOMAIN f.items = {1} /\ Len(f.items) = 1
       /\ f.items[1].path = u
  <2>1. [path |-> u, status |-> s] \in Item
    BY <1>2 DEF Item
  <2>2. QED
    BY <1>9, <2>1
<1>11. /\ f.left = {} /\ f.steady = {} /\ f.at = at /\ f.q = q /\ f.answer = 207
       /\ FindFields \subseteq DOMAIN f
  BY <1>4, <1>7 DEF IsReported, f
<1>12. ListingSound(f)
  BY <1>2, <1>5, <1>10, <1>11 DEF ListingSound, EachOnce, u
<1>13. finds'[w] = f /\ DOMAIN finds' = Reader /\ \A v \in Reader : v # w => finds'[v] = finds[v]
  BY <1>1, <1>2
<1>14. QED
  BY <1>2, <1>11, <1>12, <1>13, FindBecomes

LEMMA OpenStep ==
  ASSUME FindInv, Rooted(davTree), NEW w \in Reader, FindOpen(w)
  PROVE  FindInv'
<1> DEFINE u   == finds[w].q.uri
           all == {Append(u, n) : n \in Entries(davTree, u)}
<1>1. /\ ListingSound(finds[w]) /\ finds[w].steady \subseteq DOMAIN davTree /\ DOMAIN finds = Reader
      /\ finds[w].at = "open"
  BY DEF FindInv, FindOpen
<1>2. /\ u \in Path /\ \A i \in DOMAIN finds[w].items : finds[w].items[i].path = u
      /\ finds[w].left = {} /\ finds[w].steady = {}
  BY <1>1 DEF ListingSound
<1>3. all \subseteq DOMAIN davTree /\ all \subseteq Path /\ u \notin all
  BY <1>2, EntriesAre
<1>4. HIDE DEF all
<1>5. /\ DOMAIN finds' = Reader /\ \A v \in Reader : v # w => finds'[v] = finds[v]
      /\ UNCHANGED davVars
  BY <1>1 DEF FindOpen
<1>6. CASE finds' = [finds EXCEPT ![w].at = "list", ![w].left = all, ![w].steady = all]
  <2>1. /\ FindFields \subseteq DOMAIN finds'[w] /\ finds'[w].at = "list"
        /\ finds'[w].left = all /\ finds'[w].steady = all /\ finds'[w].items = finds[w].items
    BY <1>1, <1>6 DEF ListingSound, FindFields
  <2>2. ListingSound(finds'[w])
    BY <1>1, <1>2, <1>3, <2>1 DEF ListingSound, EachOnce
  <2>3. QED
    BY <1>3, <1>5, <2>1, <2>2, FindBecomes
<1>7. CASE finds' = [finds EXCEPT ![w].at = "close"]
  <2>1. /\ FindFields \subseteq DOMAIN finds'[w] /\ finds'[w].at = "close"
        /\ finds'[w].left = {} /\ finds'[w].steady = {} /\ finds'[w].items = finds[w].items
    BY <1>1, <1>2, <1>7 DEF ListingSound, FindFields
  <2>2. ListingSound(finds'[w])
    BY <1>1, <2>1 DEF ListingSound, EachOnce
  <2>3. QED
    BY <1>5, <2>1, <2>2, FindBecomes
<1>8. QED
  BY <1>6, <1>7 DEF FindOpen, all

LEMMA ItemStep ==
  ASSUME FindInv, NEW w \in Reader, NEW p \in finds[w].left, FindItem(w, p)
  PROVE  FindInv'
<1> DEFINE g == finds[w]
           f == Reported(g, p)
<1>1. /\ ListingSound(g) /\ g.steady \subseteq DOMAIN davTree /\ DOMAIN finds = Reader
      /\ g.at = "list" /\ finds' = [finds EXCEPT ![w] = f] /\ UNCHANGED davVars
  BY DEF FindInv, FindItem
<1>2. /\ FindFields \subseteq DOMAIN g /\ g.items \in Seq(Item) /\ p \in Path /\ g.left \subseteq Path
      /\ \A i, k \in 1 .. Len(g.items) : g.items[i].path = g.items[k].path => i = k
      /\ \A i \in DOMAIN g.items : g.items[i].path \notin g.left
      /\ \A x \in g.steady : x \in g.left
           \/ \E i \in DOMAIN g.items : g.items[i].path = x /\ g.items[i].status = 200
  BY <1>1 DEF ListingSound, EachOnce
<1>3. finds'[w] = f /\ DOMAIN finds' = Reader /\ \A v \in Reader : v # w => finds'[v] = finds[v]
  BY <1>1
<1>4. HIDE DEF g
<1>5. PICK s \in {200, 404} : IsReported(g, f, p, s)
  BY <1>2, ReportedIs
<1> HIDE DEF f
<1>6. /\ p \in DOMAIN davTree => s = 200
      /\ FindFields \subseteq DOMAIN f /\ f.left = g.left \ {p} /\ f.at = g.at
      /\ f.steady = g.steady
  BY <1>5 DEF IsReported
<1>7. DOMAIN g.items = 1 .. Len(g.items) /\ \A i \in 1 .. Len(g.items) : g.items[i].path # p
  BY <1>2 DEF g
<1>8. /\ f.items \in Seq(Item) /\ DOMAIN f.items = 1 .. Len(f.items)
      /\ \A i, k \in 1 .. Len(f.items) : f.items[i].path = f.items[k].path => i = k
      /\ \A i \in 1 .. Len(f.items) :
           f.items[i].path = p \/ \E k \in 1 .. Len(g.items) : f.items[i] = g.items[k]
      /\ \A i \in 1 .. Len(g.items) : \E k \in 1 .. Len(f.items) : f.items[k] = g.items[i]
      /\ \E k \in 1 .. Len(f.items) : f.items[k].path = p /\ f.items[k].status = s
  <2>1. NotYet(g.items, p) /\ p \in Path
    BY <1>2, <1>7 DEF NotYet
  <2>2. HasOneMore(g.items, f.items, p, s)
    BY <1>5, <2>1, OneMore
  <2>3. QED
    BY <2>2 DEF HasOneMore
<1>9. ASSUME NEW i \in DOMAIN f.items
      PROVE  f.items[i].path \notin f.left
  <2>1. f.items[i].path = p \/ \E k \in 1 .. Len(g.items) : f.items[i] = g.items[k]
    BY <1>8
  <2>2. CASE f.items[i].path = p
    BY <1>6, <2>2
  <2>3. CASE \E k \in 1 .. Len(g.items) : f.items[i] = g.items[k]
    <3>1. PICK k \in 1 .. Len(g.items) : f.items[i] = g.items[k]
      BY <2>3
    <3>2. g.items[k].path \notin g.left
      BY <1>2, <1>7
    <3>3. QED
      BY <1>6, <3>1, <3>2
  <2>4. QED
    BY <2>1, <2>2, <2>3
<1>10. ASSUME NEW x \in f.steady
       PROVE  x \in f.left \/ \E i \in DOMAIN f.items : f.items[i].path = x /\ f.items[i].status = 200
  <2>1. CASE x = p
    <3>1. p \in DOMAIN davTree
      BY <1>1, <1>6, <1>10, <2>1
    <3>2. s = 200
      BY <1>6, <3>1
    <3>3. PICK k \in 1 .. Len(f.items) : f.items[k].path = p /\ f.items[k].status = s
      BY <1>8
    <3>4. DOMAIN f.items = 1 .. Len(f.items)
      BY <1>8
    <3>5. QED
      BY <2>1, <3>2, <3>3, <3>4
  <2>2. CASE x # p
    <3>1. x \in g.left \/ \E i \in DOMAIN g.items : g.items[i].path = x /\ g.items[i].status = 200
      BY <1>2, <1>6, <1>10
    <3>2. CASE x \in g.left
      BY <1>6, <2>2, <3>2
    <3>3. CASE \E i \in DOMAIN g.items : g.items[i].path = x /\ g.items[i].status = 200
      <4>1. PICK i \in 1 .. Len(g.items) : g.items[i].path = x /\ g.items[i].status = 200
        BY <1>7, <3>3
      <4>2. PICK k \in 1 .. Len(f.items) : f.items[k] = g.items[i]
        BY <1>8
      <4>3. k \in DOMAIN f.items /\ f.items[k].path = x /\ f.items[k].status = 200
        <5>1. DOMAIN f.items = 1 .. Len(f.items)
          BY <1>8
        <5>2. QED
          BY <4>1, <4>2, <5>1
      <4>4. QED
        BY <4>3
    <3>4. QED
      BY <3>1, <3>2, <3>3
  <2>3. QED
    BY <2>1, <2>2
<1>11. ListingSound(f)
  BY <1>1, <1>2, <1>6, <1>8, <1>9, <1>10 DEF ListingSound, EachOnce
<1>12. f.steady \subseteq DOMAIN davTree
  BY <1>1, <1>6
<1>13. QED
  BY <1>1, <1>3, <1>11, <1>12, FindBecomes

LEMMA EndStep ==
  ASSUME FindInv, NEW w \in Reader, FindClose(w) \/ FindBreaksOff(w)
  PROVE  FindInv'
<1>1. ListingSound(finds[w]) /\ finds[w].steady \subseteq DOMAIN davTree /\ DOMAIN finds = Reader
  BY DEF FindInv
<1>2. /\ DOMAIN finds' = Reader /\ \A v \in Reader : v # w => finds'[v] = finds[v]
      /\ UNCHANGED davVars
  BY <1>1 DEF FindClose, FindBreaksOff
<1>3. /\ FindFields \subseteq DOMAIN finds'[w] /\ finds'[w].at = "done"
      /\ finds'[w].items = finds[w].items
      /\ finds'[w].left = finds[w].left /\ finds'[w].steady = finds[w].steady
  BY <1>1 DEF FindClose, FindBreaksOff, ListingSound, FindFields
<1>4. CASE FindClose(w)
  <2>1. finds[w].left = {} /\ finds[w].at \in {"list", "close"}
    BY <1>4 DEF FindClose
  <2>2. ListingSound(finds'[w])
    BY <1>1, <1>3, <2>1 DEF ListingSound, EachOnce
  <2>3. QED
    BY <1>1, <1>2, <1>3, <2>2, FindBecomes
<1>5. CASE FindBreaksOff(w)
  <2>1. finds'[w].answer = 0
    BY <1>1, <1>5 DEF FindBreaksOff, ListingSound, FindFields
  <2>2. ListingSound(finds'[w])
    BY <1>1, <1>3, <2>1 DEF ListingSound, EachOnce
  <2>3. QED
    BY <1>1, <1>2, <1>3, <2>2, FindBecomes
<1>6. QED
  BY <1>4, <1>5

LEMMA ChangeStep ==
  ASSUME FindInv, NEW w \in Worker, TreeChange(w)
  PROVE  FindInv'
<1>1. finds' = [v \in Reader |-> [finds[v] EXCEPT !.steady = @ \cap DOMAIN davTree']]
  BY DEF TreeChange
<1>2. ASSUME NEW v \in Reader
      PROVE  ListingSound(finds'[v]) /\ finds'[v].steady \subseteq DOMAIN davTree'
  <2>1. ListingSound(finds[v])
    BY DEF FindInv
  <2>2. finds'[v] = [finds[v] EXCEPT !.steady = @ \cap DOMAIN davTree']
    BY <1>1
  <2>3. /\ FindFields \subseteq DOMAIN finds'[v] /\ finds'[v].at = finds[v].at
        /\ finds'[v].q = finds[v].q /\ finds'[v].answer = finds[v].answer
        /\ finds'[v].items = finds[v].items /\ finds'[v].left = finds[v].left
        /\ finds'[v].steady = finds[v].steady \cap DOMAIN davTree'
    BY <2>1, <2>2 DEF ListingSound, FindFields
  <2>4. ListingSound(finds'[v])
    BY <2>1, <2>3 DEF ListingSound, EachOnce
  <2>5. QED
    BY <2>3, <2>4
<1>3. DOMAIN finds' = Reader
  BY <1>1
<1>4. QED
  BY <1>2, <1>3 DEF FindInv, ListingSound, EachOnce

LEMMA FindStepKeeps ==
  ASSUME FindInv, Rooted(davTree), [ExtNext]_<<davVars, finds>>
  PROVE  FindInv'
<1>1. CASE UNCHANGED <<davVars, finds>>
  BY <1>1 DEF FindInv, ListingSound, EachOnce, davVars
<1>2. ASSUME NEW w \in Reader, FindStep(w)
      PROVE  FindInv'
  BY <1>2, AnswerStep, SelfStep, OpenStep, ItemStep, EndStep DEF FindStep
<1>3. QED
  BY <1>1, <1>2, ChangeStep DEF ExtNext

LEMMA FindStarts ==
  ASSUME ExtInit
  PROVE  FindInv
<1>1. DOMAIN finds = Reader /\ \A w \in Reader : finds[w] = NoFind
  BY DEF ExtInit
<1>2. ListingSound(NoFind) /\ NoFind.steady = {}
  BY DEF NoFind, ListingSound, EachOnce, FindFields
<1>3. QED
  BY <1>1, <1>2 DEF FindInv

(* A finished listing has no path twice, and has as there every entry that *)
(* was there throughout.                                                   *)
EntriesTrue == \A w \in Reader : Listed(w) => EachOnce(finds[w]) /\ SteadyReported(finds[w])

LEMMA FindInvMeans ==
  ASSUME FindInv
  PROVE  EntriesTrue
<1>1. ASSUME NEW w \in Reader, Listed(w)
      PROVE  EachOnce(finds[w]) /\ SteadyReported(finds[w])
  <2>1. ListingSound(finds[w]) /\ finds[w].at = "done" /\ finds[w].answer = 207
    BY <1>1 DEF FindInv, Listed
  <2>2. DOMAIN finds[w].items = 1 .. Len(finds[w].items)
    BY <2>1 DEF ListingSound
  <2>3. QED
    BY <2>1, <2>2 DEF ListingSound, SteadyReported
<1>2. QED
  BY <1>1 DEF EntriesTrue

\* A listing leaves the tree alone.
LEMMA ExtKeepsTree ==
  ASSUME DavInv, [ExtNext]_<<davVars, finds>>
  PROVE  DavInv'
<1>1. (\E w \in Worker : TreeChange(w)) => DavNext
  BY DEF TreeChange, DavNext
<1>2. (\E w \in Reader : FindStep(w)) => UNCHANGED davVars
  BY DEF FindStep, ExtAnswer, FindBroken, FindSelf, FindOpen, FindItem, FindClose, FindBreaksOff
<1>3. [DavNext]_davVars
  BY <1>1, <1>2 DEF ExtNext
<1>4. QED
  BY <1>3, DavInvStep

(* A PROPFIND that took no lock and was answered in full reported no path   *)
(* twice, and reported as there every entry of the directory that was there *)
(* from opendir to the end, whatever the handlers of the tree did between   *)
(* two entries: the part of ListingTrue that is about the entries.          *)
THEOREM EntriesTrueAlways == ExtSpec => []EntriesTrue
<1>1. DavInit /\ ExtInit => DavInv /\ FindInv
  BY DavInvStarts, FindStarts
<1>2. DavInv /\ [ExtNext]_<<davVars, finds>> => DavInv'
  BY ExtKeepsTree
<1>3. DavInv /\ FindInv /\ [ExtNext]_<<davVars, finds>> => FindInv'
  BY FindStepKeeps DEF DavInv
<1>4. FindInv => EntriesTrue
  BY FindInvMeans
<1>5. QED
  BY <1>1, <1>2, <1>3, <1>4, PTL DEF ExtSpec

-----------------------------------------------------------------------------
(* The bodies of the listings, and induction over numbers for them *)

LEMMA Induction ==
  ASSUME NEW T, T \subseteq Nat, 0 \in T, \A n \in T : n + 1 \in T
  PROVE  T = Nat
<1> SUFFICES ASSUME Nat \ T # {} PROVE FALSE
  OBVIOUS
<1>1. PICK n \in Nat \ T : \A k \in Nat \ T : ~(<<k, n>> \in OpToRel(<, Nat))
  BY NatLessThanWellFounded, WFMin
<1>2. n # 0 /\ n - 1 \in Nat
  OBVIOUS
<1>3. n - 1 \notin T
  BY <1>2
<1>4. <<n - 1, n>> \in OpToRel(<, Nat)
  BY <1>2 DEF OpToRel
<1>5. QED
  BY <1>1, <1>2, <1>3, <1>4

LEMMA InductionUpTo ==
  ASSUME NEW n \in Nat, NEW T, 0 \in T, \A k \in 0 .. n - 1 : k \in T => k + 1 \in T
  PROVE  \A k \in 0 .. n : k \in T
<1> DEFINE S == {k \in Nat : k <= n => k \in T}
<1>1. 0 \in S
  OBVIOUS
<1>2. ASSUME NEW k \in S
      PROVE  k + 1 \in S
  <2>1. ASSUME k + 1 <= n PROVE k + 1 \in T
    <3>1. k \in 0 .. n - 1 /\ k <= n
      BY <2>1
    <3>2. QED
      BY <3>1
  <2>2. QED
    BY <2>1
<1>3. S = Nat
  <2>1. S \subseteq Nat
    OBVIOUS
  <2> HIDE DEF S
  <2>2. QED
    BY <1>1, <1>2, <2>1, Induction
<1>4. QED
  BY <1>3

\* The smallest of a set of numbers.
LEMMA Smallest ==
  ASSUME NEW S, S \subseteq Nat, S # {}
  PROVE  \E i \in S : \A k \in S : i <= k
<1>1. PICK i \in S : \A k \in S : ~(<<k, i>> \in OpToRel(<, Nat))
  BY NatLessThanWellFounded, WFMin
<1>2. ASSUME NEW k \in S PROVE i <= k
  <2>1. k \in Nat /\ i \in Nat /\ ~(<<k, i>> \in OpToRel(<, Nat))
    BY <1>1
  <2>2. ASSUME k < i PROVE FALSE
    <3>1. <<k, i>> \in OpToRel(<, Nat)
      BY <2>1, <2>2 DEF OpToRel
    <3>2. QED
      BY <2>1, <3>1
  <2>3. k \in Nat /\ i \in Nat
    BY <2>1
  <2>4. QED
    BY <2>2, <2>3
<1>3. QED
  BY <1>2

-----------------------------------------------------------------------------
(* What the parser tells of the buffers that are parsed *)

LEMMA ParsedAre ==
  ASSUME NEW body \in Buffers
  PROVE  ParsedBuffers(body) \in Buffers
<1> DEFINE ends == {i \in 1 .. Len(body) : body[i].last}
           i == CHOOSE i \in ends : \A k \in ends : i <= k
           n == IF ends = {} THEN Len(body) ELSE i - 1
<1>1. Len(body) \in Nat
  BY DEF Buffers
<1>2. n \in 0 .. Len(body)
  <2>1. ASSUME ends # {} PROVE i \in 1 .. Len(body)
    <3>1. \E k \in ends : \A j \in ends : k <= j
      <4>1. ends \subseteq Nat
        BY <1>1
      <4> HIDE DEF ends
      <4>2. QED
        BY <2>1, <4>1, Smallest
    <3>2. i \in ends
      <4> HIDE DEF ends
      <4>1. QED
        BY <3>1
    <3>3. QED
      BY <3>2
  <2> HIDE DEF ends, i
  <2>2. QED
    BY <1>1, <2>1
<1>3. ParsedBuffers(body) = SubSeq(body, 1, n)
  BY DEF ParsedBuffers
<1> DEFINE S == [events : Seq(Event), last : BOOLEAN]
<1> HIDE DEF n, S
<1>4. SubSeq(body, 1, n) \in Seq(S)
  <2>1. body \in Seq(S)
    BY DEF Buffers, S
  <2>2. \A k \in 1 .. n : k \in 1 .. Len(body)
    BY <1>1, <1>2
  <2>3. QED
    BY <1>1, <1>2, <2>1, <2>2
<1>5. QED
  BY <1>3, <1>4 DEF Buffers, S

ReadOf(bufs, read, k) == IF k = 0 THEN << >> ELSE read[k - 1] \o bufs[k].events
ReadAll(bufs, read, m) == [k \in 0 .. m |-> ReadOf(bufs, read, k)]

LEMMA ReadUpTo ==
  ASSUME NEW bufs, NEW m \in Nat
  PROVE  \E p : p = ReadAll(bufs, p, m)
<1> DEFINE W(p, k) == ReadOf(bufs, p, k)
           T == {k \in Nat : \E p : p = [j \in 0 .. k |-> W(p, j)]}
<1>1. 0 \in T
  <2> DEFINE p == [j \in 0 .. 0 |-> << >>]
  <2>1. \A j \in 0 .. 0 : j = 0
    OBVIOUS
  <2>2. p = [j \in 0 .. 0 |-> W(p, j)]
    BY <2>1 DEF ReadOf
  <2> HIDE DEF p, W
  <2>3. QED
    BY <2>2
<1>2. ASSUME NEW k \in T
      PROVE  k + 1 \in T
  <2>1. PICK p : p = [j \in 0 .. k |-> W(p, j)]
    OBVIOUS
  <2> DEFINE q == [j \in 0 .. k + 1 |-> IF j \in 0 .. k THEN p[j] ELSE W(p, j)]
  <2>2. ASSUME NEW j \in 0 .. k + 1
        PROVE  W(q, j) = W(p, j)
    <3>1. CASE j = 0
      BY <3>1 DEF ReadOf
    <3>2. CASE j # 0
      <4>1. j - 1 \in 0 .. k /\ j - 1 \in 0 .. k + 1
        BY <3>2
      <4>2. q[j - 1] = p[j - 1]
        BY <4>1
      <4>3. HIDE DEF q
      <4>4. QED
        BY <4>2 DEF ReadOf
    <3>3. QED
      BY <3>1, <3>2
  <2>3. \A j \in 0 .. k : p[j] = W(p, j)
    BY <2>1
  <2>4. q = [j \in 0 .. k + 1 |-> W(q, j)]
    <3> HIDE DEF W
    <3>1. QED
      BY <2>2, <2>3
  <2> HIDE DEF q, W
  <2>5. QED
    BY <2>4
<1>3. T = Nat
  <2>1. T \subseteq Nat
    OBVIOUS
  <2> HIDE DEF T
  <2>2. QED
    BY <1>1, <1>2, <2>1, Induction
<1>4. m \in T
  <2> HIDE DEF T
  <2>1. QED
    BY <1>3
<1>5. QED
  BY <1>4 DEF ReadAll

LEMMA EventsAre ==
  ASSUME NEW body \in Buffers
  PROVE  EventsOf(body) \in Seq(Event)
<1> DEFINE bufs == ParsedBuffers(body)
           m == Len(bufs)
           W(p) == ReadAll(bufs, p, m)
           read == CHOOSE p : p = W(p)
<1>1. bufs \in Buffers
  BY ParsedAre
<1> HIDE DEF bufs
<1>2. m \in Nat /\ \A k \in 1 .. m : bufs[k].events \in Seq(Event)
  <2> DEFINE S == [events : Seq(Event), last : BOOLEAN]
  <2>1. bufs \in Seq(S) /\ \A b \in S : b.events \in Seq(Event)
    BY <1>1 DEF Buffers
  <2> HIDE DEF S
  <2>2. QED
    BY <2>1
<1>3. read = W(read)
  <2>1. \E p : p = W(p)
    <3>1. m \in Nat
      BY <1>2
    <3> HIDE DEF m
    <3>2. QED
      BY <3>1, ReadUpTo
  <2> HIDE DEF W
  <2>2. QED
    BY <2>1
<1>4. EventsOf(body) = read[m]
  BY DEF EventsOf, ReadOf, ReadAll, bufs
<1> HIDE DEF read
<1> DEFINE T == {k \in 0 .. m : read[k] \in Seq(Event)}
<1>5. 0 \in T
  <2>1. 0 \in 0 .. m /\ W(read)[0] = << >>
    BY <1>2 DEF ReadOf, ReadAll
  <2>2. read[0] = << >>
    <3> HIDE DEF W
    <3>1. QED
      BY <1>3, <2>1
  <2>3. << >> \in Seq(Event)
    OBVIOUS
  <2>4. QED
    BY <2>1, <2>2, <2>3
<1>6. ASSUME NEW k \in 0 .. m - 1, k \in T
      PROVE  k + 1 \in T
  <2>1. k + 1 \in 0 .. m /\ k + 1 # 0 /\ (k + 1) - 1 = k /\ k + 1 \in 1 .. m
    BY <1>2
  <2>2. W(read)[k + 1] = read[k] \o bufs[k + 1].events
    BY <2>1 DEF ReadOf, ReadAll
  <2>3. read[k + 1] = read[k] \o bufs[k + 1].events
    <3> HIDE DEF W
    <3>1. QED
      BY <1>3, <2>2
  <2>4. read[k] \in Seq(Event) /\ bufs[k + 1].events \in Seq(Event)
    BY <1>2, <1>6, <2>1
  <2>5. read[k] \o bufs[k + 1].events \in Seq(Event)
    BY <2>4
  <2>6. QED
    BY <2>1, <2>3, <2>5
<1>7. \A k \in 0 .. m : k \in T
  <2> HIDE DEF T, m
  <2>1. QED
    BY <1>2, <1>5, <1>6, InductionUpTo
<1>8. m \in 0 .. m
  BY <1>2
<1>9. QED
  BY <1>4, <1>7, <1>8

-----------------------------------------------------------------------------
(* How deep the elements lie *)

\* The events among the first k that start, or end, an element n.
UpTo(es, k, n, what) == {j \in 1 .. k : es[j].what = what /\ xmlcmp(es[j].name) = n}

Count(es, k, n, what) == Cardinality(UpTo(es, k, n, what))
Depth(es, k, n) == Count(es, k, n, "start") - Count(es, k, n, "end")

LEMMA CountIs ==
  ASSUME NEW es, NEW n, NEW what, NEW k \in Nat
  PROVE  /\ Count(es, 0, n, what) = 0
         /\ Count(es, k, n, what) \in Nat
         /\ Count(es, k + 1, n, what) =
              Count(es, k, n, what) +
                (IF es[k + 1].what = what /\ xmlcmp(es[k + 1].name) = n THEN 1 ELSE 0)
<1> DEFINE U == UpTo(es, k, n, what)
           V == UpTo(es, k + 1, n, what)
<1>1. Count(es, 0, n, what) = 0
  <2>1. UpTo(es, 0, n, what) = {}
    BY DEF UpTo
  <2>2. QED
    BY <2>1, FS_EmptySet DEF Count
<1>2. U \subseteq 1 .. k
  BY DEF UpTo
<1>3. IsFiniteSet(1 .. k)
  <2>1. 1 \in Int /\ k \in Int
    OBVIOUS
  <2>2. QED
    BY <2>1, FS_Interval
<1>4. IsFiniteSet(U) /\ Cardinality(U) \in Nat
  BY <1>2, <1>3, FS_Subset, FS_CardinalityType
<1>5. V = IF es[k + 1].what = what /\ xmlcmp(es[k + 1].name) = n THEN U \cup {k + 1} ELSE U
  <2>1. \A j : j \in 1 .. k + 1 <=> j \in 1 .. k \/ j = k + 1
    OBVIOUS
  <2>2. QED
    BY <2>1 DEF UpTo
<1>6. k + 1 \notin U
  BY <1>2
<1> HIDE DEF U, V
<1>7. Cardinality(U \cup {k + 1}) = Cardinality(U) + 1
  BY <1>4, <1>6, FS_AddElement
<1>8. Cardinality(V) = Cardinality(U) + (IF es[k + 1].what = what /\ xmlcmp(es[k + 1].name) = n THEN 1 ELSE 0)
  BY <1>4, <1>5, <1>7
<1>9. QED
  BY <1>1, <1>4, <1>8 DEF Count, U, V

LEMMA InsideIs ==
  ASSUME NEW es, NEW k \in Nat, NEW n
  PROVE  Inside(es, k + 1, n) <=> Depth(es, k, n) > 0
<1>1. (k + 1) - 1 = k
  OBVIOUS
<1>2. Inside(es, k + 1, n) <=> Count(es, k, n, "start") > Count(es, k, n, "end")
  BY <1>1 DEF Inside, Count, UpTo
<1>3. Count(es, k, n, "start") \in Nat /\ Count(es, k, n, "end") \in Nat
  BY CountIs
<1>4. QED
  BY <1>2, <1>3 DEF Depth

\* What an event does to the depth.
Turn(e, n) == IF xmlcmp(e.name) # n THEN 0 ELSE IF e.what = "start" THEN 1 ELSE -1

LEMMA DepthIs ==
  ASSUME NEW es, NEW n, NEW k \in Nat, es[k + 1].what \in {"start", "end"}
  PROVE  /\ Depth(es, 0, n) = 0 /\ Depth(es, k, n) \in Int
         /\ Depth(es, k + 1, n) = Depth(es, k, n) + Turn(es[k + 1], n)
<1> DEFINE a == Count(es, k, n, "start")
           b == Count(es, k, n, "end")
           e == es[k + 1]
<1>1. Count(es, 0, n, "start") = 0 /\ Count(es, 0, n, "end") = 0 /\ a \in Nat /\ b \in Nat
  BY CountIs
<1>2. /\ Count(es, k + 1, n, "start") = a + (IF e.what = "start" /\ xmlcmp(e.name) = n THEN 1 ELSE 0)
      /\ Count(es, k + 1, n, "end") = b + (IF e.what = "end" /\ xmlcmp(e.name) = n THEN 1 ELSE 0)
  BY CountIs
<1> DEFINE c == Count(es, k + 1, n, "start")
           d == Count(es, k + 1, n, "end")
<1> HIDE DEF a, b, e, c, d
<1>3. c - d = (a - b) + Turn(e, n)
  <2>1. CASE xmlcmp(e.name) # n
    BY <1>1, <1>2, <2>1 DEF Turn, c, d
  <2>2. CASE xmlcmp(e.name) = n
    <3>1. CASE e.what = "start"
      BY <1>1, <1>2, <2>2, <3>1 DEF Turn, c, d
    <3>2. CASE e.what = "end"
      BY <1>1, <1>2, <2>2, <3>2 DEF Turn, c, d
    <3>3. QED
      BY <3>1, <3>2 DEF e
  <2>3. QED
    BY <2>1, <2>2
<1>4. QED
  BY <1>1, <1>3 DEF Depth, a, b, c, d, e

\* The events of a body that is XML.
Whole(es) == /\ Len(es) \in Nat
             /\ \A i \in 1 .. Len(es) : es[i].what \in {"start", "end"}

\* An element lies in none of its own name.
LEMMA DepthOfProper ==
  ASSUME NEW es, Whole(es), Proper(es), NEW n \in ElementNodes
  PROVE  \A k \in 0 .. Len(es) : Depth(es, k, n) \in {0, 1}
<1> DEFINE m == Len(es)
           T == {k \in 0 .. m : Depth(es, k, n) \in {0, 1}}
<1>1. m \in Nat
  BY DEF Whole
<1>2. 0 \in T
  <2>1. Depth(es, 0, n) = 0
    BY CountIs DEF Depth
  <2>2. QED
    BY <1>1, <2>1
<1>3. ASSUME NEW k \in 0 .. m - 1, k \in T
      PROVE  k + 1 \in T
  <2>1. k \in Nat /\ k + 1 \in 1 .. m /\ k + 1 \in 0 .. m /\ es[k + 1].what \in {"start", "end"}
    BY <1>1 DEF Whole
  <2>2. /\ Depth(es, k + 1, n) = Depth(es, k, n) + Turn(es[k + 1], n)
        /\ Inside(es, k + 1, n) <=> Depth(es, k, n) > 0
    BY <2>1, DepthIs, InsideIs
  <2>3. xmlcmp(es[k + 1].name) = n => (es[k + 1].what = "start" <=> ~Inside(es, k + 1, n))
    BY <2>1 DEF Proper
  <2>4. Depth(es, k, n) \in {0, 1}
    BY <1>3
  <2> DEFINE d == Depth(es, k, n)
             e == es[k + 1]
  <2>5. d + Turn(e, n) \in {0, 1}
    <3>1. d \in {0, 1} /\ (xmlcmp(e.name) = n => (e.what = "start" <=> ~(d > 0)))
      BY <2>2, <2>3, <2>4
    <3> HIDE DEF d, e
    <3>2. QED
      BY <3>1 DEF Turn
  <2>6. QED
    BY <2>1, <2>2, <2>5
<1>4. QED
  <2> HIDE DEF T
  <2>1. \A k \in 0 .. m : k \in T
    <3> HIDE DEF m
    <3>1. QED
      BY <1>1, <1>2, <1>3, InductionUpTo
  <2>2. QED
    BY <2>1 DEF T

\* The elements that are open after k events.
OpenAfter(es, k) == {n \in ElementNodes : Inside(es, k + 1, n)}

LEMMA OpenIs ==
  ASSUME NEW es, Whole(es), Proper(es), NEW k \in 0 .. Len(es) - 1
  PROVE  /\ OpenAfter(es, 0) = {}
         /\ OpenAfter(es, k + 1) = IF xmlcmp(es[k + 1].name) \notin ElementNodes THEN OpenAfter(es, k)
                              ELSE (OpenAfter(es, k) \ {xmlcmp(es[k + 1].name)})
                                   \cup ({xmlcmp(es[k + 1].name)} \ OpenAfter(es, k))
<1> DEFINE e == es[k + 1]
           x == xmlcmp(e.name)
<1>1. Len(es) \in Nat /\ k \in Nat /\ k + 1 \in Nat /\ k + 1 \in 1 .. Len(es) /\ k \in 0 .. Len(es)
      /\ k + 1 \in 0 .. Len(es) /\ e.what \in {"start", "end"} /\ 0 \in Nat
  BY DEF Whole
<1>2. ASSUME NEW n \in ElementNodes
      PROVE  /\ n \notin OpenAfter(es, 0)
             /\ n \in OpenAfter(es, k + 1) <=> IF x = n THEN n \notin OpenAfter(es, k) ELSE n \in OpenAfter(es, k)
  <2>1. /\ Depth(es, 0, n) = 0 /\ Depth(es, k + 1, n) = Depth(es, k, n) + Turn(e, n)
        /\ Depth(es, k, n) \in {0, 1} /\ Depth(es, k + 1, n) \in {0, 1}
    BY <1>1, DepthIs, DepthOfProper
  <2>2. /\ Inside(es, 0 + 1, n) <=> Depth(es, 0, n) > 0
        /\ Inside(es, k + 1, n) <=> Depth(es, k, n) > 0
        /\ Inside(es, (k + 1) + 1, n) <=> Depth(es, k + 1, n) > 0
    BY ONLY <1>1, InsideIs
  <2>3. x = n => Turn(e, n) \in {1, -1}
    BY DEF Turn
  <2>4. x # n => Turn(e, n) = 0
    BY DEF Turn
  <2> DEFINE c == Depth(es, k, n)
             d == Depth(es, k + 1, n)
             t == Turn(e, n)
  <2>5. d > 0 <=> IF x = n THEN ~(c > 0) ELSE c > 0
    <3>1. d = c + t /\ c \in {0, 1} /\ d \in {0, 1} /\ (x = n => t \in {1, -1}) /\ (x # n => t = 0)
      BY <2>1, <2>3, <2>4
    <3> HIDE DEF c, d, t, x
    <3>2. QED
      BY <3>1
  <2>6. QED
    BY <2>1, <2>2, <2>5 DEF OpenAfter
<1>3. OpenAfter(es, 0) \subseteq ElementNodes /\ OpenAfter(es, k) \subseteq ElementNodes /\ OpenAfter(es, k + 1) \subseteq ElementNodes
  BY DEF OpenAfter
<1> HIDE DEF x
<1>4. OpenAfter(es, 0) = {}
  BY <1>2, <1>3
<1>5. OpenAfter(es, k + 1) = IF x \notin ElementNodes THEN OpenAfter(es, k)
                        ELSE (OpenAfter(es, k) \ {x}) \cup ({x} \ OpenAfter(es, k))
  BY <1>2, <1>3
<1>6. QED
  BY <1>4, <1>5 DEF x

-----------------------------------------------------------------------------
(* What the handlers of the parser collect *)

CtxOf(es, ctx, k)  == IF k = 0 THEN NoContext ELSE XmlEvent(ctx[k - 1], es[k])
CtxAll(es, ctx, m) == [k \in 0 .. m |-> CtxOf(es, ctx, k)]

LEMMA CtxUpTo ==
  ASSUME NEW es, NEW m \in Nat
  PROVE  \E p : p = CtxAll(es, p, m)
<1> DEFINE W(p, k) == CtxOf(es, p, k)
           T == {k \in Nat : \E p : p = [j \in 0 .. k |-> W(p, j)]}
<1>1. 0 \in T
  <2> DEFINE p == [j \in 0 .. 0 |-> NoContext]
  <2>1. \A j \in 0 .. 0 : j = 0
    OBVIOUS
  <2>2. p = [j \in 0 .. 0 |-> W(p, j)]
    BY <2>1 DEF CtxOf
  <2> HIDE DEF p, W
  <2>3. QED
    BY <2>2
<1>2. ASSUME NEW k \in T
      PROVE  k + 1 \in T
  <2>1. PICK p : p = [j \in 0 .. k |-> W(p, j)]
    OBVIOUS
  <2> DEFINE q == [j \in 0 .. k + 1 |-> IF j \in 0 .. k THEN p[j] ELSE W(p, j)]
  <2>2. ASSUME NEW j \in 0 .. k + 1
        PROVE  W(q, j) = W(p, j)
    <3>1. CASE j = 0
      BY <3>1 DEF CtxOf
    <3>2. CASE j # 0
      <4>1. j - 1 \in 0 .. k /\ j - 1 \in 0 .. k + 1
        BY <3>2
      <4>2. q[j - 1] = p[j - 1]
        BY <4>1
      <4>3. HIDE DEF q
      <4>4. QED
        BY <4>2 DEF CtxOf
    <3>3. QED
      BY <3>1, <3>2
  <2>3. \A j \in 0 .. k : p[j] = W(p, j)
    BY <2>1
  <2>4. q = [j \in 0 .. k + 1 |-> W(q, j)]
    <3> HIDE DEF W
    <3>1. QED
      BY <2>2, <2>3
  <2> HIDE DEF q, W
  <2>5. QED
    BY <2>4
<1>3. T = Nat
  <2>1. T \subseteq Nat
    OBVIOUS
  <2> HIDE DEF T
  <2>2. QED
    BY <1>1, <1>2, <2>1, Induction
<1>4. m \in T
  <2> HIDE DEF T
  <2>1. QED
    BY <1>3
<1>5. QED
  BY <1>4 DEF CtxAll

\* An end inside propfind and inside n, among the first k events.
EndsIn(es, n, k) ==
  {j \in 1 .. k : es[j].what = "end" /\ Inside(es, j, "propfind") /\ Inside(es, j, n)}

\* What the first k events ask for.
PropsAfter(es, k) == {xmlcmp(es[i].name) : i \in EndsIn(es, "prop", k)} \cap PropNames
ModeAfter(es, k)  == IF EndsIn(es, "allprop", k) # {} THEN "all"
                     ELSE IF EndsIn(es, "propname", k) # {} THEN "names"
                     ELSE IF EndsIn(es, "prop", k) # {} THEN "selected" ELSE "none"

CtxFields == {"nodes", "props", "propfind"}

CtxGood(es, c, k) ==
  /\ CtxFields \subseteq DOMAIN c
  /\ c.nodes = OpenAfter(es, k) /\ c.props = PropsAfter(es, k) /\ c.propfind = ModeAfter(es, k)

LEMMA EndsInNext ==
  ASSUME NEW es, NEW n, NEW k \in Nat
  PROVE  /\ EndsIn(es, n, 0) = {}
         /\ EndsIn(es, n, k + 1) =
              IF es[k + 1].what = "end" /\ Inside(es, k + 1, "propfind") /\ Inside(es, k + 1, n)
              THEN EndsIn(es, n, k) \cup {k + 1} ELSE EndsIn(es, n, k)
<1>1. \A j : j \in 1 .. k + 1 <=> j \in 1 .. k \/ j = k + 1
  OBVIOUS
<1>2. 1 .. 0 = {}
  OBVIOUS
<1>3. QED
  BY <1>1, <1>2 DEF EndsIn

\* At most one of the elements that ask has had an end.
LEMMA OneAsks ==
  ASSUME NEW es, Whole(es), Proper(es), NEW k \in 0 .. Len(es),
         NEW m \in ElementNodes \ {"propfind"}, NEW n \in ElementNodes \ {"propfind"},
         EndsIn(es, m, k) # {}, EndsIn(es, n, k) # {}
  PROVE  m = n
<1>1. Len(es) \in Nat
  BY DEF Whole
<1>2. 1 .. k \subseteq 1 .. Len(es)
  BY <1>1
<1>3. Asks(es, m) /\ Asks(es, n)
  BY <1>2 DEF EndsIn, Asks
<1>4. QED
  BY <1>3 DEF Proper

\* Toggling a node leaves the rest.
Toggled(c, d, x) ==
  /\ CtxFields \subseteq DOMAIN d /\ d.props = c.props /\ d.propfind = c.propfind
  /\ d.nodes = IF x \notin ElementNodes THEN c.nodes ELSE (c.nodes \ {x}) \cup ({x} \ c.nodes)

LEMMA StartIs ==
  ASSUME NEW c, CtxFields \subseteq DOMAIN c, NEW name
  PROVE  Toggled(c, start_xml_elt(c, name), xmlcmp(name))
BY DEF start_xml_elt, CtxFields, Toggled

LEMMA ChosenIs ==
  ASSUME NEW c, CtxFields \subseteq DOMAIN c, NEW name
  PROVE  LET d == Chosen(c, name)
             x == xmlcmp(name)
         IN  /\ CtxFields \subseteq DOMAIN d /\ d.nodes = c.nodes
             /\ d.props = IF "propfind" \in c.nodes /\ "prop" \in c.nodes
                          THEN c.props \cup ({x} \cap PropNames) ELSE c.props
             /\ d.propfind = IF "propfind" \notin c.nodes THEN c.propfind
                             ELSE IF "allprop" \in c.nodes THEN "all"
                             ELSE IF "propname" \in c.nodes THEN "names"
                             ELSE IF "prop" \in c.nodes THEN "selected" ELSE c.propfind
<1> DEFINE a == IF "prop" \in c.nodes THEN c.props \cup ({xmlcmp(name)} \cap PropNames) ELSE c.props
           b == IF "allprop" \in c.nodes THEN "all"
                ELSE IF "propname" \in c.nodes THEN "names"
                ELSE IF "prop" \in c.nodes THEN "selected" ELSE c.propfind
<1>1. Chosen(c, name) = IF "propfind" \notin c.nodes THEN c
                        ELSE [c EXCEPT !.props = a, !.propfind = b]
  BY DEF Chosen
<1>2. CASE "propfind" \notin c.nodes
  BY <1>1, <1>2
<1>3. CASE "propfind" \in c.nodes
  <2> HIDE DEF a, b
  <2>1. LET d == Chosen(c, name)
        IN  CtxFields \subseteq DOMAIN d /\ d.nodes = c.nodes /\ d.props = a /\ d.propfind = b
    BY <1>1, <1>3 DEF CtxFields
  <2>2. QED
    BY <1>3, <2>1 DEF a, b
<1>4. QED
  BY <1>2, <1>3

LEMMA CtxStep ==
  ASSUME NEW es, Whole(es), Proper(es), NEW k \in 0 .. Len(es) - 1, NEW c, CtxGood(es, c, k)
  PROVE  CtxGood(es, XmlEvent(c, es[k + 1]), k + 1)
<1> DEFINE e == es[k + 1]
           x == xmlcmp(e.name)
           d == XmlEvent(c, e)
           in(n) == n \in c.nodes
<1>1. /\ k \in Nat /\ k + 1 \in 1 .. Len(es) /\ e.what \in {"start", "end"} /\ Len(es) \in Nat
      /\ k \in 0 .. Len(es) /\ k + 1 \in 0 .. Len(es)
  BY DEF Whole
<1>2. CtxFields \subseteq DOMAIN c /\ c.nodes = OpenAfter(es, k)
      /\ c.props = PropsAfter(es, k) /\ c.propfind = ModeAfter(es, k)
  BY DEF CtxGood
<1>3. \A n \in ElementNodes : n \in c.nodes <=> Inside(es, k + 1, n)
  BY <1>2 DEF OpenAfter
<1>4. OpenAfter(es, k + 1) = IF x \notin ElementNodes THEN c.nodes
                             ELSE (c.nodes \ {x}) \cup ({x} \ c.nodes)
  <2>1. OpenAfter(es, k + 1) = IF x \notin ElementNodes THEN OpenAfter(es, k)
                               ELSE (OpenAfter(es, k) \ {x}) \cup ({x} \ OpenAfter(es, k))
    BY OpenIs
  <2> HIDE DEF x
  <2>2. QED
    BY <1>2, <2>1
<1>5. \A n \in ElementNodes :
        EndsIn(es, n, k + 1) = IF e.what = "end" /\ "propfind" \in c.nodes /\ n \in c.nodes
                               THEN EndsIn(es, n, k) \cup {k + 1} ELSE EndsIn(es, n, k)
  <2>1. "propfind" \in ElementNodes
    BY DEF ElementNodes
  <2>2. QED
    BY <1>1, <1>3, <2>1, EndsInNext
<1>6. {"prop", "propname", "allprop"} \subseteq ElementNodes \ {"propfind"}
  BY DEF ElementNodes
<1>7. PropsAfter(es, k + 1) = IF e.what = "end" /\ "propfind" \in c.nodes /\ "prop" \in c.nodes
                              THEN c.props \cup ({x} \cap PropNames) ELSE c.props
  BY <1>2, <1>5, <1>6 DEF PropsAfter
<1>8. \A m, n \in {"prop", "propname", "allprop"} :
        EndsIn(es, m, k + 1) # {} /\ EndsIn(es, n, k + 1) # {} => m = n
  BY <1>1, <1>6, OneAsks
<1>9. ModeAfter(es, k + 1) =
        IF e.what # "end" \/ "propfind" \notin c.nodes THEN c.propfind
        ELSE IF "allprop" \in c.nodes THEN "all"
        ELSE IF "propname" \in c.nodes THEN "names"
        ELSE IF "prop" \in c.nodes THEN "selected" ELSE c.propfind
  <2> DEFINE A == EndsIn(es, "allprop", k + 1) # {}
             N == EndsIn(es, "propname", k + 1) # {}
             P == EndsIn(es, "prop", k + 1) # {}
  <2>1. ~(A /\ N) /\ ~(A /\ P) /\ ~(N /\ P)
    BY <1>8
  <2>2. ModeAfter(es, k + 1) = IF A THEN "all" ELSE IF N THEN "names" ELSE IF P THEN "selected" ELSE "none"
    BY DEF ModeAfter
  <2>3. c.propfind = IF EndsIn(es, "allprop", k) # {} THEN "all"
                     ELSE IF EndsIn(es, "propname", k) # {} THEN "names"
                     ELSE IF EndsIn(es, "prop", k) # {} THEN "selected" ELSE "none"
    BY <1>2 DEF ModeAfter
  <2>4. CASE e.what # "end" \/ "propfind" \notin c.nodes
    <3>1. /\ EndsIn(es, "allprop", k + 1) = EndsIn(es, "allprop", k)
          /\ EndsIn(es, "propname", k + 1) = EndsIn(es, "propname", k)
          /\ EndsIn(es, "prop", k + 1) = EndsIn(es, "prop", k)
      BY <1>5, <1>6, <2>4
    <3>2. QED
      BY <2>2, <2>3, <2>4, <3>1
  <2>5. CASE e.what = "end" /\ "propfind" \in c.nodes
    <3>1. CASE "allprop" \in c.nodes
      <4>1. A
        BY <1>5, <1>6, <2>5, <3>1
      <4>2. QED
        BY <2>2, <2>5, <3>1, <4>1
    <3>2. CASE "allprop" \notin c.nodes /\ "propname" \in c.nodes
      <4>1. N
        BY <1>5, <1>6, <2>5, <3>2
      <4>2. QED
        BY <2>1, <2>2, <2>5, <3>2, <4>1
    <3>3. CASE "allprop" \notin c.nodes /\ "propname" \notin c.nodes /\ "prop" \in c.nodes
      <4>1. P
        BY <1>5, <1>6, <2>5, <3>3
      <4>2. QED
        BY <2>1, <2>2, <2>5, <3>3, <4>1
    <3>4. CASE "allprop" \notin c.nodes /\ "propname" \notin c.nodes /\ "prop" \notin c.nodes
      BY <1>5, <1>6, <2>2, <2>3, <2>5, <3>4
    <3>5. QED
      BY <3>1, <3>2, <3>3, <3>4
  <2>6. QED
    BY <2>4, <2>5
<1>10. /\ CtxFields \subseteq DOMAIN d /\ d.nodes = OpenAfter(es, k + 1)
       /\ d.props = PropsAfter(es, k + 1) /\ d.propfind = ModeAfter(es, k + 1)
  <2>1. CASE e.what = "start"
    <3>1. d = start_xml_elt(c, e.name)
      BY <2>1 DEF XmlEvent
    <3>2. Toggled(c, d, x)
      BY <1>2, <3>1, StartIs
    <3> HIDE DEF d, e, x
    <3>3. QED
      BY <1>4, <1>7, <1>9, <2>1, <3>2 DEF Toggled
  <2>2. CASE e.what = "end"
    <3> DEFINE g == Chosen(c, e.name)
    <3>1. d = start_xml_elt(g, e.name)
      BY <2>2 DEF XmlEvent, end_xml_elt
    <3>2. /\ CtxFields \subseteq DOMAIN g /\ g.nodes = c.nodes
          /\ g.props = IF "propfind" \in c.nodes /\ "prop" \in c.nodes
                       THEN c.props \cup ({x} \cap PropNames) ELSE c.props
          /\ g.propfind = IF "propfind" \notin c.nodes THEN c.propfind
                          ELSE IF "allprop" \in c.nodes THEN "all"
                          ELSE IF "propname" \in c.nodes THEN "names"
                          ELSE IF "prop" \in c.nodes THEN "selected" ELSE c.propfind
      BY <1>2, ChosenIs
    <3> HIDE DEF g
    <3>3. Toggled(g, d, x)
      BY <3>1, <3>2, StartIs
    <3> HIDE DEF d, e, x
    <3>4. QED
      BY <1>4, <1>7, <1>9, <2>2, <3>2, <3>3 DEF Toggled
  <2>3. QED
    BY <1>1, <2>1, <2>2
<1>11. QED
  BY <1>10 DEF CtxGood

\* What asks for something has an end.
LEMMA AskedEnds ==
  ASSUME NEW es, Whole(es), Proper(es), NEW n \in ElementNodes, Asks(es, n)
  PROVE  EndsIn(es, n, Len(es)) # {}
<1> DEFINE m == Len(es)
           Both(i) == Inside(es, i, "propfind") /\ Inside(es, i, n)
<1> SUFFICES ASSUME EndsIn(es, n, m) = {}
             PROVE  FALSE
  OBVIOUS
<1>1. m \in Nat /\ "propfind" \in ElementNodes
  BY DEF Whole, ElementNodes
<1>2. PICK a \in 1 .. m : Both(a)
  BY DEF Asks
<1>3. ASSUME NEW i \in 1 .. m, Both(i)
      PROVE  Both(i + 1)
  <2>1. es[i].what = "start"
    BY <1>1, <1>3 DEF EndsIn, Whole
  <2>2. i - 1 \in Nat /\ i \in Nat /\ (i - 1) + 1 = i
    BY <1>1
  <2>3. ASSUME NEW x, Inside(es, i, x)
        PROVE  Inside(es, i + 1, x)
    <3>1. Depth(es, i - 1, x) > 0
      BY <2>2, <2>3, InsideIs
    <3>2. Depth(es, i - 1, x) \in Int /\ Depth(es, i, x) = Depth(es, i - 1, x) + Turn(es[i], x)
      BY <2>1, <2>2, DepthIs
    <3>3. Turn(es[i], x) \in {0, 1}
      BY <2>1 DEF Turn
    <3>4. Depth(es, i, x) > 0
      BY <3>1, <3>2, <3>3
    <3>5. QED
      BY <2>2, <3>4, InsideIs
  <2>4. QED
    BY <1>3, <2>3
<1> DEFINE T == {k \in 0 .. m : k + 1 >= a => Both(k + 1)}
<1>4. 0 \in T
  BY <1>1, <1>2
<1>5. ASSUME NEW k \in 0 .. m - 1, k \in T
      PROVE  k + 1 \in T
  <2>1. k + 1 \in 1 .. m /\ k + 1 \in 0 .. m /\ k \in Nat
    BY <1>1
  <2>2. ASSUME (k + 1) + 1 >= a PROVE Both((k + 1) + 1)
    <3>1. CASE k + 1 >= a
      BY <1>3, <1>5, <2>1, <3>1
    <3>2. CASE ~(k + 1 >= a)
      <4>1. (k + 1) + 1 = a
        BY <1>1, <1>2, <2>1, <2>2, <3>2
      <4>2. QED
        BY <1>2, <4>1
    <3>3. QED
      BY <3>1, <3>2
  <2>3. QED
    BY <2>1, <2>2
<1>6. \A k \in 0 .. m : k \in T
  <2> HIDE DEF T, m
  <2>1. QED
    BY <1>1, <1>4, <1>5, InductionUpTo
<1>7. m \in 0 .. m /\ m + 1 >= a
  BY <1>1
<1>8. Both(m + 1)
  BY <1>6, <1>7
<1>9. QED
  BY <1>1, <1>8 DEF Proper

LEMMA AskedIs ==
  ASSUME NEW es, Whole(es), Proper(es)
  PROVE  PropsAfter(es, Len(es)) = AskedProps(es) /\ ModeAfter(es, Len(es)) = AskedMode(es)
<1>1. PropsAfter(es, Len(es)) = AskedProps(es)
  BY DEF PropsAfter, AskedProps, EndsIn
<1>2. ASSUME NEW n \in {"allprop", "propname", "prop"}
      PROVE  EndsIn(es, n, Len(es)) # {} <=> Asks(es, n)
  <2>1. n \in ElementNodes
    BY DEF ElementNodes
  <2>2. EndsIn(es, n, Len(es)) # {} => Asks(es, n)
    BY DEF EndsIn, Asks
  <2>3. QED
    BY <2>1, <2>2, AskedEnds
<1>3. ModeAfter(es, Len(es)) = AskedMode(es)
  BY <1>2 DEF ModeAfter, AskedMode
<1>4. QED
  BY <1>1, <1>3

LEMMA CtxIs ==
  ASSUME NEW es, Whole(es), Proper(es), NEW ctx, ctx = CtxAll(es, ctx, Len(es))
  PROVE  CtxGood(es, ctx[Len(es)], Len(es))
<1> DEFINE m == Len(es)
           T == {k \in 0 .. m : CtxGood(es, ctx[k], k)}
<1>1. m \in Nat
  BY DEF Whole
<1>2. \A k \in 0 .. m : ctx[k] = CtxOf(es, ctx, k)
  BY DEF CtxAll
<1>3. 0 \in T
  <2>1. 0 \in 0 .. m /\ ctx[0] = NoContext
    BY <1>1, <1>2 DEF CtxOf
  <2>2. \A n : EndsIn(es, n, 0) = {}
    BY EndsInNext
  <2>3. OpenAfter(es, 0) = {}
    <3>1. ASSUME NEW n PROVE ~Inside(es, 0 + 1, n)
      <4>1. Depth(es, 0, n) = 0
        BY CountIs DEF Depth
      <4>2. QED
        BY <4>1, InsideIs
    <3>2. QED
      BY <3>1 DEF OpenAfter
  <2>4. CtxGood(es, NoContext, 0)
    BY <2>2, <2>3 DEF CtxGood, NoContext, CtxFields, PropsAfter, ModeAfter
  <2>5. QED
    BY <2>1, <2>4
<1>4. ASSUME NEW k \in 0 .. m - 1, k \in T
      PROVE  k + 1 \in T
  <2>1. k + 1 \in 0 .. m /\ k + 1 # 0 /\ (k + 1) - 1 = k
    BY <1>1
  <2>2. ctx[k + 1] = XmlEvent(ctx[k], es[k + 1])
    BY <1>2, <2>1 DEF CtxOf
  <2>3. CtxGood(es, XmlEvent(ctx[k], es[k + 1]), k + 1)
    BY <1>4, CtxStep
  <2>4. QED
    BY <2>1, <2>2, <2>3
<1>5. \A k \in 0 .. m : k \in T
  <2> HIDE DEF T, m
  <2>1. QED
    BY <1>1, <1>3, <1>4, InductionUpTo
<1>6. m \in 0 .. m
  BY <1>1
<1>7. QED
  BY <1>5, <1>6

\* A proper body is understood.
LEMMA ContextIs ==
  ASSUME NEW body \in Buffers, ~Broken(body), Proper(EventsOf(body))
  PROVE  /\ ContextOf(body).propfind = AskedMode(EventsOf(body))
         /\ ContextOf(body).props = AskedProps(EventsOf(body))
<1> DEFINE es == EventsOf(body)
           m == Len(es)
           W(p) == CtxAll(es, p, m)
           ctx == CHOOSE p : p = W(p)
<1>1. Whole(es)
  <2>1. es \in Seq(Event)
    BY EventsAre
  <2>2. \A i \in 1 .. m : es[i].what # "broken"
    BY DEF Broken
  <2> HIDE DEF es
  <2>3. m \in Nat /\ \A i \in 1 .. m : es[i] \in Event
    BY <2>1
  <2>4. \A e \in Event : e.what # "broken" => e.what \in {"start", "end"}
    BY DEF Event
  <2>5. QED
    BY <2>2, <2>3, <2>4 DEF Whole
<1>2. m \in Nat
  BY <1>1 DEF Whole
<1>3. ContextOf(body) = ctx[m]
  BY DEF ContextOf, CtxOf, CtxAll
<1> HIDE DEF es
<1>4. ctx = W(ctx)
  <2>1. \E p : p = W(p)
    <3> HIDE DEF m
    <3>1. QED
      BY <1>2, CtxUpTo
  <2> HIDE DEF W
  <2>2. QED
    BY <2>1
<1> HIDE DEF ctx
<1>5. Proper(es)
  BY DEF es
<1>6. CtxGood(es, ctx[m], m)
  BY <1>1, <1>4, <1>5, CtxIs
<1>7. PropsAfter(es, m) = AskedProps(es) /\ ModeAfter(es, m) = AskedMode(es)
  BY <1>1, <1>5, AskedIs
<1>8. QED
  BY <1>3, <1>6, <1>7 DEF CtxGood, es


\* A listing has what its body says.
AnswersAsked(f) ==
  f.answer = 207 => f.q.body \in Buffers /\ ~Broken(f.q.body) /\ f.ctx = ContextOf(f.q.body)

AskedInv == \A w \in Reader : AnswersAsked(finds[w])

LEMMA AskedStep ==
  ASSUME FindInv, AskedInv, NEW w \in Reader, FindStep(w)
  PROVE  AskedInv'
<1>1. /\ DOMAIN finds = Reader /\ FindFields \subseteq DOMAIN finds[w] /\ AnswersAsked(finds[w])
      /\ finds[w].items \in Seq(Item) /\ finds[w].left \subseteq Path
  BY DEF FindInv, ListingSound, AskedInv
<1>2. \A v \in Reader : v # w => finds'[v] = finds[v]
  BY <1>1 DEF FindStep, ExtAnswer, FindBroken, FindSelf, FindOpen, FindItem, FindClose, FindBreaksOff
<1>3. ASSUME AnswersAsked(finds'[w])
      PROVE  AskedInv'
  BY <1>2, <1>3 DEF AskedInv, AnswersAsked
<1>4. ASSUME NEW q, ExtAnswer(w, q)
      PROVE  AnswersAsked(finds'[w])
  <2> DEFINE a == IF q.method \in ExtMethods THEN 200 ELSE 405
  <2>1. finds' = [finds EXCEPT ![w].at = "done", ![w].q = q, ![w].answer = a]
    BY <1>4 DEF ExtAnswer
  <2>2. a # 207
    OBVIOUS
  <2> HIDE DEF a
  <2>3. finds'[w].answer = a
    BY <1>1, <2>1 DEF FindFields
  <2>4. QED
    BY <2>2, <2>3 DEF AnswersAsked
<1>5. ASSUME NEW q, FindBroken(w, q)
      PROVE  AnswersAsked(finds'[w])
  <2>1. finds'[w].answer = 500
    BY <1>1, <1>5 DEF FindBroken, FindFields
  <2>2. QED
    BY <2>1 DEF AnswersAsked
<1>6. ASSUME NEW q \in Finds, FindSelf(w, q)
      PROVE  AnswersAsked(finds'[w])
  <2> DEFINE at == IF OneLevel(q) THEN "open" ELSE "close"
             c  == ContextOf(q.body)
             g  == [finds[w] EXCEPT !.at = at, !.q = q, !.answer = 207, !.ctx = c]
             x  == [path |-> q.uri, status |-> ItemStatus(g, q.uri)]
  <2>1. finds' = [finds EXCEPT ![w] = Reported(g, q.uri)]
    BY <1>6 DEF FindSelf
  <2>2. q.body \in Buffers /\ ~Broken(q.body)
    BY <1>6, FindAssumption DEF FindSelf
  <2> HIDE DEF at, c
  <2>3. g.q = q /\ g.answer = 207 /\ g.ctx = c /\ FindFields \subseteq DOMAIN g
    BY <1>1 DEF FindFields
  <2> HIDE DEF g
  <2>4. Reported(g, q.uri) = [g EXCEPT !.items = Append(@, x), !.left = @ \ {q.uri}]
    BY DEF Reported
  <2> HIDE DEF x
  <2>5. finds'[w] = Reported(g, q.uri)
    BY <1>1, <2>1
  <2>6. finds'[w].q = q /\ finds'[w].ctx = c
    BY <2>3, <2>4, <2>5 DEF FindFields
  <2>7. QED
    BY <2>2, <2>6 DEF AnswersAsked, c
<1>7. ASSUME NEW f, f.q = finds[w].q, f.ctx = finds[w].ctx, f.answer \in {0, finds[w].answer},
             finds'[w] = f
      PROVE  AnswersAsked(finds'[w])
  BY <1>1, <1>7 DEF AnswersAsked
<1>8. ASSUME FindOpen(w) \/ FindClose(w) \/ FindBreaksOff(w)
      PROVE  AnswersAsked(finds'[w])
  <2>1. finds'[w].q = finds[w].q /\ finds'[w].ctx = finds[w].ctx
        /\ finds'[w].answer \in {0, finds[w].answer}
    <3>1. CASE FindOpen(w)
      <4> DEFINE all == {Append(finds[w].q.uri, n) : n \in Entries(davTree, finds[w].q.uri)}
      <4>1. \/ finds' = [finds EXCEPT ![w].at = "list", ![w].left = all, ![w].steady = all]
            \/ finds' = [finds EXCEPT ![w].at = "close"]
        BY <3>1 DEF FindOpen
      <4> HIDE DEF all
      <4>2. QED
        BY <1>1, <4>1 DEF FindFields
    <3>2. CASE FindClose(w)
      BY <1>1, <3>2 DEF FindClose, FindFields
    <3>3. CASE FindBreaksOff(w)
      BY <1>1, <3>3 DEF FindBreaksOff, FindFields
    <3>4. QED
      BY <1>8, <3>1, <3>2, <3>3
  <2>2. QED
    BY <1>7, <2>1
<1>9. ASSUME NEW p, FindItem(w, p)
      PROVE  AnswersAsked(finds'[w])
  <2> DEFINE x == [path |-> p, status |-> ItemStatus(finds[w], p)]
  <2>1. finds'[w] = [finds[w] EXCEPT !.items = Append(@, x), !.left = @ \ {p}]
    BY <1>1, <1>9 DEF FindItem, Reported
  <2> HIDE DEF x
  <2>2. finds'[w].q = finds[w].q /\ finds'[w].ctx = finds[w].ctx /\ finds'[w].answer = finds[w].answer
    BY <1>1, <2>1 DEF FindFields
  <2>3. QED
    BY <1>7, <2>2
<1>10. QED
  BY <1>3, <1>4, <1>5, <1>6, <1>8, <1>9 DEF FindStep

LEMMA AskedKeeps ==
  ASSUME FindInv, AskedInv, [ExtNext]_<<davVars, finds>>
  PROVE  AskedInv'
<1>1. CASE UNCHANGED <<davVars, finds>>
  BY <1>1 DEF AskedInv, AnswersAsked
<1>2. ASSUME NEW w \in Worker, TreeChange(w)
      PROVE  AskedInv'
  <2>1. ASSUME NEW v \in Reader
        PROVE  AnswersAsked(finds'[v])
    <3>1. finds'[v] = [finds[v] EXCEPT !.steady = @ \cap DOMAIN davTree']
      BY <1>2 DEF TreeChange
    <3>2. FindFields \subseteq DOMAIN finds[v] /\ AnswersAsked(finds[v])
      BY DEF FindInv, ListingSound, AskedInv
    <3>3. /\ finds'[v].answer = finds[v].answer /\ finds'[v].q = finds[v].q
          /\ finds'[v].ctx = finds[v].ctx
      BY <3>1, <3>2 DEF FindFields
    <3>4. QED
      BY <3>2, <3>3 DEF AnswersAsked
  <2>2. QED
    BY <2>1 DEF AskedInv, AnswersAsked
<1>3. QED
  BY <1>1, <1>2, AskedStep DEF ExtNext

\* The properties of the items are those of the body.
LEMMA AskedMeans ==
  ASSUME AskedInv
  PROVE  \A w \in Reader : Listed(w) /\ Proper(EventsOf(finds[w].q.body)) => BodyUnderstood(finds[w])
<1>1. ASSUME NEW w \in Reader, Listed(w), Proper(EventsOf(finds[w].q.body))
      PROVE  BodyUnderstood(finds[w])
  <2>1. /\ finds[w].q.body \in Buffers /\ ~Broken(finds[w].q.body)
        /\ finds[w].ctx = ContextOf(finds[w].q.body)
    BY <1>1 DEF AskedInv, AnswersAsked, Listed
  <2>2. /\ finds[w].ctx.propfind = AskedMode(EventsOf(finds[w].q.body))
        /\ finds[w].ctx.props = AskedProps(EventsOf(finds[w].q.body))
    BY <1>1, <2>1, ContextIs
  <2>3. QED
    BY <2>2 DEF BodyUnderstood, ItemProps
<1>2. QED
  BY <1>1

(* A PROPFIND that was answered in full has, besides, the properties that    *)
(* its body asked for, however the body came cut into buffers and whatever   *)
(* lies between its elements, if no element of those that count lies in one  *)
(* of its name, all are closed and at most one of the three asks.            *)
THEOREM ListingTrueAlways == ExtSpec => []ListingTrue
<1>1. DavInit /\ ExtInit => DavInv /\ FindInv /\ AskedInv
  <2>1. ExtInit => AskedInv
    BY DEF ExtInit, AskedInv, AnswersAsked, NoFind
  <2>2. QED
    BY <2>1, DavInvStarts, FindStarts
<1>2. DavInv /\ [ExtNext]_<<davVars, finds>> => DavInv'
  BY ExtKeepsTree
<1>3. DavInv /\ FindInv /\ AskedInv /\ [ExtNext]_<<davVars, finds>> => FindInv' /\ AskedInv'
  BY FindStepKeeps, AskedKeeps DEF DavInv
<1>4. FindInv /\ AskedInv => ListingTrue
  <2>1. ASSUME FindInv, AskedInv
        PROVE  ListingTrue
    BY <2>1, FindInvMeans, AskedMeans DEF ListingTrue, EntriesTrue
  <2>2. QED
    BY <2>1
<1>5. QED
  BY <1>1, <1>2, <1>3, <1>4, PTL DEF ExtSpec
=============================================================================
