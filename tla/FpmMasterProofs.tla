--------------------------- MODULE FpmMasterProofs ---------------------------
(***************************************************************************)
(* The socket of contain_fpm is listened on by one master and its workers, *)
(* and a master that runs has fork_count of them, for any number of starts,*)
(* any fork_count and under every fault.                                   *)
(***************************************************************************)
EXTENDS FpmMaster, FiniteSetTheorems, TLAPS

Past == Running \cup {"turned", "gone"}

(* The stages after the probe of the file, and those of a bound socket. *)
AfterProbe == {"unlink", "bind", "chmod", "undo", "listen"}
WithFile   == {"chmod", "listen"}

MastersTyped ==
    /\ stage \in [Masters -> Starting \cup Past \cup {"off"}]
    /\ sock \in [Masters -> {"none", "bound", "listening"}]
    /\ \A p \in Pids : worker[p] \in [of : Masters, state : {"live", "dead", "reaped"}]

(* Only a master that is through with its start listens, or has workers. *)
ServesLate ==
    \A a \in Masters : sock[a] = "listening" \/ Children(a, "live") # {} => stage[a] \in Past

(* What follows holds for a file and starts that do not overlap. *)
Calm == unix /\ ~raced

OneStarts == ~raced => \A a, b \in Masters : stage[a] \in Starting /\ stage[b] \in Starting => a = b

(* A master that has probed is the only one there is: nobody listens until  *)
(* it does, and the file it has bound stays its own.                        *)
ProbedAlone ==
    Calm => \A a \in Masters : /\ stage[a] \in AfterProbe => \A b \in Masters : ~Listening(b)
                               /\ stage[a] \in WithFile => path = a

ListenInv ==
    /\ MastersTyped /\ ServesLate /\ OneStarts /\ ProbedAlone
    /\ Calm => \A a \in Masters : Listening(a) => path = a
    /\ ~unix => \A a, b \in Masters : Listening(a) /\ Listening(b) => a = b

-----------------------------------------------------------------------------
(* Most steps let nobody listen who did not before. *)

NoMore == \A b \in Masters : Listening(b)' => Listening(b)

LEMMA StageNames ==
    /\ AfterProbe \subseteq Starting /\ WithFile \subseteq AfterProbe
    /\ Starting \cap Past = {} /\ Running \subseteq Past /\ "off" \notin Starting \cup Past
  BY DEF AfterProbe, WithFile, Starting, Past, Running

(* A master moves on in its start or its work, or leaves it. *)
LEMMA MoveListensNoMore ==
    ASSUME MastersTyped, NEW a \in Masters, stage[a] \in Starting \cup Running, NEW label,
           Goto(a, label), UNCHANGED worker,
           \A b \in Masters : sock'[b] = "listening" => sock[b] = "listening"
    PROVE  NoMore
<1>1. \A b \in Masters : b # a => stage'[b] = stage[b]
  BY DEF MastersTyped, Goto
<1>2. \A b \in Masters : Children(b, "live")' = Children(b, "live")
  BY DEF Children, Pids
<1>3. ASSUME NEW b \in Masters, HasSocket(b)' PROVE HasSocket(b)
  BY <1>1, <1>2, <1>3 DEF HasSocket
<1>4. QED
  BY <1>3 DEF NoMore, Listening

(* Such a step keeps the invariant if it neither starts a master nor takes  *)
(* one past the probe.                                                      *)
LEMMA NoMoreKeeps ==
    ASSUME ListenInv, NoMore, MastersTyped', ServesLate', UNCHANGED <<path, setting>>,
           \A b \in Masters : stage'[b] \in Starting => stage[b] \in Starting,
           \A b \in Masters : unix /\ stage'[b] \in AfterProbe => stage[b] \in AfterProbe,
           \A b \in Masters : unix /\ stage'[b] \in WithFile => stage[b] \in WithFile
    PROVE  ListenInv'
<1>1. OneStarts'
  BY DEF ListenInv, OneStarts, setting
<1>2. ProbedAlone'
  BY DEF ListenInv, ProbedAlone, Calm, NoMore, setting
<1>3. (Calm => \A a \in Masters : Listening(a) => path = a)'
  BY DEF ListenInv, Calm, NoMore, setting
<1>4. (~unix => \A a, b \in Masters : Listening(a) /\ Listening(b) => a = b)'
  BY DEF ListenInv, NoMore, setting
<1>5. QED
  BY <1>1, <1>2, <1>3, <1>4 DEF ListenInv

-----------------------------------------------------------------------------
(* Steps by which nobody begins to listen *)

LEMMA MoveKeeps ==
    ASSUME ListenInv, NEW a \in Masters, NEW label \in Starting \cup Past,
           stage[a] \in Starting \cup Running, Goto(a, label), UNCHANGED <<path, worker, setting>>,
           sock' = sock \/ \E s \in {"none", "bound"} : sock' = [sock EXCEPT ![a] = s],
           label \in Starting => stage[a] \in Starting,
           unix /\ label \in AfterProbe => stage[a] \in AfterProbe,
           unix /\ label \in WithFile => stage[a] \in WithFile
    PROVE  ListenInv'
<1>1. /\ stage' \in [Masters -> Starting \cup Past \cup {"off"}]
      /\ stage'[a] = label /\ \A b \in Masters : b # a => stage'[b] = stage[b]
  BY DEF Goto, ListenInv, MastersTyped
<1>2. /\ sock' \in [Masters -> {"none", "bound", "listening"}]
      /\ \A b \in Masters : sock'[b] = "listening" => sock[b] = "listening"
  BY DEF ListenInv, MastersTyped
<1>3. MastersTyped'
  BY <1>1, <1>2 DEF ListenInv, MastersTyped, Pids
<1>4. NoMore
  BY <1>2, MoveListensNoMore DEF ListenInv
<1>5. ServesLate'
  <2>1. \A b \in Masters : Children(b, "live")' = Children(b, "live")
    BY DEF Children, Pids
  <2>2. stage[a] \in Past => label \in Past
    BY StageNames
  <2>3. QED
    BY <1>1, <1>2, <2>1, <2>2 DEF ListenInv, ServesLate
<1>6. QED
  BY <1>1, <1>3, <1>4, <1>5, NoMoreKeeps

LEMMA MovesStep ==
    ASSUME ListenInv, NEW a \in Masters,
           \/ OpenPidFile(a) \/ OpenPidFileFails(a) \/ Refused(a) \/ BindFails(a) \/ Chmod(a)
           \/ ChmodFails(a) \/ ListenFails(a) \/ ForkFails(a) \/ StartedAll(a) \/ WaitFails(a)
           \/ Kill(a) \/ (Bind(a) /\ ~unix)
    PROVE  ListenInv'
<1> USE DEF Starting, Running, Past, AfterProbe, WithFile
<1>1. CASE OpenPidFile(a)
  <2>1. CASE unix
    BY <1>1, <2>1, MoveKeeps DEF OpenPidFile
  <2>2. CASE ~unix
    BY <1>1, <2>2, MoveKeeps DEF OpenPidFile
  <2>3. QED
    BY <2>1, <2>2
<1>2. CASE OpenPidFileFails(a) \/ Refused(a) \/ BindFails(a)
  BY <1>2, MoveKeeps DEF OpenPidFileFails, Refused, BindFails
<1>3. CASE Chmod(a) \/ ChmodFails(a) \/ ListenFails(a)
  BY <1>3, MoveKeeps DEF Chmod, ChmodFails, ListenFails
<1>4. CASE ForkFails(a)
  BY <1>4, MoveKeeps DEF ForkFails, MayFork
<1>5. CASE StartedAll(a) \/ WaitFails(a)
  BY <1>5, MoveKeeps DEF StartedAll, WaitFails
<1>6. CASE Kill(a)
  BY <1>6, MoveKeeps DEF Kill
<1>7. CASE Bind(a) /\ ~unix
  BY <1>7, MoveKeeps DEF Bind
<1>8. QED
  BY <1>1, <1>2, <1>3, <1>4, <1>5, <1>6, <1>7

(* Workers come from a master that runs, and others only go. *)
LEMMA WorkersKeep ==
    ASSUME ListenInv, MastersTyped', NEW a \in Masters, UNCHANGED <<path, sock, setting>>,
           stage' = stage \/ (stage[a] \in Running /\ \E label \in Running : Goto(a, label)),
           \A b \in Masters : \/ Children(b, "live")' \subseteq Children(b, "live")
                             \/ (b = a /\ stage[a] \in Running)
    PROVE  ListenInv'
<1>1. \A b \in Masters : stage'[b] = stage[b] \/ (stage[b] \in Running /\ stage'[b] \in Running)
  BY DEF ListenInv, MastersTyped, Goto
<1>2. ASSUME NEW b \in Masters, HasSocket(b)' PROVE HasSocket(b)
  BY <1>1, <1>2 DEF HasSocket
<1>3. NoMore
  BY <1>2 DEF NoMore, Listening
<1>4. ServesLate'
  <2>1. \A b \in Masters : stage[b] \in Past => stage'[b] \in Past
    BY <1>1, StageNames
  <2>2. \A b \in Masters : sock[b] = "listening" \/ Children(b, "live")' # {} => stage[b] \in Past
    BY StageNames DEF ListenInv, ServesLate
  <2>3. QED
    BY <2>1, <2>2 DEF ServesLate
<1>5. \A b \in Masters : stage'[b] \in Starting => stage'[b] = stage[b]
  BY <1>1, StageNames
<1>6. QED
  BY <1>3, <1>4, <1>5, StageNames, NoMoreKeeps

LEMMA SpawnStep ==
    ASSUME ListenInv, NEW a \in Masters, NEW state \in {"live", "dead"}, Spawned(a, state)
    PROVE  ListenInv'
<1> DEFINE pid == Cardinality(Pids) + 1
<1>1. /\ stage[a] \in Running /\ UNCHANGED <<path, sock, setting>>
      /\ stage' = stage \/ Goto(a, "wait")
      /\ worker' = [p \in Pids \cup {pid} |->
                        IF p = pid THEN [of |-> a, state |-> state] ELSE worker[p]]
  BY DEF Spawned, MayFork, Running
<1> HIDE DEF pid
<1>2. /\ Pids' = Pids \cup {pid}
      /\ worker'[pid] = [of |-> a, state |-> state]
      /\ \A p \in Pids' : p # pid => p \in Pids /\ worker'[p] = worker[p]
  BY <1>1 DEF Pids
<1>3. MastersTyped'
  <2>1. stage' \in [Masters -> Starting \cup Past \cup {"off"}]
    BY <1>1 DEF ListenInv, MastersTyped, Goto, Past, Running
  <2>2. \A p \in Pids' : worker'[p] \in [of : Masters, state : {"live", "dead", "reaped"}]
    BY <1>2 DEF ListenInv, MastersTyped
  <2>3. QED
    BY <1>1, <2>1, <2>2 DEF ListenInv, MastersTyped
<1>4. \A b \in Masters : b # a => Children(b, "live")' \subseteq Children(b, "live")
  BY <1>2 DEF Children
<1>5. QED
  BY <1>1, <1>3, <1>4, WorkersKeep DEF Running

(* A child that dies or is waited for is live no more. *)
LEMMA ChildStep ==
    ASSUME ListenInv, NEW a \in Masters, Reap(a) \/ \E p \in Pids : worker[p].of = a /\ WorkerDies(p)
    PROVE  ListenInv'
<1>1. PICK p \in Pids, state \in {"dead", "reaped"} : worker' = [worker EXCEPT ![p].state = state]
  BY DEF Reap, WorkerDies, Children
<1>2. UNCHANGED <<path, sock, setting>> /\ (stage' = stage \/ (stage[a] \in Running /\ Goto(a, "respawn")))
  BY DEF Reap, WorkerDies, Running
<1>3. /\ Pids' = Pids
      /\ worker'[p] = [worker[p] EXCEPT !.state = state]
      /\ \A q \in Pids : q # p => worker'[q] = worker[q]
  BY <1>1 DEF Pids
<1>4. /\ worker'[p] \in [of : Masters, state : {"live", "dead", "reaped"}]
      /\ worker'[p].state # "live"
  BY <1>3 DEF ListenInv, MastersTyped
<1>5. MastersTyped'
  <2>1. stage' \in [Masters -> Starting \cup Past \cup {"off"}]
    BY <1>2 DEF ListenInv, MastersTyped, Goto, Past, Running
  <2>2. QED
    BY <1>2, <1>3, <1>4, <2>1 DEF ListenInv, MastersTyped
<1>6. \A b \in Masters : Children(b, "live")' \subseteq Children(b, "live")
  BY <1>3, <1>4 DEF Children
<1>7. stage' = stage \/ (stage[a] \in Running /\ \E label \in Running : Goto(a, label))
  BY <1>2 DEF Running
<1>8. QED
  BY <1>2, <1>5, <1>6, <1>7, WorkersKeep

-----------------------------------------------------------------------------
(* Steps of a start that change the file or who listens *)

(* Between the probe and listen nobody listens, so that whatever happens to *)
(* the file happens to nobody's.                                            *)
LEMMA FileKeeps ==
    ASSUME ListenInv, NEW a \in Masters, NEW label \in Starting \cup {"gone"},
           stage[a] \in Starting, Goto(a, label), UNCHANGED <<worker, setting>>,
           sock' = sock \/ sock' = [sock EXCEPT ![a] = "bound"],
           Calm => \A b \in Masters : ~Listening(b),
           unix /\ label \in WithFile => path' = a
    PROVE  ListenInv'
<1>1. /\ stage' \in [Masters -> Starting \cup Past \cup {"off"}]
      /\ stage'[a] = label /\ \A b \in Masters : b # a => stage'[b] = stage[b]
  BY DEF Goto, ListenInv, MastersTyped, Past
<1>2. /\ sock' \in [Masters -> {"none", "bound", "listening"}]
      /\ \A b \in Masters : sock'[b] = "listening" => sock[b] = "listening"
  BY DEF ListenInv, MastersTyped
<1>3. MastersTyped'
  BY <1>1, <1>2 DEF ListenInv, MastersTyped, Pids
<1>4. NoMore
  BY <1>2, MoveListensNoMore DEF ListenInv
<1>5. ServesLate'
  <2>1. \A b \in Masters : Children(b, "live")' = Children(b, "live")
    BY DEF Children, Pids
  <2>2. stage[a] \notin Past
    BY StageNames
  <2>3. QED
    BY <1>1, <1>2, <2>1, <2>2 DEF ListenInv, ServesLate
<1>6. OneStarts'
  BY <1>1 DEF ListenInv, OneStarts, setting
<1>7. ProbedAlone'
  <2> SUFFICES ASSUME Calm, NEW b \in Masters
               PROVE  /\ \A c \in Masters : ~Listening(c)'
                      /\ stage'[b] \in WithFile => path' = b
    BY DEF ProbedAlone, Calm, setting
  <2>1. \A c \in Masters : ~Listening(c)'
    BY <1>4 DEF NoMore
  <2>2. CASE b = a
    BY <1>1, <2>1, <2>2 DEF Calm
  <2>3. CASE b # a
    BY <1>1, <2>1, <2>3, StageNames DEF ListenInv, OneStarts, Calm
  <2>4. QED
    BY <2>2, <2>3
<1>8. (Calm => \A b \in Masters : Listening(b) => path = b)'
  BY <1>4 DEF Calm, NoMore, setting
<1>9. (~unix => \A b, c \in Masters : Listening(b) /\ Listening(c) => b = c)'
  BY <1>4 DEF ListenInv, NoMore, setting
<1>10. QED
  BY <1>3, <1>5, <1>6, <1>7, <1>8, <1>9 DEF ListenInv

LEMMA FileStep ==
    ASSUME ListenInv, NEW a \in Masters,
           Probed(a) \/ UnlinkOld(a) \/ UnlinkNew(a) \/ (Bind(a) /\ unix)
    PROVE  ListenInv'
<1>1. CASE Probed(a)
  <2>1. Calm => \A b \in Masters : ~Listening(b)
    <3> SUFFICES ASSUME Calm, NEW b \in Masters, Listening(b) PROVE FALSE
      OBVIOUS
    <3>1. path = b /\ b # 0
      BY FpmAssumption DEF ListenInv, Masters
    <3>2. QED
      BY <1>1, <3>1 DEF Probed, InUse
  <2>2. stage[a] \in Starting /\ "unlink" \in Starting /\ "unlink" \notin WithFile
    BY <1>1 DEF Probed, Starting, WithFile
  <2>3. QED
    BY <1>1, <2>1, <2>2, FileKeeps DEF Probed
<1>2. CASE UnlinkOld(a) \/ UnlinkNew(a) \/ (Bind(a) /\ unix)
  <2>1. stage[a] \in AfterProbe
    BY <1>2 DEF UnlinkOld, UnlinkNew, Bind, AfterProbe
  <2>2. (Calm => \A b \in Masters : ~Listening(b)) /\ stage[a] \in Starting
    BY <2>1, StageNames DEF ListenInv, ProbedAlone
  <2>3. CASE UnlinkOld(a)
    BY <2>2, <2>3, FileKeeps DEF UnlinkOld, Starting, WithFile
  <2>4. CASE UnlinkNew(a)
    BY <2>2, <2>4, FileKeeps DEF UnlinkNew, WithFile
  <2>5. CASE Bind(a) /\ unix
    BY <2>2, <2>5, FileKeeps DEF Bind, Starting
  <2>6. QED
    BY <1>2, <2>3, <2>4, <2>5
<1>3. QED
  BY <1>1, <1>2

LEMMA StartStep ==
    ASSUME ListenInv, NEW a \in Masters, Start(a)
    PROVE  ListenInv'
<1>1. /\ stage[a] = "off" /\ UNCHANGED <<path, sock, worker, unix>>
      /\ stage' \in [Masters -> Starting \cup Past \cup {"off"}]
      /\ stage'[a] = "pid" /\ \A b \in Masters : b # a => stage'[b] = stage[b]
  BY DEF Start, Goto, ListenInv, MastersTyped, Starting
<1>2. \A b \in Masters : Children(b, "live")' = Children(b, "live")
  BY <1>1 DEF Children, Pids
<1>3. sock[a] # "listening" /\ Children(a, "live") = {}
  BY <1>1, StageNames DEF ListenInv, ServesLate
<1>4. NoMore
  <2>1. \A b \in Masters : b # a => (HasSocket(b)' <=> HasSocket(b))
    BY <1>1, <1>2 DEF HasSocket
  <2>2. QED
    BY <1>1, <1>3, <2>1 DEF NoMore, Listening
<1>5. MastersTyped' /\ ServesLate'
  BY <1>1, <1>2, <1>3 DEF ListenInv, MastersTyped, ServesLate, Pids
<1>6. ~raced' => ~raced /\ \A b \in Masters : stage[b] \notin Starting
  BY DEF Start
<1>7. OneStarts'
  BY <1>1, <1>6 DEF OneStarts
<1>8. ProbedAlone'
  BY <1>1, <1>6, StageNames DEF ProbedAlone, Calm, AfterProbe, WithFile
<1>9. (Calm => \A b \in Masters : Listening(b) => path = b)'
  BY <1>1, <1>4, <1>6 DEF ListenInv, Calm, NoMore
<1>10. (~unix => \A b, c \in Masters : Listening(b) /\ Listening(c) => b = c)'
  BY <1>1, <1>4 DEF ListenInv, NoMore
<1>11. QED
  BY <1>5, <1>7, <1>8, <1>9, <1>10 DEF ListenInv

LEMMA ListenStep ==
    ASSUME ListenInv, NEW a \in Masters, Listen(a)
    PROVE  ListenInv'
<1>1. /\ stage[a] = "listen" /\ MayListen(a) /\ UNCHANGED <<path, worker, setting>>
      /\ stage' \in [Masters -> Starting \cup Past \cup {"off"}]
      /\ stage'[a] = "fork" /\ \A b \in Masters : b # a => stage'[b] = stage[b]
      /\ sock' \in [Masters -> {"none", "bound", "listening"}]
      /\ \A b \in Masters : b # a => sock'[b] = sock[b]
  BY DEF Listen, Goto, ListenInv, MastersTyped, Past, Running
<1>2. \A b \in Masters : Children(b, "live")' = Children(b, "live")
  BY <1>1 DEF Children, Pids
<1>3. \A b \in Masters : b # a => (Listening(b)' <=> Listening(b))
  BY <1>1, <1>2 DEF Listening, HasSocket
<1>4. MastersTyped' /\ ServesLate'
  BY <1>1, <1>2, StageNames DEF ListenInv, MastersTyped, ServesLate, Pids, Running
<1>5. OneStarts'
  BY <1>1 DEF ListenInv, OneStarts, setting, Starting
<1>6. Calm => path = a /\ \A b \in Masters : ~Listening(b)
  BY <1>1 DEF ListenInv, ProbedAlone, AfterProbe, WithFile
<1>7. ProbedAlone'
  <2> SUFFICES ASSUME Calm, NEW b \in Masters PROVE stage'[b] \notin AfterProbe
    BY <1>1, StageNames DEF ProbedAlone, Calm, setting
  <2>1. CASE b = a
    BY <1>1, <2>1 DEF AfterProbe
  <2>2. CASE b # a
    BY <1>1, <2>2, StageNames DEF ListenInv, OneStarts, Calm, Starting
  <2>3. QED
    BY <2>1, <2>2
<1>8. (Calm => \A b \in Masters : Listening(b) => path = b)'
  BY <1>1, <1>3, <1>6 DEF Calm, setting
<1>9. (~unix => \A b, c \in Masters : Listening(b) /\ Listening(c) => b = c)'
  BY <1>1, <1>3 DEF MayListen, setting
<1>10. QED
  BY <1>4, <1>5, <1>7, <1>8, <1>9 DEF ListenInv

-----------------------------------------------------------------------------

LEMMA ListenStart ==
    ASSUME Init
    PROVE  ListenInv
<1>1. \A a \in Masters : stage[a] = "off" /\ ~Listening(a) /\ Children(a, "live") = {}
  BY DEF Init, Listening, Children, Pids
<1>2. MastersTyped /\ ServesLate
  BY <1>1 DEF Init, MastersTyped, ServesLate, Pids
<1>3. QED
  BY <1>1, <1>2, StageNames DEF ListenInv, OneStarts, ProbedAlone

LEMMA ListenNext ==
    ASSUME ListenInv, [Next]_vars
    PROVE  ListenInv'
<1>1. ASSUME NEW a \in Masters, Start(a) \/ Steps(a) \/ Kill(a)
      PROVE  ListenInv'
  <2>1. CASE Start(a)
    BY <2>1, StartStep
  <2>2. CASE Listen(a)
    BY <2>2, ListenStep
  <2>3. CASE Probed(a) \/ UnlinkOld(a) \/ UnlinkNew(a) \/ (Bind(a) /\ unix)
    BY <2>3, FileStep
  <2>4. CASE Spawn(a) \/ SpawnExits(a)
    BY <2>4, SpawnStep DEF Spawn, SpawnExits
  <2>5. CASE Reap(a)
    BY <2>5, ChildStep
  <2>6. CASE \/ OpenPidFile(a) \/ OpenPidFileFails(a) \/ Refused(a) \/ BindFails(a) \/ Chmod(a)
             \/ ChmodFails(a) \/ ListenFails(a) \/ ForkFails(a) \/ StartedAll(a) \/ WaitFails(a)
             \/ Kill(a) \/ (Bind(a) /\ ~unix)
    BY <2>6, MovesStep
  <2>7. QED
    BY <1>1, <2>1, <2>2, <2>3, <2>4, <2>5, <2>6 DEF Steps
<1>2. ASSUME NEW p \in Pids, WorkerDies(p)
      PROVE  ListenInv'
  <2>1. worker[p].of \in Masters
    BY DEF ListenInv, MastersTyped
  <2>2. QED
    BY <1>2, <2>1, ChildStep
<1>3. CASE UNCHANGED vars
  BY <1>3 DEF vars, setting, ListenInv, MastersTyped, ServesLate, OneStarts, ProbedAlone, Calm,
              Listening, HasSocket, Children, Pids
<1>4. QED
  BY <1>1, <1>2, <1>3 DEF Next

(* Two masters never serve side by side: on TCP however their starts        *)
(* overlap, on a file as long as they do not.                               *)
THEOREM OneListenerAlways == Spec => []OneListener
<1>1. ListenInv => OneListener
  BY DEF ListenInv, OneListener, Calm
<1>2. QED
  BY ListenStart, ListenNext, <1>1, PTL DEF Spec

(* Without an overlap the file of a socket that is listened on is kept.     *)
THEOREM FileKeptAlways == Spec => []FileKept
<1>1. ListenInv => FileKept
  BY DEF ListenInv, FileKept, FileLeadsToBackend, Calm
<1>2. QED
  BY ListenStart, ListenNext, <1>1, PTL DEF Spec

-----------------------------------------------------------------------------
(* The workers of a master: not yet waited for, so live or dead *)

Active(a) == Children(a, "live") \cup Children(a, "dead")

(* Pids are numbers in sequence, and a master that has not come to its      *)
(* workers has none.                                                        *)
WorkersInv ==
    /\ \E k \in Nat : Pids = 1 .. k
    /\ forkCount \in Nat /\ forked \in [Masters -> Nat]
    /\ \A a \in Masters : stage[a] \in Starting \cup {"off"} => forked[a] = 0 /\ Active(a) = {}
    /\ Supervised

LEMMA ActiveFinite ==
    ASSUME WorkersInv, NEW a
    PROVE  IsFiniteSet(Active(a)) /\ Cardinality(Active(a)) \in Nat
<1>1. Active(a) \subseteq Pids
  BY DEF Active, Children
<1>2. IsFiniteSet(Pids)
  BY FS_Interval DEF WorkersInv
<1>3. QED
  BY <1>1, <1>2, FS_Subset, FS_CardinalityType

(* The number of workers that a master at this stage must have. *)
Wanted(a) ==
    IF stage[a] = "fork" THEN forked[a] ELSE IF stage[a] = "respawn" THEN forkCount - 1 ELSE forkCount

LEMMA SupervisedMeans ==
    Supervised <=> \A a \in Masters : stage[a] \in Running => Cardinality(Active(a)) = Wanted(a)
  BY DEF Supervised, Active, Wanted

(* No worker comes or goes: a master comes to its workers, has all of them, *)
(* or is no master any more.                                                *)
LEMMA StageKeeps ==
    ASSUME WorkersInv, UNCHANGED <<worker, forked, forkCount>>,
           \A b \in Masters : \/ stage'[b] = stage[b]
                             \/ /\ stage[b] \in Starting \cup {"off"}
                                /\ stage'[b] \in Starting \cup {"fork", "gone"}
                             \/ stage'[b] \in {"gone", "turned"}
                             \/ (stage[b] = "fork" /\ forked[b] = forkCount /\ stage'[b] = "wait")
    PROVE  WorkersInv'
<1>1. Pids' = Pids /\ \A b \in Masters : Active(b)' = Active(b)
  BY DEF Active, Children, Pids
<1>2. ASSUME NEW b \in Masters, stage'[b] \in Running
      PROVE  Cardinality(Active(b)') = Wanted(b)'
  <2>1. CASE stage'[b] = stage[b]
    BY <1>1, <1>2, <2>1, SupervisedMeans DEF WorkersInv, Wanted
  <2>2. CASE stage[b] \in Starting \cup {"off"} /\ stage'[b] = "fork"
    BY <1>1, <2>2, FS_EmptySet DEF WorkersInv, Wanted
  <2>3. CASE stage[b] = "fork" /\ forked[b] = forkCount /\ stage'[b] = "wait"
    BY <1>1, <2>3, SupervisedMeans DEF WorkersInv, Wanted, Running
  <2>4. stage'[b] \notin Starting \cup {"gone", "turned"}
    BY <1>2, StageNames DEF Running, Starting
  <2>5. QED
    BY <2>1, <2>2, <2>3, <2>4
<1>3. \A b \in Masters : stage'[b] \in Starting \cup {"off"} => stage[b] \in Starting \cup {"off"}
  BY DEF Starting
<1>4. Supervised'
  BY <1>2 DEF Supervised, Active, Wanted
<1>5. QED
  BY <1>1, <1>3, <1>4 DEF WorkersInv

(* One master changes its workers and its stage while it runs. *)
LEMMA WorkersChange ==
    ASSUME WorkersInv, NEW a \in Masters, stage[a] \in Running, stage'[a] \in Running,
           \E k \in Nat : Pids' = 1 .. k, UNCHANGED forkCount, forked' \in [Masters -> Nat],
           \A b \in Masters : b # a => stage'[b] = stage[b] /\ forked'[b] = forked[b]
                                       /\ Active(b)' = Active(b),
           Cardinality(Active(a)') = Wanted(a)'
    PROVE  WorkersInv'
<1>1. ASSUME NEW b \in Masters, stage'[b] \in Running
      PROVE  Cardinality(Active(b)') = Wanted(b)'
  <2>1. CASE b = a
    BY <2>1
  <2>2. CASE b # a
    BY <1>1, <2>2, SupervisedMeans DEF WorkersInv, Wanted
  <2>3. QED
    BY <2>1, <2>2
<1>2. Supervised'
  BY <1>1 DEF Supervised, Active, Wanted
<1>3. \A b \in Masters : stage'[b] \in Starting \cup {"off"} => forked'[b] = 0 /\ Active(b)' = {}
  <2>1. stage'[a] \notin Starting \cup {"off"}
    BY StageNames
  <2>2. QED
    BY <2>1 DEF WorkersInv
<1>4. QED
  BY <1>2, <1>3 DEF WorkersInv

LEMMA SpawnSupervised ==
    ASSUME MastersTyped, WorkersInv, NEW a \in Masters, NEW state \in {"live", "dead"}, Spawned(a, state)
    PROVE  WorkersInv'
<1> PICK pid : pid = Cardinality(Pids) + 1
  OBVIOUS
<1>1. PICK k \in Nat : Pids = 1 .. k
  BY DEF WorkersInv
<1>2. pid = k + 1 /\ pid \notin Pids
  <2>1. Cardinality(1 .. k) = k
    BY FS_Interval
  <2>2. pid = k + 1
    BY <1>1, <2>1
  <2>3. QED
    BY <1>1, <2>2
<1>3. /\ stage[a] \in {"fork", "respawn"} /\ UNCHANGED forkCount
      /\ worker' = [p \in Pids \cup {pid} |->
                        IF p = pid THEN [of |-> a, state |-> state] ELSE worker[p]]
  BY DEF Spawned, MayFork, setting
<1>4. /\ Pids' = Pids \cup {pid} /\ worker'[pid] = [of |-> a, state |-> state]
      /\ \A p \in Pids : worker'[p] = worker[p]
  BY <1>2, <1>3 DEF Pids
<1>5. Pids' = 1 .. k + 1
  BY <1>1, <1>2, <1>4
<1>6. /\ Active(a)' = Active(a) \cup {pid} /\ pid \notin Active(a)
      /\ \A b \in Masters : b # a => Active(b)' = Active(b)
  BY <1>2, <1>4 DEF Active, Children
<1>7. Cardinality(Active(a)') = Wanted(a) + 1
  <2>1. Cardinality(Active(a)') = Cardinality(Active(a)) + 1
    <3>1. IsFiniteSet(Active(a))
      BY ActiveFinite
    <3>2. Cardinality(Active(a) \cup {pid}) = Cardinality(Active(a)) + 1
      BY <3>1, <1>6, FS_AddElement
    <3>3. QED
      BY <3>2, <1>6
  <2>2. stage[a] \in Running
    BY <1>3 DEF Running
  <2>3. Cardinality(Active(a)) = Wanted(a)
    BY <2>2, SupervisedMeans DEF WorkersInv
  <2>4. QED
    BY <2>1, <2>3
<1>8. \/ /\ stage[a] = "fork" /\ stage' = stage
         /\ forked' = [forked EXCEPT ![a] = @ + 1]
      \/ /\ stage[a] = "respawn" /\ stage' = [stage EXCEPT ![a] = "wait"] /\ forked' = forked
  BY <1>3 DEF Spawned, Goto
<1>9. /\ stage'[a] \in Running /\ forked' \in [Masters -> Nat] /\ Wanted(a)' = Wanted(a) + 1
      /\ \A b \in Masters : b # a => stage'[b] = stage[b] /\ forked'[b] = forked[b]
  BY <1>3, <1>8 DEF WorkersInv, Wanted, Running, MastersTyped
<1>10. stage[a] \in Running /\ UNCHANGED forkCount
  BY <1>3 DEF Running
<1>11. \E m \in Nat : Pids' = 1 .. m
  <2>1. k + 1 \in Nat
    OBVIOUS
  <2>2. QED
    BY <1>5, <2>1
<1>12. Cardinality(Active(a)') = Wanted(a)'
  BY <1>7, <1>9
<1>13. \A b \in Masters : b # a => stage'[b] = stage[b] /\ forked'[b] = forked[b]
                                   /\ Active(b)' = Active(b)
  BY <1>6, <1>9
<1>14. stage'[a] \in Running /\ forked' \in [Masters -> Nat]
  BY <1>9
<1>15. QED
  BY <1>10, <1>11, <1>12, <1>13, <1>14, WorkersChange

LEMMA ReapSupervised ==
    ASSUME MastersTyped, WorkersInv, NEW a \in Masters, Reap(a)
    PROVE  WorkersInv'
<1>1. PICK p \in Children(a, "dead") : worker' = [worker EXCEPT ![p].state = "reaped"]
  BY DEF Reap
<1>2. stage[a] = "wait" /\ stage' = [stage EXCEPT ![a] = "respawn"] /\ UNCHANGED <<forked, forkCount>>
  BY DEF Reap, Goto, setting
<1>3. /\ p \in Active(a) /\ Pids' = Pids
      /\ worker'[p].of = a /\ worker'[p].state = "reaped"
      /\ \A q \in Pids \ {p} : worker'[q] = worker[q]
  <2>1. p \in Pids /\ worker[p] \in [of : Masters, state : {"live", "dead", "reaped"}] /\ worker[p].of = a
    BY DEF MastersTyped, Children
  <2>2. /\ worker'[p] = [worker[p] EXCEPT !.state = "reaped"] /\ Pids' = Pids
        /\ \A q \in Pids \ {p} : worker'[q] = worker[q]
    BY <1>1, <2>1 DEF Pids
  <2>3. QED
    BY <2>1, <2>2 DEF Active
<1>4. /\ Active(a)' = Active(a) \ {p}
      /\ \A b \in Masters : b # a => Active(b)' = Active(b)
  <2>1. p \in Children(a, "dead")
    OBVIOUS
  <2>2. QED
    BY <1>3, <2>1 DEF Active, Children
<1>5. Cardinality(Active(a)') = Wanted(a) - 1
  <2>1. Cardinality(Active(a)') = Cardinality(Active(a)) - 1
    <3>1. IsFiniteSet(Active(a))
      BY ActiveFinite
    <3>2. Cardinality(Active(a) \ {p}) = Cardinality(Active(a)) - 1
      BY <3>1, <1>3, FS_RemoveElement
    <3>3. QED
      BY <3>2, <1>4
  <2>2. stage[a] \in Running
    BY <1>2 DEF Running
  <2>3. Cardinality(Active(a)) = Wanted(a)
    BY <2>2, SupervisedMeans DEF WorkersInv
  <2>4. QED
    BY <2>1, <2>3
<1>6. /\ stage'[a] = "respawn" /\ Wanted(a)' = Wanted(a) - 1
      /\ \A b \in Masters : b # a => stage'[b] = stage[b]
  BY <1>2 DEF MastersTyped, Wanted
<1>7. stage[a] \in Running /\ stage'[a] \in Running /\ UNCHANGED forkCount
  BY <1>2, <1>6 DEF Running
<1>8. (\E m \in Nat : Pids' = 1 .. m) /\ forked' \in [Masters -> Nat]
  BY <1>2, <1>3 DEF WorkersInv
<1>9. Cardinality(Active(a)') = Wanted(a)'
  BY <1>5, <1>6
<1>10. \A b \in Masters : b # a => stage'[b] = stage[b] /\ forked'[b] = forked[b]
                                   /\ Active(b)' = Active(b)
  BY <1>2, <1>4, <1>6
<1>11. QED
  BY <1>7, <1>8, <1>9, <1>10, WorkersChange

(* A worker that dies is still to be waited for. *)
LEMMA DeathSupervised ==
    ASSUME MastersTyped, WorkersInv, NEW p \in Pids, WorkerDies(p)
    PROVE  WorkersInv'
<1>1. /\ worker[p].state = "live" /\ worker' = [worker EXCEPT ![p].state = "dead"]
      /\ UNCHANGED <<stage, forked, forkCount>>
  BY DEF WorkerDies, setting
<1>2. /\ Pids' = Pids /\ worker'[p].of = worker[p].of /\ worker'[p].state = "dead"
      /\ \A q \in Pids \ {p} : worker'[q] = worker[q]
  <2>1. /\ worker'[p] = [worker[p] EXCEPT !.state = "dead"] /\ Pids' = Pids
        /\ \A q \in Pids \ {p} : worker'[q] = worker[q]
    BY <1>1 DEF Pids
  <2>2. QED
    BY <2>1 DEF MastersTyped
<1>3. \A b \in Masters : Active(b)' = Active(b)
  BY <1>1, <1>2 DEF Active, Children
<1>4. Supervised'
  BY <1>1, <1>3 DEF WorkersInv, Supervised, Active, Running
<1>5. QED
  BY <1>1, <1>2, <1>3, <1>4 DEF WorkersInv

LEMMA StagesSupervised ==
    ASSUME MastersTyped, WorkersInv, NEW a \in Masters,
           \/ Start(a) \/ OpenPidFile(a) \/ OpenPidFileFails(a) \/ Refused(a) \/ Probed(a)
           \/ UnlinkOld(a) \/ Bind(a) \/ BindFails(a) \/ Chmod(a) \/ ChmodFails(a) \/ UnlinkNew(a)
           \/ Listen(a) \/ ListenFails(a) \/ ForkFails(a) \/ StartedAll(a) \/ WaitFails(a) \/ Kill(a)
    PROVE  WorkersInv'
<1>1. UNCHANGED <<worker, forked, forkCount>>
  BY DEF Start, OpenPidFile, OpenPidFileFails, Refused, Probed, UnlinkOld, Bind, BindFails, Chmod,
         ChmodFails, UnlinkNew, Listen, ListenFails, ForkFails, StartedAll, WaitFails, Kill, setting
<1>2. \E label : /\ Goto(a, label)
                 /\ \/ stage[a] \in Starting \cup {"off"} /\ label \in Starting \cup {"fork", "gone"}
                    \/ label \in {"gone", "turned"}
                    \/ stage[a] = "fork" /\ forked[a] = forkCount /\ label = "wait"
  <2> USE DEF Starting
  <2>1. CASE Start(a) \/ OpenPidFile(a) \/ OpenPidFileFails(a)
    BY <2>1 DEF Start, OpenPidFile, OpenPidFileFails
  <2>2. CASE Refused(a) \/ Probed(a) \/ UnlinkOld(a)
    BY <2>2 DEF Refused, Probed, UnlinkOld
  <2>3. CASE Bind(a) \/ BindFails(a) \/ UnlinkNew(a)
    BY <2>3 DEF Bind, BindFails, UnlinkNew
  <2>4. CASE Chmod(a) \/ ChmodFails(a) \/ Listen(a) \/ ListenFails(a)
    BY <2>4 DEF Chmod, ChmodFails, Listen, ListenFails
  <2>5. CASE ForkFails(a) \/ StartedAll(a) \/ WaitFails(a) \/ Kill(a)
    BY <2>5 DEF ForkFails, StartedAll, WaitFails, Kill
  <2>6. QED
    BY <2>1, <2>2, <2>3, <2>4, <2>5
<1>3. PICK label : /\ Goto(a, label)
                   /\ \/ stage[a] \in Starting \cup {"off"} /\ label \in Starting \cup {"fork", "gone"}
                      \/ label \in {"gone", "turned"}
                      \/ stage[a] = "fork" /\ forked[a] = forkCount /\ label = "wait"
  BY <1>2
<1>4. stage'[a] = label /\ \A b \in Masters : b # a => stage'[b] = stage[b]
  BY <1>3 DEF MastersTyped, Goto
<1>5. QED
  BY <1>1, <1>3, <1>4, StageKeeps

LEMMA WorkersNext ==
    ASSUME MastersTyped, WorkersInv, [Next]_vars
    PROVE  WorkersInv'
<1>1. ASSUME NEW a \in Masters, Start(a) \/ Steps(a) \/ Kill(a)
      PROVE  WorkersInv'
  <2>1. CASE Spawn(a) \/ SpawnExits(a)
    BY <2>1, SpawnSupervised DEF Spawn, SpawnExits
  <2>2. CASE Reap(a)
    BY <2>2, ReapSupervised
  <2>3. QED
    BY <1>1, <2>1, <2>2, StagesSupervised DEF Steps
<1>2. CASE \E p \in Pids : WorkerDies(p)
  BY <1>2, DeathSupervised
<1>3. CASE UNCHANGED vars
  BY <1>3 DEF vars, setting, WorkersInv, Supervised, Active, Children, Pids, Wanted
<1>4. QED
  BY <1>1, <1>2, <1>3 DEF Next

LEMMA WorkersStart ==
    ASSUME Init
    PROVE  WorkersInv
<1>1. Pids = 1 .. 0 /\ \A a \in Masters : Active(a) = {}
  BY DEF Init, Pids, Active, Children
<1>2. forkCount \in Nat
  BY FpmAssumption DEF Init
<1>3. QED
  BY <1>1, <1>2 DEF Init, WorkersInv, Supervised, Running

(* A master that runs has its fork_count workers, whichever of them die and  *)
(* whenever, and whatever fails in their start.                              *)
THEOREM SupervisedAlways == Spec => []Supervised
<1>1. Init => ListenInv /\ WorkersInv
  BY ListenStart, WorkersStart
<1>2. ListenInv /\ WorkersInv /\ [Next]_vars => ListenInv' /\ WorkersInv'
  BY ListenNext, WorkersNext DEF ListenInv
<1>3. WorkersInv => Supervised
  BY DEF WorkersInv
<1>4. QED
  BY <1>1, <1>2, <1>3, PTL DEF Spec

-----------------------------------------------------------------------------
(* The pid file *)

(* Masters are started one after the other, and without an overlap the one  *)
(* that starts is the last.                                                 *)
StartedInOrder == \A a, b \in Masters : a < b /\ stage[b] # "off" => stage[a] # "off"
StartsLast == ~raced => \A a, b \in Masters : stage[a] \in Starting /\ a < b => stage[b] = "off"

(* The last master has its workers in the pid file: PidFileComplete. *)
LastInFile ==
    \A a \in Masters : stage[a] \in Running /\ pidFd[a] /\ ~raced
                       /\ (\A b \in Masters : a < b => stage[b] = "off")
                       => Children(a, "live") \subseteq pidfile

FilesInv == TypeOK /\ StartedInOrder /\ StartsLast /\ LastInFile

LEMMA PidFileMeans == LastInFile => PidFileComplete
<1>1. ASSUME NEW a \in Masters
      PROVE  (\A b \in a + 1 .. MaxStarts : stage[b] = "off")
             <=> (\A b \in Masters : a < b => stage[b] = "off")
  BY FpmAssumption DEF Masters
<1>2. QED
  BY <1>1 DEF LastInFile, PidFileComplete

(* A master that has been started moves on, and the pid file stays. *)
LEMMA MoveFiles ==
    ASSUME FilesInv, ServesLate, NEW a \in Masters, NEW label \in Starting \cup Past, Goto(a, label),
           stage[a] \in Starting \cup Running, label \in Starting => stage[a] \in Starting,
           path' \in Masters \cup {0}, sock' \in [Masters -> {"none", "bound", "listening"}],
           UNCHANGED <<worker, forked, pidFd, pidfile, setting>>
    PROVE  FilesInv'
<1>1. /\ stage' \in [Masters -> Starting \cup Past \cup {"off"}] /\ stage'[a] = label
      /\ \A b \in Masters : b # a => stage'[b] = stage[b]
  BY DEF Goto, FilesInv, TypeOK, Past
<1>2. stage[a] # "off" /\ label # "off"
  BY StageNames
<1>3. \A b \in Masters : stage'[b] = "off" <=> stage[b] = "off"
  BY <1>1, <1>2
<1>4. TypeOK'
  BY <1>1 DEF FilesInv, TypeOK, Pids, setting, Past
<1>5. StartedInOrder' /\ StartsLast'
  BY <1>1, <1>3 DEF FilesInv, StartedInOrder, StartsLast, setting
<1>6. ASSUME NEW c \in Masters, stage'[c] \in Running, pidFd[c], ~raced,
             \A b \in Masters : c < b => stage[b] = "off"
      PROVE  Children(c, "live") \subseteq pidfile
  <2>1. CASE stage[c] \in Running
    BY <1>6, <2>1 DEF FilesInv, LastInFile
  <2>2. CASE stage[c] \notin Running
    <3>1. c = a /\ stage[c] \in Starting
      BY <1>1, <1>6, <2>2
    <3>2. Children(c, "live") = {}
      BY <3>1, StageNames DEF ServesLate
    <3>3. QED
      BY <3>2
  <2>3. QED
    BY <2>1, <2>2
<1>7. \A c \in Masters : Children(c, "live")' = Children(c, "live")
  BY DEF Children, Pids
<1>8. LastInFile'
  BY <1>3, <1>6, <1>7 DEF setting, LastInFile
<1>9. QED
  BY <1>4, <1>5, <1>8 DEF FilesInv

LEMMA MovesFiles ==
    ASSUME FilesInv, ServesLate, NEW a \in Masters,
           \/ OpenPidFileFails(a) \/ Refused(a) \/ Probed(a) \/ UnlinkOld(a)
           \/ Bind(a) \/ BindFails(a) \/ Chmod(a) \/ ChmodFails(a) \/ UnlinkNew(a)
           \/ Listen(a) \/ ListenFails(a) \/ ForkFails(a) \/ StartedAll(a) \/ WaitFails(a) \/ Kill(a)
    PROVE  FilesInv'
<1> USE DEF Starting, Running, Past
<1>1. path \in Masters \cup {0} /\ sock \in [Masters -> {"none", "bound", "listening"}]
  BY DEF FilesInv, TypeOK
<1>2. CASE OpenPidFileFails(a) \/ Refused(a) \/ Probed(a) \/ UnlinkOld(a)
  BY <1>1, <1>2, MoveFiles DEF OpenPidFileFails, Refused, Probed, UnlinkOld
<1>3. CASE Bind(a)
  <2>1. PICK label \in {"chmod", "listen"} : Goto(a, label)
    BY <1>3 DEF Bind
  <2>2. path' \in Masters \cup {0} /\ sock' \in [Masters -> {"none", "bound", "listening"}]
    BY <1>1, <1>3 DEF Bind
  <2>3. QED
    BY <1>3, <2>1, <2>2, MoveFiles DEF Bind
<1>4. CASE BindFails(a) \/ Chmod(a) \/ UnlinkNew(a)
  BY <1>1, <1>4, MoveFiles DEF BindFails, Chmod, UnlinkNew
<1>5. CASE ChmodFails(a)
  BY <1>1, <1>5, MoveFiles DEF ChmodFails
<1>6. CASE Listen(a) \/ ListenFails(a)
  BY <1>1, <1>6, MoveFiles DEF Listen, ListenFails
<1>7. CASE ForkFails(a)
  BY <1>1, <1>7, MoveFiles DEF ForkFails, MayFork
<1>8. CASE StartedAll(a) \/ WaitFails(a) \/ Kill(a)
  BY <1>1, <1>8, MoveFiles DEF StartedAll, WaitFails, Kill
<1>9. QED
  BY <1>2, <1>3, <1>4, <1>5, <1>6, <1>7, <1>8

(* A start is the last master, and empties the file of no other that is. *)
LEMMA StartFiles ==
    ASSUME FilesInv, NEW a \in Masters, Start(a) \/ OpenPidFile(a)
    PROVE  FilesInv'
<1>0. \A b, c \in Masters : b \in Int /\ (b < c \/ b = c \/ c < b)
  BY FpmAssumption DEF Masters
<1>1. PICK label \in {"pid", "probe", "bind"} : Goto(a, label)
  BY DEF Start, OpenPidFile
<1>2. /\ stage' \in [Masters -> Starting \cup Past \cup {"off"}]
      /\ stage'[a] = label /\ label \in Starting /\ label # "off" /\ label \notin Running
      /\ \A b \in Masters : b # a => stage'[b] = stage[b]
  BY <1>1 DEF Goto, FilesInv, TypeOK, Past, Starting, Running
<1>3. ~raced' => ~raced
  BY DEF Start, OpenPidFile, setting
<1>4. \A b \in Masters : a < b /\ ~raced' => stage[b] = "off"
  <2>1. CASE Start(a)
    BY <2>1 DEF Start, FilesInv, StartedInOrder
  <2>2. CASE OpenPidFile(a)
    BY <1>3, <2>2 DEF OpenPidFile, FilesInv, StartsLast, Starting
  <2>3. QED
    BY <2>1, <2>2
<1>5. /\ UNCHANGED <<worker, forked, path, sock, unix, forkCount>> /\ raced' \in BOOLEAN
      /\ pidfile' \subseteq pidfile /\ pidFd' \in [Masters -> BOOLEAN]
      /\ \A b \in Masters : b # a => pidFd'[b] = pidFd[b]
  BY DEF Start, OpenPidFile, setting, FilesInv, TypeOK
<1>6. TypeOK'
  BY <1>2, <1>5 DEF FilesInv, TypeOK, Pids, Past
<1>7. StartedInOrder'
  <2>1. ASSUME NEW b \in Masters, NEW c \in Masters, b < c, stage'[c] # "off"
        PROVE  stage'[b] # "off"
    <3>1. CASE c = a
      <4>1. CASE Start(a)
        <5>1. b \in 1 .. a - 1
          BY <2>1, <3>1, FpmAssumption DEF Masters
        <5>2. QED
          BY <1>2, <4>1, <5>1 DEF Start
      <4>2. CASE OpenPidFile(a)
        BY <1>2, <2>1, <3>1, <4>2 DEF OpenPidFile, FilesInv, StartedInOrder
      <4>3. QED
        BY <4>1, <4>2
    <3>2. CASE c # a
      BY <1>2, <2>1, <3>2 DEF FilesInv, StartedInOrder
    <3>3. QED
      BY <3>1, <3>2
  <2>2. QED
    BY <2>1 DEF StartedInOrder
<1>8. StartsLast'
  <2>1. ASSUME NEW b \in Masters, NEW c \in Masters, ~raced', stage'[b] \in Starting, b < c
        PROVE  stage'[c] = "off"
    <3>1. CASE b = a
      <4>1. c # a
        BY <1>0, <2>1, <3>1
      <4>2. QED
        BY <1>2, <1>4, <2>1, <3>1, <4>1
    <3>2. CASE b # a
      <4>1. stage[b] \in Starting /\ ~raced
        BY <1>2, <1>3, <2>1, <3>2
      <4>2. ~Start(a)
        BY <2>1, <4>1 DEF Start
      <4>3. stage[a] \in Starting
        BY <4>2 DEF OpenPidFile, Starting
      <4>4. a < b \/ b < a
        BY <1>0, <3>2
      <4>5. QED
        BY <4>1, <4>3, <4>4, StageNames DEF FilesInv, StartsLast
    <3>3. QED
      BY <3>1, <3>2
  <2>2. QED
    BY <2>1 DEF StartsLast
<1>9. LastInFile'
  <2>1. ASSUME NEW c \in Masters, stage'[c] \in Running, ~raced',
               \A b \in Masters : c < b => stage'[b] = "off"
        PROVE  FALSE
    <3>1. c # a /\ stage[c] \in Running
      BY <1>2, <2>1
    <3>2. CASE a < c
      BY <1>4, <2>1, <3>1, <3>2 DEF Running
    <3>3. CASE c < a
      BY <1>2, <2>1, <3>3
    <3>4. QED
      BY <1>0, <3>1, <3>2, <3>3
  <2>2. QED
    BY <2>1 DEF LastInFile
<1>10. QED
  BY <1>6, <1>7, <1>8, <1>9 DEF FilesInv

(* Every worker that is forked comes into the file, unless the file is lost. *)
LEMMA SpawnFiles ==
    ASSUME FilesInv, WorkersInv, NEW a \in Masters, NEW state \in {"live", "dead"}, Spawned(a, state)
    PROVE  FilesInv'
<1> PICK pid : pid = Cardinality(Pids) + 1
  OBVIOUS
<1>1. PICK k \in Nat : Pids = 1 .. k
  BY DEF WorkersInv
<1>2. pid \notin Pids
  <2>1. Cardinality(1 .. k) = k
    BY FS_Interval
  <2>2. pid = k + 1
    BY <1>1, <2>1
  <2>3. QED
    BY <1>1, <2>2
<1>3. /\ stage[a] \in {"fork", "respawn"} /\ UNCHANGED <<path, sock, unix, forkCount, raced>>
      /\ worker' = [p \in Pids \cup {pid} |->
                        IF p = pid THEN [of |-> a, state |-> state] ELSE worker[p]]
      /\ Written(a, pid)
  BY DEF Spawned, MayFork, setting
<1>4. /\ Pids' = Pids \cup {pid} /\ worker'[pid] = [of |-> a, state |-> state]
      /\ \A p \in Pids : worker'[p] = worker[p]
  BY <1>2, <1>3 DEF Pids
<1>5. \/ stage[a] = "fork" /\ forked[a] < forkCount /\ stage' = stage /\ forked' = [forked EXCEPT ![a] = @ + 1]
      \/ stage[a] = "respawn" /\ stage' = [stage EXCEPT ![a] = "wait"] /\ forked' = forked
  BY <1>3 DEF Spawned, MayFork, Goto
<1>6. /\ pidfile \subseteq pidfile' /\ pidfile' \subseteq Pids' /\ pidFd' \in [Masters -> BOOLEAN]
      /\ \A b \in Masters : pidFd'[b] => pidFd[b]
      /\ pidFd'[a] => pid \in pidfile'
  BY <1>3, <1>4 DEF Written, FilesInv, TypeOK
<1>7. forked' \in [Masters -> 0 .. forkCount]
  <2>1. forkCount \in Nat /\ forked \in [Masters -> 0 .. forkCount]
    BY DEF FilesInv, TypeOK
  <2>2. CASE stage[a] = "fork" /\ forked[a] < forkCount /\ forked' = [forked EXCEPT ![a] = @ + 1]
    <3>1. forked[a] + 1 \in 0 .. forkCount
      BY <2>1, <2>2
    <3>2. QED
      BY <2>1, <2>2, <3>1
  <2>3. QED
    BY <1>5, <2>1, <2>2
<1>8. /\ stage' \in [Masters -> Starting \cup Past \cup {"off"}]
      /\ \A b \in Masters : b # a => stage'[b] = stage[b]
      /\ \A b \in Masters : stage'[b] = stage[b] \/ (stage[b] \in Running /\ stage'[b] \in Running)
  BY <1>3, <1>5 DEF FilesInv, TypeOK, Past, Running
<1>9. TypeOK'
  <2>1. \A p \in Pids' : worker'[p] \in [of : Masters, state : {"live", "dead", "reaped"}]
    BY <1>4 DEF FilesInv, TypeOK
  <2>2. QED
    BY <1>3, <1>6, <1>7, <1>8, <2>1 DEF FilesInv, TypeOK, Past
<1>10. \A b \in Masters : /\ stage'[b] = "off" <=> stage[b] = "off"
                          /\ stage'[b] \in Starting <=> stage[b] \in Starting
                          /\ stage'[b] \in Running <=> stage[b] \in Running
  BY <1>8, StageNames
<1>11. StartedInOrder' /\ StartsLast'
  BY <1>3, <1>10 DEF FilesInv, StartedInOrder, StartsLast
<1>12. \A c \in Masters : Children(c, "live")' \subseteq Children(c, "live") \cup (IF c = a THEN {pid} ELSE {})
  BY <1>4 DEF Children
<1>13. LastInFile'
  BY <1>3, <1>6, <1>10, <1>12 DEF FilesInv, LastInFile
<1>14. QED
  BY <1>9, <1>11, <1>13 DEF FilesInv

(* A child that dies or is waited for need not be in the file. *)
LEMMA ChildFiles ==
    ASSUME FilesInv, NEW a \in Masters, Reap(a) \/ \E p \in Pids : worker[p].of = a /\ WorkerDies(p)
    PROVE  FilesInv'
<1>1. PICK p \in Pids, state \in {"dead", "reaped"} : worker' = [worker EXCEPT ![p].state = state]
  BY DEF Reap, WorkerDies, Children
<1>2. /\ UNCHANGED <<path, sock, forked, pidFd, pidfile, unix, forkCount, raced>>
      /\ stage' = stage \/ (stage[a] = "wait" /\ stage' = [stage EXCEPT ![a] = "respawn"])
  BY DEF Reap, WorkerDies, setting, Goto
<1>3. /\ Pids' = Pids
      /\ worker'[p] = [worker[p] EXCEPT !.state = state]
      /\ \A q \in Pids : q # p => worker'[q] = worker[q]
  BY <1>1 DEF Pids
<1>4. /\ worker'[p] \in [of : Masters, state : {"live", "dead", "reaped"}]
      /\ worker'[p].state # "live"
  BY <1>3 DEF FilesInv, TypeOK
<1>5. /\ stage' \in [Masters -> Starting \cup Past \cup {"off"}]
      /\ \A b \in Masters : stage'[b] = stage[b] \/ (stage[b] \in Running /\ stage'[b] \in Running)
  BY <1>2 DEF FilesInv, TypeOK, Past, Running
<1>6. TypeOK'
  <2>1. \A q \in Pids' : worker'[q] \in [of : Masters, state : {"live", "dead", "reaped"}]
    BY <1>3, <1>4 DEF FilesInv, TypeOK
  <2>2. QED
    BY <1>2, <1>3, <1>5, <2>1 DEF FilesInv, TypeOK, Past
<1>7. \A b \in Masters : /\ stage'[b] = "off" <=> stage[b] = "off"
                         /\ stage'[b] \in Starting <=> stage[b] \in Starting
                         /\ stage'[b] \in Running <=> stage[b] \in Running
  BY <1>5, StageNames
<1>8. StartedInOrder' /\ StartsLast'
  BY <1>2, <1>7 DEF FilesInv, StartedInOrder, StartsLast
<1>9. \A b \in Masters : Children(b, "live")' \subseteq Children(b, "live")
  BY <1>3, <1>4 DEF Children
<1>10. LastInFile'
  BY <1>2, <1>7, <1>9 DEF FilesInv, LastInFile
<1>11. QED
  BY <1>6, <1>8, <1>10 DEF FilesInv

LEMMA FilesNext ==
    ASSUME FilesInv, ListenInv, WorkersInv, [Next]_vars
    PROVE  FilesInv'
<1>1. ASSUME NEW a \in Masters, Start(a) \/ Steps(a) \/ Kill(a)
      PROVE  FilesInv'
  <2>1. CASE Start(a) \/ OpenPidFile(a)
    BY <2>1, StartFiles
  <2>2. CASE Spawn(a) \/ SpawnExits(a)
    BY <2>2, SpawnFiles DEF Spawn, SpawnExits
  <2>3. CASE Reap(a)
    BY <2>3, ChildFiles
  <2>4. QED
    BY <1>1, <2>1, <2>2, <2>3, MovesFiles DEF Steps, ListenInv
<1>2. ASSUME NEW p \in Pids, WorkerDies(p)
      PROVE  FilesInv'
  <2>1. worker[p].of \in Masters
    BY DEF ListenInv, MastersTyped
  <2>2. QED
    BY <1>2, <2>1, ChildFiles
<1>3. CASE UNCHANGED vars
  BY <1>3 DEF vars, setting, FilesInv, TypeOK, StartedInOrder, StartsLast, LastInFile, Children, Pids
<1>4. QED
  BY <1>1, <1>2, <1>3 DEF Next

LEMMA FilesStart ==
    ASSUME Init
    PROVE  FilesInv
<1>1. Pids = {}
  BY DEF Init, Pids
<1>2. forkCount \in Nat /\ {unix, raced} \subseteq BOOLEAN
  BY FpmAssumption DEF Init
<1>3. forked \in [Masters -> 0 .. forkCount]
  BY <1>2 DEF Init
<1>4. TypeOK
  BY <1>1, <1>2, <1>3 DEF Init, TypeOK
<1>5. StartedInOrder /\ StartsLast /\ LastInFile
  BY DEF Init, StartedInOrder, StartsLast, LastInFile, Running, Starting
<1>6. QED
  BY <1>4, <1>5 DEF FilesInv

(* As long as no start overlaps another, the socket file leads to who       *)
(* listens, and the pid file names every live worker of the last master     *)
(* that can write it.                                                       *)
THEOREM FilesSoundAlways == Spec => []FilesSound
<1>1. Init => ListenInv /\ WorkersInv /\ FilesInv
  BY ListenStart, WorkersStart, FilesStart
<1>2. ListenInv /\ WorkersInv /\ FilesInv /\ [Next]_vars => ListenInv' /\ WorkersInv' /\ FilesInv'
  BY ListenNext, WorkersNext, FilesNext DEF ListenInv
<1>3. ListenInv /\ FilesInv => FilesSound
  BY PidFileMeans DEF ListenInv, FilesInv, FilesSound, FileKept, FileLeadsToBackend, Calm
<1>4. QED
  BY <1>1, <1>2, <1>3, PTL DEF Spec
=============================================================================
