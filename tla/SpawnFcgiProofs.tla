--------------------------- MODULE SpawnFcgiProofs ---------------------------
(***************************************************************************)
(* The programs that spawn-fcgi starts are confined and counted, and what  *)
(* a start that fails leaves behind is known: for the four versions, every *)
(* command line, whichever calls fail and however the children die.        *)
(***************************************************************************)
EXTENDS SpawnFcgi, FiniteSetTheorems, TLAPS

\* The stages from the first fork on, and those of sigchld_handler.
Handling == {"reap", "again", "waitAgain"}
Serving == {"spawn", "wait", "became", "sleep", "ended"} \cup Handling

Mark == ({"pid"} \X Nat) \cup {<<"n">>, <<"eol">>, <<"/n">>}

KidsTyped ==
    /\ born \in Nat /\ DOMAIN kids \subseteq 1 .. born /\ IsFiniteSet(DOMAIN kids)
    /\ \A pid \in DOMAIN kids : kids[pid] = [at |-> kids[pid].at, uid |-> kids[pid].uid,
                                             gid |-> kids[pid].gid, fds |-> kids[pid].fds]

SpawnTyped ==
    /\ prog \in {"m", "plain", "sc", "d"} /\ opts \in TypeOfOptions
    /\ goal.uid \in {"zero", "user"} /\ goal.gid \in {"zero", "user"}
    /\ KidsTyped /\ left \in Nat /\ child \in Nat
    /\ pidfile \in Seq(Mark)
    /\ sig # "none" \/ spc \in Handling => prog = "d"
    /\ spc \in Handling => handler.back \in {"spawn", "wait", "sleep"}

\* Nothing is forked, counted or written before the loop of the spawner.
NothingYet == spc \notin Serving => DOMAIN kids = {} /\ left = 0 /\ pidfile = <<>>

\* The three standard descriptors, then the pid file, then the socket.
FdsInOrder ==
    /\ \A n \in 0 .. 2 : n \in DOMAIN fds /\ fds[n] = "terminal"
    /\ \/ {n \in DOMAIN fds : fds[n] # "sock"} = 0 .. 2
       \/ {n \in DOMAIN fds : fds[n] # "sock"} = 0 .. 3 /\ fds[3] = "pid"
    /\ spc \in {"options", "pidfile"} => DOMAIN fds = 0 .. 2

\* Where the group is dropped and where the socket is not bound: -S moves the
\* one behind the other.
GroupDone == \/ spc \in {"jail", "setuid", "chdir"} \cup Serving
             \/ spc = "bind" /\ ~opts.before
Unbound == \/ spc \in {"options", "pidfile", "find", "bind", "unbound"}
           \/ spc \in {"group", "jail"} /\ ~opts.before

\* The rights are dropped once the stage that drops them is past.
RightsDropped ==
    Careful /\ opts.root =>
        /\ spc \in {"chdir"} \cup Serving /\ goal.uid = "user" => uid = "user"
        /\ GroupDone /\ goal.gid = "user" => gid = "user"

\* Until it is bound there is no socket, and until the loop there is a file of our
\* own exactly if there is a socket that has one.
NotBoundYet ==
    Careful => /\ Unbound => ~SockOpen
               /\ spc \notin Serving => (sockfile.is = "ours" <=> opts.sock = "unix" /\ SockOpen)

\* A pid that is to be written finds no pid before it.
LastEnded == pidfile = <<>> \/ pidfile[Len(pidfile)][1] # "pid"
PidsApart ==
    Careful =>
        /\ \A i \in 1 .. Len(pidfile) - 1 : (pidfile[i][1] = "pid") # (pidfile[i + 1][1] = "pid")
        /\ PidOpen /\ (left > 0 \/ spc = "wait") => LastEnded

\* The children there are, those still to be forked, and the one that is to be
\* forked for a child that was reaped.
Counted == KidsToCome <= opts.forks

SpawnInv ==
    /\ SpawnTyped /\ NothingYet /\ FdsInOrder /\ RightsDropped /\ NotBoundYet
    /\ PidsApart /\ Counted /\ KidsConfined

\* As long as no child was given up, none is missing and none that is dead is
\* forgotten.
Looping == {"spawn", "wait", "sleep"} \cup Handling
NoneMissing ==
    prog = "d" /\ ~givenUp =>
        /\ spc \in Looping => KidsToCome = opts.forks
        /\ sig \in {"none", "dumped"}
        /\ spc \in Handling => handler.code = "dumped"
        /\ spc \in {"spawn", "wait", "sleep"} /\ (\E pid \in DOMAIN kids : kids[pid].at = "dead")
              => sig = "dumped"

-----------------------------------------------------------------------------
(* Descriptors *)

LEMMA LowestIs ==
    ASSUME NEW k \in Nat
    PROVE  Lowest(0 .. k) = k + 1
<1>1. Cardinality(0 .. k) = k + 1
  BY FS_Interval
<1>2. k + 1 \in 0 .. Cardinality(0 .. k) /\ k + 1 \notin 0 .. k /\ 0 .. (k + 1) - 1 \subseteq 0 .. k
  BY <1>1
<1>3. \A n \in 0 .. Cardinality(0 .. k) : n \notin 0 .. k => n = k + 1
  BY <1>1
<1>4. QED
  BY <1>2, <1>3 DEF Lowest

\* A child has the socket as its input and, where /dev/null was there, nothing
\* else of the spawner.
LEMMA KidFdsConfined ==
    ASSUME FdsInOrder, NEW null \in BOOLEAN
    PROVE  /\ KidFds(null)[0] = "sock"
           /\ ~opts.nofork /\ null => DOMAIN KidFds(null) = 0 .. 2 /\ KidFds(null)[1] = "null"
<1> DEFINE moved == [Closed(fds, "sock") EXCEPT ![0] = "sock"]
           low == Lowest(DOMAIN moved)
<1>1. /\ DOMAIN Closed(fds, "sock") = {n \in DOMAIN fds : fds[n] # "sock"}
      /\ 0 \in DOMAIN Closed(fds, "sock")
  <2>1. 0 \in 0 .. 2 /\ \A n \in 0 .. 2 : n \in DOMAIN fds /\ fds[n] = "terminal"
    BY DEF FdsInOrder
  <2>2. QED
    BY <2>1 DEF Closed
<1>2. DOMAIN moved = DOMAIN Closed(fds, "sock") /\ moved[0] = "sock"
  BY <1>1
<1>3. PICK k \in {2, 3} : DOMAIN moved = 0 .. k
  BY <1>1, <1>2 DEF FdsInOrder
<1>4. low = k + 1
  BY <1>3, LowestIs
<1>5. KidFds(null) = IF opts.nofork \/ ~null THEN moved
                     ELSE [n \in DOMAIN moved \ 3 .. low - 1 |->
                              IF n \in {1, 2} THEN "null" ELSE moved[n]]
  BY DEF KidFds
<1> HIDE DEF moved, low
<1>6. (0 .. k) \ 3 .. low - 1 = 0 .. 2
  BY <1>4
<1>7. CASE opts.nofork \/ ~null
  BY <1>2, <1>5, <1>7
<1>8. CASE ~opts.nofork /\ null
  <2>1. KidFds(null) = [n \in 0 .. 2 |-> IF n \in {1, 2} THEN "null" ELSE moved[n]]
    BY <1>3, <1>5, <1>6, <1>8
  <2>2. QED
    BY <1>2, <2>1
<1>9. QED
  BY <1>7, <1>8

\* The descriptor of the socket is a new one.
LEMMA SockIsOpen ==
    ASSUME FdsInOrder, ~SockOpen, fds' = OpenedAs(fds, "sock")
    PROVE  SockOpen'
<1>1. DOMAIN fds = 0 .. 2 \/ DOMAIN fds = 0 .. 3
  <2>1. DOMAIN fds = {n \in DOMAIN fds : fds[n] # "sock"}
    BY DEF SockOpen
  <2>2. QED
    BY <2>1 DEF FdsInOrder
<1>2. Lowest(DOMAIN fds) \notin DOMAIN fds
  <2>1. Lowest(0 .. 2) = 3 /\ Lowest(0 .. 3) = 4
    <3>1. 2 \in Nat /\ 3 \in Nat /\ 2 + 1 = 3 /\ 3 + 1 = 4
      OBVIOUS
    <3>2. QED
      BY <3>1, LowestIs
  <2>2. QED
    BY <1>1, <2>1
<1>3. QED
  BY <1>2 DEF OpenedAs, SockOpen

\* The pid file opens below the socket, and closing it leaves the three.
LEMMA PidOpens ==
    ASSUME FdsInOrder, DOMAIN fds = 0 .. 2, fds' = OpenedAs(fds, "pid"), spc' \notin {"options", "pidfile"}
    PROVE  FdsInOrder'
<1>1. Lowest(DOMAIN fds) = 3
  <2>1. Lowest(0 .. 2) = 3
    <3>1. 2 \in Nat /\ 2 + 1 = 3
      OBVIOUS
    <3>2. QED
      BY <3>1, LowestIs
  <2>2. QED
    BY <2>1
<1>2. /\ DOMAIN fds' = 0 .. 3 /\ fds'[3] = "pid" /\ \A n \in 0 .. 2 : fds'[n] = "terminal"
  BY <1>1 DEF OpenedAs, FdsInOrder
<1>3. {n \in DOMAIN fds' : fds'[n] # "sock"} = 0 .. 3
  <2>1. \A n \in 0 .. 3 : n \in 0 .. 2 \/ n = 3
    OBVIOUS
  <2>2. QED
    BY <1>2, <2>1
<1>4. QED
  BY <1>2, <1>3 DEF FdsInOrder

LEMMA SockOpens ==
    ASSUME FdsInOrder, fds' = OpenedAs(fds, "sock"), spc' \notin {"options", "pidfile"}
    PROVE  FdsInOrder'
<1>1. /\ DOMAIN fds \subseteq DOMAIN fds' /\ \A n \in DOMAIN fds : fds'[n] = fds[n]
      /\ \A n \in DOMAIN fds' : n \in DOMAIN fds \/ fds'[n] = "sock"
  BY DEF OpenedAs
<1>2. {n \in DOMAIN fds' : fds'[n] # "sock"} = {n \in DOMAIN fds : fds[n] # "sock"}
  BY <1>1
<1>3. QED
  BY <1>1, <1>2 DEF FdsInOrder

LEMMA PidCloses ==
    ASSUME FdsInOrder, spc' \notin {"options", "pidfile"},
           fds' = Closed(fds, "pid") \/ fds' = Closed(Closed(fds, "pid"), "sock")
    PROVE  FdsInOrder' /\ ~PidOpen'
<1>1. PICK x : x = Closed(fds, "pid")
  OBVIOUS
<1>2. /\ DOMAIN x = {m \in DOMAIN fds : fds[m] # "pid"} /\ \A n \in DOMAIN x : x[n] = fds[n]
      /\ DOMAIN Closed(x, "sock") = {m \in DOMAIN x : x[m] # "sock"}
      /\ \A n \in DOMAIN Closed(x, "sock") : Closed(x, "sock")[n] = x[n]
  BY <1>1 DEF Closed
<1>3. /\ \A n \in 0 .. 2 : n \in DOMAIN fds' /\ fds'[n] = "terminal"
      /\ \A n \in DOMAIN fds' : n \in DOMAIN fds /\ fds'[n] = fds[n] /\ fds[n] # "pid"
  <2>1. \A n \in 0 .. 2 : n \in DOMAIN fds /\ fds[n] = "terminal"
    BY DEF FdsInOrder
  <2>2. fds' = x \/ fds' = Closed(x, "sock")
    BY <1>1
  <2>3. QED
    BY <1>2, <2>1, <2>2
<1>4. {n \in DOMAIN fds' : fds'[n] # "sock"} = 0 .. 2
  <2>1. ASSUME NEW n \in DOMAIN fds', fds'[n] # "sock"
        PROVE  n \in 0 .. 2
    <3>1. n \in {m \in DOMAIN fds : fds[m] # "sock"} /\ fds[n] # "pid"
      BY <1>3, <2>1
    <3>2. n \in 0 .. 2 \/ (n \in 0 .. 3 /\ fds[3] = "pid")
      BY <3>1 DEF FdsInOrder
    <3>3. QED
      BY <3>1, <3>2
  <2>2. QED
    BY <1>3, <2>1
<1>5. QED
  BY <1>3, <1>4 DEF FdsInOrder, PidOpen

-----------------------------------------------------------------------------
(* The start of the spawner, until its loop *)

LEMMA StartKeeps ==
    ASSUME SpawnInv, spc \notin Serving, UNCHANGED <<prog, kids, born, child, pidfile, sig, handler>>,
           opts' \in TypeOfOptions, opts'.forks = opts.forks,
           goal'.uid \in {"zero", "user"} /\ goal'.gid \in {"zero", "user"},
           \/ spc' \notin Serving /\ left' = left
           \/ spc' = "spawn" /\ left' = opts.forks,
           FdsInOrder', RightsDropped', NotBoundYet'
    PROVE  SpawnInv'
<1>1. DOMAIN kids = {} /\ left = 0 /\ pidfile = <<>> /\ opts.forks \in Nat
  BY DEF SpawnInv, NothingYet, SpawnTyped, TypeOfOptions
<1>2. SpawnTyped' /\ NothingYet'
  BY <1>1 DEF SpawnInv, SpawnTyped, KidsTyped, NothingYet, Serving, Handling
<1>3. PidsApart'
  BY <1>1 DEF PidsApart, LastEnded
<1>4. Counted'
  <2>1. IsFiniteSet({}) /\ Cardinality({}) = 0
    BY FS_EmptySet
  <2>2. left' \in Nat /\ left' <= opts'.forks /\ spc' # "again"
    BY <1>1 DEF Serving, Handling
  <2>3. QED
    BY <1>1, <2>1, <2>2 DEF Counted, KidsToCome
<1>5. KidsConfined'
  BY <1>1 DEF KidsConfined
<1>6. QED
  BY <1>2, <1>3, <1>4, <1>5 DEF SpawnInv

\* The options that main changes.
LEMMA OptionsForks ==
    ASSUME SpawnInv, Options
    PROVE  opts' \in TypeOfOptions /\ opts'.forks = opts.forks /\ opts'.root = opts.root /\ opts'.sock = opts.sock
<1>1. opts \in TypeOfOptions
  BY DEF SpawnInv, SpawnTyped
<1>2. CASE opts' = opts
  BY <1>1, <1>2
<1>3. CASE opts' = [opts EXCEPT !.pid = @ /\ ~opts.nofork,
                                !.before = @ /\ Main.before, !.dir = @ /\ Main.dir]
  <2>1. PICK x, y : x = Main.before /\ y = Main.dir
    OBVIOUS
  <2>2. x \in BOOLEAN /\ y \in BOOLEAN
    <3>1. prog \in {"m", "plain", "sc", "d"}
      BY DEF SpawnInv, SpawnTyped
    <3>2. Main \in {m_main, plain_main, sc_main, d_main}
      BY <3>1 DEF Main
    <3>3. Main = m_main \/ Main = plain_main
      BY <3>2 DEF sc_main, d_main
    <3>4. m_main.before = FALSE /\ m_main.dir = FALSE
      BY DEF m_main
    <3>5. plain_main.before = TRUE /\ plain_main.dir = TRUE
      BY DEF plain_main
    <3>6. QED
      BY <2>1, <3>3, <3>4, <3>5
  <2>3. opts' = [opts EXCEPT !.pid = opts.pid /\ ~opts.nofork,
                             !.before = opts.before /\ x, !.dir = opts.dir /\ y]
    BY <1>1, <1>3, <2>1 DEF TypeOfOptions
  <2>4. /\ (opts.pid /\ ~opts.nofork) \in BOOLEAN
        /\ (opts.before /\ x) \in BOOLEAN /\ (opts.dir /\ y) \in BOOLEAN
    OBVIOUS
  <2>5. PICK a \in BOOLEAN, b \in BOOLEAN, c \in BOOLEAN :
           opts' = [opts EXCEPT !.pid = a, !.before = b, !.dir = c]
    BY <2>3
  <2>6. PICK o : o = [opts EXCEPT !.pid = a]
    OBVIOUS
  <2>7. o \in TypeOfOptions /\ o.forks = opts.forks /\ o.root = opts.root /\ o.sock = opts.sock
    BY <1>1, <2>6 DEF TypeOfOptions
  <2>8. PICK q : q = [o EXCEPT !.before = b]
    OBVIOUS
  <2>9. q \in TypeOfOptions /\ q.forks = o.forks /\ q.root = o.root /\ q.sock = o.sock
    BY <2>7, <2>8 DEF TypeOfOptions
  <2>10. opts' = [q EXCEPT !.dir = c]
    BY <2>5, <2>6, <2>8
  <2>11. opts' \in TypeOfOptions /\ opts'.forks = q.forks /\ opts'.root = q.root /\ opts'.sock = q.sock
    BY <2>9, <2>10 DEF TypeOfOptions
  <2>12. QED
    BY <2>7, <2>9, <2>11
<1>4. QED
  BY <1>2, <1>3 DEF Options

LEMMA OptionsKeep ==
    ASSUME SpawnInv, Options
    PROVE  SpawnInv'
<1>1. opts \in TypeOfOptions /\ spc = "options"
  BY DEF SpawnInv, SpawnTyped, Options
<1>2. opts' \in TypeOfOptions /\ opts'.forks = opts.forks /\ opts'.root = opts.root /\ opts'.sock = opts.sock
  BY OptionsForks
<1>3. spc' \in {"pidfile", "failed"} /\ UNCHANGED <<prog, rightsVars, fds, fileVars, kidVars>>
  BY DEF Options, Fail
<1>4. FdsInOrder'
  BY <1>1, <1>3 DEF SpawnInv, FdsInOrder
<1>5. RightsDropped' /\ NotBoundYet'
  <2>1. SockOpen' <=> SockOpen
    BY <1>3 DEF SockOpen
  <2>2. QED
    BY <1>1, <1>2, <1>3, <2>1 DEF SpawnInv, RightsDropped, NotBoundYet, GroupDone, Unbound, Serving, Handling,
                                  Careful, fileVars
<1>6. QED
  BY <1>1, <1>2, <1>3, <1>4, <1>5, StartKeeps DEF SpawnInv, SpawnTyped, rightsVars, fileVars, kidVars,
                                                  Serving, Handling

LEMMA OpenPidKeeps ==
    ASSUME SpawnInv, OpenPid
    PROVE  SpawnInv'
<1>1. /\ spc = "pidfile" /\ UNCHANGED <<optVars, rightsVars, sockfile, pidfile, kidVars>>
      /\ spc' \in {IF opts.root THEN "find" ELSE "bind", "failed"}
      /\ UNCHANGED fds \/ fds' = OpenedAs(fds, "pid")
  BY DEF OpenPid, Fail
<1>2. FdsInOrder'
  <2>1. FdsInOrder /\ DOMAIN fds = 0 .. 2 /\ spc' \notin {"options", "pidfile"}
    BY <1>1 DEF SpawnInv, FdsInOrder
  <2>2. CASE UNCHANGED fds
    BY <2>1, <2>2 DEF FdsInOrder
  <2>3. CASE fds' = OpenedAs(fds, "pid")
    BY <2>1, <2>3, PidOpens
  <2>4. QED
    BY <1>1, <2>2, <2>3
<1>3. RightsDropped' /\ NotBoundYet'
  <2>1. SockOpen' <=> SockOpen
    <3>1. CASE UNCHANGED fds
      BY <3>1 DEF SockOpen
    <3>2. CASE fds' = OpenedAs(fds, "pid")
      <4>1. /\ DOMAIN fds \subseteq DOMAIN fds' /\ \A n \in DOMAIN fds : fds'[n] = fds[n]
            /\ \A n \in DOMAIN fds' : n \in DOMAIN fds \/ fds'[n] = "pid"
        BY <3>2 DEF OpenedAs
      <4>2. QED
        BY <4>1 DEF SockOpen
    <3>3. QED
      BY <1>1, <3>1, <3>2
  <2>2. QED
    BY <1>1, <2>1 DEF SpawnInv, RightsDropped, NotBoundYet, GroupDone, Unbound, Serving, Handling, Careful,
                      optVars
<1>4. QED
  BY <1>1, <1>2, <1>3, StartKeeps DEF SpawnInv, SpawnTyped, optVars, rightsVars, kidVars, Serving, Handling

LEMMA FindUsersKeeps ==
    ASSUME SpawnInv, FindUsers
    PROVE  SpawnInv'
<1>1. /\ spc = "find" /\ UNCHANGED <<optVars, uid, gid, fds, fileVars, kidVars>>
      /\ spc' \in {"failed", "crashed", IF opts.before THEN "bind" ELSE "group"}
  BY DEF FindUsers, Fail
<1>2. goal'.uid \in {"zero", "user"} /\ goal'.gid \in {"zero", "user"}
  <2>1. CASE UNCHANGED goal
    BY <2>1 DEF SpawnInv, SpawnTyped
  <2>2. CASE ~UNCHANGED goal
    BY <2>2 DEF FindUsers
  <2>3. QED
    BY <2>1, <2>2
<1>3. FdsInOrder'
  BY <1>1 DEF SpawnInv, FdsInOrder
<1>4. RightsDropped' /\ NotBoundYet'
  <2>1. SockOpen' <=> SockOpen
    BY <1>1 DEF SockOpen
  <2>2. QED
    BY <1>1, <2>1 DEF SpawnInv, RightsDropped, NotBoundYet, GroupDone, Unbound, Serving, Handling, Careful,
                      optVars, fileVars
<1>5. QED
  BY <1>1, <1>2, <1>3, <1>4, StartKeeps DEF SpawnInv, SpawnTyped, optVars, fileVars, kidVars, Serving, Handling

\* The versions that look at the results of setgid and setuid bind before setuid.
LEMMA CarefulRights ==
    ASSUME Careful
    PROVE  Rights.checked = TRUE /\ Rights.bindFirst = TRUE /\ Bound.tidy = TRUE /\ Spawning.checked = TRUE
           /\ Spawning.sep = "eol" /\ prog # "d"
  BY DEF Careful, Rights, Bound, Spawning, plain_rights, sc_rights, plain_bind_socket, sc_bind_socket,
         plain_spawn, sc_spawn

LEMMA RightsKeep ==
    ASSUME SpawnInv, SetGroup \/ ChangeRoot \/ DropUid \/ ChangeDir
    PROVE  SpawnInv'
<1>1. /\ spc \in {"group", "jail", "setuid", "chdir"}
      /\ UNCHANGED <<optVars, goal, fds, fileVars, kids, born, child, sig, handler>>
      /\ \/ spc' \in {"failed", "jail", "setuid", "chdir", "bind"} /\ UNCHANGED left
         \/ spc' = "spawn" /\ left' = opts.forks
  <2>1. CASE SetGroup
    BY <2>1 DEF SetGroup, kidVars
  <2>2. CASE ChangeRoot
    BY <2>2 DEF ChangeRoot, Fail, kidVars, rightsVars
  <2>3. CASE DropUid
    BY <2>3 DEF DropUid, kidVars
  <2>4. CASE ChangeDir
    BY <2>4 DEF ChangeDir, Fail, rightsVars
  <2>5. QED
    BY <2>1, <2>2, <2>3, <2>4
<1>2. FdsInOrder'
  BY <1>1 DEF SpawnInv, FdsInOrder
<1>3. RightsDropped' /\ NotBoundYet'
  <2>1. SUFFICES ASSUME Careful
                 PROVE  RightsDropped' /\ NotBoundYet'
    BY <1>1 DEF RightsDropped, NotBoundYet, Careful, optVars
  <2>2. RightsDropped /\ NotBoundYet /\ (SockOpen' <=> SockOpen)
    BY <1>1 DEF SpawnInv, SockOpen
  <2>3. CASE SetGroup
    BY <1>1, <2>1, <2>2, <2>3, CarefulRights
       DEF SetGroup, RightsDropped, NotBoundYet, GroupDone, Unbound, Serving, Handling, optVars, fileVars
  <2>4. CASE ChangeRoot
    BY <1>1, <2>1, <2>2, <2>4, CarefulRights
       DEF ChangeRoot, Fail, RightsDropped, NotBoundYet, GroupDone, Unbound, Serving, Handling, optVars,
           fileVars, rightsVars
  <2>5. CASE DropUid
    BY <1>1, <2>1, <2>2, <2>5, CarefulRights
       DEF DropUid, RightsDropped, NotBoundYet, GroupDone, Unbound, Serving, Handling, optVars, fileVars
  <2>6. CASE ChangeDir
    BY <1>1, <2>1, <2>2, <2>6
       DEF ChangeDir, Fail, RightsDropped, NotBoundYet, GroupDone, Unbound, Serving, Handling, optVars,
           fileVars, rightsVars
  <2>7. QED
    BY <2>3, <2>4, <2>5, <2>6
<1>4. QED
  BY <1>1, <1>2, <1>3, StartKeeps DEF SpawnInv, SpawnTyped, optVars, fileVars, Serving, Handling

LEMMA BindKeeps ==
    ASSUME SpawnInv, BindSocket \/ BindFails
    PROVE  SpawnInv'
<1>1. /\ spc = "bind" /\ UNCHANGED <<optVars, rightsVars, pidpath, pidfile, kidVars>>
      /\ \/ BindSocket /\ spc' = AfterBind /\ fds' = OpenedAs(fds, "sock")
         \/ BindFails /\ spc' = "unbound" /\ UNCHANGED fds
      /\ AfterBind \in {"group", "setuid", "chdir"}
  BY DEF BindSocket, BindFails, AfterBind
<1>2. FdsInOrder'
  BY <1>1, SockOpens DEF SpawnInv, FdsInOrder
<1>3. RightsDropped' /\ NotBoundYet'
  <2>1. SUFFICES ASSUME Careful
                 PROVE  RightsDropped' /\ NotBoundYet'
    BY <1>1 DEF RightsDropped, NotBoundYet, Careful, optVars
  <2>2. RightsDropped /\ NotBoundYet
    BY DEF SpawnInv
  <2>3. CASE BindSocket
    <3>1. /\ opts' = opts /\ goal' = goal /\ uid' = uid /\ gid' = gid /\ prog' = prog
          /\ spc' = AfterBind /\ AfterBind \notin Serving
          /\ sockfile' = IF opts.sock = "unix" THEN OurFile ELSE sockfile
      BY <1>1, <2>3 DEF BindSocket, optVars, rightsVars, Serving, Handling
    <3>2. SockOpen'
      <4>1. FdsInOrder /\ ~SockOpen
        BY <1>1, <2>1, <2>2 DEF SpawnInv, NotBoundYet, Unbound
      <4>2. QED
        BY <1>1, <2>3, <4>1, SockIsOpen DEF BindSocket
    <3>3. sockfile.is # "ours" /\ OurFile.is = "ours"
      BY <1>1, <2>1, <2>2 DEF NotBoundYet, Unbound, OurFile, Serving, Handling
    <3>4. NotBoundYet'
      <4>1. ~Unbound'
        BY <1>1, <3>1, CarefulRights, <2>1 DEF AfterBind, Unbound
      <4>2. QED
        BY <3>1, <3>2, <3>3, <4>1 DEF NotBoundYet
    <3>5. RightsDropped'
      BY <1>1, <2>1, <2>2, <3>1, CarefulRights DEF AfterBind, RightsDropped, GroupDone, Serving, Handling
    <3>6. QED
      BY <3>4, <3>5
  <2>4. CASE BindFails
    <3>1. sockfile'.is # "ours"
      <4>1. sockfile.is # "ours" /\ NoFile.is # "ours" /\ AfterListenFailed = NoFile
        BY <1>1, <2>1, <2>2, CarefulRights DEF AfterListenFailed, NoFile, NotBoundYet, Unbound, Serving, Handling
      <4>2. sockfile' \in {sockfile, NoFile, AfterListenFailed}
        BY <2>4 DEF BindFails
      <4>3. QED
        BY <4>1, <4>2
    <3>2. ~SockOpen'
      BY <1>1, <2>1, <2>2, <2>4 DEF BindFails, SockOpen, NotBoundYet, Unbound
    <3>3. QED
      BY <1>1, <2>4, <3>1, <3>2 DEF BindFails, RightsDropped, NotBoundYet, GroupDone, Serving, Handling
  <2>5. QED
    BY <1>1, <2>3, <2>4
<1>4. QED
  BY <1>1, <1>2, <1>3, StartKeeps DEF SpawnInv, SpawnTyped, optVars, rightsVars, kidVars, Serving, Handling

-----------------------------------------------------------------------------
(* The loop of the spawner and its handler *)

LEMMA ServeKeeps ==
    ASSUME SpawnInv, spc \in Serving, spc' \in Serving, UNCHANGED <<optVars, rightsVars, sockfile, pidpath>>,
           SpawnTyped', FdsInOrder', PidsApart', Counted', KidsConfined'
    PROVE  SpawnInv'
<1>1. NothingYet'
  BY DEF NothingYet
<1>2. RightsDropped' /\ NotBoundYet'
  BY DEF SpawnInv, RightsDropped, NotBoundYet, GroupDone, Unbound, Serving, Handling, Careful, optVars,
         rightsVars
<1>3. QED
  BY <1>1, <1>2 DEF SpawnInv

\* While nothing is written and nothing more is to be written.
LEMMA PidsStay ==
    ASSUME PidsApart, UNCHANGED <<prog, pidfile>>, PidOpen' => PidOpen,
           Careful /\ (left' > 0 \/ spc' = "wait") => left > 0 \/ spc = "wait"
    PROVE  PidsApart'
<1>1. (Careful' <=> Careful) /\ (LastEnded' <=> LastEnded)
  BY DEF Careful, LastEnded
<1>2. SUFFICES ASSUME Careful
               PROVE  PidsApart'
  BY <1>1 DEF PidsApart
<1>3. \A i \in 1 .. Len(pidfile') - 1 : (pidfile'[i][1] = "pid") # (pidfile'[i + 1][1] = "pid")
  BY <1>2 DEF PidsApart
<1>4. PidOpen' /\ (left' > 0 \/ spc' = "wait") => LastEnded'
  BY <1>1, <1>2 DEF PidsApart
<1>5. QED
  BY <1>3, <1>4 DEF PidsApart

\* Children that stay are what they were.
LEMMA KidsStay ==
    ASSUME KidsConfined, DOMAIN kids' \subseteq DOMAIN kids, UNCHANGED <<optVars, rightsVars>>,
           \A p \in DOMAIN kids' : /\ kids'[p].uid = kids[p].uid /\ kids'[p].gid = kids[p].gid
                                   /\ kids'[p].fds = kids[p].fds
    PROVE  KidsConfined'
  BY DEF KidsConfined, Careful, optVars, rightsVars

\* A child more, of the rights that are left and the descriptors that are open.
LEMMA KidMore ==
    ASSUME SpawnInv, spc \in Serving, NEW null \in BOOLEAN, NewKid(null), UNCHANGED <<optVars, rightsVars>>,
           opts.nofork \/ null \/ May("devnull")
    PROVE  /\ KidsTyped' /\ Cardinality(DOMAIN kids') = Cardinality(DOMAIN kids) + 1
           /\ Cardinality(DOMAIN kids) \in Nat
           /\ KidsConfined'
<1>1. PICK n : n = born + 1
  OBVIOUS
<1>2. born \in Nat /\ DOMAIN kids \subseteq 1 .. born /\ n \notin DOMAIN kids /\ n \in Nat
  BY <1>1 DEF SpawnInv, SpawnTyped, KidsTyped
<1>3. /\ born' = n /\ DOMAIN kids' = DOMAIN kids \cup {n}
      /\ \A p \in DOMAIN kids : kids'[p] = kids[p]
      /\ kids'[n] = [at |-> "forked", uid |-> uid, gid |-> gid, fds |-> KidFds(null)]
  BY <1>1, <1>2 DEF NewKid, Kid
<1>4. DOMAIN kids' \subseteq 1 .. born'
  BY <1>1, <1>2, <1>3
<1>5. /\ IsFiniteSet(DOMAIN kids') /\ Cardinality(DOMAIN kids') = Cardinality(DOMAIN kids) + 1
      /\ Cardinality(DOMAIN kids) \in Nat
  BY <1>2, <1>3, FS_AddElement, FS_CardinalityType DEF SpawnInv, SpawnTyped, KidsTyped
<1>6. KidsConfined'
  <2>1. ASSUME NEW p \in DOMAIN kids', p # n
        PROVE  p \in DOMAIN kids /\ kids'[p] = kids[p]
    BY <1>3, <2>1
  <2>2. /\ Careful /\ opts.root /\ goal.uid = "user" => kids'[n].uid = "user"
        /\ Careful /\ opts.root /\ goal.gid = "user" => kids'[n].gid = "user"
    BY <1>3 DEF SpawnInv, RightsDropped, GroupDone
  <2>3. /\ kids'[n].fds[0] = "sock"
        /\ ~opts.nofork /\ ~May("devnull") => DOMAIN kids'[n].fds = 0 .. 2 /\ kids'[n].fds[1] = "null"
    BY <1>3, KidFdsConfined DEF SpawnInv
  <2>4. KidsConfined /\ UNCHANGED <<prog, opts, goal>>
    BY DEF SpawnInv, optVars, rightsVars
  <2>5. QED
    BY <2>1, <2>2, <2>3, <2>4 DEF KidsConfined, Careful
<1>7. KidsTyped'
  BY <1>2, <1>3, <1>4, <1>5 DEF SpawnInv, SpawnTyped, KidsTyped
<1>8. QED
  BY <1>5, <1>6, <1>7

\* A child less.
LEMMA KidLess ==
    ASSUME SpawnInv, NEW pid, kids' = [p \in DOMAIN kids \ {pid} |-> kids[p]],
           UNCHANGED <<optVars, rightsVars, born>>
    PROVE  /\ KidsTyped'
           /\ Cardinality(DOMAIN kids) \in Nat /\ Cardinality(DOMAIN kids') \in Nat
           /\ Cardinality(DOMAIN kids') <= Cardinality(DOMAIN kids)
           /\ pid \in DOMAIN kids => Cardinality(DOMAIN kids') + 1 = Cardinality(DOMAIN kids)
           /\ KidsConfined'
<1>1. DOMAIN kids' = DOMAIN kids \ {pid} /\ \A p \in DOMAIN kids' : p \in DOMAIN kids /\ kids'[p] = kids[p]
  OBVIOUS
<1>2. /\ IsFiniteSet(DOMAIN kids') /\ IsFiniteSet(DOMAIN kids)
      /\ Cardinality(DOMAIN kids') = IF pid \in DOMAIN kids THEN Cardinality(DOMAIN kids) - 1
                                     ELSE Cardinality(DOMAIN kids)
  BY <1>1, FS_RemoveElement DEF SpawnInv, SpawnTyped, KidsTyped
<1>3. Cardinality(DOMAIN kids) \in Nat /\ Cardinality(DOMAIN kids') \in Nat
  BY <1>2, FS_CardinalityType
<1>4. KidsConfined'
  BY <1>1, KidsStay DEF SpawnInv
<1>5. KidsTyped'
  BY <1>1, <1>2 DEF SpawnInv, SpawnTyped, KidsTyped
<1>6. QED
  BY <1>2, <1>3, <1>4, <1>5

\* A child that runs or dies keeps its rights and its descriptors.
LEMMA KidMoves ==
    ASSUME SpawnInv, NEW pid \in DOMAIN kids, NEW at, kids' = [kids EXCEPT ![pid].at = at],
           UNCHANGED <<optVars, rightsVars, born>>
    PROVE  /\ DOMAIN kids' = DOMAIN kids
           /\ KidsTyped' /\ KidsConfined'
<1>1. DOMAIN kids' = DOMAIN kids
  OBVIOUS
<1>2. \A p \in DOMAIN kids : kids[p] = [at |-> kids[p].at, uid |-> kids[p].uid,
                                        gid |-> kids[p].gid, fds |-> kids[p].fds]
  BY DEF SpawnInv, SpawnTyped, KidsTyped
<1>3. kids'[pid] = [at |-> at, uid |-> kids[pid].uid, gid |-> kids[pid].gid, fds |-> kids[pid].fds]
  <2>1. kids'[pid] = [kids[pid] EXCEPT !.at = at]
    OBVIOUS
  <2>2. PICK x, u, g, f : kids[pid] = [at |-> x, uid |-> u, gid |-> g, fds |-> f]
    BY <1>2
  <2>3. QED
    BY <2>1, <2>2
<1>4. \A p \in DOMAIN kids' : p # pid => kids'[p] = kids[p]
  OBVIOUS
<1>5. KidsTyped'
  BY <1>1, <1>2, <1>3, <1>4 DEF SpawnInv, SpawnTyped, KidsTyped
<1>6. \A p \in DOMAIN kids' : /\ kids'[p].uid = kids[p].uid /\ kids'[p].gid = kids[p].gid
                              /\ kids'[p].fds = kids[p].fds
  BY <1>1, <1>3, <1>4
<1>7. KidsConfined'
  BY <1>1, <1>6, KidsStay DEF SpawnInv
<1>8. QED
  BY <1>1, <1>5, <1>7

LEMMA ForkKeeps ==
    ASSUME SpawnInv, Fork
    PROVE  SpawnInv'
<1>1. /\ spc = "spawn" /\ left > 0 /\ left' = left - 1
      /\ UNCHANGED <<optVars, rightsVars, fds, fileVars, sig, handler>> /\ left \in Nat /\ born \in Nat
      /\ child' = born'
      /\ spc' \in {"spawn", "wait", "became"}
  BY DEF Fork, MayFork, SpawnInv, SpawnTyped, KidsTyped
<1>2. UNCHANGED <<kids, born>> \/ \E null \in BOOLEAN : /\ NewKid(null)
                                                        /\ opts.nofork \/ null \/ May("devnull")
  BY DEF Fork, Nulls
<1>3. KidsTyped' /\ KidsConfined' /\ Cardinality(DOMAIN kids') + left' <= opts.forks
  <2>1. /\ KidsTyped /\ KidsConfined /\ Cardinality(DOMAIN kids) + left <= opts.forks
        /\ Cardinality(DOMAIN kids) \in Nat /\ opts.forks \in Nat /\ spc \in Serving
    BY <1>1, FS_CardinalityType DEF SpawnInv, SpawnTyped, KidsTyped, Counted, KidsToCome, TypeOfOptions, Serving
  <2>2. CASE UNCHANGED <<kids, born>>
    <3>1. KidsConfined'
      BY <1>1, <2>2, KidsStay DEF SpawnInv
    <3>2. QED
      BY <1>1, <2>1, <2>2, <3>1 DEF KidsTyped
  <2>3. ASSUME NEW null \in BOOLEAN, NewKid(null), opts.nofork \/ null \/ May("devnull")
        PROVE  KidsTyped' /\ KidsConfined' /\ Cardinality(DOMAIN kids') = Cardinality(DOMAIN kids) + 1
    BY <1>1, <2>1, <2>3, KidMore
  <2>4. QED
    BY <1>1, <1>2, <2>1, <2>2, <2>3
<1>4. SpawnTyped'
  <2>1. child' \in Nat
    BY <1>1, <1>3 DEF KidsTyped
  <2>2. QED
    BY <1>1, <1>3, <2>1 DEF SpawnInv, SpawnTyped, optVars, rightsVars, fileVars, Handling
<1>5. FdsInOrder'
  BY <1>1 DEF SpawnInv, FdsInOrder
<1>6. PidsApart'
  <2>1. PidsApart /\ UNCHANGED <<prog, pidfile>>
    BY <1>1 DEF SpawnInv, optVars, fileVars
  <2>2. PidOpen' => PidOpen
    BY <1>1 DEF PidOpen
  <2>3. QED
    BY <1>1, <2>1, <2>2, PidsStay
<1>7. Counted'
  <2>1. Cardinality(DOMAIN kids') \in Nat /\ left' \in Nat /\ spc' # "again" /\ opts' = opts
    BY <1>1, <1>3, FS_CardinalityType DEF KidsTyped, optVars
  <2>2. QED
    BY <1>3, <2>1 DEF Counted, KidsToCome
<1>8. QED
  BY <1>1, <1>3, <1>4, <1>5, <1>6, <1>7, ServeKeeps DEF Serving, fileVars

-----------------------------------------------------------------------------
(* The pid file *)

Apart(s) == \A i \in 1 .. Len(s) - 1 : (s[i][1] = "pid") # (s[i + 1][1] = "pid")

LEMMA Marks ==
    ASSUME NEW n \in Nat
    PROVE  /\ <<"pid", n>> \in Mark /\ <<"pid", n>>[1] = "pid"
           /\ <<"eol">>[1] = "eol"
           /\ SpawnTyped => <<Spawning.sep>> \in Mark
<1>1. <<"pid", n>> \in {"pid"} \X Nat
  OBVIOUS
<1>2. SpawnTyped => Spawning \in {m_spawn, plain_spawn, sc_spawn, d_spawn}
  BY DEF SpawnTyped, Spawning
<1>3. m_spawn.sep = "n" /\ plain_spawn.sep = "eol" /\ sc_spawn.sep = "eol" /\ d_spawn.sep = "/n"
  BY DEF m_spawn, plain_spawn, sc_spawn, d_spawn
<1>4. SpawnTyped => Spawning.sep \in {"n", "eol", "/n"}
  BY <1>2, <1>3
<1>5. \A x : x \in {"n", "eol", "/n"} => <<x>> \in {<<"n">>, <<"eol">>, <<"/n">>}
  OBVIOUS
<1>6. QED
  BY <1>1, <1>4, <1>5 DEF Mark

\* One mark more, of the other kind than the last.
LEMMA OneMore ==
    ASSUME NEW s \in Seq(Mark), NEW m \in Mark
    PROVE  /\ Append(s, m) \in Seq(Mark) /\ Len(Append(s, m)) = Len(s) + 1
           /\ Append(s, m)[Len(s) + 1] = m
           /\ Apart(s) /\ (s # <<>> => (s[Len(s)][1] = "pid") # (m[1] = "pid")) => Apart(Append(s, m))
<1> DEFINE t == Append(s, m)
<1>1. /\ t \in Seq(Mark) /\ Len(t) = Len(s) + 1 /\ t[Len(s) + 1] = m /\ Len(s) \in Nat
      /\ \A i \in 1 .. Len(s) : t[i] = s[i]
  OBVIOUS
<1>2. s = <<>> <=> Len(s) = 0
  OBVIOUS
<1> HIDE DEF t
<1>3. ASSUME Apart(s), s # <<>> => (s[Len(s)][1] = "pid") # (m[1] = "pid"), NEW i \in 1 .. Len(t) - 1
      PROVE  (t[i][1] = "pid") # (t[i + 1][1] = "pid")
  <2>1. CASE i = Len(s)
    BY <1>1, <1>2, <1>3, <2>1
  <2>2. CASE i # Len(s)
    <3>1. i \in 1 .. Len(s) - 1 /\ i + 1 \in 1 .. Len(s)
      BY <1>1, <1>3, <2>2
    <3>2. t[i] = s[i] /\ t[i + 1] = s[i + 1]
      BY <1>1, <3>1
    <3>3. QED
      BY <1>3, <3>1, <3>2 DEF Apart
  <2>3. QED
    BY <2>1, <2>2
<1>4. QED
  BY <1>1, <1>3 DEF t, Apart

\* What WritePid leaves: either the pid with what ends it, if one more comes, or
\* in the careful versions a closed file.
LEMMA WriteIs ==
    ASSUME SpawnTyped, NEW pid \in Nat, NEW more \in BOOLEAN, WritePid(pid, more)
    PROVE  LET one == Append(pidfile, <<"pid", pid>>)
               both == Append(one, <<Spawning.sep>>)
           IN /\ \/ pidfile' = (IF more THEN both ELSE one) /\ UNCHANGED fds
                 \/ ~Spawning.checked /\ pidfile' \in {pidfile, one} /\ UNCHANGED fds
                 \/ pidfile' \in {pidfile, one} /\ fds' = Closed(fds, "pid")
<1>1. pidfile \in Seq(Mark)
  BY DEF SpawnTyped
<1>2. \A x, y : /\ pidfile \o <<x>> \o <<>> = Append(pidfile, x)
                /\ pidfile \o <<x>> \o <<y>> = Append(Append(pidfile, x), y)
  <2>1. TAKE x, y
  <2>2. PICK T : pidfile \in Seq(T) /\ x \in T /\ y \in T
    <3>1. Mark \subseteq Mark \cup {x, y}
      OBVIOUS
    <3>2. pidfile \in Seq(Mark \cup {x, y})
      BY <1>1
    <3>3. QED
      BY <3>2
  <2>3. QED
    BY <2>2
<1>3. QED
  BY <1>2 DEF WritePid

\* The wait for a child: its pid is written, or it is gone already.
LEMMA WaitKeeps ==
    ASSUME SpawnInv, NEW pid \in Nat, NEW more \in BOOLEAN, Waited(pid, more), spc \in {"wait", "waitAgain"},
           spc' \in {"spawn", "reap"}, spc = "waitAgain" \/ (more <=> left # 0),
           UNCHANGED <<optVars, rightsVars, sockfile, pidpath, left, born, child, sig, handler>>,
           spc = "waitAgain" <=> spc' = "reap"
    PROVE  SpawnInv'
<1>1. SpawnTyped /\ KidsTyped /\ left \in Nat /\ born \in Nat /\ pidfile \in Seq(Mark)
  BY DEF SpawnInv, SpawnTyped, KidsTyped
<1>2. \/ UNCHANGED kids /\ PidOpen /\ WritePid(pid, more)
      \/ UNCHANGED kids /\ UNCHANGED <<pidfile, fds>>
      \/ kids' = [p \in DOMAIN kids \ {pid} |-> kids[p]] /\ UNCHANGED <<pidfile, fds>>
  BY DEF Waited
<1>3. KidsTyped' /\ KidsConfined' /\ Cardinality(DOMAIN kids') <= Cardinality(DOMAIN kids)
      /\ Cardinality(DOMAIN kids) \in Nat /\ Cardinality(DOMAIN kids') \in Nat
  <2>1. CASE UNCHANGED kids
    <3>1. KidsConfined' /\ KidsTyped'
      BY <1>1, <2>1, KidsStay DEF SpawnInv, KidsTyped
    <3>2. Cardinality(DOMAIN kids) \in Nat
      BY <1>1, FS_CardinalityType DEF KidsTyped
    <3>3. QED
      BY <2>1, <3>1, <3>2
  <2>2. CASE kids' = [p \in DOMAIN kids \ {pid} |-> kids[p]]
    BY <2>2, KidLess
  <2>3. QED
    BY <1>2, <2>1, <2>2
<1> DEFINE one == Append(pidfile, <<"pid", pid>>)
           both == Append(one, <<Spawning.sep>>)
<1>4. \/ UNCHANGED <<pidfile, fds>>
      \/ PidOpen /\ pidfile' = (IF more THEN both ELSE one) /\ UNCHANGED fds
      \/ ~Careful /\ pidfile' \in {pidfile, one} /\ UNCHANGED fds
      \/ PidOpen /\ pidfile' \in {pidfile, one} /\ fds' = Closed(fds, "pid")
  BY <1>1, <1>2, WriteIs, CarefulRights
<1>5. /\ one \in Seq(Mark) /\ Len(one) = Len(pidfile) + 1 /\ one[Len(one)] = <<"pid", pid>>
      /\ Apart(pidfile) /\ LastEnded => Apart(one)
  <2>1. <<"pid", pid>> \in Mark /\ <<"pid", pid>>[1] = "pid"
    BY <1>1, Marks
  <2>2. QED
    BY <1>1, <2>1, OneMore DEF LastEnded
<1>6. /\ both \in Seq(Mark) /\ both # <<>> /\ both[Len(both)] = <<Spawning.sep>>
      /\ Careful /\ Apart(one) => Apart(both)
  <2>1. <<Spawning.sep>> \in Mark /\ <<"pid", pid>>[1] = "pid"
    BY <1>1, Marks
  <2>2. Careful => <<Spawning.sep>>[1] = "eol"
    BY CarefulRights
  <2>3. /\ Append(one, <<Spawning.sep>>) \in Seq(Mark)
        /\ Len(both) = Len(one) + 1 /\ both[Len(one) + 1] = <<Spawning.sep>>
        /\ Apart(one) /\ (one # <<>> => (one[Len(one)][1] = "pid") # (<<Spawning.sep>>[1] = "pid"))
              => Apart(both)
    BY <1>5, <2>1, OneMore
  <2>4. both # <<>>
    BY <1>5, <2>3
  <2>5. QED
    BY <1>5, <2>1, <2>2, <2>3, <2>4
<1> HIDE DEF one, both
<1>7. SpawnTyped'
  <2>1. pidfile' \in Seq(Mark)
    BY <1>1, <1>4, <1>5, <1>6
  <2>2. QED
    BY <1>1, <1>3, <2>1 DEF SpawnInv, SpawnTyped, optVars, rightsVars, Handling
<1>8. FdsInOrder'
  <2>1. FdsInOrder /\ spc' \notin {"options", "pidfile"}
    BY DEF SpawnInv
  <2>2. CASE UNCHANGED fds
    BY <2>1, <2>2 DEF FdsInOrder
  <2>3. CASE fds' = Closed(fds, "pid")
    BY <2>1, <2>3, PidCloses
  <2>4. QED
    BY <1>4, <2>2, <2>3
<1>9. PidsApart'
  <2>1. SUFFICES ASSUME Careful
                 PROVE  Apart(pidfile') /\ (PidOpen' /\ left > 0 => LastEnded')
    BY <1>1 DEF PidsApart, Apart, Careful, optVars
  <2>2. spc = "wait" /\ (more <=> left # 0) /\ Apart(pidfile) /\ (PidOpen => LastEnded)
    BY <2>1, CarefulRights DEF SpawnInv, SpawnTyped, PidsApart, Apart, Handling
  <2>3. CASE UNCHANGED <<pidfile, fds>>
    BY <2>2, <2>3 DEF LastEnded, PidOpen
  <2>4. CASE PidOpen /\ pidfile' = (IF more THEN both ELSE one) /\ UNCHANGED fds
    <3>1. Apart(pidfile')
      BY <1>5, <1>6, <2>1, <2>2, <2>4
    <3>2. left > 0 => LastEnded'
      <4>1. <<Spawning.sep>>[1] # "pid"
        BY <2>1, CarefulRights
      <4>2. left > 0 => pidfile' = both
        BY <1>1, <2>2, <2>4
      <4>3. QED
        BY <1>6, <4>1, <4>2 DEF LastEnded
    <3>3. QED
      BY <3>1, <3>2
  <2>5. CASE PidOpen /\ pidfile' \in {pidfile, one} /\ fds' = Closed(fds, "pid")
    <3>1. ~PidOpen'
      BY <2>5, PidCloses DEF SpawnInv
    <3>2. QED
      BY <1>5, <2>2, <2>5, <3>1
  <2>6. QED
    BY <1>4, <2>1, <2>3, <2>4, <2>5
<1>10. Counted'
  <2>1. opts' = opts /\ left' = left /\ spc # "again" /\ spc' # "again"
    BY DEF optVars
  <2>2. Cardinality(DOMAIN kids) + left <= opts.forks /\ opts.forks \in Nat
    BY <1>1, <1>3, <2>1 DEF SpawnInv, Counted, KidsToCome, SpawnTyped, TypeOfOptions
  <2>3. QED
    BY <1>1, <1>3, <2>1, <2>2 DEF Counted, KidsToCome
<1>11. QED
  BY <1>3, <1>7, <1>8, <1>9, <1>10, ServeKeeps DEF Serving, Handling

LEMMA WaitsKeep ==
    ASSUME SpawnInv, Wait \/ WaitAgain
    PROVE  SpawnInv'
<1>1. CASE Wait
  <2>1. (left # 0) \in BOOLEAN /\ child \in Nat
    BY DEF SpawnInv, SpawnTyped
  <2>2. QED
    BY <1>1, <2>1, WaitKeeps DEF Wait
<1>2. CASE WaitAgain
  <2>1. born \in Nat /\ FALSE \in BOOLEAN
    BY DEF SpawnInv, SpawnTyped, KidsTyped
  <2>2. QED
    BY <1>2, <2>1, WaitKeeps DEF WaitAgain
<1>3. QED
  BY <1>1, <1>2

\* The steps that neither fork, write nor reap: the program becomes its child or
\* ends, a child runs or dies, a signal comes and is handled.
LEMMA QuietKeeps ==
    ASSUME SpawnInv, spc \in Serving, spc' \in Serving, spc' = "again" => spc = "again",
           spc' = "wait" => prog = "d" \/ spc = "wait",
           UNCHANGED <<optVars, rightsVars, fileVars, left, born, child>>,
           \/ UNCHANGED fds
           \/ fds' = Closed(Closed(fds, "pid"), "sock"),
           \/ UNCHANGED kids
           \/ \E pid \in DOMAIN kids : \E at : kids' = [kids EXCEPT ![pid].at = at],
           sig' # "none" \/ spc' \in Handling => prog = "d",
           spc' \in Handling => handler'.back \in {"spawn", "wait", "sleep"}
    PROVE  SpawnInv'
<1>1. SpawnTyped /\ KidsTyped /\ left \in Nat
  BY DEF SpawnInv, SpawnTyped
<1>2. KidsTyped' /\ KidsConfined' /\ DOMAIN kids' = DOMAIN kids
  <2>1. CASE UNCHANGED kids
    BY <1>1, <2>1, KidsStay DEF SpawnInv, KidsTyped
  <2>2. ASSUME NEW pid \in DOMAIN kids, NEW at, kids' = [kids EXCEPT ![pid].at = at]
        PROVE  <1>2
    BY <2>2, KidMoves
  <2>3. QED
    BY <2>1, <2>2
<1>3. SpawnTyped'
  BY <1>1, <1>2 DEF SpawnTyped, optVars, rightsVars, fileVars
<1>4. FdsInOrder' /\ (PidOpen' => PidOpen)
  <2>1. FdsInOrder /\ spc' \notin {"options", "pidfile"}
    BY DEF SpawnInv, Serving, Handling
  <2>2. CASE UNCHANGED fds
    BY <2>1, <2>2 DEF FdsInOrder, PidOpen
  <2>3. CASE fds' = Closed(Closed(fds, "pid"), "sock")
    BY <2>1, <2>3, PidCloses
  <2>4. QED
    BY <2>2, <2>3
<1>5. PidsApart'
  <2>1. PidsApart /\ UNCHANGED <<prog, pidfile>> /\ left' = left
    BY DEF SpawnInv, optVars, fileVars
  <2>2. Careful => prog # "d"
    BY DEF Careful
  <2>3. QED
    BY <1>4, <2>1, <2>2, PidsStay
<1>6. Counted'
  <2>1. /\ Cardinality(DOMAIN kids) \in Nat /\ opts.forks \in Nat /\ opts' = opts /\ left' = left
        /\ Cardinality(DOMAIN kids') = Cardinality(DOMAIN kids)
    BY <1>1, <1>2, FS_CardinalityType DEF KidsTyped, SpawnTyped, TypeOfOptions, optVars
  <2>2. Cardinality(DOMAIN kids) + left + (IF spc = "again" THEN 1 ELSE 0) <= opts.forks
    BY DEF SpawnInv, Counted, KidsToCome
  <2>3. QED
    BY <1>1, <2>1, <2>2 DEF Counted, KidsToCome
<1>7. QED
  BY <1>2, <1>3, <1>4, <1>5, <1>6, ServeKeeps DEF fileVars

LEMMA QuietSteps ==
    ASSUME SpawnInv, \/ SpawnEnds \/ HandlerStarts \/ ReapEnds \/ FakeSignal \/ Stop
                     \/ \E pid \in DOMAIN kids :
                           \/ Runs(pid)
                           \/ \E code \in {"exited", "dumped"} : Dies(pid, code)
    PROVE  SpawnInv'
<1>1. SpawnTyped /\ NothingYet
  BY DEF SpawnInv
<1>2. CASE SpawnEnds
  BY <1>1, <1>2, QuietKeeps DEF SpawnEnds, kidVars, Serving, Handling, SpawnTyped
<1>3. CASE HandlerStarts
  BY <1>1, <1>3, QuietKeeps DEF HandlerStarts, Serving, Handling, SpawnTyped
<1>4. CASE ReapEnds
  BY <1>1, <1>4, QuietKeeps DEF ReapEnds, Serving, Handling, SpawnTyped
<1>5. CASE FakeSignal
  BY <1>1, <1>5, QuietKeeps DEF FakeSignal, Serving, Handling, SpawnTyped
<1>6. CASE Stop
  BY <1>1, <1>6, QuietKeeps DEF Stop, kidVars, Serving, Handling, SpawnTyped
<1>7. ASSUME NEW pid \in DOMAIN kids, Runs(pid)
      PROVE  SpawnInv'
  <2>1. spc \in Serving /\ kids' = [kids EXCEPT ![pid].at = "running"]
    BY <1>1, <1>7 DEF Runs, NothingYet
  <2>2. spc' = spc /\ UNCHANGED <<optVars, rightsVars, fds, fileVars, left, born, child, sig, handler>>
    BY <1>7 DEF Runs
  <2>3. QED
    BY <1>1, <2>1, <2>2, QuietKeeps DEF SpawnTyped
<1>8. ASSUME NEW pid \in DOMAIN kids, NEW code \in {"exited", "dumped"}, Dies(pid, code)
      PROVE  SpawnInv'
  <2>1. spc \in Serving /\ kids' = [kids EXCEPT ![pid].at = "dead"]
    BY <1>1, <1>8 DEF Dies, NothingYet
  <2>2. spc' = spc /\ UNCHANGED <<optVars, rightsVars, fds, fileVars, left, born, child, handler>>
        /\ (sig' # "none" => prog = "d" \/ sig # "none")
    BY <1>8 DEF Dies
  <2>3. QED
    BY <1>1, <2>1, <2>2, QuietKeeps DEF SpawnTyped
<1>9. QED
  BY <1>2, <1>3, <1>4, <1>5, <1>6, <1>7, <1>8

LEMMA ReapKeeps ==
    ASSUME SpawnInv, NEW pid \in DOMAIN kids, Reap(pid)
    PROVE  SpawnInv'
<1>1. /\ spc = "reap" /\ kids' = [p \in DOMAIN kids \ {pid} |-> kids[p]]
      /\ UNCHANGED <<optVars, rightsVars, fds, fileVars, left, born, child, sig>>
      /\ \/ spc' = "again" /\ UNCHANGED handler
         \/ spc' = handler.back
         \/ UNCHANGED <<spc, handler>>
  BY DEF Reap
<1>2. SpawnTyped /\ KidsTyped /\ left \in Nat /\ prog = "d" /\ handler.back \in {"spawn", "wait", "sleep"}
  BY <1>1 DEF SpawnInv, SpawnTyped, Handling
<1>3. /\ KidsTyped' /\ KidsConfined' /\ Cardinality(DOMAIN kids) \in Nat /\ Cardinality(DOMAIN kids') \in Nat
      /\ Cardinality(DOMAIN kids') + 1 = Cardinality(DOMAIN kids)
  BY <1>1, KidLess
<1>4. spc' \in {"again", "reap", "spawn", "wait", "sleep"} /\ (spc' \in Handling => handler' = handler)
  BY <1>1, <1>2 DEF Handling
<1>5. SpawnTyped'
  BY <1>1, <1>2, <1>3, <1>4 DEF SpawnTyped, optVars, rightsVars, fileVars
<1>6. FdsInOrder' /\ PidsApart'
  <2>1. FdsInOrder /\ spc' \notin {"options", "pidfile"} /\ fds' = fds /\ ~Careful'
    BY <1>1, <1>2, <1>4 DEF SpawnInv, Careful, optVars
  <2>2. QED
    BY <2>1 DEF FdsInOrder, PidsApart
<1>7. Counted'
  <2>1. opts.forks \in Nat /\ opts' = opts /\ left' = left /\ spc # "again"
    BY <1>1, <1>2 DEF SpawnTyped, TypeOfOptions, optVars
  <2>2. Cardinality(DOMAIN kids) + left <= opts.forks
    BY <1>2, <1>3, <2>1 DEF SpawnInv, Counted, KidsToCome
  <2>3. QED
    BY <1>2, <1>3, <2>1, <2>2 DEF Counted, KidsToCome
<1>8. QED
  BY <1>1, <1>3, <1>4, <1>5, <1>6, <1>7, ServeKeeps DEF Serving, Handling, fileVars

LEMMA ForkAgainKeeps ==
    ASSUME SpawnInv, ForkAgain
    PROVE  SpawnInv'
<1>1. /\ spc = "again" /\ UNCHANGED <<optVars, rightsVars, fds, fileVars, left, child, sig, handler>>
      /\ \/ spc' = "waitAgain" /\ \E null \in BOOLEAN : NewKid(null) /\ (null \/ May("devnull"))
         \/ spc' = "reap" /\ UNCHANGED <<kids, born>>
  BY DEF ForkAgain, Nulls
<1>2. /\ SpawnTyped /\ KidsTyped /\ left \in Nat /\ prog = "d" /\ spc \in Serving
      /\ handler.back \in {"spawn", "wait", "sleep"}
  BY <1>1 DEF SpawnInv, SpawnTyped, Serving, Handling
<1>3. /\ KidsTyped' /\ KidsConfined'
      /\ Cardinality(DOMAIN kids) \in Nat /\ Cardinality(DOMAIN kids') \in Nat
      /\ Cardinality(DOMAIN kids') <= Cardinality(DOMAIN kids) + 1
  <2>1. Cardinality(DOMAIN kids) \in Nat
    BY <1>2, FS_CardinalityType DEF KidsTyped
  <2>2. CASE UNCHANGED <<kids, born>>
    <3>1. KidsConfined' /\ KidsTyped'
      BY <1>1, <1>2, <2>2, KidsStay DEF SpawnInv, KidsTyped
    <3>2. QED
      BY <2>1, <2>2, <3>1
  <2>3. ASSUME NEW null \in BOOLEAN, NewKid(null), null \/ May("devnull")
        PROVE  KidsTyped' /\ KidsConfined' /\ Cardinality(DOMAIN kids') = Cardinality(DOMAIN kids) + 1
    BY <1>1, <1>2, <2>3, KidMore
  <2>4. QED
    BY <1>1, <2>1, <2>2, <2>3
<1>4. SpawnTyped'
  BY <1>1, <1>2, <1>3 DEF SpawnTyped, optVars, rightsVars, fileVars
<1>5. FdsInOrder' /\ PidsApart'
  <2>1. FdsInOrder /\ spc' \notin {"options", "pidfile"} /\ fds' = fds /\ ~Careful'
    BY <1>1, <1>2 DEF SpawnInv, Careful, optVars
  <2>2. QED
    BY <2>1 DEF FdsInOrder, PidsApart
<1>6. Counted'
  <2>1. opts.forks \in Nat /\ opts' = opts /\ left' = left /\ spc' # "again"
    BY <1>1, <1>2 DEF SpawnTyped, TypeOfOptions, optVars
  <2>2. Cardinality(DOMAIN kids) + left + 1 <= opts.forks
    BY <1>1, <1>2, <1>3, <2>1 DEF SpawnInv, Counted, KidsToCome
  <2>3. QED
    BY <1>2, <1>3, <2>1, <2>2 DEF Counted, KidsToCome
<1>7. QED
  BY <1>1, <1>3, <1>4, <1>5, <1>6, ServeKeeps DEF Serving, Handling, fileVars

LEMMA SpawnStart == SpawnInit => SpawnInv
<1> SUFFICES ASSUME SpawnInit
             PROVE  SpawnInv
  OBVIOUS
<1>1. /\ prog \in Programs /\ opts \in SpawnOptions /\ spc = "options"
      /\ goal = [uid |-> "zero", gid |-> "zero", owner |-> "zero"]
      /\ fds = [n \in 0 .. 2 |-> "terminal"] /\ sockfile.is \in {"none", "stale", "live"}
      /\ pidfile = <<>> /\ left = 0 /\ kids = <<>> /\ born = 0 /\ child = 0 /\ sig = "none"
  BY DEF SpawnInit
<1>2. DOMAIN kids = {} /\ IsFiniteSet({}) /\ Cardinality({}) = 0
  BY <1>1, FS_EmptySet
<1>3. prog \in {"m", "plain", "sc", "d"} /\ opts \in TypeOfOptions /\ opts.forks \in Nat
  BY <1>1, SpawnAssumption DEF TypeOfOptions
<1>4. SpawnTyped /\ NothingYet
  BY <1>1, <1>2, <1>3 DEF SpawnTyped, KidsTyped, NothingYet, Handling
<1>5. FdsInOrder
  <2>1. DOMAIN fds = 0 .. 2 /\ \A n \in 0 .. 2 : fds[n] = "terminal"
    BY <1>1
  <2>2. {n \in DOMAIN fds : fds[n] # "sock"} = 0 .. 2
    BY <2>1
  <2>3. QED
    BY <2>1, <2>2 DEF FdsInOrder
<1>6. RightsDropped /\ NotBoundYet /\ PidsApart /\ Counted /\ KidsConfined
  <2>1. ~SockOpen
    BY <1>1 DEF SockOpen
  <2>2. QED
    BY <1>1, <1>2, <1>3, <2>1
       DEF RightsDropped, GroupDone, Serving, Handling, NotBoundYet, PidsApart, LastEnded, Counted,
           KidsToCome, KidsConfined
<1>7. QED
  BY <1>4, <1>5, <1>6 DEF SpawnInv

LEMMA SpawnStep == SpawnInv /\ [SpawnNext]_spawnVars => SpawnInv'
<1> SUFFICES ASSUME SpawnInv, [SpawnNext]_spawnVars
             PROVE  SpawnInv'
  OBVIOUS
<1>1. CASE Options \/ OpenPid \/ FindUsers
  BY <1>1, OptionsKeep, OpenPidKeeps, FindUsersKeeps
<1>2. CASE SetGroup \/ ChangeRoot \/ DropUid \/ ChangeDir
  BY <1>2, RightsKeep
<1>3. CASE BindSocket \/ BindFails
  BY <1>3, BindKeeps
<1>4. CASE Fork \/ ForkAgain
  BY <1>4, ForkKeeps, ForkAgainKeeps
<1>5. CASE Wait \/ WaitAgain
  BY <1>5, WaitsKeep
<1>6. CASE \/ SpawnEnds \/ HandlerStarts \/ ReapEnds \/ FakeSignal \/ Stop
           \/ \E pid \in DOMAIN kids : Runs(pid) \/ \E code \in {"exited", "dumped"} : Dies(pid, code)
  BY <1>6, QuietSteps
<1>7. CASE \E pid \in DOMAIN kids : Reap(pid)
  BY <1>7, ReapKeeps
<1>8. CASE UNCHANGED spawnVars
  <2>1. /\ UNCHANGED <<prog, opts, spc, uid, gid, goal, fds, sockfile, pidpath>>
        /\ UNCHANGED <<pidfile, left, kids, born, child, sig, handler>>
    BY <1>8 DEF spawnVars, optVars, rightsVars, fileVars, kidVars
  <2>2. SpawnTyped' /\ NothingYet' /\ FdsInOrder'
    BY <2>1 DEF SpawnInv, SpawnTyped, KidsTyped, NothingYet, FdsInOrder
  <2>3. RightsDropped' /\ NotBoundYet' /\ PidsApart'
    BY <2>1 DEF SpawnInv, RightsDropped, GroupDone, NotBoundYet, SockOpen, Unbound, PidsApart, LastEnded,
                PidOpen, Careful
  <2>4. Counted' /\ KidsConfined'
    BY <2>1 DEF SpawnInv, Counted, KidsToCome, KidsConfined, Careful
  <2>5. QED
    BY <2>2, <2>3, <2>4 DEF SpawnInv
<1>9. QED
  BY <1>1, <1>2, <1>3, <1>4, <1>5, <1>6, <1>7, <1>8 DEF SpawnNext

-----------------------------------------------------------------------------
(* None is missing *)

\* Nothing is given up or handled before the loop.
LEMMA MissingBefore ==
    ASSUME SpawnInv, NoneMissing, spc \notin Serving, UNCHANGED <<prog, kids, sig, givenUp>>,
           opts'.forks = opts.forks,
           \/ spc' \notin Serving /\ left' = left
           \/ spc' = "spawn" /\ left' = opts.forks
    PROVE  NoneMissing'
<1>1. DOMAIN kids = {} /\ opts.forks \in Nat
  BY DEF SpawnInv, NothingYet, SpawnTyped, TypeOfOptions
<1>2. Cardinality({}) = 0
  BY FS_EmptySet
<1>3. spc' \in Looping => spc' = "spawn" /\ KidsToCome' = opts.forks
  BY <1>1, <1>2 DEF Looping, Serving, Handling, KidsToCome
<1>4. QED
  BY <1>1, <1>3 DEF NoneMissing, Handling, Looping

\* A child that died while it was waited for is given up.
LEMMA MissingWaits ==
    ASSUME SpawnInv, NoneMissing, spc \in {"wait", "waitAgain"}, NEW pid, NEW more, Waited(pid, more),
           spc' = (IF spc = "wait" THEN "spawn" ELSE "reap"),
           UNCHANGED <<prog, opts, left, sig, handler>>
    PROVE  NoneMissing'
<1>1. CASE givenUp'
  BY <1>1 DEF NoneMissing
<1>2. CASE ~givenUp'
  <2>1. /\ ~givenUp /\ DOMAIN kids' = DOMAIN kids
        /\ \A p \in DOMAIN kids : kids'[p] = kids[p]
    <3>1. CASE UNCHANGED <<kids, givenUp>>
      BY <1>2, <3>1
    <3>2. CASE /\ kids' = [p \in DOMAIN kids \ {pid} |-> kids[p]]
               /\ givenUp' = (givenUp \/ pid \in DOMAIN kids)
      BY <1>2, <3>2
    <3>3. QED
      BY <3>1, <3>2 DEF Waited
  <2>2. KidsToCome' = KidsToCome
    BY <2>1 DEF KidsToCome
  <2>3. QED
    BY <2>1, <2>2 DEF NoneMissing, Looping, Handling
<1>3. QED
  BY <1>1, <1>2

LEMMA MissingForks ==
    ASSUME SpawnInv, NoneMissing, Fork \/ ForkAgain
    PROVE  NoneMissing'
<1>1. spc \in Serving /\ spc \in Looping /\ UNCHANGED <<prog, opts, sig, handler>> /\ left \in Nat
  BY DEF Fork, ForkAgain, Serving, Looping, Handling, optVars, SpawnInv, SpawnTyped
<1>2. CASE givenUp'
  BY <1>2 DEF NoneMissing
<1>3. CASE ~givenUp'
  <2>1. ~givenUp
    BY <1>3 DEF Fork, ForkAgain
  <2>2. PICK null \in BOOLEAN : NewKid(null) /\ (opts.nofork \/ null \/ May("devnull"))
    BY <1>3 DEF Fork, ForkAgain, Nulls
  <2>3. /\ Cardinality(DOMAIN kids') = Cardinality(DOMAIN kids) + 1 /\ Cardinality(DOMAIN kids) \in Nat
    <3>1. UNCHANGED <<optVars, rightsVars>>
      BY DEF Fork, ForkAgain
    <3>2. QED
      BY <1>1, <2>2, <3>1, KidMore
  <2>4. \A p \in DOMAIN kids' : kids'[p].at = "dead" => p \in DOMAIN kids /\ kids[p].at = "dead"
    <3>1. \A p \in DOMAIN kids' : \/ p \in DOMAIN kids /\ kids'[p] = kids[p]
                                  \/ kids'[p] = Kid("forked", null)
      BY <2>2 DEF NewKid
    <3>2. Kid("forked", null).at = "forked"
      BY DEF Kid
    <3>3. QED
      BY <3>1, <3>2
  <2>5. CASE Fork
    <3>1. left' = left - 1 /\ spc = "spawn" /\ spc' \in {"wait", "became"}
      BY <1>3, <2>5 DEF Fork
    <3>2. KidsToCome' = KidsToCome
      BY <1>1, <2>3, <3>1 DEF KidsToCome
    <3>3. QED
      BY <1>1, <2>1, <2>4, <3>1, <3>2 DEF NoneMissing, Looping, Handling
  <2>6. CASE ForkAgain
    <3>1. left' = left /\ spc = "again" /\ spc' = "waitAgain"
      BY <1>3, <2>6 DEF ForkAgain
    <3>2. KidsToCome' = KidsToCome
      BY <1>1, <2>3, <3>1 DEF KidsToCome
    <3>3. QED
      BY <1>1, <2>1, <2>4, <3>1, <3>2 DEF NoneMissing, Looping, Handling
  <2>7. QED
    BY <2>5, <2>6
<1>4. QED
  BY <1>2, <1>3

LEMMA MissingReaps ==
    ASSUME SpawnInv, NoneMissing, NEW pid \in DOMAIN kids, Reap(pid)
    PROVE  NoneMissing'
<1>1. SUFFICES ASSUME ~givenUp
               PROVE  NoneMissing'
  BY DEF Reap, NoneMissing
<1>2. /\ spc = "reap" /\ UNCHANGED <<optVars, rightsVars, left, born, sig, givenUp>>
      /\ kids' = [p \in DOMAIN kids \ {pid} |-> kids[p]] /\ prog = "d" /\ left \in Nat
  BY DEF Reap, SpawnInv, SpawnTyped, Handling
<1>3. handler.code = "dumped"
  BY <1>1, <1>2 DEF NoneMissing, Handling
<1>4. spc' = "again" /\ handler' = handler
  BY <1>2, <1>3 DEF Reap
<1>5. Cardinality(DOMAIN kids') + 1 = Cardinality(DOMAIN kids) /\ Cardinality(DOMAIN kids') \in Nat
  BY <1>2, KidLess
<1>6. KidsToCome' = KidsToCome
  BY <1>2, <1>4, <1>5 DEF KidsToCome
<1>7. QED
  BY <1>1, <1>2, <1>3, <1>4, <1>6 DEF NoneMissing, Looping, Handling, optVars

\* A child runs or dies.
LEMMA MissingMoves ==
    ASSUME SpawnInv, NoneMissing, NEW pid \in DOMAIN kids, NEW code \in {"exited", "dumped"},
           Runs(pid) \/ Dies(pid, code)
    PROVE  NoneMissing'
<1>1. CASE givenUp'
  BY <1>1 DEF NoneMissing
<1>2. SUFFICES ASSUME ~givenUp', prog' = "d"
               PROVE  NoneMissing'
  BY DEF NoneMissing
<1>3. ~givenUp /\ prog = "d" /\ spc' = spc /\ UNCHANGED <<prog, opts, left, handler>>
  <2>1. spc' = spc /\ UNCHANGED <<prog, opts, left, handler>>
    BY DEF Runs, Dies, optVars
  <2>2. ~givenUp
    <3>1. CASE Runs(pid)
      <4>1. givenUp' = givenUp
        BY <3>1 DEF Runs
      <4>2. QED
        BY <1>2, <4>1
    <3>2. CASE Dies(pid, code)
      <4>1. givenUp' = (givenUp \/ code # "dumped")
        BY <3>2 DEF Dies
      <4>2. QED
        BY <1>2, <4>1
    <3>3. QED
      BY <3>1, <3>2
  <2>3. QED
    BY <1>2, <2>1, <2>2
<1>4. DOMAIN kids' = DOMAIN kids /\ KidsToCome' = KidsToCome
  BY <1>3 DEF Runs, Dies, KidsToCome
<1>5. CASE Runs(pid)
  <2>1. kids' = [kids EXCEPT ![pid].at = "running"] /\ sig' = sig
    BY <1>5 DEF Runs
  <2>2. kids'[pid].at = "running" \/ kids'[pid] = kids[pid]
    <3>1. kids'[pid] = [kids[pid] EXCEPT !.at = "running"]
      BY <2>1
    <3>2. PICK x, u, g, f : kids[pid] = [at |-> x, uid |-> u, gid |-> g, fds |-> f]
      BY DEF SpawnInv, SpawnTyped, KidsTyped
    <3>3. QED
      BY <3>1, <3>2
  <2>3. \A p \in DOMAIN kids' : kids'[p].at = "dead" => kids[p].at = "dead"
    BY <2>1, <2>2
  <2>4. QED
    BY <1>3, <1>4, <2>1, <2>3 DEF NoneMissing
<1>6. CASE Dies(pid, code)
  <2>1. code = "dumped" /\ sig' = IF sig = "none" THEN code ELSE sig
    <3>1. /\ givenUp' = (givenUp \/ code # "dumped")
          /\ sig' = IF prog = "d" /\ sig = "none" THEN code ELSE sig
      BY <1>6 DEF Dies
    <3>2. code = "dumped"
      BY <1>2, <3>1
    <3>3. QED
      BY <1>3, <3>1, <3>2
  <2>2. sig \in {"none", "dumped"}
    BY <1>2, <1>3 DEF NoneMissing
  <2>3. sig' = "dumped"
    BY <2>1, <2>2
  <2>4. QED
    BY <1>3, <1>4, <2>3 DEF NoneMissing
<1>7. QED
  BY <1>5, <1>6

\* The handler starts and ends; the spawner's loop ends, the program stops.
LEMMA MissingQuiet ==
    ASSUME SpawnInv, NoneMissing, SpawnEnds \/ HandlerStarts \/ ReapEnds \/ FakeSignal \/ Stop
    PROVE  NoneMissing'
<1>1. CASE FakeSignal
  BY <1>1 DEF FakeSignal, NoneMissing
<1>2. /\ UNCHANGED <<prog, opts>>
      /\ ~FakeSignal => UNCHANGED <<left, kids, givenUp>>
  BY DEF SpawnEnds, HandlerStarts, ReapEnds, FakeSignal, Stop, optVars, kidVars
<1>3. CASE SpawnEnds
  <2>1. spc = "spawn" /\ spc' \in {"sleep", "ended"} /\ UNCHANGED kidVars
    BY <1>3 DEF SpawnEnds
  <2>2. KidsToCome' = KidsToCome
    BY <1>2, <2>1 DEF KidsToCome, kidVars
  <2>3. QED
    BY <1>2, <2>1, <2>2 DEF NoneMissing, Looping, Handling, kidVars
<1>4. CASE HandlerStarts
  <2>1. /\ spc \in {"spawn", "wait", "sleep"} /\ spc' = "reap" /\ sig # "none" /\ sig' = "none"
        /\ handler' = [code |-> sig, back |-> spc] /\ UNCHANGED <<left, kids, givenUp>>
    BY <1>4 DEF HandlerStarts
  <2>2. KidsToCome' = KidsToCome
    BY <1>2, <2>1 DEF KidsToCome
  <2>3. handler'.code = sig
    BY <2>1
  <2>4. QED
    BY <1>2, <2>1, <2>2, <2>3 DEF NoneMissing, Looping, Handling
<1>5. CASE ReapEnds
  <2>1. /\ spc = "reap" /\ spc' = handler.back /\ UNCHANGED <<left, kids, givenUp, sig>>
        /\ \A p \in DOMAIN kids : kids[p].at # "dead"
        /\ handler.back \in {"spawn", "wait", "sleep"}
    BY <1>5 DEF ReapEnds, SpawnInv, SpawnTyped, Handling
  <2>2. KidsToCome' = KidsToCome
    BY <1>2, <2>1 DEF KidsToCome
  <2>3. QED
    BY <1>2, <2>1, <2>2 DEF NoneMissing, Looping, Handling
<1>6. CASE Stop
  BY <1>6 DEF Stop, kidVars, optVars, NoneMissing, Looping, Handling
<1>7. QED
  BY <1>1, <1>3, <1>4, <1>5, <1>6

LEMMA MissingStep ==
    ASSUME SpawnInv, NoneMissing, [SpawnNext]_spawnVars
    PROVE  NoneMissing'
<1>1. CASE \/ Options \/ OpenPid \/ FindUsers \/ SetGroup \/ ChangeRoot \/ DropUid \/ ChangeDir
           \/ BindSocket \/ BindFails
  <2>1. /\ spc \in {"options", "pidfile", "find", "group", "jail", "setuid", "chdir", "bind"}
        /\ UNCHANGED <<prog, kids, sig, givenUp>>
        /\ \/ spc' \in {"pidfile", "find", "group", "jail", "setuid", "chdir", "bind", "failed", "unbound",
                        "crashed"} /\ left' = left
           \/ spc' = "spawn" /\ left' = opts.forks
        /\ opts'.forks = opts.forks
    <3>1. CASE Options
      <4>1. spc = "options" /\ spc' \in {"pidfile", "failed"}
            /\ UNCHANGED <<prog, kids, sig, givenUp, left>>
        BY <3>1 DEF Options, Fail, kidVars
      <4>2. opts'.forks = opts.forks
        BY <3>1, OptionsForks
      <4>3. QED
        BY <4>1, <4>2
    <3>2. CASE OpenPid \/ FindUsers
      BY <3>2 DEF OpenPid, FindUsers, Fail, kidVars, optVars
    <3>3. CASE SetGroup
      BY <3>3 DEF SetGroup, kidVars, optVars
    <3>4. CASE ChangeRoot
      BY <3>4 DEF ChangeRoot, Fail, kidVars, optVars
    <3>5. CASE DropUid
      BY <3>5 DEF DropUid, kidVars, optVars
    <3>6. CASE ChangeDir
      BY <3>6 DEF ChangeDir, Fail, optVars
    <3>7. CASE BindSocket \/ BindFails
      BY <3>7 DEF BindSocket, BindFails, AfterBind, kidVars, optVars
    <3>8. QED
      BY <1>1, <3>1, <3>2, <3>3, <3>4, <3>5, <3>6, <3>7
  <2>2. QED
    BY <2>1, MissingBefore DEF Serving, Handling
<1>2. CASE Wait \/ WaitAgain
  <2>1. CASE Wait
    <3>1. PICK more : more = (left # 0)
      OBVIOUS
    <3>2. Waited(child, more)
      BY <2>1, <3>1 DEF Wait
    <3>3. QED
      BY <2>1, <3>2, MissingWaits DEF Wait, optVars
  <2>2. CASE WaitAgain
    BY <2>2, MissingWaits DEF WaitAgain, optVars
  <2>3. QED
    BY <1>2, <2>1, <2>2
<1>3. CASE Fork \/ ForkAgain
  BY <1>3, MissingForks
<1>4. CASE SpawnEnds \/ HandlerStarts \/ ReapEnds \/ FakeSignal \/ Stop
  BY <1>4, MissingQuiet
<1>5. CASE \E pid \in DOMAIN kids : Reap(pid)
  BY <1>5, MissingReaps
<1>6. CASE \E pid \in DOMAIN kids : Runs(pid) \/ \E code \in {"exited", "dumped"} : Dies(pid, code)
  BY <1>6, MissingMoves
<1>7. CASE UNCHANGED spawnVars
  BY <1>7 DEF spawnVars, optVars, kidVars, NoneMissing, KidsToCome
<1>8. QED
  BY <1>1, <1>2, <1>3, <1>4, <1>5, <1>6, <1>7 DEF SpawnNext

\* The types, what is open and written, the rights and the children, at every
\* stage: the strengthening that the two theorems below are read off from.
THEOREM SpawnInvAlways == SpawnSpec => [](SpawnInv /\ NoneMissing)
<1>1. SpawnInit => SpawnInv /\ NoneMissing
  BY SpawnStart DEF SpawnInit, NoneMissing, Looping, Handling
<1>2. SpawnInv /\ NoneMissing /\ [SpawnNext]_spawnVars => (SpawnInv /\ NoneMissing)'
  BY SpawnStep, MissingStep
<1>3. QED
  BY <1>1, <1>2, PTL DEF SpawnSpec

\* In the versions that look at the results of setgid and setuid a program never
\* runs with more rights than it was to get, whichever call on the way fails; in
\* all of them its input is the socket and nothing else of the spawner is open.
THEOREM KidsConfinedAlways == SpawnSpec => []KidsConfined
<1>1. SpawnInv => KidsConfined
  BY DEF SpawnInv
<1>2. QED
  BY <1>1, SpawnInvAlways, PTL

\* A start of the careful versions that fails leaves the file of its socket behind
\* exactly if it fails with the socket bound, no start that fails leaves a program
\* or a pid, no two pids run together in the pid file when a write fails, and
\* deaths and signals never add to the children that were asked for, nor, if all of
\* them are core dumps, take any away.
THEOREM SpawnTidyAlways == SpawnSpec => []SpawnTidy
<1>1. SpawnInv /\ NoneMissing => SpawnTidy
  <2> SUFFICES ASSUME SpawnInv, NoneMissing
               PROVE  SpawnTidy
    OBVIOUS
  <2>1. FailedStart
    BY DEF SpawnInv, FailedStart, NotBoundYet, NothingYet, Serving, Handling
  <2>2. PidsSeparate
    BY DEF SpawnInv, PidsSeparate, PidsApart
  <2>3. KidsCounted
    <3>1. Cardinality(DOMAIN kids) \in Nat /\ left \in Nat /\ opts.forks \in Nat
      BY FS_CardinalityType DEF SpawnInv, SpawnTyped, KidsTyped, TypeOfOptions
    <3>2. KidsToCome <= opts.forks
      BY DEF SpawnInv, Counted
    <3>3. Cardinality(DOMAIN kids) <= opts.forks
      BY <3>1, <3>2 DEF KidsToCome
    <3>4. QED
      BY <3>3 DEF KidsCounted, NoneMissing, Looping, Handling
  <2>4. QED
    BY <2>1, <2>2, <2>3 DEF SpawnTidy
<1>2. QED
  BY <1>1, SpawnInvAlways, PTL
=============================================================================
