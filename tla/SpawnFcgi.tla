------------------------------ MODULE SpawnFcgi ------------------------------
(***************************************************************************)
(* spawn-fcgi, which starts the FastCGI programs beside nginx, in the four  *)
(* versions of the repository: spawn-fcgi-m.c ("m"), spawn-fcgi.c ("plain"),*)
(* spawn-fcgi-sc.c ("sc") and spawn-fcgi-d.c ("d"), a daemon that starts    *)
(* programs again.  The functions of the four have one course with          *)
(* differences; what is peculiar to a function of a version is a record     *)
(* named for both, and the actions, translated from spawn-fcgi.c, consult   *)
(* the record of their program.                                             *)
(***************************************************************************)
EXTENDS Integers, Sequences, FiniteSets

CONSTANTS Programs,       \* the versions of the instance
          SpawnOptions,   \* the command lines, see TypeOfOptions
          SpawnFaults,    \* the calls that may fail
          MaxKids         \* bound: processes that are forked

\* user, group: "none", a name, a number; "mixed" is a number with letters behind
\* it, "stray" a number without an account.  sock: where to listen.  The options
\* before (-S), dir (-d), mode (-M) and owner (-U) are ignored by versions
\* without them.
TypeOfOptions ==
    [root : BOOLEAN, user : {"none", "name", "number", "mixed", "stray"},
     group : {"none", "name"}, jail : BOOLEAN, before : BOOLEAN, dir : BOOLEAN,
     sock : {"unix", "tcp", "both", "none", "long"}, app : BOOLEAN,
     mode : BOOLEAN, owner : BOOLEAN, nofork : BOOLEAN, pid : BOOLEAN, forks : Nat]

ASSUME SpawnAssumption ==
    /\ Programs \subseteq {"m", "plain", "sc", "d"}
    /\ SpawnOptions \subseteq TypeOfOptions
    /\ MaxKids \in Nat

VARIABLES prog, opts,
          spc,       \* where the program is
          uid, gid,  \* its rights: "root" or "user"
          goal,      \* the rights it is to get, [uid, gid, owner], "zero" for none
          fds,       \* descriptor -> what is open on it
          sockfile,  \* [is : "none" | "stale" | "live" | "ours", owner]
          pidpath,   \* what is at the path of the pid file
          pidfile,   \* what was written to it
          left,      \* fork_count
          kids,      \* pid -> [at, uid, gid, fds]
          born,      \* number of processes forked
          child,     \* the one that the loop of the spawner waits for
          sig,       \* the SIGCHLD that is pending, with its si_code
          handler,   \* [code, back]: what sigchld_handler interrupted
          givenUp    \* history: a child could not be forked, ended otherwise than with
                     \* a core dump, or was reaped by the loop that waited for it

optVars == <<prog, opts>>
rightsVars == <<uid, gid, goal>>
fileVars == <<sockfile, pidpath, pidfile>>
kidVars == <<left, kids, born, child, sig, handler, givenUp>>
spawnVars == <<optVars, spc, rightsVars, fds, fileVars, kidVars>>

May(fault) == fault \in SpawnFaults
NoHandler == [code |-> "none", back |-> "none"]

SpawnInit ==
    /\ prog \in Programs /\ opts \in SpawnOptions
    /\ spc = "options"
    /\ uid = (IF opts.root THEN "root" ELSE "user") /\ gid = uid
    /\ goal = [uid |-> "zero", gid |-> "zero", owner |-> "zero"]
    /\ fds = [n \in 0 .. 2 |-> "terminal"]
    /\ sockfile \in {[is |-> i, owner |-> "someone"] : i \in {"none", "stale", "live"}}
    /\ pidpath \in {"absent", "regular", "other"}
    /\ pidfile = <<>>
    /\ left = 0 /\ kids = <<>> /\ born = 0 /\ child = 0
    /\ sig = "none" /\ handler = NoHandler /\ givenUp = FALSE

-----------------------------------------------------------------------------
\* The versions, function by function.  main: which options it knows.
m_main == [before |-> FALSE, dir |-> FALSE]
plain_main == [before |-> TRUE, dir |-> TRUE]
sc_main == plain_main
d_main == plain_main

\* The pid file is opened alike; the versions differ only in their messages.
m_pid_file == {"regular"}
plain_pid_file == {"regular"}
sc_pid_file == plain_pid_file
d_pid_file == plain_pid_file

\* find_user_group: whether letters behind a number make it a name, and whether
\* an account that is not found is looked at.
m_find_user_group == [strict |-> FALSE, nullSafe |-> FALSE]
plain_find_user_group == [strict |-> TRUE, nullSafe |-> TRUE]
sc_find_user_group == plain_find_user_group
d_find_user_group == plain_find_user_group

\* The rights: whether setgid and setuid are looked at, and whether the socket
\* is bound before setuid.
m_rights == [checked |-> FALSE, bindFirst |-> FALSE]
plain_rights == [checked |-> TRUE, bindFirst |-> TRUE]
sc_rights == plain_rights
d_rights == [checked |-> FALSE, bindFirst |-> TRUE]

\* bind_socket: the calls on the file of the socket, in their order, and whether
\* a listen that fails takes the file away.
m_bind_socket == [touch |-> <<>>, tidy |-> FALSE]
plain_bind_socket == [touch |-> <<"chmod", "chown">>, tidy |-> TRUE]
sc_bind_socket == plain_bind_socket
d_bind_socket == [touch |-> <<"chown", "chmodGiven">>, tidy |-> FALSE]

\* fcgi_spawn_connection: what stands between two pids, whether the writes are
\* looked at and whether the descriptors are closed in the end.
m_spawn == [sep |-> "n", checked |-> FALSE, closes |-> TRUE]
plain_spawn == [sep |-> "eol", checked |-> TRUE, closes |-> TRUE]
sc_spawn == plain_spawn
d_spawn == [sep |-> "/n", checked |-> FALSE, closes |-> FALSE]

Main == [m |-> m_main, plain |-> plain_main, sc |-> sc_main, d |-> d_main][prog]
PidFile == [m |-> m_pid_file, plain |-> plain_pid_file,
            sc |-> sc_pid_file, d |-> d_pid_file][prog]
Find == [m |-> m_find_user_group, plain |-> plain_find_user_group,
         sc |-> sc_find_user_group, d |-> d_find_user_group][prog]
Rights == [m |-> m_rights, plain |-> plain_rights, sc |-> sc_rights, d |-> d_rights][prog]
Bound == [m |-> m_bind_socket, plain |-> plain_bind_socket,
          sc |-> sc_bind_socket, d |-> d_bind_socket][prog]
Spawning == [m |-> m_spawn, plain |-> plain_spawn, sc |-> sc_spawn, d |-> d_spawn][prog]

-----------------------------------------------------------------------------
Fail == spc' = "failed"
Lowest(open) == CHOOSE n \in 0 .. Cardinality(open) : n \notin open /\ 0 .. n - 1 \subseteq open
OpenedAs(open, what) == [n \in DOMAIN open \cup {Lowest(DOMAIN open)} |->
                          IF n \in DOMAIN open THEN open[n] ELSE what]
Closed(open, what) == [n \in {m \in DOMAIN open : open[m] # what} |-> open[n]]

\* The checks of main on its options; a pid file is not kept in no-fork mode.
Options ==
    /\ spc = "options"
    /\ IF opts.app /\ opts.sock \in {"unix", "tcp"}
       THEN /\ spc' = "pidfile"
            /\ opts' = [opts EXCEPT !.pid = @ /\ ~opts.nofork,
                                    !.before = @ /\ Main.before, !.dir = @ /\ Main.dir]
       ELSE Fail /\ UNCHANGED opts
    /\ UNCHANGED <<prog, rightsVars, fds, fileVars, kidVars>>

\* O_EXCL first, then an existing regular file is emptied.
OpenPid ==
    /\ spc = "pidfile"
    /\ \/ ~opts.pid /\ UNCHANGED <<fds, pidpath>>
             /\ spc' = IF opts.root THEN "find" ELSE "bind"
       \/ opts.pid /\ pidpath \in {"absent"} \cup PidFile
             /\ fds' = OpenedAs(fds, "pid") /\ pidpath' = "regular"
             /\ spc' = IF opts.root THEN "find" ELSE "bind"
       \/ opts.pid /\ (May("open") \/ pidpath \notin {"absent"} \cup PidFile)
             /\ Fail /\ UNCHANGED <<fds, pidpath>>
    /\ UNCHANGED <<optVars, rightsVars, sockfile, pidfile, kidVars>>

\* find_user_group for the program; "zero" leaves an id as it is.  The second
\* call, for the owner of the socket, is opts.owner.
Account == IF opts.user = "none" THEN "none"
           ELSE IF opts.user = "mixed" /\ Find.strict THEN "unknown"
           ELSE IF opts.user = "stray" THEN "stray" ELSE "known"
FindUsers ==
    /\ spc = "find"
    /\ \/ Account = "unknown" /\ Fail /\ UNCHANGED goal
       \/ Account = "stray" /\ ~Find.nullSafe /\ spc' = "crashed" /\ UNCHANGED goal
       \/ /\ Account # "unknown" /\ (Account = "stray" => Find.nullSafe)
          /\ LET u == IF Account = "none" THEN "zero" ELSE "user"
                 g == IF opts.group = "name" \/ Account = "known" THEN "user" ELSE "zero"
             IN goal' = [uid |-> u, gid |-> g, owner |-> IF opts.owner THEN "owner" ELSE u]
          /\ spc' = IF opts.before THEN "bind" ELSE "group"
    /\ UNCHANGED <<optVars, uid, gid, fds, fileVars, kidVars>>

\* setgid, setgroups, initgroups: one failing step among them.
SetGroup ==
    /\ spc = "group"
    /\ \/ goal.gid = "zero" /\ spc' = "jail" /\ UNCHANGED gid
       \/ goal.gid # "zero" /\ spc' = "jail" /\ gid' = goal.gid
       \/ goal.gid # "zero" /\ May("setgid") /\ UNCHANGED gid
             /\ spc' = IF Rights.checked THEN "failed" ELSE "jail"
    /\ UNCHANGED <<optVars, uid, goal, fds, fileVars, kidVars>>

ChangeRoot ==
    /\ spc = "jail"
    /\ \/ spc' = IF ~opts.before /\ Rights.bindFirst THEN "bind" ELSE "setuid"
       \/ opts.jail /\ May("chroot") /\ Fail
    /\ UNCHANGED <<optVars, rightsVars, fds, fileVars, kidVars>>

\* Mutant of DropUid: the result of setuid is never looked at.
DropUidUnchecked ==
    /\ spc = "setuid"
    /\ \/ uid' = (IF goal.uid = "zero" THEN uid ELSE goal.uid)
       \/ goal.uid # "zero" /\ May("setuid") /\ UNCHANGED uid
    /\ spc' = IF Rights.bindFirst THEN "chdir" ELSE "bind"
    /\ UNCHANGED <<optVars, gid, goal, fds, fileVars, kidVars>>

DropUid ==
    /\ spc = "setuid"
    /\ \/ /\ uid' = (IF goal.uid = "zero" THEN uid ELSE goal.uid)
          /\ spc' = IF Rights.bindFirst THEN "chdir" ELSE "bind"
       \/ /\ goal.uid # "zero" /\ May("setuid") /\ UNCHANGED uid
          /\ spc' = IF Rights.checked THEN "failed"
                    ELSE IF Rights.bindFirst THEN "chdir" ELSE "bind"
    /\ UNCHANGED <<optVars, gid, goal, fds, fileVars, kidVars>>

ChangeDir ==
    /\ spc = "chdir"
    /\ \/ spc' = "spawn" /\ left' = opts.forks
       \/ opts.dir /\ May("chdir") /\ Fail /\ UNCHANGED left
    /\ UNCHANGED <<optVars, rightsVars, fds, fileVars, kids, born, child, sig, handler, givenUp>>

\* What follows bind_socket: before the chroot, after it, or on its own.
AfterBind == IF opts.root /\ opts.before THEN "group"
             ELSE IF opts.root /\ Rights.bindFirst THEN "setuid" ELSE "chdir"

Touches(call) == \E i \in DOMAIN Bound.touch : Bound.touch[i] = call
MayTouch == \/ Touches("chmod") /\ May("chmod")
            \/ Touches("chmodGiven") /\ opts.mode /\ May("chmod")
            \/ Touches("chown") /\ goal.owner # "zero" /\ May("chown")
NoFile == [is |-> "none", owner |-> "nobody"]
OurFile == [is |-> "ours",
            owner |-> IF Touches("chown") /\ goal.owner # "zero" THEN goal.owner ELSE uid]

\* A file nobody listens on is replaced, then the socket is bound and listened on.
BindSocket ==
    /\ spc = "bind"
    /\ opts.sock = "unix" => sockfile.is # "live"
    /\ fds' = OpenedAs(fds, "sock")
    /\ sockfile' = IF opts.sock = "unix" THEN OurFile ELSE sockfile
    /\ spc' = AfterBind
    /\ UNCHANGED <<optVars, rightsVars, pidpath, pidfile, kidVars>>

\* Mutant of AfterListenFailed: no variant removes the file.
AfterListenKept == OurFile

\* The ways bind_socket fails, each with the file it leaves.
AfterListenFailed == IF Bound.tidy THEN NoFile ELSE OurFile
BindFails ==
    /\ spc = "bind"
    /\ \/ opts.sock = "unix" /\ sockfile.is = "live" /\ UNCHANGED sockfile
       \/ May("unlink") /\ opts.sock = "unix" /\ sockfile.is = "stale" /\ UNCHANGED sockfile
       \/ May("bind") /\ sockfile' = IF opts.sock = "unix" /\ sockfile.is = "stale"
                                     THEN NoFile ELSE sockfile
       \/ opts.sock = "unix" /\ sockfile.is # "live" /\ MayTouch /\ sockfile' = NoFile
       \/ May("listen") /\ (opts.sock = "unix" => sockfile.is # "live")
             /\ sockfile' = IF opts.sock = "unix" THEN AfterListenFailed ELSE sockfile
    /\ spc' = "unbound"
    /\ UNCHANGED <<optVars, rightsVars, fds, pidpath, pidfile, kidVars>>

-----------------------------------------------------------------------------
\* The child: the socket becomes descriptor 0, /dev/null 1 and 2, and what lies
\* below the descriptor that /dev/null got is closed.
KidFds(null) ==
    LET moved == [Closed(fds, "sock") EXCEPT ![0] = "sock"]
        low == Lowest(DOMAIN moved)
    IN IF opts.nofork \/ ~null THEN moved
       ELSE [n \in DOMAIN moved \ 3 .. low - 1 |->
                IF n \in {1, 2} THEN "null" ELSE moved[n]]

Kid(at, null) == [at |-> at, uid |-> uid, gid |-> gid, fds |-> KidFds(null)]
NewKid(null) ==
    /\ born < MaxKids /\ born' = born + 1
    /\ kids' = [p \in DOMAIN kids \cup {born + 1} |->
                   IF p \in DOMAIN kids THEN kids[p] ELSE Kid("forked", null)]
Nulls == {TRUE} \cup (IF May("devnull") THEN {FALSE} ELSE {})

MayFork == left > 0

\* One turn of the loop; without fork the process itself becomes the program.
Fork ==
    /\ spc = "spawn" /\ MayFork
    /\ left' = left - 1
    /\ \/ ~opts.nofork /\ (\E null \in Nulls : NewKid(null)) /\ spc' = "wait" /\ UNCHANGED givenUp
       \/ ~opts.nofork /\ May("fork") /\ givenUp' = TRUE /\ UNCHANGED <<kids, born, spc>>
       \/ opts.nofork /\ NewKid(FALSE) /\ spc' = "became" /\ UNCHANGED givenUp
    /\ child' = born'
    /\ UNCHANGED <<optVars, rightsVars, fds, fileVars, sig, handler>>

\* The pid of the child after a tenth of a second, if it is still there.  A
\* write that is looked at and fails closes the pid file.
PidOpen == \E n \in DOMAIN fds : fds[n] = "pid"
WritePid(pid, more) ==
    \/ /\ pidfile' = pidfile \o <<<<"pid", pid>>>>
                              \o (IF more THEN <<<<Spawning.sep>>>> ELSE <<>>)
       /\ UNCHANGED fds
    \/ /\ May("write") /\ ~Spawning.checked
       /\ pidfile' \in {pidfile, Append(pidfile, <<"pid", pid>>)} /\ UNCHANGED fds
    \/ /\ May("write") /\ Spawning.checked
       /\ pidfile' \in {pidfile} \cup (IF more THEN {Append(pidfile, <<"pid", pid>>)} ELSE {})
       /\ fds' = Closed(fds, "pid")

\* A child that was reaped by sigchld_handler meanwhile is not there any more.
Waited(pid, more) ==
    IF pid \in DOMAIN kids /\ kids[pid].at # "dead"
    THEN /\ IF PidOpen THEN WritePid(pid, more) ELSE UNCHANGED <<pidfile, fds>>
         /\ UNCHANGED <<kids, givenUp>>
    ELSE /\ kids' = [p \in DOMAIN kids \ {pid} |-> kids[p]]
         /\ givenUp' = (givenUp \/ pid \in DOMAIN kids)
         /\ UNCHANGED <<pidfile, fds>>

Wait ==
    /\ spc = "wait"
    /\ Waited(child, left # 0)
    /\ spc' = "spawn"
    /\ UNCHANGED <<optVars, rightsVars, sockfile, pidpath, left, born, child, sig, handler>>

\* The loop is over; the daemon goes to sleep, the others close and return.
SpawnEnds ==
    /\ spc = "spawn" /\ ~MayFork
    /\ IF prog = "d" THEN spc' = "sleep" /\ UNCHANGED fds
       ELSE spc' = "ended" /\ fds' = Closed(Closed(fds, "pid"), "sock")
    /\ UNCHANGED <<optVars, rightsVars, fileVars, kidVars>>

Runs(pid) ==
    /\ kids[pid].at = "forked"
    /\ kids' = [kids EXCEPT ![pid].at = "running"]
    /\ UNCHANGED <<optVars, spc, rightsVars, fds, fileVars, left, born, child, sig, handler,
                    givenUp>>

\* A child dies: exec failed, it ended, or it dumped core.  Of several signals
\* one is pending.
Dies(pid, code) ==
    /\ kids[pid].at # "dead" /\ spc \notin {"became", "ended"}
    /\ kids' = [kids EXCEPT ![pid].at = "dead"]
    /\ sig' = IF prog = "d" /\ sig = "none" THEN code ELSE sig
    /\ givenUp' = (givenUp \/ code # "dumped")
    /\ UNCHANGED <<optVars, spc, rightsVars, fds, fileVars, left, born, child, handler>>

FakeSignal ==
    /\ prog = "d" /\ May("fake") /\ spc = "sleep" /\ sig = "none" /\ sig' = "user"
    /\ givenUp' = TRUE
    /\ UNCHANGED <<optVars, spc, rightsVars, fds, fileVars, left, kids, born, child, handler>>

\* sigchld_handler: it reaps what it finds and takes the si_code of the one
\* signal for that of every child.
HandlerStarts ==
    /\ sig # "none" /\ spc \in {"spawn", "wait", "sleep"}
    /\ handler' = [code |-> sig, back |-> spc] /\ sig' = "none"
    /\ spc' = "reap"
    /\ UNCHANGED <<optVars, rightsVars, fds, fileVars, left, kids, born, child, givenUp>>

Reap(pid) ==
    /\ spc = "reap" /\ kids[pid].at = "dead"
    /\ kids' = [p \in DOMAIN kids \ {pid} |-> kids[p]]
    /\ \/ handler.code = "dumped" /\ spc' = "again" /\ UNCHANGED handler
       \/ handler.code = "user" /\ spc' = handler.back /\ handler' = NoHandler
       \/ handler.code = "exited" /\ UNCHANGED <<spc, handler>>
    /\ UNCHANGED <<optVars, rightsVars, fds, fileVars, left, born, child, sig, givenUp>>

ReapEnds ==
    /\ spc = "reap" /\ \A pid \in DOMAIN kids : kids[pid].at # "dead"
    /\ spc' = handler.back /\ handler' = NoHandler
    /\ UNCHANGED <<optVars, rightsVars, fds, fileVars, left, kids, born, child, sig, givenUp>>

\* fcgi_spawn_connection for one child, from the handler.
ForkAgain ==
    /\ spc = "again"
    /\ \/ (\E null \in Nulls : NewKid(null)) /\ spc' = "waitAgain" /\ UNCHANGED givenUp
       \/ May("fork") /\ spc' = "reap" /\ givenUp' = TRUE /\ UNCHANGED <<kids, born>>
    /\ UNCHANGED <<optVars, rightsVars, fds, fileVars, left, child, sig, handler>>
WaitAgain ==
    /\ spc = "waitAgain"
    /\ Waited(born, FALSE)
    /\ spc' = "reap"
    /\ UNCHANGED <<optVars, rightsVars, sockfile, pidpath, left, born, child, sig, handler>>

\* sigterm_handler, seen by the loop of main.
Stop ==
    /\ spc = "sleep" /\ spc' = "ended"
    /\ fds' = Closed(Closed(fds, "pid"), "sock")
    /\ UNCHANGED <<optVars, rightsVars, fileVars, kidVars>>

SpawnNext ==
    \/ Options \/ OpenPid \/ FindUsers \/ SetGroup \/ ChangeRoot \/ DropUid \/ ChangeDir
    \/ BindSocket \/ BindFails
    \/ Fork \/ Wait \/ SpawnEnds
    \/ HandlerStarts \/ ReapEnds \/ ForkAgain \/ WaitAgain \/ FakeSignal \/ Stop
    \/ \E pid \in DOMAIN kids :
          \/ Runs(pid) \/ Reap(pid)
          \/ \E code \in {"exited", "dumped"} : Dies(pid, code)

SpawnSpec == SpawnInit /\ [][SpawnNext]_spawnVars

-----------------------------------------------------------------------------
\* The versions that look at the results of setgid and setuid.
Careful == prog \in {"plain", "sc"}

\* A program that was started has the rights it was to get, whichever of the
\* calls on the way failed, and no descriptor of the spawner but the socket.
KidsConfined ==
    \A pid \in DOMAIN kids :
        /\ Careful /\ opts.root /\ goal.uid = "user" => kids[pid].uid = "user"
        /\ Careful /\ opts.root /\ goal.gid = "user" => kids[pid].gid = "user"
        /\ kids[pid].fds[0] = "sock"
        /\ ~opts.nofork /\ ~May("devnull") =>
              DOMAIN kids[pid].fds = 0 .. 2 /\ kids[pid].fds[1] = "null"

\* A start that fails has the file of its socket left behind exactly if it fails
\* with the socket bound (setuid or chdir, with -S also setgid or chroot), never if
\* bind_socket itself fails.  It leaves no program that listens on such a file,
\* which the bind_socket of the next start therefore replaces, and no pid.
SockOpen == \E n \in DOMAIN fds : fds[n] = "sock"
FailedStart ==
    spc \in {"failed", "unbound", "crashed"} =>
        /\ Careful => (sockfile.is = "ours" <=> opts.sock = "unix" /\ SockOpen)
        /\ DOMAIN kids = {} /\ pidfile = <<>>

\* No two pids run together in the pid file, also when writing it failed in
\* between.
PidsSeparate ==
    Careful => \A i \in 1 .. Len(pidfile) - 1 :
                  (pidfile[i][1] = "pid") # (pidfile[i + 1][1] = "pid")

\* However the children die and the signals of their deaths fall together, there
\* are never more of them than were asked for.  If they die with core dumps only
\* and forking does not fail, the daemon never has fewer of them either, counting
\* those that it has yet to fork, and forgets no dead one: as long as one is
\* there, a signal is pending or the handler is at work.
KidsToCome == Cardinality(DOMAIN kids) + left + (IF spc = "again" THEN 1 ELSE 0)
KidsCounted ==
    /\ Cardinality(DOMAIN kids) <= opts.forks
    /\ prog = "d" /\ ~givenUp =>
          /\ spc \in {"spawn", "wait", "sleep", "reap", "again", "waitAgain"} =>
                KidsToCome = opts.forks
          /\ spc \in {"spawn", "wait", "sleep"} /\ (\E pid \in DOMAIN kids : kids[pid].at = "dead")
                => sig = "dumped"

\* What a start that fails halfway leaves behind, and what the deaths of children
\* leave of the number that was asked for.
SpawnTidy == FailedStart /\ PidsSeparate /\ KidsCounted
=============================================================================
