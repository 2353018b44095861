------------------------------ MODULE FpmMaster ------------------------------
(***************************************************************************)
(* contain_fpm: a master opens the pid file, binds the FastCGI socket,     *)
(* starts fork_count workers that inherit it and replaces each one that    *)
(* dies.  It can be started again while another one is starting, running   *)
(* or dead with its workers still there.  Sources: contain-fpm.c:51-87,    *)
(* file_utili.c:57-83, fpm_socket.c:33-159, process_cycle.c:25-159.        *)
(*                                                                         *)
(* The n-th start of the program is master n, and its socket is socket n:  *)
(* what bind gave it, as long as it or one of its workers is alive.        *)
(***************************************************************************)
EXTENDS Integers, FiniteSets

CONSTANTS Kinds,      \* the values unix may have
          Counts,     \* the values fork_count may have
          Overlap,    \* a start may begin while another is still starting
          Faults,     \* "kill" a master dies, "fork" vfork fails, "exec" a child
                      \* does not get to the program, "pid" the pid file fails
          MaxStarts,  \* bound: starts of the program
          MaxPids     \* bound: workers ever forked

ASSUME FpmAssumption ==
    /\ Counts \cup {MaxStarts, MaxPids} \subseteq Nat
    /\ Kinds \subseteq BOOLEAN /\ Overlap \in BOOLEAN
    /\ Faults \subseteq {"kill", "fork", "exec", "pid"}

VARIABLES
    stage,    \* where each master is
    forked,   \* how many of its first workers it has started
    pidFd,    \* whether it can still write the pid file
    path,     \* the socket the UnixDomain file leads to; 0: there is no file
    sock,     \* what became of the socket of each master
    worker,   \* every pid forked: whose child it is, and its state
    pidfile,  \* the pids in the pid file
    unix,     \* UnixDomain is configured, not Address
    forkCount,\* fork_count; neither ever changes
    raced     \* history: a start began before another one was through

setting == <<unix, forkCount, raced>>
vars == <<stage, forked, pidFd, path, sock, worker, pidfile, setting>>

Masters == 1 .. MaxStarts
Starting == {"pid", "probe", "unlink", "bind", "chmod", "undo", "listen"}
Running == {"fork", "wait", "respawn"}

Init ==
    /\ stage = [a \in Masters |-> "off"]
    /\ forked = [a \in Masters |-> 0]
    /\ pidFd = [a \in Masters |-> FALSE]
    /\ path = 0
    /\ sock = [a \in Masters |-> "none"]
    /\ worker = << >>
    /\ pidfile = {}
    /\ unix \in Kinds /\ forkCount \in Counts
    /\ raced = FALSE

Pids == DOMAIN worker
Children(a, state) == {p \in Pids : worker[p].of = a /\ worker[p].state = state}
(* "turned" is a master that became the program itself. *)
HasSocket(a) == stage[a] \in Running \cup Starting \cup {"turned"} \/ Children(a, "live") # {}
Listening(a) == sock[a] = "listening" /\ HasSocket(a)

Goto(a, label) == stage' = [stage EXCEPT ![a] = label]
-----------------------------------------------------------------------------
(* main: daemonize, the pid file, the socket. *)

Start(a) ==
    /\ stage[a] = "off" /\ (\A b \in 1 .. a - 1 : stage[b] # "off")
    /\ Overlap \/ \A b \in Masters : stage[b] \notin Starting
    /\ raced' = (raced \/ \E b \in Masters : stage[b] \in Starting)
    /\ Goto(a, "pid")
    /\ UNCHANGED <<forked, pidFd, path, sock, worker, pidfile, unix, forkCount>>

(* open_pid_file: O_TRUNC, whoever wrote the file and still runs. *)
OpenPidFile(a) ==
    /\ stage[a] = "pid"
    /\ pidfile' = {}
    /\ pidFd' = [pidFd EXCEPT ![a] = TRUE]
    /\ Goto(a, IF unix THEN "probe" ELSE "bind")
    /\ UNCHANGED <<forked, path, sock, worker, setting>>

OpenPidFileFails(a) ==
    /\ "pid" \in Faults /\ stage[a] = "pid"
    /\ Goto(a, "gone")
    /\ UNCHANGED <<forked, pidFd, path, sock, worker, pidfile, setting>>

(* connect succeeds: a backend listens on the socket of the file. *)
InUse == path # 0 /\ Listening(path)

Refused(a) ==
    /\ stage[a] = "probe" /\ InUse
    /\ Goto(a, "gone")
    /\ UNCHANGED <<forked, pidFd, path, sock, worker, pidfile, setting>>

Probed(a) ==
    /\ stage[a] = "probe" /\ ~InUse
    /\ Goto(a, "unlink")
    /\ UNCHANGED <<forked, pidFd, path, sock, worker, pidfile, setting>>

UnlinkOld(a) ==
    /\ stage[a] = "unlink"
    /\ path' = 0
    /\ Goto(a, "bind")
    /\ UNCHANGED <<forked, pidFd, sock, worker, pidfile, setting>>

(* SO_REUSEADDR: a TCP port can be bound as long as nobody listens on it.   *)
Free(a) == IF unix THEN path = 0 ELSE \A b \in Masters \ {a} : ~Listening(b)

Bind(a) ==
    /\ stage[a] = "bind" /\ Free(a)
    /\ sock' = [sock EXCEPT ![a] = "bound"]
    /\ path' = IF unix THEN a ELSE path
    /\ Goto(a, IF unix THEN "chmod" ELSE "listen")
    /\ UNCHANGED <<forked, pidFd, worker, pidfile, setting>>

BindFails(a) ==
    /\ stage[a] = "bind" /\ ~Free(a)
    /\ Goto(a, "gone")
    /\ UNCHANGED <<forked, pidFd, path, sock, worker, pidfile, setting>>

(* chmod and chown go by the name: they fail when the file is gone, and     *)
(* bind_socket then closes the socket and unlinks the name once more.       *)
Chmod(a) ==
    /\ stage[a] = "chmod" /\ path # 0
    /\ Goto(a, "listen")
    /\ UNCHANGED <<forked, pidFd, path, sock, worker, pidfile, setting>>

ChmodFails(a) ==
    /\ stage[a] = "chmod" /\ path = 0
    /\ sock' = [sock EXCEPT ![a] = "none"]
    /\ Goto(a, "undo")
    /\ UNCHANGED <<forked, pidFd, path, worker, pidfile, setting>>

UnlinkNew(a) ==
    /\ stage[a] = "undo"
    /\ path' = 0
    /\ Goto(a, "gone")
    /\ UNCHANGED <<forked, pidFd, sock, worker, pidfile, setting>>

(* Mutant of MayListen: bind alone is relied on. *)
MayListenBound(a) == TRUE

MayListen(a) == unix \/ \A b \in Masters \ {a} : ~Listening(b)

Listen(a) ==
    /\ stage[a] = "listen" /\ MayListen(a)
    /\ sock' = [sock EXCEPT ![a] = "listening"]
    /\ Goto(a, "fork")
    /\ UNCHANGED <<forked, pidFd, path, worker, pidfile, setting>>

ListenFails(a) ==
    /\ stage[a] = "listen" /\ ~MayListen(a)
    /\ sock' = [sock EXCEPT ![a] = "none"]
    /\ Goto(a, "gone")
    /\ UNCHANGED <<forked, pidFd, path, worker, pidfile, setting>>
-----------------------------------------------------------------------------
(* master_process_cycle. *)

MayFork(a) == stage[a] = "respawn" \/ (stage[a] = "fork" /\ forked[a] < forkCount)

(* Mutant of Written: the pid of a replacement is not written. *)
WrittenAtStart(a, pid) ==
    /\ pidfile' = (IF pidFd[a] /\ stage[a] = "fork" THEN pidfile \cup {pid} ELSE pidfile)
    /\ UNCHANGED pidFd

(* The pid goes to the pid file; a write that fails closes the file.        *)
Written(a, pid) ==
    \/ pidfile' = (IF pidFd[a] THEN pidfile \cup {pid} ELSE pidfile) /\ UNCHANGED pidFd
    \/ "pid" \in Faults /\ UNCHANGED pidfile /\ pidFd' = [pidFd EXCEPT ![a] = FALSE]

(* start_worker_process forked a child that is in this state.               *)
Spawned(a, state) ==
    LET pid == Cardinality(Pids) + 1
    IN  /\ MayFork(a) /\ pid <= MaxPids
        /\ worker' = [p \in Pids \cup {pid} |->
                        IF p = pid THEN [of |-> a, state |-> state] ELSE worker[p]]
        /\ Written(a, pid)
        /\ IF stage[a] = "fork"
           THEN forked' = [forked EXCEPT ![a] = @ + 1] /\ UNCHANGED stage
           ELSE Goto(a, "wait") /\ UNCHANGED forked
        /\ UNCHANGED <<path, sock, setting>>

Spawn(a) == Spawned(a, "live")

(* setgid, setuid or execv fails in the child, which exits. *)
SpawnExits(a) == "exec" \in Faults /\ Spawned(a, "dead")

(* vfork fails: the switch falls through to the child's code, so the master *)
(* itself becomes the program, or exits.                                    *)
ForkFails(a) ==
    /\ "fork" \in Faults /\ MayFork(a)
    /\ \E label \in {"turned", "gone"} : Goto(a, label)
    /\ UNCHANGED <<forked, pidFd, path, sock, worker, pidfile, setting>>

StartedAll(a) ==
    /\ stage[a] = "fork" /\ forked[a] = forkCount
    /\ Goto(a, "wait")
    /\ UNCHANGED <<forked, pidFd, path, sock, worker, pidfile, setting>>

(* Mutant of Reap: all the children that died are taken for one. *)
ReapAll(a) ==
    /\ stage[a] = "wait" /\ Children(a, "dead") # {}
    /\ worker' = [p \in Pids |-> IF p \in Children(a, "dead")
                                 THEN [worker[p] EXCEPT !.state = "reaped"] ELSE worker[p]]
    /\ Goto(a, "respawn")
    /\ UNCHANGED <<forked, pidFd, path, sock, pidfile, setting>>

(* Mutant of Reap: the status is read and nothing is started. *)
ReapOnly(a) ==
    /\ stage[a] = "wait"
    /\ \E p \in Children(a, "dead") : worker' = [worker EXCEPT ![p].state = "reaped"]
    /\ UNCHANGED <<stage, forked, pidFd, path, sock, pidfile, setting>>

(* wait returns one dead child at a time. *)
Reap(a) ==
    /\ stage[a] = "wait"
    /\ \E p \in Children(a, "dead") : worker' = [worker EXCEPT ![p].state = "reaped"]
    /\ Goto(a, "respawn")
    /\ UNCHANGED <<forked, pidFd, path, sock, pidfile, setting>>

(* wait fails, there being no child: the master returns and exits. *)
WaitFails(a) ==
    /\ stage[a] = "wait" /\ Children(a, "live") \cup Children(a, "dead") = {}
    /\ Goto(a, "gone")
    /\ UNCHANGED <<forked, pidFd, path, sock, worker, pidfile, setting>>

WorkerDies(p) ==
    /\ worker[p].state = "live"
    /\ worker' = [worker EXCEPT ![p].state = "dead"]
    /\ UNCHANGED <<stage, forked, pidFd, path, sock, pidfile, setting>>

(* A master is killed, or a call of its start fails that is not an action   *)
(* here (find_user_group, socket); its workers live on and keep its socket. *)
Kill(a) ==
    /\ "kill" \in Faults /\ stage[a] \in Starting \cup Running
    /\ Goto(a, "gone")
    /\ UNCHANGED <<forked, pidFd, path, sock, worker, pidfile, setting>>
-----------------------------------------------------------------------------
Steps(a) ==
    \/ OpenPidFile(a) \/ OpenPidFileFails(a)
    \/ Refused(a) \/ Probed(a) \/ UnlinkOld(a)
    \/ Bind(a) \/ BindFails(a) \/ Chmod(a) \/ ChmodFails(a) \/ UnlinkNew(a)
    \/ Listen(a) \/ ListenFails(a)
    \/ Spawn(a) \/ SpawnExits(a) \/ ForkFails(a) \/ StartedAll(a)
    \/ Reap(a) \/ WaitFails(a)

Next ==
    \/ \E a \in Masters : Start(a) \/ Steps(a) \/ Kill(a)
    \/ \E p \in Pids : WorkerDies(p)

Spec == Init /\ [][Next]_vars
(* A master runs on: it waits only for a child that died. *)
FairSpec == Spec /\ \A a \in Masters : WF_vars(Steps(a))
-----------------------------------------------------------------------------
(* The type of every variable. *)
TypeOK ==
    /\ stage \in [Masters -> Starting \cup Running \cup {"off", "turned", "gone"}]
    /\ forked \in [Masters -> 0 .. forkCount] /\ pidFd \in [Masters -> BOOLEAN]
    /\ path \in Masters \cup {0} /\ sock \in [Masters -> {"none", "bound", "listening"}]
    /\ \A p \in Pids : worker[p] \in [of : Masters, state : {"live", "dead", "reaped"}]
    /\ pidfile \subseteq Pids /\ {unix, raced} \subseteq BOOLEAN
    /\ forkCount \in Nat

(* At most one socket is listened on, so that no master ever runs beside    *)
(* the workers of another one: a start is refused as long as a worker of a  *)
(* dead master lives.  On TCP starts may overlap as they like.              *)
OneListener ==
    (unix /\ raced) \/ \A a, b \in Masters : Listening(a) /\ Listening(b) => a = b

(* fpm_socket.c:58 says "check if some backend is listening on the socket   *)
(* as if we delete the socket-file and rebind there will be no 'socket      *)
(* already in use' error": the file of a socket that is listened on is not  *)
(* deleted.                                                                 *)
FileLeadsToBackend == unix => \A a \in Masters : Listening(a) => path = a

(* That is so as long as no two starts overlap.                             *)
FileKept == ~raced => FileLeadsToBackend

(* A running master has its fork_count workers, counting those that died    *)
(* and were not waited for yet and the one it is about to replace.          *)
Supervised ==
    \A a \in Masters : stage[a] \in Running =>
        Cardinality(Children(a, "live") \cup Children(a, "dead"))
            = IF stage[a] = "fork" THEN forked[a]
              ELSE IF stage[a] = "respawn" THEN forkCount - 1 ELSE forkCount

(* The pid file names every live worker of the running master, as long as   *)
(* the master can write it and nobody started the program again: a start    *)
(* that is refused has emptied the file all the same.                       *)
PidFileComplete ==
    \A a \in Masters :
        /\ stage[a] \in Running /\ pidFd[a] /\ ~raced
        /\ \A b \in a + 1 .. MaxStarts : stage[b] = "off"
        => Children(a, "live") \subseteq pidfile

(* The files of a master, its socket and its pid file, stay its own and     *)
(* complete as long as nobody starts the program a second time beside it.   *)
FilesSound == TypeOK /\ FileKept /\ PidFileComplete

(* The dead are replaced: a master that stays has all its workers again.    *)
Replaced ==
    \A a \in Masters :
        stage[a] = "wait" /\ Children(a, "dead") # {}
        ~> \/ stage[a] \notin Running
           \/ Cardinality(Children(a, "live")) = forkCount \/ Cardinality(Pids) = MaxPids
=============================================================================
