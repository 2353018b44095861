---------------------------- MODULE MCSpawnFcgi ----------------------------
(* The instances of SpawnFcgi that TLC checks: a plain start of two children *)
(* and starts by root that differ in the account, the socket and the jail.   *)
EXTENDS SpawnFcgi

AllPrograms == {"m", "plain", "sc", "d"}
Simple == [root |-> FALSE, user |-> "none", group |-> "none", jail |-> FALSE,
           before |-> FALSE, dir |-> FALSE, sock |-> "unix", app |-> TRUE, mode |-> FALSE,
           owner |-> FALSE, nofork |-> FALSE, pid |-> TRUE, forks |-> 2]
ByRoot == [Simple EXCEPT !.root = TRUE, !.forks = 1]
MCSpawnOptions ==
    {Simple,
     [ByRoot EXCEPT !.user = "name", !.owner = TRUE],
     [ByRoot EXCEPT !.user = "stray", !.before = TRUE, !.jail = TRUE, !.dir = TRUE],
     [ByRoot EXCEPT !.user = "mixed", !.group = "name", !.sock = "tcp", !.nofork = TRUE,
                    !.mode = TRUE],
     [ByRoot EXCEPT !.group = "name", !.sock = "both", !.nofork = TRUE]}
AllSpawnFaults == {"open", "setgid", "setuid", "chroot", "chdir", "chmod", "chown", "unlink",
                   "bind", "listen", "fork", "write", "fake"}
=============================================================================
