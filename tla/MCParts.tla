------------------------------ MODULE MCParts ------------------------------
(* The parts of the page server and of the HTTP side that share no state,    *)
(* for one run of TLC: a behaviour is a behaviour of one part, chosen at the *)
(* start, and the variables of the others stay as one of their initial       *)
(* states has them.                                                          *)
EXTENDS MCCspContain, TinyPool, QEntry, QSession, MCSpawnFcgi, MCQRequest, QResponse,
        MCSpc, MCDavExt

CONSTANTS n1, n2, w1, w2

\* For SYMMETRY: no definition tells the processes of the session part apart, nor its ids.
Alike == Permutations(Page) \cup Permutations(Sid)

VARIABLE part   \* the part that runs

MCLower == n1 :> n1 @@ n2 :> n1
MCModes == [overlap : BOOLEAN, crash : BOOLEAN] \ {[overlap |-> TRUE, crash |-> TRUE]}

extVars == <<davVars, finds>>
containOnly == <<config, phase, vlist, at, loader, poolLoop, answered>>
quietVars == <<poolVars, entryVars, sessVars, spawnVars, qreqVars, resVars, spcVars>>

\* A part that does not run has one initial state only.
Still(p, value, values) == part = p \/ value = CHOOSE v \in values : TRUE

PartsInit ==
    /\ part \in {"map", "contain", "pool", "entry", "session", "spawn", "request",
                 "response", "spc", "dav", "find"}
    /\ ContainInit /\ Still("contain", config, Configs)
    /\ PoolInit /\ EntryInit
    /\ SessInit /\ Still("session", mode, Modes)
    /\ SpawnInit
    /\ Still("spawn", prog, Programs) /\ Still("spawn", opts, SpawnOptions)
    /\ part # "spawn" => sockfile.is = "none" /\ pidpath = "absent"
    /\ QReqInit /\ ResInit
    /\ SpcInit /\ Still("spc", pages, Projects)
    /\ DavInit /\ ExtInit

\* Only this part takes steps.
MapPart == HmapNext /\ UNCHANGED <<containOnly, quietVars, extVars>>
ContainPart == ContainNext /\ UNCHANGED <<quietVars, extVars>>
PoolPart == PoolNext /\ UNCHANGED <<containVars, entryVars, sessVars, spawnVars, qreqVars,
                                    resVars, spcVars, extVars>>
EntryPart == EntryNext /\ UNCHANGED <<containVars, poolVars, sessVars, spawnVars, qreqVars,
                                     resVars, spcVars, extVars>>
SessionPart == SessNext /\ UNCHANGED <<containVars, poolVars, entryVars, spawnVars, qreqVars,
                                       resVars, spcVars, extVars>>
SpawnPart == SpawnNext /\ UNCHANGED <<containVars, poolVars, entryVars, sessVars, qreqVars,
                                     resVars, spcVars, extVars>>
RequestPart == QReqNext /\ UNCHANGED <<containVars, poolVars, entryVars, sessVars, spawnVars,
                                    resVars, spcVars, extVars>>
ResponsePart == ResNext /\ UNCHANGED <<containVars, poolVars, entryVars, sessVars, spawnVars,
                                   qreqVars, spcVars, extVars>>
CompilerPart == SpcNext /\ UNCHANGED <<containVars, poolVars, entryVars, sessVars, spawnVars,
                                   qreqVars, resVars, extVars>>
\* Two workers change files, and nobody lists them; the workers are alike, so the
\* first request goes to w1.
ToW1     == asked = 0 => jobs'[w2] = jobs[w2]
DavPart  == DavNext /\ ToW1 /\ UNCHANGED <<containVars, quietVars, finds>>
\* One request changes files while they are listed, until they are.
FindPart ==
    /\ \E w \in Reader : finds[w].at # "done"
    /\ \/ (asked = 0 \/ jobs[w1].at # "idle") /\ TreeChange(w1)
       \/ \E w \in Reader : FindStep(w)
    /\ UNCHANGED <<containVars, quietVars>>

PartsNext ==
    \/ part = "map" /\ MapPart /\ UNCHANGED part
    \/ part = "contain" /\ ContainPart /\ UNCHANGED part
    \/ part = "pool" /\ PoolPart /\ UNCHANGED part
    \/ part = "entry" /\ EntryPart /\ UNCHANGED part
    \/ part = "session" /\ SessionPart /\ UNCHANGED part
    \/ part = "spawn" /\ SpawnPart /\ UNCHANGED part
    \/ part = "request" /\ RequestPart /\ UNCHANGED part
    \/ part = "response" /\ ResponsePart /\ UNCHANGED part
    \/ part = "spc" /\ CompilerPart /\ UNCHANGED part
    \/ part = "dav" /\ DavPart /\ UNCHANGED part
    \/ part = "find" /\ FindPart /\ UNCHANGED part

PartsSpec == PartsInit /\ [][PartsNext]_<<part, containVars, quietVars, extVars>>
=============================================================================
