----------------------------- MODULE CspContain -----------------------------
(***************************************************************************)
(* csp_contain, the FastCGI program that serves compiled pages: it reads    *)
(* its configuration, opens the libraries, maps virtual paths to the        *)
(* functions of the pages, serves, and closes the libraries.  A             *)
(* configuration has the CSP-lib elements in document order, each a library *)
(* with its sequence of pages: virtual path, CSP-name and whether the name  *)
(* has a dot ("csp_login.csp") or not.  A function is the pair of its       *)
(* library and its name.                                                    *)
(***************************************************************************)
EXTENDS PathHmap, Integers

CONSTANTS Libs,        \* the paths of libraries, none equal to another but for case
          Configs,     \* the configurations of the instance
          Exported,    \* the functions the libraries have, <<lib, name>>
          MaxRequests  \* bound: requests served

\* well: the document is a CSPContain document; reset_rate 0: no memory pool.
\* NULL is neither a path nor a function.
ASSUME ContainAssumption ==
    /\ NULL \notin Libs /\ Exported \subseteq Data
    /\ \A conf \in Configs :
        /\ conf.well \in BOOLEAN /\ conf.reset_rate \in Nat /\ conf.bpool \in BOOLEAN
        /\ conf.libs \in Seq(ToSet(conf.libs))
        /\ \A i \in DOMAIN conf.libs :
              /\ conf.libs[i].lib \in Libs
              /\ conf.libs[i].pages \in Seq(ToSet(conf.libs[i].pages))
              /\ \A j \in DOMAIN conf.libs[i].pages : conf.libs[i].pages[j].vir \in Key

VARIABLES config,    \* the document
          phase,     \* where main is
          vlist,     \* the list of pages: [lib, name, dot, vir, handle, funptr]
          at,        \* the entry that a loop over vlist has reached
          prevOpen,  \* open_handler's prev_handle and prev_path
          prevClose, \* close_handler's prev_handle
          refs,      \* library -> how often the loader holds it
          accap_loop,\* CHECK_MEMO_POOL's count of requests
          held,      \* history: requests since the pool was empty
          answered   \* history: the pages invoked, [uri, fun]

poolLoop == <<accap_loop, held>>
loader == <<prevOpen, prevClose, refs>>
containVars == <<hmaplist, mcount, config, phase, vlist, at, loader, poolLoop, answered>>

ContainInit ==
    /\ config \in Configs
    /\ phase = "config"
    /\ vlist = <<>> /\ at = 1
    /\ prevOpen = NULL /\ prevClose = NULL
    /\ refs = [l \in Libs |-> 0]
    /\ accap_loop = 0 /\ held = 0
    /\ answered = {}
    /\ phm_create

\* Mutant of vlist_newvpa: a new entry goes to the end.
vlist_append(list, vpa) == Append(list, vpa)

\* VLIST_PREPEND: a new entry goes to the head.
vlist_newvpa(list, vpa) == <<vpa>> \o list

NewPage(lib, page) == [lib |-> lib, name |-> page.name, dot |-> page.dot,
                       vir |-> page.vir, handle |-> NULL, funptr |-> NULL]

\* csp_lib_parser: one entry for each Virtu-path of the library.
csp_lib_parser(list, elem) ==
    LET after[j \in 0 .. Len(elem.pages)] ==
            IF j = 0 THEN list
            ELSE vlist_newvpa(after[j - 1], NewPage(elem.lib, elem.pages[j]))
    IN after[Len(elem.pages)]

\* path_map_parser and parse_serv_config: all libraries in document order.
path_map_parser(elems) ==
    LET after[i \in 0 .. Len(elems)] ==
            IF i = 0 THEN <<>> ELSE csp_lib_parser(after[i - 1], elems[i])
    IN after[Len(elems)]

\* A document that cannot be loaded is a NULL pointer, which main follows.
LoadConfig ==
    /\ phase = "config"
    /\ IF config.well
       THEN vlist' = path_map_parser(config.libs) /\ phase' = "pools"
       ELSE phase' = "crashed" /\ UNCHANGED vlist
    /\ UNCHANGED <<hmapVars, config, at, loader, poolLoop, answered>>

\* The pools that the document enables; a failure ends the program.
CreatePools ==
    /\ phase = "pools"
    /\ \/ phase' = "open"
       \/ (config.reset_rate # 0 \/ config.bpool) /\ phase' = "nopool"
    /\ UNCHANGED <<hmapVars, config, vlist, at, loader, poolLoop, answered>>

\* fill_invoke_fun gives the name back when it had a dot to replace, and
\* dyli_open_vlist takes that for a failure (file_utili.c:86).
fill_invoke_fun(entry) == entry.dot

\* open_handler: dlopen unless the library is that of the entry before.
Handle(lib) == lib
opens(entry) == prevOpen # entry.lib

OpenEntry ==
    /\ phase = "open" /\ at \in DOMAIN vlist
    /\ LET e == vlist[at] IN
       IF fill_invoke_fun(e)
       THEN phase' = "failed" /\ UNCHANGED <<vlist, at, prevOpen, refs>>
       ELSE /\ refs' = IF opens(e) THEN [refs EXCEPT ![e.lib] = @ + 1] ELSE refs
            /\ prevOpen' = e.lib
            /\ IF <<e.lib, e.name>> \in Exported
               THEN /\ vlist' = [vlist EXCEPT ![at].handle = Handle(e.lib),
                                              ![at].funptr = <<e.lib, e.name>>]
                    /\ at' = at + 1
                    /\ UNCHANGED phase
               ELSE phase' = "failed" /\ UNCHANGED <<vlist, at>>   \* dlsym
    /\ UNCHANGED <<hmapVars, config, prevClose, poolLoop, answered>>

DlopenFails ==
    /\ phase = "open" /\ at \in DOMAIN vlist
    /\ ~fill_invoke_fun(vlist[at]) /\ opens(vlist[at])
    /\ phase' = "nolib" /\ prevOpen' = NULL
    /\ UNCHANGED <<hmapVars, config, vlist, at, prevClose, refs, poolLoop, answered>>

OpenedAll ==
    /\ phase = "open" /\ at \notin DOMAIN vlist
    /\ phase' = "map" /\ at' = 1
    /\ UNCHANGED <<hmapVars, config, vlist, loader, poolLoop, answered>>

\* build_path_hmap inserts the pages in the order of the list, then
\* dele_vlist_path frees the two names; the virtual paths stay, as keys.
MapEntry ==
    /\ phase = "map" /\ at \in DOMAIN vlist
    /\ phm_insert(vlist[at].vir, vlist[at].funptr)
    /\ at' = at + 1
    /\ UNCHANGED <<config, phase, vlist, loader, poolLoop, answered>>

MappedAll ==
    /\ phase = "map" /\ at \notin DOMAIN vlist
    /\ phase' = "serve"
    /\ UNCHANGED <<hmapVars, config, vlist, at, loader, poolLoop, answered>>

\* The operator & of two numbers.
BitAnd[a \in Nat] ==
    [b \in Nat |-> IF a = 0 \/ b = 0 THEN 0
                   ELSE 2 * BitAnd[a \div 2][b \div 2] + (a % 2) * (b % 2)]

\* Mutant of POW2N_MOD: masked by the rate itself.
MaskedByRate(nua, nub) == BitAnd[nua][nub]

\* CHECK_MEMO_POOL: x modulo a rate that is meant to be a power of 2.
POW2N_MOD(nua, nub) == BitAnd[nua][nub - 1]

\* A request: the pool may be reset, then the function found is called without
\* a look at NULL, so a path that is not mapped ends the process.
Serve(uri) ==
    /\ phase = "serve" /\ accap_loop < MaxRequests
    /\ accap_loop' = accap_loop + 1
    /\ held' = IF config.reset_rate = 0 THEN 0
               ELSE IF POW2N_MOD(accap_loop', config.reset_rate) = 0 THEN 1 ELSE held + 1
    /\ LET fun == phm_value(hmaplist, uri) IN
       IF fun = NULL
       THEN phase' = "crashed" /\ UNCHANGED answered
       ELSE answered' = answered \cup {[uri |-> uri, fun |-> fun]} /\ UNCHANGED phase
    /\ UNCHANGED <<hmapVars, config, vlist, at, loader>>

\* FCGI_Accept fails: destory_path_hmap, then dyli_close_vlist.
AcceptFails ==
    /\ phase = "serve"
    /\ phm_dele
    /\ phase' = "close" /\ at' = 1
    /\ UNCHANGED <<config, vlist, loader, poolLoop, answered>>

\* close_handler: dlclose unless the handle is that of the entry before.
closes(entry) == prevClose # entry.handle

CloseEntry ==
    /\ phase = "close" /\ at \in DOMAIN vlist
    /\ LET e == vlist[at] IN
       /\ refs' = IF closes(e) THEN [refs EXCEPT ![e.handle] = @ - 1] ELSE refs
       /\ prevClose' = IF closes(e) THEN e.handle ELSE prevClose
    /\ at' = at + 1
    /\ UNCHANGED <<hmapVars, config, phase, vlist, prevOpen, poolLoop, answered>>

\* dele_vlist frees the entries.
ClosedAll ==
    /\ phase = "close" /\ at \notin DOMAIN vlist
    /\ phase' = "ended" /\ vlist' = <<>>
    /\ UNCHANGED <<hmapVars, config, at, loader, poolLoop, answered>>

ContainStep ==
    \/ LoadConfig \/ CreatePools \/ OpenEntry \/ OpenedAll \/ MapEntry \/ MappedAll
    \/ CloseEntry \/ ClosedAll

ContainNext ==
    \/ ContainStep
    \/ DlopenFails \/ AcceptFails
    \/ \E uri \in Key : Serve(uri)

ContainSpec == ContainInit /\ [][ContainNext]_containVars /\ WF_containVars(ContainStep)

-----------------------------------------------------------------------------
\* Page j of library i, and which pages the document names before it.
DocPage(i, j) == config.libs[i].pages[j]
Before(i, j, k, l) == i < k \/ (i = k /\ j < l)

\* A request is answered by the page that the document names first for its
\* path: the list is built backwards and later insertions overwrite earlier
\* ones, which together let the first entry win.
FirstPageAnswers ==
    \A a \in answered :
        \E k \in DOMAIN config.libs : \E l \in DOMAIN config.libs[k].pages :
            /\ DocPage(k, l).vir = a.uri /\ a.fun = <<config.libs[k].lib, DocPage(k, l).name>>
            /\ \A i \in DOMAIN config.libs : \A j \in DOMAIN config.libs[i].pages :
                  Before(i, j, k, l) => DocPage(i, j).vir # a.uri

\* While pages are served the library of each mapped function is open, and
\* when the program ends every dlopen has met its dlclose, though both skip
\* repeated entries by a memory of the last one only.
LibrariesHeld ==
    /\ phase = "serve" =>
          \A uri \in Key : phm_value(hmaplist, uri) # NULL =>
                               refs[phm_value(hmaplist, uri)[1]] > 0
    /\ phase = "ended" => \A l \in Libs : refs[l] = 0

\* A server of pages, from its start to its end: the page that the document
\* names first answers, from a library that is open, and every library is closed.
PagesServed == FirstPageAnswers /\ LibrariesHeld

\* The pool never holds the memory of more than reset_rate requests, also for a
\* rate that is no power of 2, where the mask is not a modulo.
PoolResetInTime == config.reset_rate # 0 => held <= config.reset_rate

\* What file_utili.c:73 says of fill_invoke_fun: the name "login.csp" of a page
\* becomes "login_csp".  A configuration whose functions all exist is served.
DottedNamesServed ==
    phase = "failed" => <<vlist[at].lib, vlist[at].name>> \notin Exported
=============================================================================
