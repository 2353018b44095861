# SyncCloud in TLA+

SyncCloud serves the files of its users over WebDAV and lets desktop clients
follow what happened to them.  This directory holds TLA+ models of the parts of
it in which the order of steps matters, the configurations under which TLC
checks them, and proofs that TLAPS checks.  All line numbers are those of
`src/`; `dav_cloud/` and `spawn-fcgi/` are below
`src/NetBeansProjects/serv_solution/`, `contain_fpm/`, `csp_contain/`, `qdecoder/`,
`spc/` and `third_party/` below `src/NetBeansProjects/csp_serv/`.

    tlc -workers 2 -config space_contend.cfg MCCloudSpace
    tlapm CloudSpaceProofs.tla

## 1. The system

Each nginx **worker** is a process that serves one request at a time through
`ngx_http_dav_module.c`.  The handlers of PUT, DELETE, MOVE and COPY call the
library `dav_cloud`, whose state is a handful of statics that live as long as
the worker (`dav_cloud.c:55-56`, `auth_socks.c` `_cache_sockfd_`,
`_cache_saddr_`).  All the workers share the file system and one or more
**cache servers**, another program that is reached over TCP and is not part of
the repository.

A **user space** is a directory with

| state | file | written by |
|---|---|---|
| the tree | `user_pool/` | the DAV handlers |
| the log of actions | one fixed-size record per file | `flush_action`, `anchor.c:107` |
| the index of anchors | number and log offset | `addi_anchor`, `anchor.c:66` |
| the capacity | used and backup bytes | `reset_capacity`, `capacity.c:24` |
| the backup | `backup/<day>/<name>_<second>` and its log | `versi_utili.c`, `file_utili.c:20` |

A request (1) looks up the user if it is not the one of the request before, (2)
asks the cache server of that user for the lock, in two messages, query and
status, (3) checks the capacity, (4) changes the tree, and for each file
appends one record to the log (two for MOVE and COPY) and updates the
capacity, (5) adds an anchor that points to the end of the log, and (6)
publishes an anchor at the cache server, which also gives the lock back.  No
file is locked: everything rests on the lock of the cache server, which lapses
unless keep-alives renew it.

Independent of that is the **page server**.  **spc** compiles `.csp` pages, with
the pages they require, to C++ functions that are built into libraries.
**csp_contain** opens the libraries, maps virtual paths to functions, and
answers FastCGI requests; a page gets its request as a list of **qdecoder**,
keeps sessions in files, answers through a buffer, and takes memory from a
**pool** that is reset every few requests.  Programs like it are started by
**contain_fpm**, `fork_count` times on one socket and again when they die, or by
one of four variants of **spawn-fcgi**.  The processes share the files of
sessions and uploads, and nothing else.

### Inventory

| component | state | operations | what is hard | status |
|---|---|---|---|---|
| user spaces (`dav_cloud.c`, `anchor.c`, `capacity.c`, handlers) | log, index, capacity, statics of a worker, lock | lock, record, anchor, capacity, publish, keep-alive | many workers, stale statics, partial failure, crash | `CloudSpace` |
| version store (`versi_utili.c`, `file_utili.c`) | backup files, backup log | `cloud_delete` | resumed copies, crash, every call may fail | `DeleteBackup`, partly: without `modify_backup`, never called |
| link to the cache server (`auth_socks.c`) | one socket per worker | five requests, reconnect | retry, lost and split replies, stale descriptor | `CacheLink` |
| contain_fpm (`contain-fpm.c`, `fpm_socket.c`, `process_cycle.c`) | pid file, socket file, children | start, supervise | racing starts, dying masters | `FpmMaster` |
| DAV handlers (`ngx_http_dav_module.c`) | the tree, the walk over a directory | PUT, DELETE, MKCOL, MOVE, COPY | checks before the lock, failures halfway through a tree | `DavTree` |
| PROPFIND, OPTIONS (`ngx_http_dav_ext_module.c`) | what the body asks for, the open directory | parse, list | the tree changes while it is listed | `DavExt` |
| csp_contain | list of paths, open libraries, map | load, open, map, serve, close | libraries named again, paths named twice, reset rates | `CspContain` |
| pools and maps (`third_party/`) | blocks, lists, chains | allocate, reset, destroy; insert, remove | alignment at the end of a block, long sequences of calls | `TinyPool`, `PathHmap` |
| qdecoder (`qentry.c`, `qcgisess.c`, `qcgireq.c`, `qcgires.c`) | lists; files of sessions and uploads; the buffer of an answer | put, get, remove, walk; load, save, clear; parse, upload; headers | processes on the same files, broken bodies, calls in any order | `QEntry`, `QSession`, `QRequest`, `QResponse`, partly |
| spawn-fcgi, four variants | rights, descriptors, socket and pid file, children | start, and again (`-d`) | a call that fails halfway, deaths that fall together | `SpawnFcgi` |
| spc | lines of a page and its required pages, files written, middle file | compile, link | required pages in circles and diamonds, several runs | `Spc`, partly |
| authentication (`ngx_http_auth_dav_module.c`, `dav_cloud.c:195-233`, `auth_utili.c`) | last user name and password | `dav_authen` | the remembered password is never refreshed while the user stays | not modelled |
| text helpers (Base64, MD5, parsing), configuration of contain_fpm, loggers, pcc, test programs | none that is shared | | | not modelled: straight-line I/O or pure text |

What makes each component correct:

* user spaces: one writer per space; a worker writes in the space whose lock
  it has; anchors are numbered without gap, their offsets ordered and within
  the log; what clients are told of exists; the capacity is that of the tree,
  unless a request acted on what it saw before it had the lock; every lock is
  given back.
* version store: nothing leaves the space unsaved; a mark "done" means a whole
  backup; a backup is neither mixed nor overwritten; errors keep the file.
* link: a call takes the reply to its own request, from the server of its
  user; it ends; retries do not add up; no connection is left behind.
* contain_fpm: one backend listens; its socket file stays; the dead are
  replaced; the pid file is complete.
* DAV handlers: the lock is given back on every way out; a client that replays
  the log has the files the space has; no content is lost unsaved.  A listing
  reports what was there throughout, and nothing twice.
* page server: the page named first answers, from a library that is open; the
  pool hands out no byte twice and is reset in time; lists stay lists; a
  session is its client's and can be cleared; a page gets whole parts of a
  request, and what is out of place in its answer comes from a few named calls.
* spawn-fcgi: the program has the rights and descriptors it was to get; a start
  that fails leaves no program and no pid, and its socket file only after the bind.
* spc: all required pages are generated, once, with the variables they use.

The hazards, each at its line, are listed in `PROJECT.json`.

## 2. The modules

| module | what it is |
|---|---|
| `CloudSpace` | workers, cache server and the files of the user spaces |
| `SpaceJournal` | what a space promises: a journal cut into anchors, changed under a lock |
| `DeleteBackup` | `cloud_delete` with the backup folder and its log |
| `CacheLink` | the TCP link of one worker to the cache servers |
| `FpmMaster` | starts of contain_fpm and their workers |
| `DavTree`, `DavExt` | the handlers over a tree of files; listings of the tree while they change it |
| `CspContain`, `PathHmap`, `TinyPool` | the page server with its map; the pool |
| `QEntry`, `QSession`, `QRequest`, `QResponse` | qdecoder: lists, sessions, requests with uploads, answers |
| `SpawnFcgi` | the four variants of spawn-fcgi |
| `Spc` | the page compiler |
| `MC*` | the instances for TLC: model values, symmetry, inputs; `MCParts` puts eleven parts into one run |
| `CloudSpaceProofs` | the types, locks, anchors, log and capacity of `CloudSpace`, and that it implements `SpaceJournal` |
| `DeleteBackupProofs`, `CacheLinkProofs`, `FpmMasterProofs`, `SpawnFcgiProofs` | the theorems about these modules |
| `DavTreeProofs` | `DavTree`, and the listings of `DavExt` |
| `QdecoderProofs` | `QSession`, `QResponse`, `QEntry` and `QRequest` |
| `PageServerProofs` | `CspContain`, `PathHmap` and `TinyPool` |

`SpaceJournal` is the abstract specification of `CloudSpace`
(`ImplementsJournal`).  `CacheLink` and `DeleteBackup` refine what `CloudSpace`
takes in one step: a message to the cache server with its loss, and
`cloud_delete` with its result.  `DavTree` is the other side of `CloudSpace`: there
a request is what it writes to the files of a space, here what it does to the
tree, with the lock as a mutex and the log as what a client makes of it.
`DavExt` extends `DavTree`, `CspContain` extends `PathHmap`.

### CloudSpace

A worker is a program counter `pc` and the statics `acc` (`_accval_` and
`_acce_user_`), plus what it has in hand: the request `job`, the record `cur`
and `tmp`, what a file function has read and not yet written.  One action is
one stretch of code between two accesses to something shared, so reading and
writing a file are separate steps:

| labels | code |
|---|---|
| query, status | `set_cache_locked`, `auth_socks.c:384` |
| check, full | `check_capacity` and its failure, `dav_cloud.c:87-93` |
| body | the handler up to the next file: overwrite, delete, move, copy |
| flush | `flush_action`, `anchor.c:107` |
| addiRead, addiAppend | `addi_anchor`, `anchor.c:66` |
| capaRead, capaWrite | `reset_capacity`, `capacity.c:24` |
| publish | `set_cache_anchor`, `dav_cloud.c:137` |
| unlock, republish, release | `unlock_user_space`, `dav_cloud.c:112` |

The validation string that names a lock is the number of its request; a user
names the location of its space; the log keeps only the type of a record, the
capacity and the tree only the bytes.  The failures are a constant, `Faults`,
so that each property is checked under the failures it survives, and the
module says what each stands for.  Facts of the code that shaped the model:

* A failed lock makes only COPY unlock (`ngx_http_dav_module.c:987`);
* an overwrite by PUT, MOVE or COPY concerns a single file, a directory is
  refused with 409; PUT ignores the result of `cloud_delete`, MOVE and COPY
  stop at an error;
* `flush_anchor_bzl` drops the number that `addi_anchor` returns
  (`anchor.h:30-33`), so a PUT, a single MOVE and a single COPY publish the
  anchor read at the query, which may be behind: `PublishedExists` forbids an
  unknown anchor only;
* `LockAtQuery` says whether the cache server locks at the query or at the
  status; the code relies on neither, so each run fixes one and the proofs hold
  for both;
* a failure of `check_capacity` and a full pool are answered alike (507);
* DELETE looks at its file (`ngx_http_dav_module.c:434`), MOVE and COPY at the
  destination (706, 960), before they have the lock.  `Touch` marks the requests whose
  look another one outdates (`stale`); such a request may act on it (`Misjudge`): a file
  that is gone is deleted with success (`dav_cloud.c:180`) and recorded with any size
  (`FILE_SIZE`, line 49, leaves it unset), a file that came is overwritten without a
  record.  `raced` remembers the spaces where that happened.

### DeleteBackup

One space whose lock makes deletions follow one another.  A file is a version
and a sequence of blocks, a backup the sequence of blocks written into it.
`job.stage` walks through `delete_backup`; `CallReturns` is the loop of
`cloud_delete`, which calls it again while it returns 1 and looks at an error
only from the second call on (`dav_cloud.c:180-188`).  A read that fails is taken
for a size, with which the write "succeeds", so that the call returns 1 (`ReadFails`).
`crossDevice` says
whether `rename` gives EXDEV and the file is copied in pieces instead.  A
record that is not yet flushed by stdio is lost in a crash (`fresh`).  The lock
outlives a crashed worker by a lease, hence a tick.

### CacheLink

`conns` are the descriptors that the worker has open with the two streams of
each connection, `call` is the call under way with the copy of the descriptor
it was passed.  The stages of a call are those of `send_receive_cache`: send,
reconnect, resend, receive, and again.  The cache server answers in one
segment or two; `Outcomes` says what the parsers make of the segments that one
`recv` returned, with an uninitialised status (`auth_socks.c:193-298`) as a
choice.

### FpmMaster

The n-th start of the program is master n.  `path` is the socket that the file
leads to, which may be another master's; `sock` is what became of each
master's own, alive as long as it or a worker has it.  `raced` is a history
variable: two starts overlapped.

### DavTree and DavExt

A path is a sequence of names, `davTree` a function from paths to what is there.
`Refusal` is the checks of a handler, in their order, with the code they answer;
`Accept` keeps what the handler saw (`fi`, `overwrite`), because it is used after the
lock was waited for.  `jobs[w].at` goes from `lock` to the steps under it: erase,
look, rename, record, make, and for a directory walk, a stack of open
directories as in `dav_walk_tree`.  `replica` is a client that replays the log.
A name is recorded by subtracting lengths (`ngx_http_dav_module.c:728`): with an
escape in the URI the name is `Astray`.  `cloud_delete` may back a file up, leave it, or unlink
it without a backup: it is too big, its path has a version from within the interval, or the log of
the backups failed (`DeleteBackup` has the inside).  `versions` keeps with each backup, in
`spared`, the contents that were given up for it, those of a namesake of the same second that it
replaced among them.  Three history variables keep the
properties honest: `stored` has every content that was stored, `spoiled` those that
a failed call or a stale look may have cost, `blurred` the paths that were recorded
otherwise than they changed.  `DavSound` says that nothing else goes wrong:
`LockGivenBack`, `ReplayMatches`, `ContentsKept`.

In `DavExt` a body is a sequence of buffers of XML events; `start_xml_elt` toggles an
element's bit as the code does, and nobody tells the parser that the document ends, so a body
that stops in the middle of an element is answered too.  Each entry of a listing is a step.  `steady` is what
was there from the first step of a listing to its last.

### The page server

`CspContain` goes through the phases of `main`; `open_handler` and `close_handler` remember
one library, `prevOpen` and `prevClose`.  `PathHmap` has the chains as sequences.
`TinyPool` has addresses as offsets in a block; `given` is what was handed out since
the last reset.  `QEntry` keeps the heap of objects with their links, because it is
the links that can go wrong; `cursor` is a caller's walk.  `QSession` has the two files of
each session, and each open, write and unlink as a step; `mode` says whether
clients overlap their requests or processes die.  `QRequest` takes strings apart
symbol by symbol only where separators and escapes matter, and a multipart body
line by line, whole or broken off, with parts that have a name and parts that have none.  `QResponse` keeps for each piece of output whether it
ends its line or the headers; `Answer` is what the client gets, the buffer after what error pages
and downloads printed past it.

### SpawnFcgi

The four variants have one course, translated from `spawn-fcgi.c`; a record per
variant and function (`m_rights`, `d_bind_socket`, ...) holds what differs, and each is
mapped to the code of its variant.  `sig` is the SIGCHLD pending with the code of the
first death, `handler` what it interrupted; `child` is the child that a `wait` reaped, and
`givenUp` remembers that a death was not a core dump or that a fork failed.

### Spc

A page is a sequence of items; `plist` is the list of lines that
`recursive_parse` grows in place, marking the required page done; `clanFiles` is the list of
files written, with `-s` read from the middle file, of which the first failing read hides the rest
(`open_middle_file`); `cpp` has of each generated
function what it takes and what it passes to which other.

## 3. The runs

| run | instance | shows |
|---|---|---|
| `space_contend` | 2 workers, 1 user, 3 requests, trees of 2 files, pool of 2 | `OneWriter`, `AnchorsDense`, `OffsetsOrdered`, `LogReadable`, `CapacitySound` for all four methods against each other |
| `space_faults` | 2 workers, 2 users, 2 requests, all failures but early expiry and a lost grant | `TypeOK`, `WriterOwnsSpace`, `PublishedExists`, `SpaceInv` (the invariants of the proofs), `ImplementsJournal` |
| `space_leases` | 1 worker, 2 users, 2 requests, early expiry, lost grant, lost unlock, crash, missing log | `LockReleased`, `ForeignAnchorOnlyByCopy` |
| `backup_kept` | 1 directory, 2 names, 3 versions of up to 2 blocks, both devices, crashes and failing reads | `BackupsSound`, `NothingLost`, `WholeIsKept` |
| `backup_faults` | 1 path, 3 versions of up to 3 blocks, both devices, every failure | `RecordIsMine`, `ErrorMeansKept`, `Finishes` |
| `backup_log` | as `backup_kept`, the log cannot be written | violates `NothingLost` |
| `link_faults` | 2 users with a server each, 4 requests, 2 faults | `RepliesSound`, `ServedOnceOrTwice`, `RequestsGoHome`, `OneConnection`, `Returns` |
| `link_split` | 2 users of one server, one split reply | violates `OkIsMine` |
| `fpm_starts` | 2 starts, 0 or 2 workers, file and port, 4 pids | `FilesSound`, `Supervised`, `OneListener`, `Replaced` |
| `fpm_overlap` | 2 overlapping starts on a file | violates `FileLeadsToBackend` |
| `parts` | eleven parts, one per behaviour | thirteen properties, below |
| `uploads` | 2 processes with an upload each | violates `RemovesOldUploads` |

`LogReadable` is that records stay paired and anchored, `CapacitySound` that the counter is
that of the tree and how far it is overdrawn, both outside the spaces in `raced`, `BackupsSound` and `RepliesSound` are the types with
what was written or read, `FilesSound` the socket and pid files.

In `parts` a behaviour is one of these, the rest standing still:

| part | instance | property |
|---|---|---|
| map | 3 keys on 2 chains | `HmapIsAFunction` |
| contain | 4 documents with a path named twice, a library named again, a missing function, a dotted name; reset rates 0, 3, 4, 6; 9 requests | `PagesServed`, `PoolResetInTime` |
| pool | blocks of 6, pieces of 1 and 2, alignment 2, 3 blocks, 2 large pieces | `PoolSound` |
| entry | 2 names equal but for case, 4 objects | `ListSound` |
| session | 2 processes, 2 ids, 3 ticks; overlap or crash or neither | `SessionFiles` |
| spawn | 4 variants, 5 command lines, every call may fail, 3 children | `KidsConfined`, `SpawnTidy` |
| request | pairs with every separator; bodies of 0 to 3 parts, a part without a name among them or at the end, cut off after each line | `RequestWhole` |
| response | every sequence of 5 calls | `HeadersWhole` |
| spc | 5 projects: a tree, one with a missing page, a diamond, errors, a circle; 2 runs | `SpcSound` |
| dav | 2 workers, 2 requests of 18 that change a tree of 5 entries, two of them files of one name, and of 7 that are refused; paths of up to 3 names | `DavSound` |
| find | 1 request that changes, 1 listing of 9, one of them with a body that stops in an element | `ListingTrue` |

**Why the bounds are enough.**  Two workers are enough for two accesses to
interleave, and a third request lets a worker meet what an earlier one left.
Two users are enough for the statics to be someone else's.  A tree of two files
has a first and a last record, and a pool of two files is filled and overdrawn
within three requests.  Two blocks with pieces of one block need three calls,
the last of which finds the end of the file; three ticks reach past the
interval and into the next day's log.  Two faults let the second attempt of a
call fail as well, and four requests let a stale reply be met two calls later.
Four pids allow two replacements.  In `parts` a block of 6 takes one or two pieces,
so each kind of gap and a search past full blocks occur, and the limits 4 and 3
of the code on failures and slots are 0, so that they are reached; four objects
are enough for one of a name at each end and in the middle of a list; two
requests over one tree are enough for one to come between the checks and the
lock of the other; a tree of a directory with a file and a special node, a file
too big to back up and another file, named as the one in the directory, has a case for each
branch of a walk and two backups that may replace each other; two
runs of spc let the second find what the first wrote or fail to read it, and `MaxLines` is only
reached by the page that requires itself.

**Fairness.**  A worker that can go on does (`Step`, `Working`, `Worker`):
nothing in these functions waits but for a reply.  The cache server drops the
lock of a request that is gone: that is the purpose of the keep-alives
(`ngx_http_dav_module.c:56-61`).  In `CacheLink` a server that keeps a connection
answers on it, since `recv` has no time limit: without that the call, and the
worker, would wait for ever.  A contain_fpm master runs on.  Clients, crashes,
early expiry and faults are never fair.  The specifications in `parts` have invariants
only and need no fairness.  `CHECK_DEADLOCK FALSE` is set where
the bounded environment simply has nothing left to ask for.

### Where the code does other than it says

* `backup_log`: `versi_utili.c:57` documents "0:backup 0x01:finish -1:error", but
  `delete_backup` treats -1 as finished and unlinks the only version.
* `link_split`: `auth_socks.c:318` documents "-1:error 0x00:ok", but a reply in two
  segments makes a later call return 0 with an earlier call's reply.
* `fpm_overlap`: the check of `fpm_socket.c:58` for a backend that listens is not
  repeated before the unlink.
* `uploads`: `qcgireq.c:115` documents that files older than a number of seconds are
  removed; `_upload_clear_base` (`qcgireq.c:641`) removes every file that is not dated
  that far in the future, also one that is still being written.

Seen while modelling and built into the models, without a run of their own:

* two DELETEs of one file, or a PUT to the place a MOVE or COPY is to fill, leave a capacity
  file that is wrong for ever, also past zero to almost 2^64: the tree is looked at before the
  lock (`ngx_http_dav_module.c:434`, 706, 960); `CapacitySound` excepts these spaces (`raced`);
* a `rename` that fails with anything but EXDEV counts as a finished backup
  (`versi_utili.c:96`); `BackupsSound` is therefore checked without that failure;
* the -1 of the first `delete_backup` is returned as 0 (`dav_cloud.c:180`);
* two files of one name deleted from two directories in one second share one
  backup (`stri_utili.h:65`); the version store is checked with one directory;
* `cloud_delete` goes on for ever while reads of the file fail (`file_utili.c:45`,
  `dav_cloud.c:181`), the lock of the space held; `Finishes` says that nothing else keeps it;
* a `vfork` that fails falls through into the code of the child
  (`process_cycle.c:77`), `ForkFails`;
* a lost grant for a COPY after a request of another user makes the unlock
  publish that user's anchor (`dav_cloud.c:118-121`), so `PublishedExists`
  does not hold with `statusLost`; `ForeignAnchorOnlyByCopy` says it is the one way;
* with early expiry (`expire`) neither `OneWriter` nor what rests on it holds;
  without a log (`nolog`) an anchor's offset is an uninitialised number;
* a failed `check_capacity` is told to the client as a full pool (`dav_cloud.c:88`), a
  refused connect leaves its socket open (`auth_socks.c:480`), `select` uses up the
  pause between restarts (`process_cycle.c:145`), a negative `fork_count` starts workers
  without end (`process_cycle.c:109`): none is a state of a model;
* `fill_invoke_fun` answers with the name it changed, which its caller takes for an
  error (`csp_contain/file_utili.c:86`): a page whose name has a dot ends the start,
  although line 73 documents the change; `DottedNamesServed` states it;
* a page of one process clears the new, still empty session files of another
  (`qcgisess.c:263`); `ClearsOldOnly` states what the comment at line 251 says;
* an answer is not whole after a refused cookie, which leaves its line unfinished
  (`qcgires.c:78`), a redirect or the content type that spc puts first, which headers may
  follow, an error page, which prints headers of its own past the buffer (`:257-275`), and
  a download, whose file goes out before its content type (`:232`) although lines 190-192
  promise what a direct link gives: `HeadersWhole` names the five and says that nothing else
  puts anything out of place;
* the headers of a part are read in a loop that does not end with the input
  (`qcgireq.c:338-384`): a body that breaks off before a name, and one whose last parts have no
  name, hang the process.  `NeverStuck` says that no other does; a part without a name that one
  with a name follows is passed over.  After a short write of its rest an upload is as long as it
  was sent and not what was sent (`:598-606`); `UploadsWhole` claims its length then;
* two variants of spawn-fcgi ignore `setgid` and `setuid`, so `KidsConfined` claims the rights
  for the others (`Careful`);
* a page that requires itself keeps spc in its loop (`compile.c:24`), and a page required
  from two places loses its place in the tree of what is used (`invoke.c:31`), so
  `ScopeCovers` is stated for trees of pages.  A page that was compiled for the command line keeps
  the parameters of a page (`put_midd_file`), so a page compiled later that requires it calls it with
  others: `ScopeCovers` covers the calls of functions that were generated as required pages only;
* spc takes a middle file that it cannot read for an empty one (`middle.c:33`, `:55`) and appends
  the names again: `MiddleOnce` claims that a name is twice for no other reason;
* the deletion of a directory records files that were not deleted
  (`ngx_http_dav_module.c:254`), the move of a directory to another device removes what it
  could not copy (`:572`), and the destination is looked at before the lock
  (`:706`): all in `DavTree`, as `blurred` and `spoiled`;
* a file that is deleted or overwritten a second time within `_dele_interv_` is unlinked without a
  backup (`versi_utili.c:45-70`, `:139-142`), and the backup of a file replaces that of a file of
  the same name, in another directory, deleted in the same second (`stri_utili.h:64-65`).  Both
  need no failing call, so the version store does not have every content that was deleted:
  `ContentsKept` claims that a content given up has a version in whose favour it was.

## 4. The proofs

Each theorem has the form `Spec => []Property` and is proved from an inductive invariant, which
adds to the property what its preservation needs.  Hypotheses are only about the constants,
never about the behaviour; where one leaves out faults, it is said what these would do.

### CloudSpace

For any sets of workers and users, any sizes and any bound, and any faults
unless said otherwise:

* `TypeInvariant`, `TypeCorrect`: `Spec => []TypeOK`, from
  `TypeInv`, which adds that a worker in a request knows its user and, once it
  writes, its location (`SpaceKnown`), and that what is flushed has a type
  (`ItemKnown`).  Without these the function applications of the file steps
  would have no type.

Under `LeaseHeld` (no early expiry, no lost grant: with those two workers may take the
same lock):

* `OneWriterAlways`, `WriterOwnsSpaceAlways`.  Neither is
  inductive: `LockInv` adds that a validation belongs to one request and so to
  one worker (`ValidUnique`), that a request which has not queried holds nothing
  (`HolderKnown`), and that a writer's validation is the holder of its user's
  lock (`WriterLocked`).
* `AnchorsDenseAlways`, `PublishedExistsAlways` and, where a space starts with a
  log (`LogThere`), `OffsetsOrderedAlways`.  `JournalInv` adds
  that what `addi_anchor` read is still true when it appends (`AddiReadFresh`,
  by `LockInv`), and that an honoured validation goes with the location and an
  anchor of the space it locks, also when the worker has moved on
  (`HolderAtHome`).
* `SpaceInvAlways`: the two strengthened invariants together, as `space_faults` checks them.
* `ImplementsJournalAlways` (also under `LogThere`): `CloudSpace` implements
  `SpaceJournal` for every space.  Given `SpaceInv`, each step maps to `Lock`, `Record`,
  `AddAnchor` or `Unlock` of one space, or to a stutter; that an anchor is cut from
  the end of the last one up to the end of the log is `AddiReadFresh`.

On top of `SpaceInv`, with fewer faults:

* `LogReadableAlways`, for the faults in `LogFaults`: the others lose a record, the lock or the
  log.  `LogInv` adds that a log ends with an `EXIST` exactly while a worker has the other half
  of the pair in hand (`PairsKept`), and that from its anchor to its publication a worker adds
  no record (`Covered`).
* `CapacitySoundAlways`, for the faults in `CapacityFaults`: the others change the tree and record
  nothing, or lose a record, a worker or the lock.  It is about the spaces where no request acted
  on an outdated look (`raced`): of the others only that they stay in `raced` and keep
  the rest of the invariant is used.  `CapInv` says how far
  the tree is from the counter in the middle of a request (`Balanced`), that what was read from
  the capacity file is still true when it is written (`CapaFresh`), and how much a request may
  have added since the pool was last found not full (`Bounded`).  `PoolFits` assumes that a pool
  and the files of one request fit the word that counts them: `check_capacity` adds
  before it compares, so with less room the sum would wrap around.

Each step is one lemma per group of actions; steps that touch neither log nor
index nor a lock are one lemma (`Calm`, `Untouched`).

### DeleteBackup

* `RecordIsMineAlways`, `ErrorMeansKeptAlways`, whatever fails, from `CallInv`: while
  `cloud_delete` works on a file, the file is there (`StillThere`).
* `BackupsSoundAlways`, `WholeIsKeptAlways`, where workers may die, reads may fail and the log may
  not be writable (`Mild`); `NothingLostAlways`, where workers may die and reads may fail
  (`NoErrors`).
  `backup_log` shows that the last needs the log.
  `BackupInv` says of every day's log that it is in the order of time (`InOrder`), that a backup
  of this second is marked unless it is the one of the call under way (`OthersMarked`), and what
  the call may rely on at each stage: that the record it finds is its own, and that the copy it
  goes on with has the first blocks of its own file and nothing else (`OwnCopy`).  This is where
  a resumption after a crash would go wrong, since it is the same second only by chance.
  Both need `NamesApart`: a backup is named by the name of the file and the second, not by its
  directory, so two files of one name in two directories share it.

### The other modules

For all values of their constants that their assumptions allow, and all faults they model:

* `OneConnectionAlways`, `RequestsGoHomeAlways` (`CacheLinkProofs`), from
  `LinkInv`.  It adds that the call under way is about the user the worker remembers
  (`CallKept`), that the address is that user's server and every connection leads there
  (`LinkHome`), and that nothing is connected while a connect is under way (`NotTwice`);
  the last one makes a reconnection leave one connection and not two.
* `RepliesSoundAlways`, `ServedAlways` (`CacheLinkProofs`), from `FlowInv`.  For each request,
  what was served, what waits to be, and the sends that its call has left come to two at most
  (`Sends`).  While replies come whole, or until a call returns an error, a
  connection holds nothing but the call's own request or reply, besides the end of an
  earlier reply (`InOrder`, `Settled`): so what is received is one's own.
* `OneListenerAlways`, `FileKeptAlways` (`FpmMasterProofs`), from `ListenInv`: workers and
  listening come after the start (`ServesLate`), starts that do not overlap are one at a
  time (`OneStarts`), and between its probe and its listen a master is alone and its
  file its own (`ProbedAlone`).
* `SupervisedAlways` (`FpmMasterProofs`), from `WorkersInv`: pids are given in sequence, so a
  spawn adds one worker, and a master that has not come to its workers has none.
  `FilesSoundAlways`, from `FilesInv`: the masters start in their order, and without an overlap
  the last one has its workers in the pid file (`LastInFile`).
* `SpawnInvAlways`, `KidsConfinedAlways`, `SpawnTidyAlways` (`SpawnFcgiProofs`), for all four
  variants and every command line.  `SpawnInv` follows the order of the stages: the descriptors
  are taken lowest first (`FdsInOrder`), the rights are gone once their stage is past, which `-S`
  moves (`RightsDropped`), the socket file is one's own exactly from the bind on
  (`NotBoundYet`), a pid is never written behind another (`PidsApart`), the children with
  those still to be forked are never more than asked for (`Counted`), and in the daemon, while
  all deaths are core dumps and forks succeed, never fewer (`NoneMissing`).
* `NoneMixedAlways`, `SessionFilesAlways` (`QdecoderProofs`).  `IdKnown` adds that whoever
  looks at the files of a session knows its id; `CalmInv` that a request saves its own id and
  interval (`Own`), and that a storage without a timeout file is always seen to by a
  process that has not finished (`SeenTo`).
* `HeadersWholeAlways` (`QdecoderProofs`).  `ResInv` says of the buffer alone that only text
  follows the page's own content type (`TypeLast`), that there is one content type, the page's own
  only while its entry is there (`TypeOnce`), and that a cookie which stopped within its line was
  refused (`CutCookie`); of what was printed, that a file is described once and then the buffer
  has its type (`FileOnce`).  The claims on `Answer` follow by where each piece comes from.
* `PoolSoundAlways` (`PageServerProofs`), for any sizes, limits and alignment that
  `PoolAssumption` allows.  `PoolInv` adds that each block is filled between its header and its
  end (`BlocksFit`), that every piece lies in the part that is filled (`PiecesFit`), and that the
  list of large memory has each piece once and none that is still to come (`LargeKept`).  A
  search over the blocks in the middle of a call keeps the same (`Fit`).  The alignment enters
  through a few lemmas: `Up(n)` is the least multiple that is not below `n`.
* `OneNodeAlways`, `HmapIsAFunctionAlways` (`PageServerProofs`).  `HmapInv` says that a chain has
  the nodes of its own keys, each once; `HmapCounted` adds that the count is the length of the
  walk over all chains, which changes by what one chain does.
* `PoolResetInTimeAlways` (`PageServerProofs`), from `RateInv`: there was a request at which the
  mask was zero, at none since was it, and no more are held than came since (`SinceReset`).
  That the mask of n - 1 is zero again within n requests is a lemma about `BitAnd`: between
  r and r + n some number has every bit of n - 1 clear, whether n is a power of 2 or not.
* `PagesServedAlways` (`PageServerProofs`), from `ContainInv`.  It says that the list has the pages
  of the document, the last one first (`Listed`), that a library is held once for each run of
  its entries, as far as they have been opened or not yet closed (`HeldFor`, `Runs`), and that the map answers
  with the last entry that went into it (`MapsTo`): so reading backwards and overwriting together
  make the page named first the one that answers.
* `SpcBuiltAlways` (`PageServerProofs`), from `SpcInv`, is `AllBuilt` and `MiddleOnce` of
  `SpcSound`.  While a page is collected, what is done has its section in the list and a
  section has a line for all that its page requires (`LinesKept`); so when no line is left undone the
  sections are closed under requiring (`AllDone`).  A listed name is written or cannot be
  (`NamesKept`), and the list goes on from what was read of the middle file (`MiddleFirst`), so that a
  flush repeats what it could not read and nothing else (`FlushedKept`).
* `ListSoundAlways` (`QdecoderProofs`), from `EntryInv`: there is a sequence of objects, each
  once, along which the links lead from first to last (`Holds`), its length is num (`Counted`), and a walk
  over an undisturbed list is at a place of that sequence, having met what it looks for up to
  there (`WalkAt`).  `LinkedHolds`, `RelinkedHolds` and `LinkedAllHolds` are what putting,
  removing and loading do to such a sequence, and `ChainIs` that the links read back give it.
* `RequestKeptAlways` (`QdecoderProofs`), from `ReqInv`, is `NeverStuck` and `UploadsWhole` of
  `RequestWhole`, for every body.  What is left of stdin is a rest of the body; if each of its
  boundaries has a name somewhere behind it (`AllNamed`), one is still to come wherever a name is
  looked for, whatever is read as headers meanwhile, and a boundary was just read where the next
  part is due (`LineSound`).  The file of an upload and the buffer together are the value read so
  far, and with short writes have its length (`Adds`), and no two processes have one upload
  (`DiskSound`).  `RequestAssumption` says nothing of what a client puts into a body.
* `LockGivenBackAlways`, `DavSoundAlways` (`DavTreeProofs`), under `TreeAssumption`: at the start
  whatever is there lies in directories.  The first follows each handler to its end, over all
  its errors.  `DavInv` adds that the tree keeps that form (`Rooted`) and what a handler relies
  on where it changes files (`JobSound`): the content it is about to replace is counted as
  spoiled (`Spoilt`), a walk goes down through directories it did not leave for later
  (`WalkSound`), and where the entries go that a MOVE or COPY has yet to see there is no file
  (`TargetsFree`), which is why a walk never overwrites.  What a deletion takes is in the version
  store afterwards, or given up for a version, or spoiled (`DeletionBackups`).  `ReplaySound` allows for the record
  that is due between a change and its note in the log.
* `EntriesTrueAlways` (`DavTreeProofs`), of `DavExt` over `DavTree`: a finished listing has no path
  twice, and has as there every entry that was there throughout.  `FindInv` adds that what is
  left of a directory was not reported yet, and that what was there throughout is either left or
  reported; it needs `Rooted`, by which an entry that is opened is a path of its own.
* `ListingTrueAlways` (`DavTreeProofs`) adds that the body is understood, however it is cut into
  buffers.  `AskedInv` says that a listing answered 207 had a body of XML and remembers what
  `ContextOf` reads from it; `ContextIs` says what that is, by an induction over the events: the
  bits that are set are those of the elements that are open.  It needs `Proper`: elements that are
  closed, none within one of its own name, since a bit that is toggled twice is clear, and at most
  one of the three asks, since `propname`, `allprop` and `prop` are remembered together.

Induction over data.  Where a property says what a function collects from a sequence (the walk
over a map, the list of a document, the links of a list, the bits of a number, the events of a
body, the lines of a page), the induction
theorems of the library are of no use, as they take an operator as a parameter.  `Induction` and
`InductionUpTo` are stated about a set of numbers instead and follow from the well-foundedness of
`<`; a lemma puts the numbers for which it holds into a set and shows that the set is all of them.
Recursion is a recursive function in a LET, whose existence is such an induction as well
(`PicksUpTo`, `AfterUpTo`).

What the attempts corrected in the models: `cloud_mkdir_with_path` makes directories only where
nothing but directories is in the way, and the root counts among the ancestors; an entry whose
name is recorded wrongly (an escape in the URI) blurs its path in the walks of MOVE and COPY as
it does in PUT; a directory made at the destination after the checks is taken along by
`cloud_delete`.

### Only model-checked

* Liveness (`LockReleased`, `Finishes`, `Returns`, `Replaced`): out of the prover's reach, as it
  needs `ENABLED`.
* `RequestRead` in `RequestWhole`: the pairs and parts of a request come out as its client meant
  them.  This is about what the encoding of a client and the parser make of each other, symbol
  by symbol, and the encoding is given by the instances only.
* `ScopeCovers` in `SpcSound`: it says what is carried up a tree of pages of any depth, which a
  search by text has put together.
* `ForeignAnchorOnlyByCopy`: it is about one worker.  With a second one, which read such an
  anchor before another request replaced it, the anchor would be published again.

## 5. Not modelled

* Authentication: the one user name and password that a worker remembers.  It
  has little state; `CloudSpace` takes the user of a request as given.
* Texts: Base64, MD5, URI decoding, the XML that is written, the generated C++,
  the syntax of configuration files, and logs.  What a text decides is kept, as
  a member of a small set.
* The order of names in a directory, the clock but in `DeleteBackup`, `QSession` and
  `QRequest`, and a lack of memory but where a handler of `DavTree` goes on after one.
* The cache server, but for what `dav_cloud` relies on.
* `modify_backup`, which is never called; pcc, which spc replaces; the trial programs.

## 6. Plan

1. Theorems: `ScopeCovers`; `RequestRead`, with the encoding of a client as an operator.
2. `AuthCache`: the remembered user and password against accounts that change.
3. One specification of `DavTree` with the lock of `CloudSpace` in place of its mutex.
