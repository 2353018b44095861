-------------------------------- MODULE Spc --------------------------------
(***************************************************************************)
(* spc, the compiler of pages: for each .csp file of its command line it    *)
(* collects the pages that are required, directly or not, into one list of  *)
(* lines, finds out which variables each of them uses, and writes a C++     *)
(* function per page, whose parameters are these variables and those of the *)
(* pages it requires.  The names of the files written are kept in a list,   *)
(* with -s also in a "middle file" from one run to the next.                *)
(* A page is a sequence of items: [is |-> "require", file, arg], [is |->    *)
(* "html"], [is |-> "code", words] with the words of the code that          *)
(* invoke.c knows, and two errors, "badcomment" and "badhead".              *)
(***************************************************************************)
EXTENDS Naturals, SequencesExt

CONSTANTS File,        \* the names of pages
          CspFiles,    \* those that end in .csp; the .cpp file of f is written f
          Unwritable,  \* those whose .cpp file cannot be written
          Projects,    \* each a function from the files that exist to their items
          Commands,    \* command lines [args, function, middle]: files, -p and -s
          NoArg,       \* the argument of a require without one
          MaxRuns,     \* bound: runs of spc
          MaxLines     \* bound: lines of a list, which a page that requires
                       \* itself would fill without end

\* A sequence of items.
ItemsOfPage(items) ==
    /\ items \in Seq({items[i] : i \in DOMAIN items})
    /\ \A i \in DOMAIN items :
          /\ items[i].is \in {"require", "html", "code", "badcomment", "badhead"}
          /\ items[i].is = "require" => items[i].file \in File

ASSUME SpcAssumption ==
    /\ CspFiles \subseteq File /\ Unwritable \subseteq File
    /\ \A p \in Projects : DOMAIN p \subseteq File /\ \A f \in DOMAIN p : ItemsOfPage(p[f])
    /\ \A c \in Commands : /\ c.args \in Seq(CspFiles)
                           /\ c.function \in BOOLEAN /\ c.middle \in BOOLEAN

VARIABLES pages,     \* the sources: file -> items
          cpp,       \* the generated files: file -> [page, params, calls]
          midFile,   \* the middle file, a sequence of names
          command,   \* the command line
          stage,     \* where main is
          args,      \* the files still to be compiled
          plist,     \* inte_line list: [is, text], lines of code [is, words]
          clanFiles, \* midd_list->clan_file
          lastClan,  \* midd_list->last_clan, as the number of names before it
          runs,
          compiled,  \* history: the files of the command line compiled in this run
          relisted   \* history: the names that a run appended to the middle file
                     \* because it had not read them there

store == <<pages, cpp, midFile>>
midd_list == <<clanFiles, lastClan>>
spcVars == <<store, command, stage, args, plist, midd_list, runs, compiled, relisted>>

SpcInit ==
    /\ pages \in Projects
    /\ cpp = <<>> /\ midFile = <<>>
    /\ command = [args |-> <<>>, function |-> FALSE, middle |-> FALSE]
    /\ stage = "idle" /\ args = <<>> /\ plist = <<>>
    /\ clanFiles = <<>> /\ lastClan = 0
    /\ runs = 0 /\ compiled = {} /\ relisted = {}

-----------------------------------------------------------------------------
\* open_middle_file: the names of earlier runs; none of them if the file cannot be
\* opened and those before the first failing read, either without an error.
open_middle_file(c) ==
    IF c.middle THEN {SubSeq(midFile, 1, n) : n \in 0 .. Len(midFile)} ELSE {<<>>}

\* handle_param: there must be files and every file must exist.
SpcStart(c) ==
    /\ runs' = runs + 1 /\ command' = c
    /\ compiled' = {}
    /\ IF c.args = <<>> \/ \E i \in DOMAIN c.args : c.args[i] \notin DOMAIN pages
       THEN UNCHANGED <<stage, args, midd_list>>
       ELSE /\ stage' = "next" /\ args' = c.args
            /\ clanFiles' \in open_middle_file(c)
            /\ lastClan' = Len(clanFiles')
    /\ UNCHANGED <<store, plist, relisted>>

\* ilist_req: the file itself is the first require of its list.
Require(file, arg) == [is |-> "require", text |-> [file |-> file, arg |-> arg]]
ilist_req(file) == <<Require(file, NoArg)>>

\* cspla_to_clang, for the next file.
NextFile ==
    /\ stage = "next" /\ args # <<>>
    /\ plist' = ilist_req(Head(args))
    /\ stage' = "parse"
    /\ UNCHANGED <<store, command, args, midd_list, runs, compiled, relisted>>

Done(line) == [line EXCEPT !.is = "done"]

\* find_require_undo: the first require not done, 0 without one; later ones of
\* the same text are marked as done, earlier ones are not looked at.
find_require_undo(lines) ==
    SelectInSeq(lines, LAMBDA line : line.is = "require")
LaterMarked(lines, at) ==
    [i \in DOMAIN lines |->
        IF i > at /\ lines[i].is = "require" /\ lines[i].text = lines[at].text
        THEN Done(lines[i]) ELSE lines[i]]

\* parse_cspla_data: a wrong comment is an error, a wrong head section ends the
\* page there and then.
UpTo(items, what) ==
    LET at == SelectInSeq(items, LAMBDA item : item.is = what)
    IN IF at = 0 THEN items ELSE SubSeq(items, 1, at - 1)
Good(items) == UpTo(UpTo(items, "badhead"), "badcomment") = UpTo(items, "badhead")
LineOf(item) == CASE item.is = "require" -> Require(item.file, item.arg)
                  [] item.is = "html" -> [is |-> "html"]
                  [] item.is = "code" -> [is |-> "line", words |-> item.words]
parse_cspla_data(items) ==
    LET kept == UpTo(UpTo(items, "badhead"), "badcomment")
    IN [i \in DOMAIN kept |-> LineOf(kept[i])]

\* build_clang_start and build_clang_end around the lines of a page.
Section(text, items) ==
    <<[is |-> "cfile", text |-> text], [is |-> "start", text |-> text]>>
    \o parse_cspla_data(items) \o <<[is |-> "end"]>>

\* One turn of recursive_parse.  A file that cannot be loaded and a page with an
\* error end the compilation, of this file and of those after it.
ParseOne ==
    /\ stage = "parse"
    /\ LET at == find_require_undo(plist) IN
       IF at = 0 THEN stage' = "build" /\ UNCHANGED plist
       ELSE LET text == plist[at].text
                marked == LaterMarked(plist, at)
            IN IF text.file \notin DOMAIN pages
               THEN stage' = "flush" /\ plist' = marked
               ELSE /\ Len(plist) < MaxLines
                    /\ plist' = [marked EXCEPT ![at] = Done(@)]
                                \o Section(text, pages[text.file])
                    /\ stage' = IF Good(pages[text.file]) THEN "parse" ELSE "flush"
    /\ UNCHANGED <<store, command, args, midd_list, runs, compiled, relisted>>

-----------------------------------------------------------------------------
\* What the words of a line of code tell of the variables that it uses: their
\* names, an output of several arguments, and calls of qdecoder.
have_invoke_param(words) ==
    UNION {CASE w = "_req_" -> {"req", "tpool"} [] w = "_sqlcon_" -> {"sqlcon"}
             [] w = "_tpool_" -> {"tpool"} [] w = "_param_" -> {"param"} :
                w \in words \cap {"_req_", "_sqlcon_", "_tpool_", "_param_"}}
have_multi_param(words) == IF "echo" \in words THEN {"conbuff"} ELSE {}
check_qcig_invoke(words) ==
    UNION {CASE w = "qcgires" -> {"conbuff", "req"} [] w = "qcgisess" -> {"sess"}
             [] w = "qcgisess_init" -> {"conbuff", "req", "sess"} :
                w \in words \cap {"qcgires", "qcgisess", "qcgisess_init"}}
InvokeOf(words) ==
    have_invoke_param(words) \cup have_multi_param(words) \cup check_qcig_invoke(words)
Passed == {"conbuff", "req", "sqlcon", "tpool", "sess", "param"}

\* The tree of requires: nodes [text, invoke, children], the first one the root.
\* find_vtree takes the first node of a text, children before siblings.
Preorder(nodes) ==
    LET below[n \in DOMAIN nodes] ==
            LET kids == nodes[n].children
            IN <<n>> \o FlattenSeq([i \in DOMAIN kids |-> below[kids[i]]])
    IN below[1]
find_vtree(nodes, text) ==
    LET order == Preorder(nodes)
    IN order[SelectInSeq(order, LAMBDA n : nodes[n].text = text)]

\* vtree_addi_children: the new child is the first.
vtree_addi_children(tree, text) ==
    LET new == Len(tree.nodes) + 1
        node == [text |-> text, invoke |-> {}, children |-> <<>>]
    IN IF tree.cur = 0
       THEN [nodes |-> Append(tree.nodes, node), cur |-> new]
       ELSE [tree EXCEPT !.nodes =
                Append([@ EXCEPT ![tree.cur].children = <<new>> \o @], node)]

parse_invoke(lines) ==
    FoldLeft(LAMBDA tree, line :
        CASE line.is = "done" -> vtree_addi_children(tree, line.text)
          [] line.is = "start" ->
                [tree EXCEPT !.cur = find_vtree(tree.nodes, line.text)]
          [] line.is = "end" -> [tree EXCEPT !.cur = 0]
          [] line.is = "line" -> [tree EXCEPT !.nodes[tree.cur].invoke =
                                      @ \cup InvokeOf(line.words)]
          [] line.is \in {"cfile", "html"} -> tree,
        [nodes |-> <<>>, cur |-> 0], lines).nodes

\* Mutant of recursive_invoke: a node gets what its first child uses.
FirstChildInvoke(nodes) ==
    LET all[n \in DOMAIN nodes] ==
            LET kids == nodes[n].children IN
            nodes[n].invoke \cup (IF kids = <<>> THEN {} ELSE all[kids[1]] \ {"param"})
    IN [n \in DOMAIN nodes |-> [nodes[n] EXCEPT !.invoke = all[n]]]

\* recursive_invoke: each node gets what its children use, but for _param_.
recursive_invoke(nodes) ==
    LET all[n \in DOMAIN nodes] ==
            LET kids == nodes[n].children IN
            nodes[n].invoke \cup (UNION {all[kids[i]] : i \in DOMAIN kids} \ {"param"})
    IN [n \in DOMAIN nodes |-> [nodes[n] EXCEPT !.invoke = all[n]]]
create_invoke(lines) == recursive_invoke(parse_invoke(lines))

\* FUNCTION_INVOKE and FUNCTION_START_DECLARE: the arguments of a call and the
\* parameters of a function are those of the same node.
Arguments(nodes, text) == nodes[find_vtree(nodes, text)].invoke \cap Passed

\* conv_to_clang, of the section that starts at line s: its calls.
EndOf(lines, s) == CHOOSE e \in s .. Len(lines) :
                      lines[e].is = "end" /\ \A i \in s .. e - 1 : lines[i].is # "end"
Calls(lines, nodes, s) ==
    {[to |-> lines[i].text.file, passes |-> Arguments(nodes, lines[i].text)] :
        i \in {j \in s .. EndOf(lines, s) : lines[j].is = "done"}}

\* creat_page_clang: the function of a page has the two parameters that
\* csp_contain passes and declares what else the root uses.
creat_page_clang(lines, nodes, s) ==
    [page |-> TRUE, calls |-> Calls(lines, nodes, s),
     params |-> {"sqlcon", "tpool"}
                \cup (nodes[1].invoke \cap {"conbuff", "req", "sess"})]
creat_obje_clang(lines, nodes, s) ==
    [page |-> FALSE, calls |-> Calls(lines, nodes, s),
     params |-> Arguments(nodes, lines[s].text)]

\* put_midd_file: a .cpp name that is listed is not listed and saved again; the
\* file of a page that is not named .csp is the page itself.
PutMidd(out, file, fun) ==
    IF file \in CspFiles
    THEN IF Contains(out.names, file) THEN out
         ELSE [out EXCEPT !.names = Append(@, file),
                          !.cpp = IF file \in Unwritable THEN @
                                  ELSE [f \in DOMAIN @ \cup {file} |->
                                           IF f = file THEN fun ELSE @[f]]]
    ELSE [out EXCEPT !.pages = [@ EXCEPT ![file] = <<[is |-> "html"]>>]]

\* build_clang_page and build_clang_obje: with -p the first section is built as
\* the others are.
Function(lines, nodes, s) ==
    IF ~command.function /\ \A i \in 1 .. s - 1 : lines[i].is # "start"
    THEN creat_page_clang(lines, nodes, s) ELSE creat_obje_clang(lines, nodes, s)

Saved(lines) ==
    LET nodes == create_invoke(lines)
        out[k \in 0 .. Len(lines)] ==
            IF k = 0 THEN [names |-> clanFiles, cpp |-> cpp, pages |-> pages]
            ELSE IF lines[k].is # "start" THEN out[k - 1]
            ELSE PutMidd(out[k - 1], lines[k].text.file, Function(lines, nodes, k))
    IN out[Len(lines)]

Build ==
    /\ stage = "build"
    /\ clanFiles' = Saved(plist).names /\ cpp' = Saved(plist).cpp
    /\ pages' = Saved(plist).pages
    /\ compiled' = compiled \cup {Head(args)} /\ args' = Tail(args)
    /\ stage' = "next"
    /\ UNCHANGED <<midFile, command, plist, lastClan, runs, relisted>>

AllFiles ==
    /\ stage = "next" /\ args = <<>>
    /\ stage' = "flush"
    /\ UNCHANGED <<store, command, args, plist, midd_list, runs, compiled, relisted>>

\* flush_midd_file: the names after those that were read go to the end of the
\* middle file, unless it cannot be opened.
NewNames == SubSeq(clanFiles, lastClan + 1, Len(clanFiles))
Unread == SubSeq(midFile, lastClan + 1, Len(midFile))
Flush ==
    /\ stage = "flush" /\ stage' = "idle"
    /\ \/ UNCHANGED <<midFile, relisted>>
       \/ /\ command.middle
          /\ midFile' = midFile \o NewNames
          /\ relisted' = relisted \cup (ToSet(NewNames) \cap ToSet(Unread))
    /\ UNCHANGED <<pages, cpp, command, args, plist, midd_list, runs, compiled>>

\* spc is killed; what it has saved stays.
Killed ==
    /\ stage # "idle" /\ stage' = "idle"
    /\ UNCHANGED <<store, command, args, plist, midd_list, runs, compiled, relisted>>

SpcNext ==
    \/ stage = "idle" /\ runs < MaxRuns /\ \E c \in Commands : SpcStart(c)
    \/ NextFile \/ ParseOne \/ Build \/ AllFiles \/ Flush \/ Killed

SpcSpec == SpcInit /\ [][SpcNext]_spcVars

-----------------------------------------------------------------------------
\* The pages that a page requires, directly or through others.
RequiredBy(f) == LET items == UpTo(pages[f], "badhead")
                     at == {i \in DOMAIN items : items[i].is = "require"}
                 IN {items[i].file : i \in at}
HoldsRequired(S) == \A h \in S \cap DOMAIN pages : RequiredBy(h) \subseteq S
Reached(f) == {g \in File : \A S \in SUBSET File : f \in S /\ HoldsRequired(S) => g \in S}

\* All pages of the project are named .csp and a page is required from at most
\* one place.
NoneShared ==
    \A f \in DOMAIN pages :
        LET places == UNION {{<<g, i>> : i \in DOMAIN pages[g]} : g \in DOMAIN pages}
            requires == {p \in places : LET item == pages[p[1]][p[2]]
                                        IN item.is = "require" /\ item.file = f}
        IN f \in CspFiles /\ \A p, q \in requires : p = q

\* A file of the command line that was compiled has its function and those of
\* all pages it reaches in the list of files and, if they can be written, on the
\* disk, whether this run or an earlier one has generated them.
AllBuilt ==
    \A f \in compiled : \A g \in Reached(f) \cap CspFiles :
        Contains(clanFiles, g) /\ (g \in Unwritable \/ g \in DOMAIN cpp)

\* A name is twice in the middle file, where the linker that takes the names from
\* it finds its function twice, only if a run that failed to read it there (fopen
\* or fgets, which are no errors) compiled its page again; no run that has read
\* the file adds a name again, through files that have names twice already, runs
\* that are killed and runs that cannot append.
MiddleOnce ==
    \A i, j \in DOMAIN midFile :
        midFile[i] = midFile[j] => i = j \/ midFile[i] \in relisted

\* In a project of .csp pages of which none is required from two places, a
\* generated function has every variable that it passes to a function it calls,
\* and passes what that function takes, if that one was generated as a required
\* page, also by another run.  A page that was compiled for the command line first
\* keeps the parameters of a page, and a later compilation that requires it passes
\* others: such calls are reached, and nothing is claimed of them.
ScopeCovers ==
    DOMAIN cpp # {} /\ NoneShared => \A f \in DOMAIN cpp : \A call \in cpp[f].calls :
                /\ call.passes \ {"param"} \subseteq cpp[f].params
                /\ call.to \in DOMAIN cpp /\ ~cpp[call.to].page
                       => call.passes = cpp[call.to].params

SpcSound == AllBuilt /\ MiddleOnce /\ ScopeCovers
=============================================================================
