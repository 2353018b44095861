------------------------------ MODULE MCDavExt ------------------------------
(* Instances of DavTree and DavExt for TLC: a directory with a file and a    *)
(* special node, and two files beside it; requests that change each of them  *)
(* or are refused, and listings whose bodies come in one or two buffers.     *)
EXTENDS DavExt, TLC

MCTree == <<>> :> DirNode @@ <<"d">> :> DirNode @@ <<"d", "a">> :> FileNode(101)
          @@ <<"d", "s">> :> SpecNode @@ <<"b">> :> FileNode(102) @@ <<"a">> :> FileNode(103)

PutB == [method |-> "PUT", uri |-> <<"b">>, body |-> FALSE, slash |-> FALSE,
         destSlash |-> FALSE, how |-> "path", dest |-> <<"a">>, depth |-> "none",
         over |-> "none", escaped |-> FALSE]
Move == [PutB EXCEPT !.method = "MOVE"]
Copy == [PutB EXCEPT !.method = "COPY"]
Delete == [PutB EXCEPT !.method = "DELETE"]
Mkcol == [PutB EXCEPT !.method = "MKCOL"]
Changes ==
    {PutB, [PutB EXCEPT !.uri = <<"d", "a">>], [PutB EXCEPT !.uri = <<"e", "a">>],
     Delete, [Delete EXCEPT !.uri = <<"d">>], [Delete EXCEPT !.escaped = TRUE],
     [PutB EXCEPT !.uri = <<"d">>], [PutB EXCEPT !.uri = <<"b", "x">>],
     [Mkcol EXCEPT !.uri = <<"e">>], [Move EXCEPT !.dest = <<"a", "x">>],
     Move, [Move EXCEPT !.dest = <<"d", "x">>], [Move EXCEPT !.escaped = TRUE],
     [Move EXCEPT !.uri = <<"d">>, !.dest = <<"e">>],
     [Move EXCEPT !.uri = <<"d">>, !.dest = <<"d", "e">>],
     Copy, [Copy EXCEPT !.uri = <<"d">>, !.dest = <<"e">>],
     [Copy EXCEPT !.uri = <<"d">>, !.dest = <<"a", "x">>]}
Refused ==
    {[PutB EXCEPT !.slash = TRUE], [Mkcol EXCEPT !.body = TRUE], Mkcol,
     [Move EXCEPT !.how = "other host"], [Copy EXCEPT !.depth = "1"],
     [Copy EXCEPT !.over = "F"], [PutB EXCEPT !.method = "LOCK"]}
MCDavRequests == Changes \cup Refused

Starts(name) == [what |-> "start", name |-> name]
Ends_(name) == [what |-> "end", name |-> name]
Element(name, inner) == <<Starts(name)>> \o inner \o <<Ends_(name)>>
Buffer(events) == [events |-> events, last |-> FALSE]
LastBuffer(events) == [events |-> events, last |-> TRUE]

PropFind(inner) == Element(<<"D", "propfind">>, inner)
Selected == PropFind(Element(<<"D", "prop">>, Element(<<"getetag">>, <<>>))
                     \o Element(<<"x">>, Element(<<"source">>, <<>>)))
AllProps == <<Buffer(PropFind(Element(<<"D", "allprop">>, <<>>)))>>
InTwo == <<Buffer(SubSeq(Selected, 1, 3)), Buffer(SubSeq(Selected, 4, Len(Selected)))>>
NamesOnly == <<Buffer(PropFind(Element(<<"propname">>, <<>>)))>>

FindOf(uri, depth, body) == [method |-> "PROPFIND", uri |-> uri, depth |-> depth, body |-> body]
MCFinds ==
    {[method |-> "OPTIONS"], [method |-> "LOCK"],
     FindOf(<<"d">>, "1", <<Buffer(Selected), LastBuffer(<<>>)>>),
     FindOf(<<"d">>, "1", NamesOnly), FindOf(<<"d">>, "0", AllProps),
     FindOf(<<"b">>, "1", InTwo), FindOf(<<"b">>, "0", <<LastBuffer(Selected)>>),
     FindOf(<<"b">>, "0", <<Buffer(SubSeq(Selected, 1, 3))>>),
     FindOf(<<>>, "0", <<Buffer(<<[what |-> "broken"]>>)>>)}
=============================================================================
