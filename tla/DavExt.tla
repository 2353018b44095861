------------------------------- MODULE DavExt -------------------------------
(***************************************************************************)
(* PROPFIND and OPTIONS (ngx_http_dav_ext_module.c): the body of a         *)
(* PROPFIND is folded into what the client asks for, then the resource and *)
(* the entries of a directory are reported one after the other, each with  *)
(* a stat of its own.  No lock is taken: the handlers of DavTree change    *)
(* the tree between two entries.                                           *)
(***************************************************************************)
EXTENDS DavTree

CONSTANTS Reader,       \* the workers that serve PROPFIND and OPTIONS
          Finds,        \* the requests they may get
          ExtMethods,   \* dav_ext_methods
          PropNames     \* the properties the module knows

\* What the parser tells of a buffer: where an element starts or ends, with its
\* name split at the colons, or that this is no XML.
Event  == [what : {"start", "end"}, name : Seq(STRING)] \cup [what : {"broken"}]
Buffers == Seq([events : Seq(Event), last : BOOLEAN])

ASSUME FindAssumption ==
  \A q \in Finds : q.method = "PROPFIND" => q.uri \in Path /\ q.body \in Buffers

VARIABLE finds          \* reader -> the request it serves, or the last one

ElementNodes == {"propfind", "prop", "propname", "allprop"}
NoContext    == [nodes |-> {}, props |-> {}, propfind |-> "none"]

-----------------------------------------------------------------------------
(* The body *)

\* ngx_http_dav_ext_xmlcmp: the part after the last colon counts.
xmlcmp(name) == name[Len(name)]

\* The node of an element is toggled, at its start and at its end.
start_xml_elt(ctx, name) ==
  IF xmlcmp(name) \notin ElementNodes THEN ctx
  ELSE [ctx EXCEPT !.nodes = (@ \ {xmlcmp(name)}) \cup ({xmlcmp(name)} \ @)]

\* What an element ending here asks for.
Chosen(ctx, name) ==
  IF "propfind" \notin ctx.nodes THEN ctx
  ELSE [ctx EXCEPT
    !.props = IF "prop" \in ctx.nodes THEN @ \cup ({xmlcmp(name)} \cap PropNames) ELSE @,
    !.propfind = IF "allprop" \in ctx.nodes THEN "all"
                 ELSE IF "propname" \in ctx.nodes THEN "names"
                 ELSE IF "prop" \in ctx.nodes THEN "selected" ELSE @]

\* Mutant of end_xml_elt: the element is left before it is looked at.
EndLeavesFirst(ctx, name) == Chosen(start_xml_elt(ctx, name), name)

end_xml_elt(ctx, name) == start_xml_elt(Chosen(ctx, name), name)

XmlEvent(ctx, e) == IF e.what = "start" THEN start_xml_elt(ctx, e.name) ELSE end_xml_elt(ctx, e.name)

\* The buffers that are parsed: the loop stops at the one marked last.
ParsedBuffers(body) ==
  LET ends == {i \in 1 .. Len(body) : body[i].last}
      n    == IF ends = {} THEN Len(body) ELSE (CHOOSE i \in ends : \A k \in ends : i <= k) - 1
  IN  SubSeq(body, 1, n)

EventsOf(body) ==
  LET bufs == ParsedBuffers(body)
      read[k \in 0 .. Len(bufs)] == IF k = 0 THEN << >> ELSE read[k - 1] \o bufs[k].events
  IN  read[Len(bufs)]

Broken(body) == \E i \in 1 .. Len(EventsOf(body)) : EventsOf(body)[i].what = "broken"

ContextOf(body) ==
  LET es == EventsOf(body)
      ctx[k \in 0 .. Len(es)] == IF k = 0 THEN NoContext ELSE XmlEvent(ctx[k - 1], es[k])
  IN  ctx[Len(es)]

-----------------------------------------------------------------------------
(* The answer *)

Quiet(w) == finds[w].at \in {"idle", "done"}

\* The depth header: all but 0 reads one level.
OneLevel(q) == q.depth # "0"

\* send_propfind_item: names alone need no stat.
ItemStatus(f, p) == IF f.ctx.propfind = "names" \/ p \in DOMAIN davTree THEN 200 ELSE 404

\* The properties of an item that is answered 200 (send_propfind_atts).
ItemProps(ctx) == IF ctx.propfind = "selected" THEN ctx.props ELSE PropNames

Reported(f, p) == [f EXCEPT !.items = Append(@, [path |-> p, status |-> ItemStatus(f, p)]),
                            !.left = @ \ {p}]

\* The module declines what dav_ext_methods leaves out, and answers OPTIONS
\* at once.
ExtAnswer(w, q) ==
  /\ q.method \notin ExtMethods \/ q.method = "OPTIONS"
  /\ finds' = [finds EXCEPT ![w].at = "done", ![w].q = q,
                            ![w].answer = IF q.method \in ExtMethods THEN 200 ELSE 405]
  /\ UNCHANGED davVars

\* A body that is no XML is answered 500, without content.
FindBroken(w, q) ==
  /\ q.method = "PROPFIND" /\ q.method \in ExtMethods
  /\ Broken(q.body)
  /\ finds' = [finds EXCEPT ![w].at = "done", ![w].q = q, ![w].answer = 500]
  /\ UNCHANGED davVars

\* The resource itself comes first, whether it is there or not.
FindSelf(w, q) ==
  /\ q.method = "PROPFIND" /\ q.method \in ExtMethods
  /\ ~Broken(q.body)
  /\ finds' = [finds EXCEPT ![w] =
       Reported([@ EXCEPT !.at = IF OneLevel(q) THEN "open" ELSE "close",
                          !.q = q, !.answer = 207, !.ctx = ContextOf(q.body)], q.uri)]
  /\ UNCHANGED davVars

\* opendir, which may fail: then there are no entries.
FindOpen(w) ==
  /\ finds[w].at = "open"
  /\ \/ /\ IsDir(davTree, finds[w].q.uri)
        /\ LET all == {Append(finds[w].q.uri, n) : n \in Entries(davTree, finds[w].q.uri)}
           IN  finds' = [finds EXCEPT ![w].at = "list", ![w].left = all, ![w].steady = all]
     \/ finds' = [finds EXCEPT ![w].at = "close"]
  /\ UNCHANGED davVars

FindItem(w, p) ==
  /\ finds[w].at = "list" /\ p \in finds[w].left
  /\ finds' = [finds EXCEPT ![w] = Reported(@, p)]
  /\ UNCHANGED davVars

FindClose(w) ==
  /\ finds[w].left = {} /\ finds[w].at \in {"list", "close"}
  /\ finds' = [finds EXCEPT ![w].at = "done"]
  /\ UNCHANGED davVars

\* No memory for a name: the answer breaks off.
FindBreaksOff(w) ==
  /\ finds[w].at = "list" /\ finds[w].left # {}
  /\ finds' = [finds EXCEPT ![w].at = "done", ![w].answer = 0]
  /\ UNCHANGED davVars

-----------------------------------------------------------------------------
NoFind == [at |-> "idle", q |-> [method |-> "OPTIONS"], answer |-> 0, ctx |-> NoContext,
           items |-> << >>, left |-> {}, steady |-> {}]

ExtInit == finds = [w \in Reader |-> NoFind]

FindStep(w) ==
  \/ finds[w].at = "idle" /\ \E q \in Finds : ExtAnswer(w, q) \/ FindBroken(w, q) \/ FindSelf(w, q)
  \/ FindOpen(w) \/ (\E p \in finds[w].left : FindItem(w, p)) \/ FindClose(w) \/ FindBreaksOff(w)

\* A handler of DavTree changes the tree under the listings; what it removes
\* was not there all along.
TreeChange(w) ==
  /\ DavStep(w)
  /\ finds' = [v \in Reader |-> [finds[v] EXCEPT !.steady = @ \cap DOMAIN davTree']]

ExtNext == (\E w \in Worker : TreeChange(w)) \/ (\E w \in Reader : FindStep(w))

ExtSpec == DavInit /\ ExtInit /\ [][ExtNext]_<<davVars, finds>>

-----------------------------------------------------------------------------
(* Properties *)

\* Event i of es lies inside an element n.
Inside(es, i, n) ==
  LET upTo(what) == {j \in 1 .. i - 1 : es[j].what = what /\ xmlcmp(es[j].name) = n}
  IN  Cardinality(upTo("start")) > Cardinality(upTo("end"))

\* What a body asks for, read off its nesting.
AskedProps(es) == {xmlcmp(es[i].name) : i \in {k \in 1 .. Len(es) :
                     es[k].what = "end" /\ Inside(es, k, "propfind") /\ Inside(es, k, "prop")}}
                  \cap PropNames
Asks(es, n) == \E i \in 1 .. Len(es) : Inside(es, i, "propfind") /\ Inside(es, i, n)
AskedMode(es) == IF Asks(es, "allprop") THEN "all" ELSE IF Asks(es, "propname") THEN "names"
                 ELSE IF Asks(es, "prop") THEN "selected" ELSE "none"

\* A body as the protocol has it: the elements that count are closed and lie in
\* none of their own name, and at most one of the three asks.
Proper(es) ==
  /\ \A i \in 1 .. Len(es) : xmlcmp(es[i].name) \in ElementNodes =>
       (es[i].what = "start" <=> ~Inside(es, i, xmlcmp(es[i].name)))
  /\ \A n \in ElementNodes : ~Inside(es, Len(es) + 1, n)
  /\ \A m, n \in ElementNodes \ {"propfind"} : Asks(es, m) /\ Asks(es, n) => m = n

BodyUnderstood(f) ==
  /\ f.ctx.propfind = AskedMode(EventsOf(f.q.body))
  /\ ItemProps(f.ctx) = IF f.ctx.propfind = "selected"
                        THEN AskedProps(EventsOf(f.q.body)) ELSE PropNames
EachOnce(f) == \A i, k \in 1 .. Len(f.items) : f.items[i].path = f.items[k].path => i = k
SteadyReported(f) == \A p \in f.steady : \E i \in 1 .. Len(f.items) :
                       f.items[i].path = p /\ f.items[i].status = 200

\* A finished PROPFIND answered what a proper body asked for, reported no path
\* twice, reported as there everything that was there throughout, and nothing
\* as missing that was.
Listed(w) == finds[w].at = "done" /\ finds[w].answer = 207
ListingTrue ==
  \A w \in Reader : Listed(w) =>
    /\ Proper(EventsOf(finds[w].q.body)) => BodyUnderstood(finds[w])
    /\ EachOnce(finds[w]) /\ SteadyReported(finds[w])
=============================================================================
