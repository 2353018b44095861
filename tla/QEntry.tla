------------------------------- MODULE QEntry -------------------------------
(***************************************************************************)
(* The linked list of qdecoder/qentry.c, in which the pages get the query   *)
(* of a request and keep a session: objects with a name and data, linked by *)
(* next, under first, last and num.  Several objects may have one name.     *)
(* cursor is the caller's qentobj_t of a walk with getnext.                 *)
(***************************************************************************)
EXTENDS Integers, Sequences, FiniteSets

CONSTANTS Name, Value,
          Lower,       \* Name -> Name, what strcasecmp makes equal
          MaxObjects,  \* bound: objects that are ever made
          MaxSaved,    \* bound: objects of a list that is saved
          NoObject, NoValue

ASSUME EntryAssumption ==
    /\ Lower \in [Name -> Name] /\ NoValue \notin Value
    /\ NoObject \notin Nat /\ MaxObjects \in Nat /\ MaxSaved \in Nat

VARIABLES objs,      \* the allocated objects: id -> [name, data, next]
          first, last, num,
          made,      \* number of objects made
          cursor,    \* [on, fresh, next, name]: a walk for a name, or for all
          met,       \* history: the objects the walk has met
          disturbed, \* history: the list was cut or turned during the walk
          disk       \* the file of save: sequence of [name, data]

entryVars == <<objs, first, last, num, made, cursor, met, disturbed, disk>>
listVars == <<objs, first, last, num>>

All == "all"
Off == [on |-> FALSE, fresh |-> TRUE, next |-> NoObject, name |-> All]

EntryInit ==   \* qEntry
    /\ objs = <<>> /\ first = NoObject /\ last = NoObject
    /\ num = 0 /\ made = 0
    /\ cursor = Off /\ met = <<>> /\ disturbed = FALSE
    /\ disk = <<>>

\* The elements of s that are in S, in their order.
Only(s, S) ==
    LET pick[k \in 0 .. Len(s)] ==
            IF k = 0 THEN <<>>
            ELSE IF s[k] \in S THEN Append(pick[k - 1], s[k]) ELSE pick[k - 1]
    IN pick[Len(s)]

\* The objects in the order of the links, from id on.
Chain(heap, id) ==
    LET walk[n \in 0 .. MaxObjects] ==
            IF n = 0 THEN <<>>
            ELSE LET w == walk[n - 1]
                     i == IF w = <<>> THEN id ELSE heap[w[Len(w)]].next
                 IN IF i \in DOMAIN heap THEN Append(w, i) ELSE w
    IN walk[MaxObjects]

Matching(name) == {i \in DOMAIN objs : objs[i].name = name}

\* The list of the objects kept, in that order.
Relinked(kept) ==
    LET n == Len(kept)
    IN [objs |-> [i \in {kept[k] : k \in 1 .. n} |->
                    LET k == CHOOSE k \in 1 .. n : kept[k] = i
                    IN [objs[i] EXCEPT !.next = IF k = n THEN NoObject ELSE kept[k + 1]]],
        first |-> IF n = 0 THEN NoObject ELSE kept[1],
        last |-> IF n = 0 THEN NoObject ELSE kept[n]]

Others(name) == Only(Chain(objs, first), DOMAIN objs \ Matching(name))

\* Mutant of Removed: last stays where it was.
RemovedLastStays(name) == [Relinked(Others(name)) EXCEPT !.last = last]

\* _remove: every object of the name is freed; the links and last follow.
Removed(name) == Relinked(Others(name))
Here == [objs |-> objs, first |-> first, last |-> last]

\* An object at the end of the list l: the two cases of "make chain link".
Linked(l, id, name, data) ==
    LET new == [name |-> name, data |-> data, next |-> NoObject]
        heap == [i \in DOMAIN l.objs \cup {id} |-> IF i = id THEN new ELSE l.objs[i]]
    IN IF l.first = NoObject
       THEN [objs |-> heap, first |-> id, last |-> id]
       ELSE [objs |-> [heap EXCEPT ![l.last].next = id], first |-> l.first, last |-> id]

Become(l) == objs' = l.objs /\ first' = l.first /\ last' = l.last

Cuts(ids) == /\ disturbed' = (disturbed \/ (cursor.on /\ ids # {}))
             /\ met' = IF disturbed' THEN <<>> ELSE met

\* put, putstr, putint: a copy of the data, after the removal of the name
\* when it is to replace.
_put(name, data, replace) ==
    /\ made < MaxObjects
    /\ LET gone == IF replace THEN Matching(name) ELSE {}
           l == IF replace THEN Removed(name) ELSE Here
       IN /\ Become(Linked(l, made + 1, name, data))
          /\ made' = made + 1
          /\ num' = num - (IF replace THEN Cardinality(gone) ELSE 0) + 1
          /\ Cuts(gone)
    /\ UNCHANGED <<cursor, disk>>

_remove(name) ==
    /\ Become(Removed(name))
    /\ num' = num - Cardinality(Matching(name))
    /\ Cuts(Matching(name))
    /\ UNCHANGED <<made, cursor, disk>>

_truncate ==
    /\ objs' = <<>> /\ first' = NoObject /\ last' = NoObject /\ num' = 0
    /\ Cuts(DOMAIN objs)
    /\ UNCHANGED <<made, cursor, disk>>

\* The walk that turns each link round, then first and last change places.
_reverse ==
    LET c == Chain(objs, first)
    IN /\ objs' = [i \in DOMAIN objs |->
                     LET k == CHOOSE k \in DOMAIN c : c[k] = i
                     IN [objs[i] EXCEPT !.next = IF k = 1 THEN NoObject ELSE c[k - 1]]]
       /\ last' = first
       /\ first' = IF c = <<>> THEN NoObject ELSE c[Len(c)]
       /\ Cuts({0})
       /\ UNCHANGED <<num, made, cursor, disk>>

\* get, getstr and getint find the first object of a name, getlast the last
\* one, caseget the first that strcasecmp takes for it.
Found(ids) == IF ids = <<>> THEN NoValue ELSE objs[ids[1]].data
_get(name) == Found(Only(Chain(objs, first), Matching(name)))
_caseget(name) ==
    Found(Only(Chain(objs, first), {i \in DOMAIN objs : Lower[objs[i].name] = Lower[name]}))
_getlast(name) ==
    LET ids == Only(Chain(objs, first), Matching(name))
    IN IF ids = <<>> THEN NoValue ELSE objs[ids[Len(ids)]].data

\* A caller clears its qentobj_t and starts a walk.
StartWalk(name) ==
    /\ cursor' = [Off EXCEPT !.on = TRUE, !.name = name]
    /\ met' = <<>> /\ disturbed' = FALSE
    /\ UNCHANGED <<objs, first, last, num, made, disk>>

\* getnext: the first call starts at first, a later one at the object that the
\* caller's structure remembers.  Should that one have been freed since, the
\* code would read it all the same; the model does not take the walk further.
From == IF cursor.fresh THEN first ELSE cursor.next
Wanted == IF cursor.name = All THEN DOMAIN objs ELSE Matching(cursor.name)
_getnext ==
    /\ cursor.on
    /\ From \in DOMAIN objs \cup {NoObject}
    /\ LET ahead == Only(Chain(objs, From), Wanted) IN
       IF ahead = <<>>
       THEN cursor' = Off /\ met' = <<>>   \* the end: the walk is over
       ELSE /\ cursor' = [cursor EXCEPT !.fresh = FALSE, !.next = objs[ahead[1]].next]
            /\ met' = IF disturbed THEN met ELSE Append(met, ahead[1])
    /\ UNCHANGED <<objs, first, last, num, made, disturbed, disk>>

\* save: the objects in their order; the two comment lines have no "=".
_save ==
    /\ num <= MaxSaved
    /\ disk' = [k \in 1 .. Len(Chain(objs, first)) |->
                  LET o == objs[Chain(objs, first)[k]] IN [name |-> o.name, data |-> o.data]]
    /\ UNCHANGED <<listVars, made, cursor, met, disturbed>>

\* load appends an object for each line that has data.
LinkedAll(l, lines, n) ==
    LET after[k \in 0 .. Len(lines)] ==
            IF k = 0 THEN l
            ELSE Linked(after[k - 1], n + k, lines[k].name, lines[k].data)
    IN after[Len(lines)]
_load ==
    /\ made + Len(disk) <= MaxObjects
    /\ Become(LinkedAll(Here, disk, made))
    /\ made' = made + Len(disk) /\ num' = num + Len(disk)
    /\ UNCHANGED <<cursor, met, disturbed, disk>>

EntryNext ==
    \/ \E n \in Name, d \in Value, r \in BOOLEAN : _put(n, d, r)
    \/ \E n \in Name : _remove(n)
    \/ _truncate \/ _reverse \/ _save \/ _load
    \/ \E n \in Name \cup {All} : StartWalk(n)
    \/ _getnext

EntrySpec == EntryInit /\ [][EntryNext]_entryVars

-----------------------------------------------------------------------------
\* The links, first, last and num describe one list of all the objects that
\* are allocated, whatever was put, replaced, cut, turned and loaded.
ChainSound ==
    LET c == Chain(objs, first) IN
    /\ {c[k] : k \in DOMAIN c} = DOMAIN objs
    /\ Len(c) = num
    /\ \A j, k \in DOMAIN c : c[j] = c[k] => j = k
    /\ last = IF c = <<>> THEN NoObject ELSE c[Len(c)]
    /\ c # <<>> => objs[last].next = NoObject

\* A walk over a list that only grows meanwhile meets the objects of its name
\* in order, each once, and passes none over.
WalkPassesNone ==
    cursor.on /\ ~disturbed =>
        met = SubSeq(Only(Chain(objs, first), Wanted), 1, Len(met))

\* The three ways to look for a name agree on what is there: a name has a
\* first object exactly when it has a last one, a lone object is both, and a
\* name that get finds is found by caseget as well.
ReadsAgree ==
    \A n \in Name :
        /\ (_get(n) = NoValue) = (_getlast(n) = NoValue)
        /\ (_get(n) = NoValue) = (Matching(n) = {})
        /\ \A i \in Matching(n) : Matching(n) = {i} => _get(n) = _getlast(n)
        /\ _get(n) # NoValue => _caseget(n) # NoValue

\* The list as its users rely on it: sound links, complete walks, reads that agree.
ListSound == ChainSound /\ WalkPassesNone /\ ReadsAgree
=============================================================================
