------------------------------ MODULE QRequest ------------------------------
(***************************************************************************)
(* What a page reads of its request: qdecoder/qcgireq.c.  Cookie, form and  *)
(* query are strings of pairs; a multipart body is a stream of lines,       *)
(* <<kind, what>>, that is read line by line in headers and up to the next  *)
(* boundary in a value, into memory or into a file of the upload directory, *)
(* which the processes share and clear of old files.                        *)
(***************************************************************************)
EXTENDS Integers, SequencesExt

CONSTANTS Proc,          \* processes that run pages
          Requests,      \* what clients send, the options the page sets, and the calls
                         \* that may fail: "access", "opendir", "mkstemp", "write", "short"
          UploadIds,     \* names mkstemp can give
          BufferSize,    \* chunks of a value that the buffer of a disk value holds
          MaxNow, MaxCame,   \* bounds of the clock and of the requests
          None

\* A name comes somewhere after the k-th line of a body, and after each of its
\* boundaries but the last.
NameBehind(body, k) == \E j \in k + 1 .. Len(body) : body[j][1] = "disposition"
AllNamed(body) == \A i \in DOMAIN body : body[i][1] = "mark" => NameBehind(body, i)

\* What is copied from a Content-Disposition is a name, if an empty one.
ASSUME RequestAssumption ==
    /\ BufferSize \in Nat \ {0} /\ MaxNow \in Nat /\ MaxCame \in Nat
    /\ None \notin UploadIds
    /\ \A sent \in Requests :
          /\ sent.type \in {"form", "multipart", "other"}
          /\ sent.body \in Seq({sent.body[i] : i \in DOMAIN sent.body})
          /\ \A i \in DOMAIN sent.body :
                sent.body[i][1] = "disposition" => sent.body[i][2].name # None

VARIABLES qreq,      \* process -> the request it works on
          uploads,   \* id -> [mtime, data], or None
          now,       \* the clock
          came       \* requests so far

qreqVars == <<qreq, uploads, now, came>>

\* A request of a process: the place in the code, what is left of stdin, the
\* entries parsed, the part at hand, the value of it that was read, the part of
\* it in the buffer of the disk reader, its upload, and if the body is over.
NoPart == [name |-> None, file |-> None, type |-> ""]
Free == [at |-> "free", sent |-> None, dir |-> FALSE, stdin |-> <<>>, entries |-> <<>>,
         part |-> NoPart, value |-> <<>>, buffer |-> <<>>, upload |-> None,
         finish |-> FALSE, todo |-> {}]

QReqInit ==
    /\ qreq = [p \in Proc |-> Free] /\ uploads = [u \in UploadIds |-> None]
    /\ now = 0 /\ came = 0

-----------------------------------------------------------------------------
\* A query is a sequence of symbols; "%3D", "%3B", "%20" stand for an encoded "=",
\* ";" or blank.

\* _q_makeword_s: the word up to the first separator, and what follows it.
WordEnd(query, sep) ==
    LET stops == {i \in DOMAIN query : query[i] = sep}
    IN IF stops = {} THEN Len(query) + 1 ELSE CHOOSE i \in stops : \A j \in stops : i <= j
_q_makeword_s(query, sep) ==
    LET stop == WordEnd(query, sep)
    IN [word |-> SubSeq(query, 1, stop - 1), rest |-> SubSeq(query, stop + 1, Len(query))]

_q_strtrim(word) ==
    LET inner == {i \in DOMAIN word : word[i] # " "}
    IN IF inner = {} THEN <<>>
       ELSE SubSeq(word, CHOOSE i \in inner : \A j \in inner : i <= j,
                         CHOOSE i \in inner : \A j \in inner : i >= j)

Decoded(symbol) == CASE symbol \in {"+", "%20"} -> " " [] symbol = "%3D" -> "="
                     [] symbol = "%3B" -> ";" [] OTHER -> symbol
_q_urldecode(word) == [i \in DOMAIN word |-> Decoded(word[i])]

\* Mutant of _parse_query: the query is decoded before it is taken apart.
DecodedFirst(query, sep) ==
    LET n == Len(query)
        parse[k \in 1 .. n + 1] ==
            IF k = n + 1 THEN <<>>
            ELSE LET segment == _q_makeword_s(SubSeq(_q_urldecode(query), k, n), sep)
                     pair == _q_makeword_s(segment.word, "=")
                 IN <<<<_q_strtrim(pair.word), pair.rest>>>> \o parse[n + 1 - Len(segment.rest)]
    IN parse[1]

\* _parse_query, from its k-th symbol on.
_parse_query(query, sep) ==
    LET n == Len(query)
        parse[k \in 1 .. n + 1] ==
            IF k = n + 1 THEN <<>>
            ELSE LET segment == _q_makeword_s(SubSeq(query, k, n), sep)
                     pair == _q_makeword_s(segment.word, "=")
                 IN <<<<_q_urldecode(_q_strtrim(pair.word)), _q_urldecode(pair.rest)>>>>
                    \o parse[n + 1 - Len(segment.rest)]
    IN parse[1]

-----------------------------------------------------------------------------
Arrive(p, sent) ==
    /\ qreq[p].at = "free" /\ came' = came + 1
    /\ qreq' = [qreq EXCEPT ![p] = [Free EXCEPT !.at = "option", !.sent = sent,
                                                !.stdin = sent.body]]
    /\ UNCHANGED <<uploads, now>>

To(p, at) == qreq' = [qreq EXCEPT ![p].at = at]
Sent(p) == qreq[p].sent

\* qcgireq_setoption: without a directory it can use the page parses with no
\* option set; an opendir that fails is no error.
qcgireq_setoption(p) ==
    /\ qreq[p].at = "option"
    /\ \/ ~Sent(p).filemode /\ To(p, "cookie")
       \/ Sent(p).filemode /\ "access" \in Sent(p).faults /\ To(p, "cookie")
       \/ /\ Sent(p).filemode
          /\ \E todo \in {UploadIds} \cup
                    (IF "opendir" \in Sent(p).faults \/ Sent(p).clearold = 0 THEN {{}} ELSE {}) :
                /\ Sent(p).clearold = 0 => todo = {}
                /\ qreq' = [qreq EXCEPT ![p].at = "clear", ![p].todo = todo, ![p].dir = TRUE]
    /\ UNCHANGED <<uploads, now, came>>

\* _upload_clear_base: it passes over what was changed clearold seconds from now
\* or later.
_upload_clear_base(p, u) ==
    /\ qreq[p].at = "clear" /\ u \in qreq[p].todo
    /\ qreq' = [qreq EXCEPT ![p].todo = @ \ {u}]
    /\ uploads' = IF uploads[u] = None \/ uploads[u].mtime >= now + Sent(p).clearold
                  THEN uploads ELSE [uploads EXCEPT ![u] = None]
    /\ UNCHANGED <<now, came>>
Cleared(p) ==
    /\ qreq[p].at = "clear" /\ qreq[p].todo = {} /\ To(p, "cookie")
    /\ UNCHANGED <<uploads, now, came>>

\* qcgireq_parse reads cookie, body and query, in this order, those it is asked for.
TakenBy(p, at, pairs) ==
    qreq' = [qreq EXCEPT ![p].at = at, ![p].entries = @ \o pairs]
ParseCookie(p) ==
    /\ qreq[p].at = "cookie"
    /\ TakenBy(p, "post", IF "cookie" \in Sent(p).mask THEN _parse_query(Sent(p).cookie, ";")
                        ELSE <<>>)
    /\ UNCHANGED <<uploads, now, came>>
ParsePost(p) ==
    /\ qreq[p].at = "post"
    /\ IF "post" \notin Sent(p).mask THEN To(p, "get")
       ELSE CASE Sent(p).type = "form" -> TakenBy(p, "get", _parse_query(Sent(p).form, "&"))
              [] Sent(p).type = "multipart" -> To(p, "first")
              [] Sent(p).type = "other" -> To(p, "get")
    /\ UNCHANGED <<uploads, now, came>>
\* An empty query is looked for behind the "?" of the address.
ParseGet(p) ==
    /\ qreq[p].at = "get"
    /\ LET query == IF Sent(p).query = <<>> THEN _q_makeword_s(Sent(p).uri, "?").rest
                    ELSE Sent(p).query
       IN TakenBy(p, "parsed", IF "get" \in Sent(p).mask THEN _parse_query(query, "&") ELSE <<>>)
    /\ UNCHANGED <<uploads, now, came>>

-----------------------------------------------------------------------------
Line(p) == IF qreq[p].stdin = <<>> THEN <<"eof", "">> ELSE Head(qreq[p].stdin)
Eof(p) == Line(p)[1] = "eof"

\* The first line that is not blank has to be the boundary.
FirstMark(p) ==
    /\ qreq[p].at = "first"
    /\ IF Eof(p) THEN To(p, "get")
       ELSE qreq' = [qreq EXCEPT ![p].stdin = Tail(@),
                ![p].at = CASE Line(p)[1] = "blank" -> "first" [] Line(p)[1] = "mark" -> "headers"
                            [] OTHER -> "get"]
    /\ UNCHANGED <<uploads, now, came>>

\* Headers up to a blank line or the end of the stream; without a name the next
\* headers are read, whatever the stream has left.
WithHeader(part, kind, what) ==
    CASE kind = "disposition" ->
            [part EXCEPT !.name = what.name,
                         !.file = IF what.file = None THEN @ ELSE what.file]
      [] kind = "type" -> [part EXCEPT !.type = what]
      [] OTHER -> part
ReadHeader(p) ==
    /\ qreq[p].at = "headers" /\ ~Eof(p) /\ Line(p)[1] # "blank"
    /\ qreq' = [qreq EXCEPT ![p].stdin = Tail(@),
                            ![p].part = WithHeader(@, Line(p)[1], Line(p)[2])]
    /\ UNCHANGED <<uploads, now, came>>
HeadersEnd(p) ==
    /\ qreq[p].at = "headers" /\ (Eof(p) \/ Line(p)[1] = "blank")
    /\ LET named == qreq[p].part.name # None
           disk == named /\ qreq[p].part.file # None /\ qreq[p].dir
       IN qreq' = [qreq EXCEPT
             ![p].stdin = IF @ = <<>> THEN @ ELSE Tail(@),
             ![p].part = IF named THEN @ ELSE NoPart,
             ![p].at = IF ~named THEN "headers" ELSE IF disk THEN "open" ELSE "memory"]
    /\ UNCHANGED <<uploads, now, came>>

Ends(p) == Line(p)[1] \in {"mark", "end"}

\* _parse_multipart_value_into_memory.
ValueInMemory(p) ==
    /\ qreq[p].at = "memory"
    /\ qreq' = IF Eof(p) THEN [qreq EXCEPT ![p].at = "store", ![p].value = None,
                                           ![p].finish = TRUE]
               ELSE IF Ends(p)
               THEN [qreq EXCEPT ![p].stdin = Tail(@), ![p].at = "store",
                                 ![p].finish = Line(p)[1] = "end"]
               ELSE [qreq EXCEPT ![p].stdin = Tail(@), ![p].value = Append(@, Line(p)[2])]
    /\ UNCHANGED <<uploads, now, came>>

\* _parse_multipart_value_into_disk: mkstemp, then the stream through a buffer,
\* then what the buffer has left.  A file that was not written whole stays.
Failed(p) == [qreq EXCEPT ![p].at = "store", ![p].value = None, ![p].finish = TRUE]
OpenUpload(p) ==
    /\ qreq[p].at = "open"
    /\ \/ /\ "mkstemp" \in Sent(p).faults
          /\ qreq' = Failed(p) /\ UNCHANGED uploads
       \/ \E u \in UploadIds :
             /\ uploads[u] = None /\ \A q \in Proc : qreq[q].upload # u
             /\ uploads' = [uploads EXCEPT ![u] = [mtime |-> now, data |-> <<>>]]
             /\ qreq' = [qreq EXCEPT ![p].at = "disk", ![p].upload = u]
    /\ UNCHANGED <<now, came>>

\* A write to a file that was unlinked goes nowhere that can be seen.
Written(u, chunks) ==
    IF uploads[u] = None THEN uploads
    ELSE [uploads EXCEPT ![u] = [mtime |-> now, data |-> @.data \o chunks]]
ValueOnDisk(p) ==
    /\ qreq[p].at = "disk"
    /\ \/ Eof(p) /\ To(p, "broken") /\ UNCHANGED uploads
       \/ ~Eof(p) /\ Len(qreq[p].buffer) = BufferSize /\ "write" \in Sent(p).faults
            /\ To(p, "broken") /\ UNCHANGED uploads
       \/ /\ ~Eof(p) /\ Ends(p)
          /\ qreq' = [qreq EXCEPT ![p].stdin = Tail(@), ![p].at = "rest",
                                  ![p].finish = Line(p)[1] = "end"]
          /\ UNCHANGED uploads
       \/ /\ ~Eof(p) /\ ~Ends(p)
          /\ LET full == Len(qreq[p].buffer) = BufferSize
             IN /\ uploads' = IF full THEN Written(qreq[p].upload, qreq[p].buffer) ELSE uploads
                /\ qreq' = [qreq EXCEPT ![p].stdin = Tail(@),
                      ![p].value = Append(@, Line(p)[2]),
                      ![p].buffer = Append(IF full THEN <<>> ELSE @, Line(p)[2])]
    /\ UNCHANGED <<now, came>>
\* write of the rest, again from its first chunk when not all of it was taken.
SaveRest(p) ==
    /\ qreq[p].at \in {"rest", "broken"}
    /\ LET buffer == qreq[p].buffer
           over == IF qreq[p].at = "broken" THEN Failed(p) ELSE [qreq EXCEPT ![p].at = "store"]
       IN \/ buffer = <<>> /\ qreq' = over /\ UNCHANGED uploads
          \/ /\ buffer # <<>>
             /\ uploads' = Written(qreq[p].upload, buffer)
             /\ qreq' = [qreq EXCEPT ![p].buffer = <<>>]
          \/ /\ buffer # <<>> /\ "write" \in Sent(p).faults
             /\ qreq' = [Failed(p) EXCEPT ![p].buffer = <<>>] /\ UNCHANGED uploads
          \/ /\ Len(buffer) > 1 /\ "short" \in Sent(p).faults
             /\ uploads' = Written(qreq[p].upload, SubSeq(buffer, 1, 1))
             /\ qreq' = [qreq EXCEPT ![p].buffer = Front(buffer)]
    /\ UNCHANGED <<now, came>>

ParsingFailure == <<"(parsing failure)">>
\* The entries of a part: its value or its upload, and what is known of its file.
Stored(part, value, upload, dir) ==
    IF value = None THEN <<<<part.name, ParsingFailure>>>>
    ELSE <<<<part.name, IF upload = None THEN value ELSE upload>>>>
         \o IF part.file = None THEN <<>>
            ELSE <<<<part.name, "length", Len(value)>>, <<part.name, "filename", part.file>>,
                   <<part.name, "contenttype", part.type>>>>
                 \o IF dir THEN <<<<part.name, "savepath", upload>>>> ELSE <<>>
StoreValue(p) ==
    /\ qreq[p].at = "store"
    /\ qreq' = [qreq EXCEPT
          ![p].at = IF qreq[p].finish THEN "get" ELSE "headers",
          ![p].entries = @ \o Stored(qreq[p].part, qreq[p].value, qreq[p].upload, qreq[p].dir),
          ![p].part = NoPart, ![p].value = <<>>, ![p].upload = None]
    /\ UNCHANGED <<uploads, now, came>>

\* The page is done with what was parsed.
EndRequest(p) ==
    /\ qreq[p].at = "parsed" /\ qreq' = [qreq EXCEPT ![p] = Free]
    /\ UNCHANGED <<uploads, now, came>>

Later == now < MaxNow /\ now' = now + 1 /\ UNCHANGED <<qreq, uploads, came>>

QReqNext ==
    \/ \E p \in Proc :
          \/ came < MaxCame /\ \E sent \in Requests : Arrive(p, sent)
          \/ qcgireq_setoption(p) \/ Cleared(p) \/ \E u \in UploadIds : _upload_clear_base(p, u)
          \/ ParseCookie(p) \/ ParsePost(p) \/ ParseGet(p)
          \/ FirstMark(p) \/ ReadHeader(p) \/ HeadersEnd(p)
          \/ ValueInMemory(p) \/ OpenUpload(p) \/ ValueOnDisk(p) \/ SaveRest(p)
          \/ StoreValue(p) \/ EndRequest(p)
    \/ Later

QReqSpec == QReqInit /\ [][QReqNext]_qreqVars

-----------------------------------------------------------------------------
\* What a client meant to send: sent.pairs, and sent.parts of a body, those with a
\* name, the first sent.complete of which came whole.

\* A file of as many chunks as the value, and of the same unless a write took a
\* part only of what the buffer had left, which starts again at its first chunk.
HasAll(file, value, sent) ==
    Len(file.data) = Len(value) /\ ("short" \notin sent.faults => file.data = value)

\* The pairs of a cookie, a form or a query come out as they went in, however
\* their names and values are encoded; and a request that was read to its end
\* has each part that came whole, in order, as its client sent it, followed by
\* at most one parsing failure.
EntriesOf(entries, names) == SelectSeq(entries, LAMBDA e : e[1] \in names)
RequestRead ==
    \A p \in Proc : qreq[p].at = "parsed" =>
        LET sent == Sent(p)
            got == EntriesOf(qreq[p].entries, {sent.parts[i].name : i \in DOMAIN sent.parts})
            values == SelectSeq(got, LAMBDA e : Len(e) = 2)
            whole == Len(SelectSeq(values, LAMBDA e : e[2] # ParsingFailure))
        IN /\ SelectSeq(qreq[p].entries, LAMBDA e : e \in Range(sent.pairs)) = sent.pairs
           /\ Len(qreq[p].entries) = Len(sent.pairs) + Len(got)
           /\ Len(values) <= whole + 1
           /\ \A i \in 1 .. whole :
                 /\ values[i][1] = sent.parts[i].name
                 /\ \/ values[i][2] = sent.parts[i].data
                    \/ /\ values[i][2] \in UploadIds
                       /\ uploads[values[i][2]] # None =>
                             HasAll(uploads[values[i][2]], sent.parts[i].data, sent)
                 /\ sent.parts[i].file # None =>
                        Contains(got, <<sent.parts[i].name, "length", Len(sent.parts[i].data)>>)
           /\ sent.faults = {} /\ sent.type = "multipart" /\ "post" \in sent.mask
                 => whole = sent.complete

\* A reader that never comes to an end is in a body with a boundary behind which no
\* name comes any more: it broke off there, or its last parts have no name.  After
\* a part without a name that is followed by one with a name it goes on.
NeverStuck ==
    \A p \in Proc : qreq[p].at = "headers" /\ qreq[p].stdin = <<>>
                        /\ qreq[p].part.name = None => ~AllNamed(Sent(p).body)

\* An upload that was read to its end is on the disk as it was sent, however its
\* chunks went through the buffer, unless a request has cleared it meanwhile; after
\* short writes of the rest it has its length, whatever its contents.
UploadsWhole ==
    \A p \in Proc :
        /\ qreq[p].at = "store" /\ qreq[p].upload # None /\ qreq[p].value # None
        /\ uploads[qreq[p].upload] # None
        => HasAll(uploads[qreq[p].upload], qreq[p].value, Sent(p))

\* What the page reads of a multipart body and of the pairs around it.
RequestWhole == RequestRead /\ NeverStuck /\ UploadsWhole

\* "saved files older than this seconds will be removed automatically"
\* (qcgireq.c:115): what is removed is that old.
RemovesOldUploads ==
    [][\A u \in UploadIds : uploads[u] # None /\ uploads'[u] = None =>
           \E p \in Proc : qreq[p].at = "clear" /\ now - uploads[u].mtime >= Sent(p).clearold]_qreqVars
=============================================================================
