----------------------------- MODULE QResponse -----------------------------
(***************************************************************************)
(* What a page answers: qdecoder/qcgires.c.  Headers and text are appended   *)
(* to the page's buffer (recon) as it runs; qcgires_download and            *)
(* qcgires_error print to stdout at once, and the buffer is printed when the *)
(* page ends.  A piece of output is <<what, end>>: end tells whether it      *)
(* stops within its line, ends the line or ends the headers.                *)
(***************************************************************************)
EXTENDS Naturals, SequencesExt

CONSTANTS MaxPieces    \* bound of the pieces of a page

ASSUME ResponseAssumption == MaxPieces \in Nat

VARIABLES recon,       \* the buffer of the page
          stdout,      \* what was printed past it
          contenttype, \* the entry _Q_CONTENTTYPE is there
          refused      \* the calls that answered false or -1 so far

resVars == <<recon, stdout, contenttype, refused>>

ResInit == recon = <<>> /\ stdout = <<>> /\ contenttype = FALSE /\ refused = {}

Put(what, end) == recon' = Append(recon, <<what, end>>)
Rejects(call) == refused' = refused \cup {call}

\* Mutant of BeforeType: a header is taken at any time.
AnyTime == TRUE

Sets(what) == \E i \in DOMAIN recon : recon[i][1] = what

\* The request has a parameter of the name under which the content type is kept.
Parsed == ~contenttype /\ contenttype' = TRUE /\ UNCHANGED <<recon, stdout, refused>>

\* What spc puts before the body of a page that calls neither setcontenttype nor
\* download; it makes no entry.
DefaultType ==
    /\ ~Sets("Content-Type") /\ ~Sets("Default-Type") /\ refused \cap {"type", "download"} = {}
    /\ Put("Default-Type", "headers") /\ UNCHANGED <<stdout, contenttype, refused>>

\* qcgires_setcookie and qcgires_removecookie; a path or a domain that is not
\* accepted stops it within the line.
BeforeType == ~contenttype
qcgires_setcookie ==
    /\ \/ ~BeforeType /\ Rejects("late") /\ UNCHANGED recon
       \/ BeforeType /\ Put("Set-Cookie", "line") /\ UNCHANGED refused
       \/ BeforeType /\ Put("Set-Cookie", "within") /\ Rejects("cookie")
    /\ UNCHANGED <<stdout, contenttype>>

qcgires_setcontenttype ==
    /\ ~Sets("Default-Type")
    /\ \/ contenttype /\ Rejects("type") /\ UNCHANGED <<recon, contenttype>>
       \/ ~contenttype /\ Put("Content-Type", "headers") /\ contenttype' = TRUE
            /\ UNCHANGED refused
    /\ UNCHANGED stdout

\* It ends the headers and does not count as a content type.
qcgires_redirect ==
    /\ \/ contenttype /\ Rejects("late") /\ UNCHANGED recon
       \/ ~contenttype /\ Put("Location", "headers") /\ UNCHANGED refused
    /\ UNCHANGED <<stdout, contenttype>>

\* The description of the file and the file go to stdout; the file may be missing
\* or cannot be read on, and after a content type it refuses.
qcgires_download ==
    /\ ~Sets("Default-Type")
    /\ \/ Rejects("download") /\ UNCHANGED <<recon, stdout, contenttype>>
       \/ /\ ~contenttype /\ Put("Content-Type", "headers") /\ contenttype' = TRUE
          /\ \E sent \in {<<>>, <<<<"file", "within">>>>} :
                stdout' = stdout \o <<<<"Content-Disposition", "line">>>> \o sent
          /\ UNCHANGED refused

\* A page of its own, headers and all, or the bare message without a client.
qcgires_error ==
    /\ \E client \in BOOLEAN :
          stdout' = IF client THEN stdout \o <<<<"Content-Type", "headers">>, <<"text", "line">>>>
                    ELSE Append(stdout, <<"text", "line">>)
    /\ UNCHANGED <<recon, contenttype, refused>>

\* The page echoes text.
Echo == Put("text", "within") /\ UNCHANGED <<stdout, contenttype, refused>>

ResNext ==
    /\ Len(recon) + Len(stdout) < MaxPieces
    /\ \/ Parsed \/ DefaultType
       \/ qcgires_setcookie \/ qcgires_setcontenttype \/ qcgires_redirect
       \/ qcgires_download \/ qcgires_error \/ Echo

ResSpec == ResInit /\ [][ResNext]_resVars

-----------------------------------------------------------------------------
\* What the client gets: the buffer after what went past it.
Answer == stdout \o recon
Past(i) == i > Len(stdout)

Types   == {"Content-Type", "Default-Type"}
Headers == Types \cup {"Set-Cookie", "Location", "Content-Disposition"}
IsHeader(i) == Answer[i][1] \in Headers

\* A header comes after the end of the headers only if they were ended by an error
\* page, a redirect or the content type of spc: never after the page's own type.
AfterEnd ==
    \A i, j \in DOMAIN Answer :
       i < j /\ Answer[i][2] = "headers" /\ IsHeader(j) =>
          ~Past(i) \/ Answer[i][1] \in {"Location", "Default-Type"}

\* Of two content types the first is that of an error page.
OneType ==
    \A i, j \in DOMAIN Answer :
       i < j /\ Answer[i][1] \in Types /\ Answer[j][1] \in Types => ~Past(i)

\* A header runs into the line of another only if a cookie was refused.
OwnLine ==
    \A i, j \in DOMAIN Answer :
       j = i + 1 /\ IsHeader(i) /\ Answer[i][2] = "within" /\ IsHeader(j) =>
          "cookie" \in refused

\* At most one file is described, and the content type of its download follows it.
FileThenType ==
    \A i \in DOMAIN Answer : Answer[i][1] = "Content-Disposition" =>
       /\ \A j \in DOMAIN Answer : Answer[j][1] = "Content-Disposition" => i = j
       /\ \E j \in DOMAIN Answer : i < j /\ Past(j) /\ Answer[j][1] = "Content-Type"

\* Whatever a page calls in whatever order, and whether the calls succeed or not,
\* what the client gets can be laid at the door of a call: headers after the end
\* of the headers, a second content type, a header in the line of another and a
\* file ahead of its content type come from those named here and from no others.
HeadersWhole == AfterEnd /\ OneType /\ OwnLine /\ FileThenType
=============================================================================
