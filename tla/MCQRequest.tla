----------------------------- MODULE MCQRequest -----------------------------
(* Instances of QRequest for TLC: queries and cookies with every separator,  *)
(* bodies of one to three parts, with and without a name, each cut off after *)
(* every line of it, and each with the calls that may fail.                  *)
EXTENDS QRequest

PartLines(part, end) ==
    (IF part.name = None THEN <<>>
     ELSE <<<<"disposition", [name |-> part.name, file |-> part.file]>>>>)
    \o (IF part.type = "" THEN <<>> ELSE <<<<"type", part.type>>>>)
    \o <<<<"blank", "">>>> \o [i \in DOMAIN part.data |-> <<"data", part.data[i]>>]
    \o <<<<IF end THEN "end" ELSE "mark", "">>>>
LinesOf(parts) ==
    FoldLeft(LAMBDA all, i : all \o PartLines(parts[i], i = Len(parts)),
             <<<<"blank", "">>, <<IF parts = <<>> THEN "end" ELSE "mark", "">>>>,
             [i \in DOMAIN parts |-> i])
CompleteIn(parts, n) ==
    Cardinality({i \in DOMAIN parts : parts[i].name # None /\ Len(LinesOf(SubSeq(parts, 1, i))) <= n})

Note == [name |-> <<"note">>, file |-> None, type |-> "", data |-> <<"x", "y">>]
Photo == [name |-> <<"photo">>, file |-> "p.jpg", type |-> "image", data |-> <<"u", "v", "w">>]
Vacant == [name |-> <<"vacant">>, file |-> "e", type |-> None, data |-> <<>>]

Bare == [name |-> None, file |-> None, type |-> "text", data |-> <<"n">>]

Plain ==
    [mask |-> {"cookie", "post", "get"}, type |-> "form",
     cookie |-> <<"a", "=", "b", ";", " ", "c", "=", "%3B">>,
     form |-> <<"d", "+", "=", "%3D">>, query |-> <<>>,
     uri |-> <<"p", "?", "f", "=", "g", "=", "+">>,
     body |-> <<>>, parts |-> <<>>, filemode |-> FALSE, clearold |-> 0,
     complete |-> 0, faults |-> {},
     pairs |-> <<<<<<"a">>, <<"b">>>>, <<<<"c">>, <<";">>>>,
                 <<<<"d", " ">>, <<"=">>>>, <<<<"f">>, <<"g", "=", " ">>>>>>]
NoBody == [Plain EXCEPT !.type = "other", !.mask = {}, !.pairs = <<>>]
QueryOnly == [NoBody EXCEPT !.mask = {"post", "get"},
                            !.query = <<"f", "=", "g", "=", "%20">>,
                            !.pairs = SubSeq(Plain.pairs, 4, 4)]
\* The body of the parts, cut off after n lines.
Multi(parts, n, mode, old) ==
    [NoBody EXCEPT !.mask = {"post"}, !.type = "multipart",
                   !.body = SubSeq(LinesOf(parts), 1, n),
                   !.parts = SelectSeq(parts, LAMBDA part : part.name # None),
                   !.complete = CompleteIn(parts, n),
                   !.filemode = mode, !.clearold = old]
Bodies == {<<Note, Photo>>, <<Photo, Vacant>>, <<Note, Bare, Photo>>, <<Note, Bare>>, <<>>}
Sound ==
    {Plain, NoBody, QueryOnly, Multi(<<Photo>>, Len(LinesOf(<<Photo>>)), TRUE, 0)} \cup
    UNION {{Multi(b, n, mode, 1) : n \in 1 .. Len(LinesOf(b)), mode \in BOOLEAN} : b \in Bodies}
AllRequests ==
    {[r EXCEPT !.faults = f] :
        f \in {{}, {"write"}, {"short"}, {"access", "opendir", "mkstemp"}}, r \in Sound}

\* One upload that is to clear those older than a second.
OneUpload == {Multi(<<Photo>>, Len(LinesOf(<<Photo>>)), TRUE, 1)}
=============================================================================
