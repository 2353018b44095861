---------------------------- MODULE MCCspContain ----------------------------
(* Instances of CspContain for TLC: two libraries, and documents with a path *)
(* named twice, with a library named again after another one, with a         *)
(* function that is missing and with a name that has a dot.                  *)
EXTENDS CspContain, TLC

CONSTANTS l1, l2, k1, k2, k3

PageOf(path, fun) == [vir |-> path, name |-> fun, dot |-> FALSE]
LibOf(lib, list) == [lib |-> lib, pages |-> list]

Documents ==
    {<<LibOf(l1, <<PageOf(k1, "f"), PageOf(k2, "g")>>), LibOf(l2, <<PageOf(k1, "f")>>)>>,
     <<LibOf(l1, <<PageOf(k1, "f")>>), LibOf(l2, <<PageOf(k3, "g")>>),
       LibOf(l1, <<PageOf(k3, "g"), PageOf(k1, "g")>>)>>,
     <<LibOf(l2, <<PageOf(k3, "x"), PageOf(k1, "f")>>)>>,
     <<LibOf(l2, <<[vir |-> k1, name |-> "f", dot |-> TRUE]>>)>>}
MCConfigs == [well : BOOLEAN, reset_rate : {0, 3, 4, 6}, bpool : {TRUE}, libs : Documents]
MCExported == {l1, l2} \X {"f", "g"}
MCHash == k1 :> 1 @@ k2 :> 2 @@ k3 :> 3   \* k1 and k3 share a chain of two
=============================================================================
