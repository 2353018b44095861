------------------------------ MODULE PathHmap ------------------------------
(***************************************************************************)
(* The chained hash map of third_party/path_hmap.c, which spc has as        *)
(* map_key.c with the prefix khm_.  A map is an array of chains; a node     *)
(* holds a key and its data.  NULL is the answer for a key without a node.  *)
(* malloc of a node does not fail: the code does not look at it.            *)
(***************************************************************************)
EXTENDS Naturals, SequencesExt

CONSTANTS Key, Data,
          Hash,       \* the callers' gethash: a number for each key
          HashSize,   \* the number of chains, MATCH_BACKET_SIZE
          NULL

ASSUME HashAssumption ==
    /\ HashSize \in Nat \ {0}
    /\ Hash \in [Key -> Nat]
    /\ NULL \notin Data

VARIABLES hmaplist,   \* chain -> sequence of nodes
          mcount      \* the field count of the map

hmapVars == <<hmaplist, mcount>>

Chains == 0 .. HashSize - 1
hashinde(key) == Hash[key] % HashSize

phm_create == hmaplist = [c \in Chains |-> <<>>] /\ mcount = 0

\* The first node with the key, 0 if there is none.
FirstOf(chain, key) ==
    LET at == {i \in DOMAIN chain : chain[i].key = key}
    IN IF at = {} THEN 0 ELSE CHOOSE i \in at : \A j \in at : i <= j

phm_value(hmap, key) ==
    LET chain == hmap[hashinde(key)]
        i == FirstOf(chain, key)
    IN IF i = 0 THEN NULL ELSE chain[i].data

\* Mutant of Inserted: the chain is not searched for the key.
InsertedBlind(chain, key, data) == Append(chain, [key |-> key, data |-> data])

\* vlist_update overwrites the first node that matches, else vlist_append.
Inserted(chain, key, data) ==
    LET i == FirstOf(chain, key)
    IN IF i # 0 THEN [chain EXCEPT ![i].data = data]
                ELSE Append(chain, [key |-> key, data |-> data])

phm_insert(key, data) ==
    LET c == hashinde(key)
    IN /\ hmaplist' = [hmaplist EXCEPT ![c] = Inserted(@, key, data)]
       /\ mcount' = IF FirstOf(hmaplist[c], key) = 0 THEN mcount + 1 ELSE mcount

\* vlist_remove takes out the first node that matches.
phm_remove(key) ==
    LET c == hashinde(key)
        i == FirstOf(hmaplist[c], key)
    IN IF i = 0 THEN UNCHANGED hmapVars
       ELSE /\ hmaplist' = [hmaplist EXCEPT ![c] = RemoveAt(@, i)]
            /\ mcount' = mcount - 1

\* The keys that phm_for_each_do hands to its callback, chain after chain.
phm_for_each(hmap) ==
    LET walk[c \in 0 .. HashSize] ==
            IF c = 0 THEN <<>>
            ELSE walk[c - 1] \o [i \in DOMAIN hmap[c - 1] |-> hmap[c - 1][i].key]
    IN walk[HashSize]

phm_dele == hmaplist' = [c \in Chains |-> <<>>] /\ mcount' = 0

HmapInit == phm_create

HmapNext ==
    \/ \E key \in Key, data \in Data : phm_insert(key, data)
    \/ \E key \in Key : phm_remove(key)
    \/ phm_dele

HmapSpec == HmapInit /\ [][HmapNext]_hmapVars

-----------------------------------------------------------------------------
OneNode ==
    \A c \in Chains : \A i \in DOMAIN hmaplist[c] :
        /\ hashinde(hmaplist[c][i].key) = c
        /\ FirstOf(hmaplist[c], hmaplist[c][i].key) = i

\* A key has one node at most, on the chain its hash names, the walk over the
\* map meets each key once, and count is the number of keys: chains that are
\* rewritten in place, grown and cut stay a function of the keys.
HmapIsAFunction ==
    /\ OneNode
    /\ mcount = Len(phm_for_each(hmaplist))
    /\ ToSet(phm_for_each(hmaplist)) = {k \in Key : phm_value(hmaplist, k) # NULL}
=============================================================================
