----------------------------- MODULE MCCacheLink -----------------------------
(* The instances of CacheLink that TLC checks. *)
EXTENDS CacheLink, TLC

CONSTANTS s1, s2, u1, u2

(* Each user has a cache server of its own, or both share one. *)
HomeApart == u1 :> s1 @@ u2 :> s2
HomeShared == u1 :> s1 @@ u2 :> s1
=============================================================================
