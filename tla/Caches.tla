------------------------------- MODULE Caches -------------------------------
(***************************************************************************)
(* What a server keeps in memory from one request for the next: responses  *)
(* of the guest (ResponseCache) and the keys of Google (GoogleKeys).       *)
(***************************************************************************)
EXTENDS ResponseCache, GoogleKeys

cachesVars == <<cacheVars, keyVars>>

CachesInit == CacheInit /\ KeysInit

CachesNext ==
  \/ CacheNext /\ UNCHANGED keyVars
  \/ KeysNext /\ UNCHANGED cacheVars

CachesSpec == CachesInit /\ [][CachesNext]_cachesVars

(* What is kept is neither somebody else's nor used for longer than its    *)
(* owner allowed, in whatever order what was asked for arrives.            *)
CachesHold == SharedRightly /\ KeysHonest
=============================================================================
