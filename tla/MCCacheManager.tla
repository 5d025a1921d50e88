--------------------------- MODULE MCCacheManager ---------------------------
(* Keys and addresses of objects are interchangeable.                      *)
EXTENDS CacheManager, TLC

KeysAndObjects == Permutations(Keys) \cup Permutations(Objects)
=============================================================================
