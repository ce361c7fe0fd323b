------------------------------ MODULE Cascade -------------------------------
(***************************************************************************)
(* What the SDK promises about the ruleset it answers from: the cascade    *)
(* network, then cache file, then the caller's fallback.                   *)
(*                                                                         *)
(*   held     the snapshot the getters read, None before the first one     *)
(*   durable  the content of the cache file                                *)
(*                                                                         *)
(* One process lifetime.  The cache answers only while nothing is held;    *)
(* once something is held it is replaced only by a body that passed live   *)
(* verification, never taken away; and only such a body, or the prefix of  *)
(* one that a short write left, ever replaces the cache file.              *)
(***************************************************************************)
CONSTANTS
  Body,              \* response bodies and cache file contents
  None,              \* nothing held, no file
  Torn,              \* a truncated body
  LiveAcceptable,    \* the bodies a live check accepts at some clock reading
  CacheAcceptable    \* the bodies a cache load accepts at some clock reading

VARIABLES held, durable

cascadeVars == <<held, durable>>

Init ==
  /\ held = None
  /\ durable \in Body \cup {None, Torn}

RestoreFromCache ==
  /\ held = None
  /\ durable \in CacheAcceptable
  /\ held' = [body |-> durable, fromCache |-> TRUE]
  /\ UNCHANGED durable

Adopt ==
  /\ \E b \in LiveAcceptable : held' = [body |-> b, fromCache |-> FALSE]
  /\ UNCHANGED durable

Persist ==
  /\ durable' \in LiveAcceptable \cup {Torn}
  /\ UNCHANGED held

Next == RestoreFromCache \/ Adopt \/ Persist

Spec == Init /\ [][Next]_cascadeVars
=============================================================================
