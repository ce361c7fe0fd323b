----------------------------- MODULE AtomicFile -----------------------------
(***************************************************************************)
(* What the durable cache promises, with the file at cache_path as one     *)
(* variable: a store() answers TRUE in the step that exchanges the file,   *)
(* or FALSE and has not touched it; a load() answers what the file held at *)
(* one moment of the call; and a process may be killed anywhere in either. *)
(***************************************************************************)
CONSTANTS
  Process,
  Envelopes,   \* what may be stored
  Unloadable,  \* contents that a load does not give
  Initial,     \* what the file may hold before anything is stored
  None,        \* no file
  Torn,        \* what a short write leaves of an envelope
  ShortWrites  \* whether there are any

VARIABLES
  durable,     \* the file
  stage,       \* process -> "idle", "storing" or "loading"
  wanted,      \* process -> what it is storing
  seen,        \* process -> what its load found
  answer       \* process -> what its last call returned

vars == <<durable, stage, wanted, seen, answer>>

Init ==
  /\ durable \in Initial \cup {None}
  /\ stage = [p \in Process |-> "idle"]
  /\ wanted = [p \in Process |-> None]
  /\ seen = [p \in Process |-> None]
  /\ answer = [p \in Process |-> None]

(* A call ends, or its process does.                                        *)
End(p, value) ==
  /\ stage' = [stage EXCEPT ![p] = "idle"]
  /\ wanted' = [wanted EXCEPT ![p] = None]
  /\ seen' = [seen EXCEPT ![p] = None]
  /\ answer' = [answer EXCEPT ![p] = value]

Move(p, from, to) ==
  /\ stage[p] = from
  /\ stage' = [stage EXCEPT ![p] = to]

AskStore(p) ==
  /\ Move(p, "idle", "storing")
  /\ \E b \in Envelopes : wanted' = [wanted EXCEPT ![p] = b]
  /\ UNCHANGED <<durable, seen, answer>>

(* With short writes alone may the file be less than what was given.        *)
Exchange(p) ==
  /\ stage[p] = "storing"
  /\ \/ durable' = wanted[p]
     \/ ShortWrites /\ durable' = Torn
  /\ End(p, TRUE)

(* Refused at once, or given up later.                                      *)
FailStore(p) ==
  /\ stage[p] \in {"idle", "storing"}
  /\ End(p, FALSE)
  /\ UNCHANGED durable

Look(p) ==
  /\ durable # None
  /\ Move(p, "idle", "loading")
  /\ seen' = [seen EXCEPT ![p] = durable]
  /\ UNCHANGED <<durable, wanted, answer>>

Give(p) ==
  /\ stage[p] = "loading"
  /\ End(p, IF seen[p] \in Unloadable THEN None ELSE seen[p])
  /\ UNCHANGED durable

(* There is no file, or it cannot be read; or the process is killed.        *)
FindNothing(p) ==
  /\ stage[p] = "idle"
  /\ End(p, None)
  /\ UNCHANGED durable

Crash(p) ==
  /\ stage[p] # "idle"
  /\ End(p, None)
  /\ UNCHANGED durable

Next ==
  \E p \in Process :
    \/ AskStore(p) \/ Exchange(p) \/ FailStore(p)
    \/ Look(p) \/ Give(p) \/ FindNothing(p) \/ Crash(p)

Spec == Init /\ [][Next]_vars
=============================================================================
