---------------------------- MODULE AtomicLookup ----------------------------
(***************************************************************************)
(* What the getters promise the application, without locals, loops or      *)
(* locks: somewhere between a call and its return there is one moment that *)
(* decides in which ruleset the whole answer is looked up, the one current *)
(* then; and what was given is counted in the step that returns it.        *)
(***************************************************************************)
EXTENDS Naturals

CONSTANTS
  Reader,         \* application threads
  Ruleset,        \* what may be published
  Asked,          \* the calls the application makes
  None,           \* no ruleset, no call
  NoAnswer,       \* what a call starts with
  Served,         \* the answers that are a ruleset's value
  Answer(_, _)    \* what a call is to give in a ruleset

VARIABLES
  snapshot,       \* the current ruleset
  stage,          \* reader -> "idle", "asked" or "decided"
  call,           \* reader -> its last call
  seen,           \* reader -> the ruleset its call is decided by
  answer,         \* reader -> what its last call came to
  served          \* how many calls gave a ruleset's value

vars == <<snapshot, stage, call, seen, answer, served>>

Init ==
  /\ snapshot \in Ruleset \cup {None}
  /\ stage = [r \in Reader |-> "idle"]
  /\ call = [r \in Reader |-> None]
  /\ seen = [r \in Reader |-> None]
  /\ answer = [r \in Reader |-> NoAnswer]
  /\ served = 0

Publish ==
  /\ snapshot' \in Ruleset
  /\ UNCHANGED <<stage, call, seen, answer, served>>

Move(r, from, to) ==
  /\ stage[r] = from
  /\ stage' = [stage EXCEPT ![r] = to]

Ask(r) ==
  /\ Move(r, "idle", "asked")
  /\ \E c \in Asked : call' = [call EXCEPT ![r] = c]
  /\ answer' = [answer EXCEPT ![r] = NoAnswer]
  /\ UNCHANGED <<snapshot, seen, served>>

Decide(r) ==
  /\ Move(r, "asked", "decided")
  /\ seen' = [seen EXCEPT ![r] = snapshot]
  /\ UNCHANGED <<snapshot, call, answer, served>>

Return(r) ==
  LET given == Answer(seen[r], call[r]) IN
  /\ Move(r, "decided", "idle")
  /\ seen' = [seen EXCEPT ![r] = None]
  /\ answer' = [answer EXCEPT ![r] = given]
  /\ served' = IF given \in Served THEN served + 1 ELSE served
  /\ UNCHANGED <<snapshot, call>>

Next == Publish \/ \E r \in Reader : Ask(r) \/ Decide(r) \/ Return(r)

Spec == Init /\ [][Next]_vars
=============================================================================
