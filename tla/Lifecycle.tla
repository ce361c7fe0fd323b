----------------------------- MODULE Lifecycle ------------------------------
(***************************************************************************)
(* A fleet over time (_client.py, _cache.py, _transport.py): processes     *)
(* that start, poll, crash and start again, one cache file between them,   *)
(* and a server that exports one ruleset after another.                    *)
(*                                                                         *)
(* A ruleset is its version, 0 is none, and an ETag is the version it was  *)
(* sent with.  What Client takes step by step within one process is here   *)
(* what a restart, another process or the server can fall between: one     *)
(* poller per process, no close(), and the cache file an atomic register,  *)
(* as FileCache shows.                                                     *)
(***************************************************************************)
EXTENDS Integers

CONSTANTS
  Process,      \* the processes configured with this cache_path
  Nobody,       \* no process: the cache file is as it was found
  Failure,      \* the exchanges that bring neither a ruleset nor a 304
  MaxVersion,   \* bound: the rulesets exported
  MaxCrashes    \* bound: the crashes, of all processes together

Nothing == 0
Version == 1..MaxVersion

(* A body that is no ruleset: tampered with, or cut short.                  *)
Garbage == -1
Body == Version \cup {Garbage}

T == INSTANCE Transport WITH None <- Nothing

ASSUME LifecycleAssumption ==
  /\ Nobody \notin Process
  /\ MaxVersion \in Nat \ {0} /\ MaxCrashes \in Nat
  /\ Failure \subseteq T!Exchange
  /\ \A x \in Failure : x.raised # "nothing" \/ x.status \notin {200, 304}

VARIABLES
  version,      \* what the server exports
  expired,      \* every version up to this one is past its expires_at
  file,         \* the cache file
  place,        \* where each process is
  served,       \* _snapshot
  etag,         \* _etag
  reply,        \* _poll_loop's local: the outcome at hand
  crashes,      \* how many crashes there were
  certified,    \* history: what the server exported when it gave that outcome
  writer,       \* history: whose last store the cache file is, whole
  offered,      \* history: what the process found in the cache file
  seen          \* history: what the process served when it crashed

serverVars == <<version, expired>>
historyVars == <<writer, offered, seen>>
vars == <<serverVars, file, place, served, etag, reply, crashes, certified, historyVars>>

Place == {"down", "load", "ask", "landing", "store", "publish", "note", "wait", "dead"}

TypeOK ==
  /\ version \in Version /\ expired \in 0..MaxVersion
  /\ file \in Body \cup {Nothing}
  /\ place \in [Process -> Place]
  /\ served \in [Process -> Version \cup {Nothing}]
  /\ etag \in [Process -> Version \cup {Nothing}]
  /\ reply \in [Process -> T!Outcome]
  /\ crashes \in 0..MaxCrashes
  /\ certified \in [Process -> Version \cup {Nothing}]
  /\ writer \in Process \cup {Nobody}
  /\ offered \in [Process -> Body \cup {Nothing}]
  /\ seen \in [Process -> Version \cup {Nothing}]

Init ==
  /\ version = 1 /\ expired = 0
  /\ file \in {Nothing, Garbage, 1}
  /\ place = [p \in Process |-> "down"]
  /\ served = [p \in Process |-> Nothing]
  /\ etag = [p \in Process |-> Nothing]
  /\ reply = [p \in Process |-> T!NoOutcome]
  /\ crashes = 0
  /\ certified = [p \in Process |-> Nothing]
  /\ writer = Nobody
  /\ offered = [p \in Process |-> Nothing]
  /\ seen = [p \in Process |-> Nothing]

-----------------------------------------------------------------------------
(* The server                                                              *)

Export ==
  /\ version < MaxVersion
  /\ version' = version + 1
  /\ UNCHANGED <<expired, file, place, served, etag, reply, crashes, certified, historyVars>>

(* Rulesets expire in the order they were issued.                           *)
Expire ==
  /\ expired < version
  /\ expired' = expired + 1
  /\ UNCHANGED <<version, file, place, served, etag, reply, crashes, certified, historyVars>>

Answering(status, body, tag) ==
  [raised |-> "nothing", status |-> status, body |-> body, fits |-> TRUE,
   etag |-> tag, retryAfter |-> "absent"]

(* 304 exactly when the ETag sent is that of the ruleset exported; an ETag  *)
(* may be left out.                                                         *)
Honest(tag) ==
  IF tag = version
  THEN {Answering(304, Nothing, Nothing)}
  ELSE {Answering(200, version, t) : t \in {version, Nothing}}

(* The right headers over the wrong body.                                   *)
Corrupted == {Answering(200, Garbage, version)}

-----------------------------------------------------------------------------
(* A process                                                               *)

Goto(p, from, to) == place[p] = from /\ place' = [place EXCEPT ![p] = to]

Start(p) ==
  /\ Goto(p, "down", "load")
  /\ UNCHANGED <<serverVars, file, served, etag, reply, crashes, certified, historyVars>>

(* Mutant of Restorable: an expired cache file is refused.                  *)
Unexpired(b) == b \in Version /\ b > expired

(* verify_envelope with expiry unenforced: the cache-load half.             *)
Restorable(b) == b \in Version

(* verify_envelope with expiry enforced: a live response.                   *)
Acceptable(b) == b \in Version /\ b > expired

(* _load_cache: an unreadable file counts as missing.                       *)
Load(p) ==
  /\ Goto(p, "load", "ask")
  /\ \E raw \in {file, Nothing} :
       /\ offered' = [offered EXCEPT ![p] = raw]
       /\ served' = [served EXCEPT ![p] = IF Restorable(raw) THEN raw ELSE Nothing]
  /\ UNCHANGED <<serverVars, file, etag, reply, crashes, certified, writer, seen>>

(* fetch_ruleset: the answer is settled when the server gives it, and lands *)
(* later.                                                                   *)
Receive(p, exchanges) ==
  /\ \E x \in exchanges :
       IF x.raised \in T!Uncaught
       THEN Goto(p, "ask", "dead") /\ UNCHANGED reply
       ELSE Goto(p, "ask", "landing") /\ reply' = [reply EXCEPT ![p] = T!FetchRuleset(x)]
  /\ certified' = [certified EXCEPT ![p] = IF place'[p] = "landing" THEN version ELSE Nothing]
  /\ UNCHANGED <<serverVars, file, served, etag, crashes, historyVars>>

Reach(p) == Receive(p, Honest(etag[p]))
Miss(p) == Receive(p, Corrupted \cup Failure)

(* Mutant of After: the getters see the ruleset before the file holds it.   *)
AfterPublishing(here) ==
  CASE here = "landing" -> "publish"
    [] here = "publish" -> "store"
    [] here = "store" -> "note"

(* The order in which a verified ruleset takes effect.                      *)
After(here) ==
  CASE here = "landing" -> "store"
    [] here = "store" -> "publish"
    [] here = "publish" -> "note"

(* Mutant of Verified: a 200 is enough.                                     *)
Delivered(outcome) == outcome.kind = "success"

Verified(outcome) == outcome.kind = "success" /\ Acceptable(outcome.body)

(* Mutant of Land: the ETag of a refused ruleset is kept.                   *)
LandKeepingEtag(p) ==
  /\ IF Verified(reply[p])
     THEN Goto(p, "landing", After("landing")) /\ UNCHANGED <<reply, etag>>
     ELSE /\ Goto(p, "landing", "wait")
          /\ reply' = [reply EXCEPT ![p] = T!NoOutcome]
          /\ etag' = IF reply[p].kind = "success"
                     THEN [etag EXCEPT ![p] = reply[p].etag] ELSE etag
  /\ certified' = [certified EXCEPT ![p] = Nothing]
  /\ UNCHANGED <<serverVars, file, served, crashes, historyVars>>

(* _record: whatever is not a verified ruleset changes nothing served.      *)
Land(p) ==
  /\ IF Verified(reply[p])
     THEN Goto(p, "landing", After("landing")) /\ UNCHANGED reply
     ELSE Goto(p, "landing", "wait") /\ reply' = [reply EXCEPT ![p] = T!NoOutcome]
  /\ certified' = [certified EXCEPT ![p] = Nothing]
  /\ UNCHANGED <<serverVars, file, served, etag, crashes, historyVars>>

(* FileCache.store: done, cut short unnoticed, or failed.                   *)
StoreCache(p) ==
  /\ Goto(p, "store", After("store"))
  /\ \/ file' = reply[p].body /\ writer' = p
     \/ file' = Garbage /\ writer' = Nobody
     \/ UNCHANGED file /\ writer' = IF writer = p THEN Nobody ELSE writer
  /\ UNCHANGED <<serverVars, served, etag, reply, crashes, certified, offered, seen>>

(* Mutant of Publish: what the file holds is published.                     *)
PublishFile(p) ==
  /\ Goto(p, "publish", After("publish"))
  /\ served' = [served EXCEPT ![p] = IF file \in Version THEN file ELSE reply[p].body]
  /\ UNCHANGED <<serverVars, file, etag, reply, crashes, certified, historyVars>>

Publish(p) ==
  /\ Goto(p, "publish", After("publish"))
  /\ served' = [served EXCEPT ![p] = reply[p].body]
  /\ UNCHANGED <<serverVars, file, etag, reply, crashes, certified, historyVars>>

Note(p) ==
  /\ Goto(p, "note", "wait")
  /\ etag' = [etag EXCEPT ![p] = reply[p].etag]
  /\ reply' = [reply EXCEPT ![p] = T!NoOutcome]
  /\ UNCHANGED <<serverVars, file, served, crashes, certified, historyVars>>

Wait(p) ==
  /\ Goto(p, "wait", "ask")
  /\ UNCHANGED <<serverVars, file, served, etag, reply, crashes, certified, historyVars>>

(* Everything but the file goes.                                            *)
Crash(p) ==
  /\ crashes < MaxCrashes /\ crashes' = crashes + 1
  /\ place[p] # "down" /\ place' = [place EXCEPT ![p] = "down"]
  /\ served' = [served EXCEPT ![p] = Nothing]
  /\ etag' = [etag EXCEPT ![p] = Nothing]
  /\ reply' = [reply EXCEPT ![p] = T!NoOutcome]
  /\ offered' = [offered EXCEPT ![p] = Nothing]
  /\ seen' = [seen EXCEPT ![p] = served[p]]
  /\ certified' = [certified EXCEPT ![p] = Nothing]
  /\ UNCHANGED <<serverVars, file, writer>>

-----------------------------------------------------------------------------
Step(p) ==
  \/ Load(p) \/ Reach(p) \/ Miss(p) \/ Land(p) \/ StoreCache(p) \/ Publish(p)
  \/ Note(p) \/ Wait(p)

Next ==
  \/ Export \/ Expire
  \/ \E p \in Process : Start(p) \/ Step(p) \/ Crash(p)

Spec == Init /\ [][Next]_vars

(* A thread runs until it blocks, what it waits for is bounded, and the     *)
(* server is reached again and again.  Nothing obliges it to export, or a   *)
(* process to start.                                                        *)
FairSpec ==
  Spec /\ \A p \in Process : WF_vars(Step(p)) /\ SF_vars(Reach(p))

-----------------------------------------------------------------------------
(* A 304 tells the truth: the ruleset it lets the process go on with is the *)
(* one the server exported when it said so, whatever was refused, restored  *)
(* or replaced since the last 200 (_client.py keeps _etag only with the     *)
(* snapshot it came with, and forgets it at a restart).                     *)
NotModifiedIsTruthful ==
  \A p \in Process :
    place[p] = "landing" /\ reply[p].kind = "notModified" => served[p] = certified[p]

(* A process never goes back to an older ruleset while it lives, though     *)
(* issued_at is compared nowhere: the server only moves on, one request is  *)
(* under way at a time, and the cache file is read before the first.        *)
ServedNeverGoesBack ==
  [][\A p \in Process : place'[p] # "down" => served'[p] >= served[p]]_vars

(* "A service that restarts keeps evaluating with what it last saw": the    *)
(* file a process was the last to replace holds no less than it serves, or  *)
(* served when it crashed - at whatever step - unless its last store failed *)
(* or was cut short.                                                        *)
RestartKeepsRuleset ==
  \A p \in Process :
    writer = p => file >= served[p] /\ file >= seen[p]

(* An outage is survived: a process that found a ruleset in the cache file  *)
(* answers from it or from a later one, however long ago it expired and     *)
(* whatever the server or the network does, a dead poller included.         *)
OutageSurvived ==
  \A p \in Process :
    offered[p] \in Version => served[p] >= offered[p]

(* The fleet converges: what the server goes on exporting reaches every     *)
(* process that stays up, unless it expires first or the poller dies.       *)
Converges ==
  \A p \in Process : \A v \in Version :
    version = v /\ place[p] \notin {"down", "dead"}
      ~> \/ served[p] = v \/ version # v \/ expired >= v
         \/ place[p] \in {"down", "dead"}

-----------------------------------------------------------------------------
(* The inductive strengthening of the safety properties.                    *)

(* Nothing is ahead of the server.                                          *)
NothingAhead ==
  /\ file <= version
  /\ \A p \in Process : served[p] <= version /\ seen[p] <= version

(* An outcome is held from its arrival to the note, and a process that has  *)
(* not read the cache file yet holds nothing.                               *)
HoldsNothing(p) ==
  /\ place[p] \in {"down", "load", "ask", "wait", "dead"} => reply[p] = T!NoOutcome
  /\ place[p] \in {"down", "load"} =>
       served[p] = Nothing /\ etag[p] = Nothing /\ offered[p] = Nothing

(* A ruleset under way is no older than anything the process ever served.   *)
RulesetUnderWay(p) ==
  /\ place[p] \in {"landing", "store", "publish", "note"} /\ reply[p].body \in Version =>
       /\ reply[p].body >= served[p] /\ reply[p].body >= seen[p]
       /\ reply[p].body <= version
       /\ reply[p].etag \in {Nothing, reply[p].body}
  /\ place[p] \in {"store", "publish", "note"} => reply[p].body \in Version
  /\ place[p] = "publish" /\ writer = p => file = reply[p].body
  /\ place[p] = "note" => served[p] = reply[p].body

(* Between publication and the note the snapshot is ahead of the ETag.      *)
EtagNamesServed(p) ==
  etag[p] # Nothing /\ place[p] # "note" => served[p] = etag[p]

ProcessInv(p) == HoldsNothing(p) /\ RulesetUnderWay(p) /\ EtagNamesServed(p)

Inductive ==
  /\ TypeOK /\ NothingAhead
  /\ \A p \in Process : ProcessInv(p)
  /\ NotModifiedIsTruthful /\ RestartKeepsRuleset /\ OutageSurvived

-----------------------------------------------------------------------------
(* Whoever wrote the file: false when processes share a cache_path and a    *)
(* slow one stores after a quick one.                                       *)
RestartNeverRollsBack ==
  [][\A p \in Process :
       place[p] = "load" /\ offered'[p] \in Version => served'[p] >= seen[p]]_vars

(* What is left of it: a restart that reads a file this process replaced    *)
(* last never serves less than was served when it crashed.                  *)
OwnFileNeverRollsBack ==
  [][\A p \in Process :
       place[p] = "load" /\ writer = p /\ offered'[p] \in Version
         => served'[p] >= seen[p]]_vars
=============================================================================
