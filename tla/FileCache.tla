----------------------------- MODULE FileCache ------------------------------
(***************************************************************************)
(* The durable cache (_cache.py), system call by system call.  Several     *)
(* processes of a fleet may be configured with one cache_path: they store  *)
(* and load concurrently, and any of them may be killed between two calls. *)
(*                                                                         *)
(* A name in the directory refers to an inode; an open file keeps its      *)
(* inode whatever becomes of the name.  The names are cache_path (path)    *)
(* and the temporary files (temp, and litter once nobody will remove them).*)
(***************************************************************************)
EXTENDS Naturals

CONSTANTS
  Process,
  Inode,
  Envelopes,     \* contents that store() accepts
  Oversized,     \* contents past MAX_RESPONSE_BYTES
  None,
  Empty,         \* the content of a file just created
  Torn,          \* the content a short write leaves
  ShortWrites    \* whether os.write may write less than it is given

ASSUME FileCacheAssumption ==
  /\ None \notin Inode \cup Envelopes \cup Oversized
  /\ Empty \notin Envelopes \cup Oversized \cup {Torn, None}
  /\ Torn \notin Envelopes \cup Oversized \cup {None}
  /\ Envelopes \cap Oversized = {}
  /\ ShortWrites \in BOOLEAN

VARIABLES
  data,      \* inode -> its content
  path,      \* the inode cache_path names, or None
  litter,    \* the inodes named by abandoned temporary files
  temp,      \* process -> the inode of its temporary file, or None
  fd,        \* process -> what the descriptor number of its temporary file is
  raw,       \* process -> what it is storing
  opened,    \* process -> the inode its load() has open, or None
  pc,
  answer     \* process -> what its last call returned

vars == <<data, path, litter, temp, fd, raw, opened, pc, answer>>

Content == Envelopes \cup Oversized \cup {Empty, Torn}

TypeOK ==
  /\ data \in [Inode -> Content]
  /\ path \in Inode \cup {None}
  /\ litter \subseteq Inode
  /\ temp \in [Process -> Inode \cup {None}]
  /\ fd \in [Process -> {"none", "open", "closed", "reused", "stolen"}]
  /\ raw \in [Process -> Envelopes \cup Oversized \cup {None}]
  /\ opened \in [Process -> Inode \cup {None}]
  /\ pc \in [Process -> {"idle", "mkstemp", "write", "close", "replace",
                         "undoClose", "remove", "read"}]
  /\ answer \in [Process -> BOOLEAN \cup Content \cup {None}]

(* At the start the file is missing, or holds what an earlier process       *)
(* stored or another program wrote there.                                   *)
Initial == Envelopes \cup Oversized \cup {Empty}

Init ==
  /\ \E i \in Inode, b \in Initial :
       /\ data = [j \in Inode |-> IF j = i THEN b ELSE Empty]
       /\ path \in {i, None}
  /\ litter = {}
  /\ temp = [p \in Process |-> None]
  /\ fd = [p \in Process |-> "none"]
  /\ raw = [p \in Process |-> None]
  /\ opened = [p \in Process |-> None]
  /\ pc = [p \in Process |-> "idle"]
  /\ answer = [p \in Process |-> None]

(* Mutant of Unused: the temporary file may be the cache file itself, as if *)
(* store() wrote in place.                                                  *)
InPlace(i) == i \notin litter /\ \A p \in Process : temp[p] # i

Unused(i) ==
  /\ i # path /\ i \notin litter
  /\ \A p \in Process : temp[p] # i /\ opened[p] # i

-----------------------------------------------------------------------------
Goto(p, from, to) ==
  /\ pc[p] = from
  /\ pc' = [pc EXCEPT ![p] = to]

(* The call's locals end with it; a descriptor left open does not.          *)
Return(p, from, value) ==
  /\ Goto(p, from, "idle")
  /\ answer' = [answer EXCEPT ![p] = value]
  /\ raw' = [raw EXCEPT ![p] = None]
  /\ opened' = [opened EXCEPT ![p] = None]
  /\ fd' = [fd EXCEPT ![p] = IF fd[p] = "open" THEN "open" ELSE "none"]

(* store(raw): what no load would accept is not stored.                     *)
Store(p) ==
  \/ /\ Goto(p, "idle", "mkstemp")
     /\ raw' \in {[raw EXCEPT ![p] = b] : b \in Envelopes}
     /\ UNCHANGED <<data, path, litter, temp, fd, opened, answer>>
  \/ /\ Oversized # {}
     /\ Return(p, "idle", FALSE)
     /\ UNCHANGED <<data, path, litter, temp>>

(* Mutant of MakeTemp: mkstemp inside the try, so its failure cleans up.    *)
MakeTempInTry(p) ==
  /\ Goto(p, "mkstemp", "undoClose")
  /\ UNCHANGED <<data, path, litter, temp, fd, raw, opened, answer>>

MakeTemp(p) ==
  \/ /\ Goto(p, "mkstemp", "write")
     /\ \E i \in Inode :
          /\ Unused(i)
          /\ temp' = [temp EXCEPT ![p] = i]
          /\ data' = [data EXCEPT ![i] = Empty]
     /\ fd' = [fd EXCEPT ![p] = "open"]
     /\ UNCHANGED <<path, litter, raw, opened, answer>>
  \/ /\ Return(p, "mkstemp", FALSE)
     /\ UNCHANGED <<data, path, litter, temp>>

(* os.write: its return value, the count, is not looked at.                 *)
Write(p) ==
  /\ \/ /\ Goto(p, "write", "close")
        /\ \E content \in IF ShortWrites THEN {raw[p], Torn} ELSE {raw[p]} :
             data' = [data EXCEPT ![temp[p]] = content]
     \/ /\ Goto(p, "write", "undoClose")
        /\ UNCHANGED data
  /\ UNCHANGED <<path, litter, temp, fd, raw, opened, answer>>

(* close(2) releases the descriptor even when it reports an error.          *)
Close(p) ==
  /\ Goto(p, "close", "replace") \/ Goto(p, "close", "undoClose")
  /\ fd' = [fd EXCEPT ![p] = "closed"]
  /\ UNCHANGED <<data, path, litter, temp, raw, opened, answer>>

(* Mutant of Replace: the cleanup also follows a success.                   *)
ReplaceFinally(p) ==
  /\ Goto(p, "replace", "undoClose")
  /\ path' = temp[p]
  /\ UNCHANGED <<data, litter, temp, fd, raw, opened, answer>>

Replace(p) ==
  \/ /\ Return(p, "replace", TRUE)
     /\ path' = temp[p]
     /\ temp' = [temp EXCEPT ![p] = None]
     /\ UNCHANGED <<data, litter>>
  \/ /\ Goto(p, "replace", "undoClose")
     /\ UNCHANGED <<data, path, litter, temp, fd, raw, opened, answer>>

(* Mutant of UndoClose: a failing write leaves its descriptor open.          *)
LeaveOpen(p) ==
  /\ Goto(p, "undoClose", "remove")
  /\ UNCHANGED <<data, path, litter, temp, fd, raw, opened, answer>>

(* The error path closes fd whether or not it is closed already: EBADF is   *)
(* suppressed, but by now the number may be another thread's file.          *)
UndoClose(p) ==
  /\ Goto(p, "undoClose", "remove")
  /\ fd' = [fd EXCEPT ![p] = IF fd[p] = "open" THEN "closed"
                               ELSE IF fd[p] = "reused" THEN "stolen"
                               ELSE fd[p]]
  /\ UNCHANGED <<data, path, litter, temp, raw, opened, answer>>

Remove(p) ==
  /\ Return(p, "remove", FALSE)
  /\ litter' \in {litter, litter \cup {temp[p]}}
  /\ temp' = [temp EXCEPT ![p] = None]
  /\ UNCHANGED <<data, path>>

(* Another thread of the process opens a file and is given the number that  *)
(* was just released.                                                       *)
ReuseDescriptor(p) ==
  /\ fd[p] = "closed"
  /\ fd' = [fd EXCEPT ![p] = "reused"]
  /\ UNCHANGED <<data, path, litter, temp, raw, opened, pc, answer>>

-----------------------------------------------------------------------------
(* load(): None when there is no file, it cannot be opened, or it is empty  *)
(* or oversized.                                                            *)
Open(p) ==
  \/ /\ path # None
     /\ Goto(p, "idle", "read")
     /\ opened' = [opened EXCEPT ![p] = path]
     /\ UNCHANGED <<data, path, litter, temp, fd, raw, answer>>
  \/ /\ Return(p, "idle", None)
     /\ UNCHANGED <<data, path, litter, temp>>

Read(p) ==
  /\ LET content == data[opened[p]]
     IN Return(p, "read", IF content \in Oversized \cup {Empty} THEN None ELSE content)
  /\ UNCHANGED <<data, path, litter, temp>>

(* The process is killed, and restarted: its temporary file stays behind.   *)
Crash(p) ==
  /\ pc[p] # "idle"
  /\ pc' = [pc EXCEPT ![p] = "idle"]
  /\ litter' = litter \cup ({temp[p]} \ {None})
  /\ temp' = [temp EXCEPT ![p] = None]
  /\ fd' = [fd EXCEPT ![p] = "none"]
  /\ raw' = [raw EXCEPT ![p] = None]
  /\ opened' = [opened EXCEPT ![p] = None]
  /\ answer' = [answer EXCEPT ![p] = None]
  /\ UNCHANGED <<data, path>>

Next ==
  \E p \in Process :
    \/ Store(p) \/ MakeTemp(p) \/ Write(p) \/ Close(p) \/ Replace(p)
    \/ UndoClose(p) \/ Remove(p) \/ ReuseDescriptor(p)
    \/ Open(p) \/ Read(p) \/ Crash(p)

Spec == Init /\ [][Next]_vars

-----------------------------------------------------------------------------
(* The directory and the descriptors seen from outside.                     *)
FileContent == IF path = None THEN None ELSE data[path]

Stage ==
  [p \in Process |-> IF pc[p] = "idle" THEN "idle"
                     ELSE IF pc[p] = "read" THEN "loading" ELSE "storing"]

Seen == [p \in Process |-> IF opened[p] = None THEN None ELSE data[opened[p]]]

Abstract == INSTANCE AtomicFile WITH
  durable <- FileContent, stage <- Stage, wanted <- raw, seen <- Seen,
  Unloadable <- Oversized \cup {Empty}

(* store() and load() are atomic, whatever fails, is killed or interleaves: *)
(* the file is exchanged in the very step that answers TRUE, an answer of   *)
(* FALSE or a crash leaves it as it was, and a load gives what the file     *)
(* held at one moment of the call, though it be replaced while it is read   *)
(* (_cache.py:27, 43).  Only a short write puts less there than was given.  *)
ReplacedAtomically == Abstract!Spec

(* What a load has open does not change under it, though the file be        *)
(* replaced, and the inode's name reused, while it reads.                   *)
ReadSeesOneFile ==
  [][\A p \in Process : opened[p] # None /\ opened'[p] = opened[p]
                           => data'[opened[p]] = data[opened[p]]]_vars

(* The cleanup after a failed store never takes the live cache file, and    *)
(* two stores never share a temporary file.                                 *)
CleanupSparesCache ==
  /\ path \notin litter
  /\ \A p \in Process : temp[p] # None =>
       /\ temp[p] # path
       /\ \A q \in Process \ {p} : temp[q] # temp[p]

(* Every way out of store() and load() gives back what it took: the         *)
(* descriptor is closed and no temporary file is held.                      *)
NothingHeldWhenIdle ==
  \A p \in Process : pc[p] = "idle" => temp[p] = None /\ fd[p] # "open"

(* The inductive strengthening: who holds what at which point of a call.    *)
HoldsTemp(p) == pc[p] \in {"write", "close", "replace", "undoClose", "remove"}

HoldingInv ==
  /\ \A p \in Process : HoldsTemp(p) <=> temp[p] # None
  /\ \A p \in Process : HoldsTemp(p) \/ pc[p] = "mkstemp" => raw[p] \in Envelopes
  /\ \A p \in Process : pc[p] = "read" <=> opened[p] # None
  /\ \A p \in Process : pc[p] \in {"idle", "mkstemp", "read"} => fd[p] = "none"
  /\ \A p \in Process : pc[p] \in {"replace", "remove"} => fd[p] # "open"

(* A file being read, or abandoned, is nobody's temporary file; one about   *)
(* to become the cache is what was given to store(), or what a short write  *)
(* left of it.                                                              *)
ContentInv ==
  /\ \A p, q \in Process : opened[p] # None => temp[q] # opened[p]
  /\ \A p \in Process : temp[p] # None => temp[p] \notin litter
  /\ \A p \in Process : pc[p] \in {"close", "replace"} =>
       \/ data[temp[p]] = raw[p]
       \/ ShortWrites /\ data[temp[p]] = Torn

Inductive ==
  TypeOK /\ HoldingInv /\ ContentInv /\ CleanupSparesCache /\ NothingHeldWhenIdle

-----------------------------------------------------------------------------
(* What the code's comments say and the code does not do                   *)

(* The file holds "the last VERIFIED envelope's raw bytes - verbatim": a    *)
(* crash or a failing write leaves the last good envelope, "rather than a   *)
(* truncated one".                                                          *)
NeverTruncated == FileContent # Torn

(* "A cache problem is never the customer's problem": a failing store does  *)
(* not close a file of the application's.                                   *)
NeverClosesAnothersFile == \A p \in Process : fd[p] # "stolen"
=============================================================================
