--------------------------- MODULE FileCacheProofs --------------------------
(***************************************************************************)
(* Proofs about FileCache, for any number of processes and inodes.         *)
(***************************************************************************)
EXTENDS FileCache, TLAPS

(* Init is inside the invariant.                                            *)
LEMMA InductiveInit == Init => Inductive
<1> SUFFICES ASSUME Init PROVE Inductive
  OBVIOUS
<1>1. TypeOK
  <2>1. PICK i \in Inode, b \in Initial :
          data = [j \in Inode |-> IF j = i THEN b ELSE Empty] /\ path \in {i, None}
    BY DEF Init
  <2>2. data \in [Inode -> Content]
    BY <2>1 DEF Initial, Content
  <2>3. path \in Inode \cup {None}
    BY <2>1
  <2>4. QED
    BY <2>2, <2>3 DEF Init, TypeOK
<1>2. HoldingInv /\ ContentInv /\ CleanupSparesCache /\ NothingHeldWhenIdle
  BY DEF Init, HoldingInv, HoldsTemp, ContentInv, CleanupSparesCache,
         NothingHeldWhenIdle
<1>3. QED
  BY <1>1, <1>2 DEF Inductive

-----------------------------------------------------------------------------
(* Returning keeps the type of what it resets.                              *)
LEMMA ReturnTypes ==
  ASSUME TypeOK, NEW p \in Process, NEW from, NEW value \in BOOLEAN \cup Content \cup {None},
         Return(p, from, value)
  PROVE  /\ fd' \in [Process -> {"none", "open", "closed", "reused", "stolen"}]
         /\ raw' \in [Process -> Envelopes \cup Oversized \cup {None}]
         /\ opened' \in [Process -> Inode \cup {None}]
         /\ pc' \in [Process -> {"idle", "mkstemp", "write", "close", "replace",
                                "undoClose", "remove", "read"}]
         /\ answer' \in [Process -> BOOLEAN \cup Content \cup {None}]
BY DEF TypeOK, Return, Goto

(* The second close leaves nothing open.                                    *)
LEMMA UndoneDescriptor ==
  ASSUME NEW p \in Process, UndoClose(p)
  PROVE \E d \in ({"closed", "stolen", fd[p]} \ {"open"}) : fd' = [fd EXCEPT ![p] = d]
<1>1. CASE fd[p] = "open"
  <2>1. fd' = [fd EXCEPT ![p] = "closed"]
    BY <1>1 DEF UndoClose
  <2>2. QED
    BY <2>1
<1>2. CASE fd[p] = "reused"
  <2>1. fd' = [fd EXCEPT ![p] = "stolen"]
    BY <1>2 DEF UndoClose
  <2>2. QED
    BY <2>1
<1>3. CASE fd[p] \notin {"open", "reused"}
  <2>1. fd' = [fd EXCEPT ![p] = fd[p]]
    BY <1>3 DEF UndoClose
  <2>2. QED
    BY <1>3, <2>1
<1>4. QED
  BY <1>1, <1>2, <1>3

(* Every step preserves the types.                                          *)
LEMMA TypeStep == Inductive /\ [Next]_vars => TypeOK'
<1> SUFFICES ASSUME Inductive, [Next]_vars PROVE TypeOK'
  OBVIOUS
<1>0. TypeOK /\ HoldingInv
  BY DEF Inductive
<1> USE DEF TypeOK, Goto, Return
<1>1. ASSUME NEW p \in Process, Store(p) PROVE TypeOK'
  BY <1>0, <1>1 DEF Store
<1>2. ASSUME NEW p \in Process, MakeTemp(p) PROVE TypeOK'
  <2>1. CASE Return(p, "mkstemp", FALSE)
    <3> HIDE DEF Return
    <3>1. pc'[p] = "idle" /\ pc[p] = "mkstemp"
      BY <1>0, <2>1 DEF Return
    <3>2. UNCHANGED <<data, path, litter, temp>>
      BY <1>0, <1>2, <3>1 DEF MakeTemp
    <3>3. QED
      BY <1>0, <2>1, <3>2, ReturnTypes
  <2>2. CASE ~Return(p, "mkstemp", FALSE)
    <3> HIDE DEF Return
    <3>1. PICK i \in Inode : /\ temp' = [temp EXCEPT ![p] = i]
                             /\ data' = [data EXCEPT ![i] = Empty]
      BY <1>2, <2>2 DEF MakeTemp
    <3>2. data' \in [Inode -> Content]
      BY <1>0, <3>1 DEF Content
    <3>3. QED
      BY <1>0, <1>2, <2>2, <3>1, <3>2 DEF MakeTemp
  <2>3. QED
    BY <2>1, <2>2
<1>3. ASSUME NEW p \in Process, Write(p) PROVE TypeOK'
  <2>1. temp[p] \in Inode /\ raw[p] \in Content
    BY <1>0, <1>3 DEF Write, HoldingInv, HoldsTemp, Content
  <2>2. data' \in [Inode -> Content]
    <3>1. CASE UNCHANGED data
      BY <1>0, <3>1
    <3>2. CASE ~UNCHANGED data
      <4>1. PICK content \in {raw[p], Torn} :
              data' = [data EXCEPT ![temp[p]] = content]
        <5>1. PICK content \in IF ShortWrites THEN {raw[p], Torn} ELSE {raw[p]} :
                data' = [data EXCEPT ![temp[p]] = content]
          BY <1>3, <3>2 DEF Write
        <5>2. content \in {raw[p], Torn}
          BY <5>1
        <5>3. QED
          BY <5>1, <5>2
      <4>2. content \in Content
        BY <2>1 DEF Content
      <4>3. QED
        BY <1>0, <2>1, <4>1, <4>2
    <3>3. QED
      BY <3>1, <3>2
  <2>3. QED
    BY <1>0, <1>3, <2>2 DEF Write
<1>4. ASSUME NEW p \in Process, Close(p) PROVE TypeOK'
  BY <1>0, <1>4 DEF Close
<1>5. ASSUME NEW p \in Process, Replace(p) PROVE TypeOK'
  <2> HIDE DEF Return
  <2>1. CASE Return(p, "replace", TRUE)
    <3>1. pc[p] = "replace"
      BY <2>1 DEF Return
    <3>2. temp[p] \in Inode /\ path' \in Inode \cup {None}
      BY <1>0, <1>5, <3>1 DEF Replace, HoldingInv, HoldsTemp
    <3>3. temp' \in [Process -> Inode \cup {None}]
      BY <1>0, <1>5 DEF Replace
    <3>4. UNCHANGED <<data, litter>>
      BY <1>5 DEF Replace
    <3>5. QED
      BY <1>0, <2>1, <3>2, <3>3, <3>4, ReturnTypes
  <2>2. CASE ~Return(p, "replace", TRUE)
    BY <1>0, <1>5, <2>2 DEF Replace
  <2>3. QED
    BY <2>1, <2>2
<1>6. ASSUME NEW p \in Process, UndoClose(p) PROVE TypeOK'
  <2>1. PICK d \in {"closed", "stolen", fd[p]} : fd' = [fd EXCEPT ![p] = d]
    BY <1>6, UndoneDescriptor
  <2>2. fd' \in [Process -> {"none", "open", "closed", "reused", "stolen"}]
    BY <1>0, <2>1
  <2>3. QED
    BY <1>0, <1>6, <2>2 DEF UndoClose
<1>7. ASSUME NEW p \in Process, Remove(p) PROVE TypeOK'
  BY <1>0, <1>7 DEF Remove, HoldingInv, HoldsTemp
<1>8. ASSUME NEW p \in Process, ReuseDescriptor(p) PROVE TypeOK'
  BY <1>0, <1>8 DEF ReuseDescriptor
<1>9. ASSUME NEW p \in Process, Open(p) PROVE TypeOK'
  BY <1>0, <1>9 DEF Open
<1>10. ASSUME NEW p \in Process, Read(p) PROVE TypeOK'
  BY <1>0, <1>10 DEF Read, HoldingInv
<1>11. ASSUME NEW p \in Process, Crash(p) PROVE TypeOK'
  BY <1>0, <1>11 DEF Crash
<1>12. CASE UNCHANGED vars
  BY <1>0, <1>12 DEF vars
<1>13. QED
  BY <1>1, <1>2, <1>3, <1>4, <1>5, <1>6, <1>7, <1>8, <1>9, <1>10, <1>11, <1>12
     DEF Next

-----------------------------------------------------------------------------
(* Who holds what at which point of a call is preserved.                    *)
LEMMA HoldingStep == Inductive /\ [Next]_vars => HoldingInv' /\ NothingHeldWhenIdle'
<1> SUFFICES ASSUME Inductive, [Next]_vars PROVE HoldingInv' /\ NothingHeldWhenIdle'
  OBVIOUS
<1>0. TypeOK /\ HoldingInv /\ NothingHeldWhenIdle
  BY DEF Inductive
<1> USE FileCacheAssumption
<1> USE DEF TypeOK, Goto, Return, HoldingInv, HoldsTemp, NothingHeldWhenIdle
<1>1. ASSUME NEW p \in Process, Store(p) PROVE HoldingInv' /\ NothingHeldWhenIdle'
  BY <1>0, <1>1 DEF Store
<1>2. ASSUME NEW p \in Process, MakeTemp(p) PROVE HoldingInv' /\ NothingHeldWhenIdle'
  BY <1>0, <1>2 DEF MakeTemp
<1>3. ASSUME NEW p \in Process, Write(p) PROVE HoldingInv' /\ NothingHeldWhenIdle'
  BY <1>0, <1>3 DEF Write
<1>4. ASSUME NEW p \in Process, Close(p) PROVE HoldingInv' /\ NothingHeldWhenIdle'
  BY <1>0, <1>4 DEF Close
<1>5. ASSUME NEW p \in Process, Replace(p) PROVE HoldingInv' /\ NothingHeldWhenIdle'
  BY <1>0, <1>5 DEF Replace
<1>6. ASSUME NEW p \in Process, UndoClose(p) PROVE HoldingInv' /\ NothingHeldWhenIdle'
  <2>1. PICK d \in {"none", "closed", "reused", "stolen"} : fd' = [fd EXCEPT ![p] = d]
    BY <1>0, <1>6, UndoneDescriptor
  <2>2. QED
    BY <1>0, <1>6, <2>1 DEF UndoClose
<1>7. ASSUME NEW p \in Process, Remove(p) PROVE HoldingInv' /\ NothingHeldWhenIdle'
  BY <1>0, <1>7 DEF Remove
<1>8. ASSUME NEW p \in Process, ReuseDescriptor(p) PROVE HoldingInv' /\ NothingHeldWhenIdle'
  BY <1>0, <1>8 DEF ReuseDescriptor
<1>9. ASSUME NEW p \in Process, Open(p) PROVE HoldingInv' /\ NothingHeldWhenIdle'
  BY <1>0, <1>9 DEF Open
<1>10. ASSUME NEW p \in Process, Read(p) PROVE HoldingInv' /\ NothingHeldWhenIdle'
  BY <1>0, <1>10 DEF Read
<1>11. ASSUME NEW p \in Process, Crash(p) PROVE HoldingInv' /\ NothingHeldWhenIdle'
  BY <1>0, <1>11 DEF Crash
<1>12. CASE UNCHANGED vars
  BY <1>0, <1>12 DEF vars
<1>13. QED
  BY <1>1, <1>2, <1>3, <1>4, <1>5, <1>6, <1>7, <1>8, <1>9, <1>10, <1>11, <1>12
     DEF Next

-----------------------------------------------------------------------------
(* What is in the files, and which files are apart, is preserved.           *)
LEMMA ContentStep == Inductive /\ [Next]_vars => ContentInv' /\ CleanupSparesCache'
<1> SUFFICES ASSUME Inductive, [Next]_vars PROVE ContentInv' /\ CleanupSparesCache'
  OBVIOUS
<1>0. TypeOK /\ HoldingInv /\ ContentInv /\ CleanupSparesCache
  BY DEF Inductive
<1> USE FileCacheAssumption
<1> USE DEF TypeOK, Goto, Return, HoldingInv, HoldsTemp, ContentInv, CleanupSparesCache
<1>1. ASSUME NEW p \in Process, Store(p) PROVE ContentInv' /\ CleanupSparesCache'
  BY <1>0, <1>1 DEF Store
<1>2. ASSUME NEW p \in Process, MakeTemp(p) PROVE ContentInv' /\ CleanupSparesCache'
  <2>1. CASE pc'[p] = "write"
    <3>1. PICK i \in Inode : /\ Unused(i)
                             /\ temp' = [temp EXCEPT ![p] = i]
                             /\ data' = [data EXCEPT ![i] = Empty]
      BY <1>0, <1>2, <2>1 DEF MakeTemp
    <3>2. ContentInv'
      BY <1>0, <1>2, <2>1, <3>1 DEF MakeTemp, Unused
    <3>3. CleanupSparesCache'
      BY <1>0, <1>2, <2>1, <3>1 DEF MakeTemp, Unused
    <3>4. QED
      BY <3>2, <3>3
  <2>2. CASE pc'[p] # "write"
    BY <1>0, <1>2, <2>2 DEF MakeTemp
  <2>3. QED
    BY <2>1, <2>2
<1>3. ASSUME NEW p \in Process, Write(p) PROVE ContentInv' /\ CleanupSparesCache'
  BY <1>0, <1>3 DEF Write
<1>4. ASSUME NEW p \in Process, Close(p) PROVE ContentInv' /\ CleanupSparesCache'
  BY <1>0, <1>4 DEF Close
<1>5. ASSUME NEW p \in Process, Replace(p) PROVE ContentInv' /\ CleanupSparesCache'
  <2>1. CASE pc'[p] = "idle"
    <3>1. /\ pc[p] = "replace" /\ pc' = [pc EXCEPT ![p] = "idle"]
          /\ path' = temp[p] /\ temp' = [temp EXCEPT ![p] = None]
          /\ opened' = [opened EXCEPT ![p] = None]
          /\ raw' = [raw EXCEPT ![p] = None]
          /\ UNCHANGED <<data, litter>>
      BY <1>0, <1>5, <2>1 DEF Replace
    <3>2. temp[p] # None /\ temp[p] \notin litter
      BY <1>0, <3>1
    <3>3. CleanupSparesCache'
      BY <1>0, <3>1, <3>2
    <3>4. ContentInv'
      BY <1>0, <3>1
    <3>5. QED
      BY <3>3, <3>4
  <2>2. CASE pc'[p] # "idle"
    BY <1>0, <1>5, <2>2 DEF Replace
  <2>3. QED
    BY <2>1, <2>2
<1>6. ASSUME NEW p \in Process, UndoClose(p) PROVE ContentInv' /\ CleanupSparesCache'
  BY <1>0, <1>6 DEF UndoClose
<1>7. ASSUME NEW p \in Process, Remove(p) PROVE ContentInv' /\ CleanupSparesCache'
  BY <1>0, <1>7 DEF Remove
<1>8. ASSUME NEW p \in Process, ReuseDescriptor(p) PROVE ContentInv' /\ CleanupSparesCache'
  BY <1>0, <1>8 DEF ReuseDescriptor
<1>9. ASSUME NEW p \in Process, Open(p) PROVE ContentInv' /\ CleanupSparesCache'
  BY <1>0, <1>9 DEF Open
<1>10. ASSUME NEW p \in Process, Read(p) PROVE ContentInv' /\ CleanupSparesCache'
  BY <1>0, <1>10 DEF Read
<1>11. ASSUME NEW p \in Process, Crash(p) PROVE ContentInv' /\ CleanupSparesCache'
  BY <1>0, <1>11 DEF Crash
<1>12. CASE UNCHANGED vars
  BY <1>0, <1>12 DEF vars
<1>13. QED
  BY <1>1, <1>2, <1>3, <1>4, <1>5, <1>6, <1>7, <1>8, <1>9, <1>10, <1>11, <1>12
     DEF Next

-----------------------------------------------------------------------------
(* The steps that write to an inode, and to which.                          *)
LEMMA DataStep ==
  ASSUME Inductive, Next
  PROVE  \/ UNCHANGED data
         \/ \E i \in Inode : /\ Unused(i)
                             /\ data' = [data EXCEPT ![i] = Empty]
                             /\ UNCHANGED path
         \/ \E p \in Process : /\ pc[p] = "write"
                               /\ \E b : data' = [data EXCEPT ![temp[p]] = b]
                               /\ UNCHANGED path
<1> USE DEF Goto, Return
<1>1. PICK p \in Process :
        \/ Store(p) \/ MakeTemp(p) \/ Write(p) \/ Close(p) \/ Replace(p)
        \/ UndoClose(p) \/ Remove(p) \/ ReuseDescriptor(p)
        \/ Open(p) \/ Read(p) \/ Crash(p)
  BY DEF Next
<1>2. CASE MakeTemp(p)
  BY <1>2 DEF MakeTemp
<1>3. CASE Write(p)
  BY <1>3 DEF Write
<1>4. CASE Store(p)
  BY <1>4 DEF Store
<1>5. CASE Close(p) \/ UndoClose(p) \/ Remove(p) \/ ReuseDescriptor(p)
  BY <1>5 DEF Close, UndoClose, Remove, ReuseDescriptor
<1>6. CASE Replace(p)
  BY <1>6 DEF Replace
<1>7. CASE Open(p) \/ Read(p) \/ Crash(p)
  BY <1>7 DEF Open, Read, Crash
<1>8. QED
  BY <1>1, <1>2, <1>3, <1>4, <1>5, <1>6, <1>7

(* A step does not change a file that is open for reading.                  *)
LEMMA ReadStep ==
  ASSUME Inductive, Next, NEW p \in Process, opened[p] # None
  PROVE  data'[opened[p]] = data[opened[p]]
<1>1. TypeOK /\ HoldingInv /\ ContentInv
  BY DEF Inductive
<1>2. opened[p] \in Inode
  BY <1>1 DEF TypeOK
<1>3. CASE UNCHANGED data
  BY <1>3
<1>4. ASSUME NEW i \in Inode, Unused(i), data' = [data EXCEPT ![i] = Empty]
      PROVE  data'[opened[p]] = data[opened[p]]
  <2>1. opened[p] # i
    BY <1>4 DEF Unused
  <2>2. QED
    BY <1>1, <1>2, <1>4, <2>1 DEF TypeOK
<1>5. ASSUME NEW q \in Process, NEW b, data' = [data EXCEPT ![temp[q]] = b]
      PROVE  data'[opened[p]] = data[opened[p]]
  <2>1. opened[p] # temp[q]
    BY <1>1 DEF ContentInv
  <2>2. QED
    BY <1>1, <1>2, <1>5, <2>1 DEF TypeOK
<1>6. QED
  BY <1>3, <1>4, <1>5, DataStep

-----------------------------------------------------------------------------
(* Seen from outside: store() and load() in one step.                       *)

LEMMA AbstractInit == Init => Abstract!Init
<1> SUFFICES ASSUME Init PROVE Abstract!Init
  OBVIOUS
<1>1. FileContent \in Initial \cup {None}
  <2>1. PICK i \in Inode, b \in Initial :
          data = [j \in Inode |-> IF j = i THEN b ELSE Empty] /\ path \in {i, None}
    BY DEF Init
  <2>2. QED
    BY <2>1 DEF FileContent
<1>2. QED
  BY <1>1 DEF Init, Abstract!Init, Stage, Seen

(* Where a call ends, and nothing is written.                               *)
LEMMA EndsCall ==
  ASSUME Inductive, NEW p \in Process, NEW value, pc' = [pc EXCEPT ![p] = "idle"],
         raw' = [raw EXCEPT ![p] = None], opened' = [opened EXCEPT ![p] = None],
         answer' = [answer EXCEPT ![p] = value], UNCHANGED data
  PROVE  Abstract!End(p, value)
<1>1. TypeOK
  BY DEF Inductive
<1>2. Stage' = [Stage EXCEPT ![p] = "idle"]
  BY <1>1 DEF Stage, TypeOK
<1>3. Seen' = [Seen EXCEPT ![p] = None]
  BY <1>1 DEF Seen, TypeOK
<1>4. QED
  BY <1>2, <1>3 DEF Abstract!End

(* A temporary file is nobody else's: neither the cache nor being read.     *)
LEMMA PrivateWrite ==
  ASSUME Inductive, NEW i \in Inode, NEW b, data' = [data EXCEPT ![i] = b],
         UNCHANGED <<path, opened>>, Unused(i) \/ \E p \in Process : temp[p] = i
  PROVE  UNCHANGED <<FileContent, Seen>>
<1>1. TypeOK /\ HoldingInv /\ ContentInv /\ CleanupSparesCache
  BY DEF Inductive
<1>2. i # None
  BY FileCacheAssumption
<1>3. i # path /\ \A q \in Process : opened[q] # i
  BY <1>1, <1>2 DEF Unused, ContentInv, CleanupSparesCache
<1>4. UNCHANGED FileContent
  BY <1>1, <1>3 DEF FileContent, TypeOK
<1>5. UNCHANGED Seen
  BY <1>1, <1>3 DEF Seen, TypeOK
<1>6. QED
  BY <1>4, <1>5

(* Inside a store() the calls that fail or prepare are not seen.            *)
LEMMA StillStoring ==
  ASSUME Inductive, NEW p \in Process, Stage[p] = "storing",
         \E to \in {"write", "close", "replace", "undoClose", "remove"} :
           pc' = [pc EXCEPT ![p] = to],
         UNCHANGED <<FileContent, Seen, raw, answer>>
  PROVE  UNCHANGED Abstract!vars
<1>1. TypeOK
  BY DEF Inductive
<1>2. pc[p] \notin {"idle", "read"}
  BY DEF Stage
<1>3. Stage' = Stage
  BY <1>1, <1>2 DEF Stage, TypeOK
<1>4. QED
  BY <1>3 DEF Abstract!vars

LEMMA StoreIsSeen ==
  ASSUME Inductive, NEW p \in Process, Store(p)
  PROVE  Abstract!AskStore(p) \/ Abstract!FailStore(p)
<1>1. TypeOK
  BY DEF Inductive
<1>2. CASE Return(p, "idle", FALSE) /\ UNCHANGED <<data, path>>
  <2>1. pc[p] = "idle" /\ Abstract!End(p, FALSE)
    BY <1>2, EndsCall DEF Return, Goto
  <2>2. Stage[p] = "idle" /\ FileContent' = FileContent
    BY <1>2, <2>1 DEF Stage, FileContent
  <2>3. QED
    BY <2>1, <2>2 DEF Abstract!FailStore
<1>3. CASE ~(Return(p, "idle", FALSE) /\ UNCHANGED <<data, path>>)
  <2>1. /\ pc[p] = "idle" /\ pc' = [pc EXCEPT ![p] = "mkstemp"]
        /\ \E b \in Envelopes : raw' = [raw EXCEPT ![p] = b]
        /\ UNCHANGED <<data, path, opened, answer>>
    BY <1>3 DEF Store, Goto
  <2>2. Stage[p] = "idle" /\ Stage' = [Stage EXCEPT ![p] = "storing"]
    BY <1>1, <2>1 DEF Stage, TypeOK
  <2>3. UNCHANGED <<FileContent, Seen>>
    BY <2>1 DEF FileContent, Seen
  <2>4. QED
    BY <2>1, <2>2, <2>3 DEF Abstract!AskStore, Abstract!Move
<1>4. QED
  BY <1>2, <1>3

LEMMA MakeTempIsUnseen ==
  ASSUME Inductive, NEW p \in Process, MakeTemp(p)
  PROVE  Abstract!FailStore(p) \/ UNCHANGED Abstract!vars
<1>1. pc[p] = "mkstemp" /\ Stage[p] = "storing"
  BY DEF MakeTemp, Return, Goto, Stage
<1>2. CASE Return(p, "mkstemp", FALSE) /\ UNCHANGED <<data, path>>
  <2>1. Abstract!End(p, FALSE)
    BY <1>2, EndsCall DEF Return, Goto
  <2>2. FileContent' = FileContent
    BY <1>2 DEF FileContent
  <2>3. QED
    BY <1>1, <2>1, <2>2 DEF Abstract!FailStore
<1>3. CASE ~(Return(p, "mkstemp", FALSE) /\ UNCHANGED <<data, path>>)
  <2>1. /\ pc' = [pc EXCEPT ![p] = "write"] /\ UNCHANGED <<path, raw, opened, answer>>
        /\ \E i \in Inode : Unused(i) /\ data' = [data EXCEPT ![i] = Empty]
    BY <1>3 DEF MakeTemp, Goto
  <2>2. UNCHANGED <<FileContent, Seen>>
    BY <2>1, PrivateWrite
  <2>3. QED
    BY <1>1, <2>1, <2>2, StillStoring
<1>4. QED
  BY <1>2, <1>3

LEMMA WriteIsUnseen ==
  ASSUME Inductive, NEW p \in Process, Write(p)
  PROVE  UNCHANGED Abstract!vars
<1>1. /\ pc[p] = "write" /\ Stage[p] = "storing" /\ UNCHANGED <<path, raw, opened, answer>>
      /\ \E to \in {"close", "undoClose"} : pc' = [pc EXCEPT ![p] = to]
  BY DEF Write, Goto, Stage
<1>2. temp[p] \in Inode
  BY <1>1, FileCacheAssumption DEF Inductive, TypeOK, HoldingInv, HoldsTemp
<1>3. UNCHANGED data \/ \E b : data' = [data EXCEPT ![temp[p]] = b]
  BY DEF Write
<1>4. UNCHANGED <<FileContent, Seen>>
  <2>1. CASE UNCHANGED data
    BY <1>1, <2>1 DEF FileContent, Seen
  <2>2. CASE \E b : data' = [data EXCEPT ![temp[p]] = b]
    BY <1>1, <1>2, <2>2, PrivateWrite
  <2>3. QED
    BY <1>3, <2>1, <2>2
<1>5. QED
  BY <1>1, <1>4, StillStoring

LEMMA ReplaceIsSeen ==
  ASSUME Inductive, NEW p \in Process, Replace(p)
  PROVE  Abstract!Exchange(p) \/ UNCHANGED Abstract!vars
<1>1. pc[p] = "replace" /\ Stage[p] = "storing" /\ UNCHANGED data
  BY DEF Replace, Return, Goto, Stage
<1>2. CASE Return(p, "replace", TRUE) /\ path' = temp[p]
  <2>1. Abstract!End(p, TRUE)
    BY <1>1, <1>2, EndsCall DEF Return, Goto
  <2>2. temp[p] # None
    BY <1>1 DEF Inductive, HoldingInv, HoldsTemp
  <2>3. FileContent' = data[temp[p]]
    BY <1>1, <1>2, <2>2 DEF FileContent
  <2>4. FileContent' = raw[p] \/ (ShortWrites /\ FileContent' = Torn)
    BY <1>1, <2>3 DEF Inductive, ContentInv
  <2>5. QED
    BY <1>1, <2>1, <2>4 DEF Abstract!Exchange
<1>3. CASE ~(Return(p, "replace", TRUE) /\ path' = temp[p])
  <2>1. /\ pc' = [pc EXCEPT ![p] = "undoClose"]
        /\ UNCHANGED <<path, raw, opened, answer>>
    BY <1>3 DEF Replace, Goto
  <2>2. UNCHANGED <<FileContent, Seen>>
    BY <1>1, <2>1 DEF FileContent, Seen
  <2>3. QED
    BY <1>1, <2>1, <2>2, StillStoring
<1>4. QED
  BY <1>2, <1>3

LEMMA CleanupIsUnseen ==
  ASSUME Inductive, NEW p \in Process, Close(p) \/ UndoClose(p) \/ ReuseDescriptor(p)
  PROVE  UNCHANGED Abstract!vars
<1>1. UNCHANGED <<data, path, raw, opened, answer>>
  BY DEF Close, UndoClose, ReuseDescriptor
<1>2. UNCHANGED <<FileContent, Seen>>
  BY <1>1 DEF FileContent, Seen
<1>3. CASE Close(p) \/ UndoClose(p)
  <2>1. /\ Stage[p] = "storing"
        /\ \E to \in {"replace", "undoClose", "remove"} : pc' = [pc EXCEPT ![p] = to]
    BY <1>3 DEF Close, UndoClose, Goto, Stage
  <2>2. QED
    BY <1>1, <1>2, <2>1, StillStoring
<1>4. CASE ReuseDescriptor(p)
  BY <1>1, <1>2, <1>4 DEF ReuseDescriptor, Stage, Abstract!vars
<1>5. QED
  BY <1>3, <1>4

LEMMA RemoveIsSeen ==
  ASSUME Inductive, NEW p \in Process, Remove(p)
  PROVE  Abstract!FailStore(p)
<1>1. Return(p, "remove", FALSE) /\ UNCHANGED <<data, path>>
  BY DEF Remove
<1>2. pc[p] = "remove" /\ Abstract!End(p, FALSE)
  BY <1>1, EndsCall DEF Return, Goto
<1>3. QED
  BY <1>1, <1>2 DEF Abstract!FailStore, Stage, FileContent

LEMMA OpenIsSeen ==
  ASSUME Inductive, NEW p \in Process, Open(p)
  PROVE  Abstract!Look(p) \/ Abstract!FindNothing(p)
<1>1. TypeOK
  BY DEF Inductive
<1>2. CASE Return(p, "idle", None) /\ UNCHANGED <<data, path>>
  <2>1. pc[p] = "idle" /\ Abstract!End(p, None)
    BY <1>2, EndsCall DEF Return, Goto
  <2>2. Stage[p] = "idle" /\ FileContent' = FileContent
    BY <1>2, <2>1 DEF Stage, FileContent
  <2>3. QED
    BY <2>1, <2>2 DEF Abstract!FindNothing
<1>3. CASE ~(Return(p, "idle", None) /\ UNCHANGED <<data, path>>)
  <2>1. /\ path # None /\ pc[p] = "idle" /\ pc' = [pc EXCEPT ![p] = "read"]
        /\ opened' = [opened EXCEPT ![p] = path] /\ UNCHANGED <<data, path, raw, answer>>
    BY <1>3 DEF Open, Goto
  <2>2. Stage[p] = "idle" /\ Stage' = [Stage EXCEPT ![p] = "loading"]
    BY <1>1, <2>1 DEF Stage, TypeOK
  <2>3. Seen' = [Seen EXCEPT ![p] = FileContent]
    BY <1>1, <2>1 DEF Seen, FileContent, TypeOK
  <2>4. FileContent # None /\ FileContent' = FileContent
    BY <1>1, <2>1, FileCacheAssumption DEF FileContent, TypeOK, Content
  <2>5. QED
    BY <2>1, <2>2, <2>3, <2>4 DEF Abstract!Look, Abstract!Move
<1>4. QED
  BY <1>2, <1>3

LEMMA ReadIsSeen ==
  ASSUME Inductive, NEW p \in Process, Read(p)
  PROVE  Abstract!Give(p)
<1> DEFINE content == data[opened[p]]
           given == IF content \in Oversized \cup {Empty} THEN None ELSE content
<1>1. Return(p, "read", given) /\ UNCHANGED <<data, path>>
  BY DEF Read
<1>2. pc[p] = "read" /\ Abstract!End(p, given)
  BY <1>1, EndsCall DEF Return, Goto
<1>3. Seen[p] = content
  BY <1>2 DEF Seen, Inductive, HoldingInv
<1>4. Stage[p] = "loading" /\ FileContent' = FileContent
  BY <1>1, <1>2 DEF Stage, FileContent
<1>5. QED
  BY <1>2, <1>3, <1>4 DEF Abstract!Give

LEMMA CrashIsSeen ==
  ASSUME Inductive, NEW p \in Process, Crash(p)
  PROVE  Abstract!Crash(p)
<1>1. pc[p] # "idle" /\ UNCHANGED <<data, path>> /\ Abstract!End(p, None)
  BY EndsCall DEF Crash
<1>2. QED
  BY <1>1 DEF Abstract!Crash, Stage, FileContent

LEMMA AbstractStep ==
  ASSUME Inductive, [Next]_vars
  PROVE  [Abstract!Next]_(Abstract!vars)
<1>1. CASE UNCHANGED vars
  BY <1>1 DEF vars, Abstract!vars, FileContent, Stage, Seen
<1>2. ASSUME NEW p \in Process,
             \/ Store(p) \/ MakeTemp(p) \/ Write(p) \/ Close(p) \/ Replace(p)
             \/ UndoClose(p) \/ Remove(p) \/ ReuseDescriptor(p)
             \/ Open(p) \/ Read(p) \/ Crash(p)
      PROVE  [Abstract!Next]_(Abstract!vars)
  BY <1>2, StoreIsSeen, MakeTempIsUnseen, WriteIsUnseen, ReplaceIsSeen, CleanupIsUnseen,
     RemoveIsSeen, OpenIsSeen, ReadIsSeen, CrashIsSeen DEF Abstract!Next
<1>3. QED
  BY <1>1, <1>2 DEF Next

-----------------------------------------------------------------------------
(* The inductive invariant holds of every reachable state: who holds which  *)
(* file and descriptor at which point of a call.                            *)
THEOREM Invariance == Spec => []Inductive
<1>1. Inductive /\ [Next]_vars => Inductive'
  BY TypeStep, HoldingStep, ContentStep DEF Inductive
<1>2. QED
  BY <1>1, InductiveInit, PTL DEF Spec

(* Every variable of the cache model keeps its type.                        *)
THEOREM TypeCorrect == Spec => []TypeOK
<1>1. Inductive => TypeOK
  BY DEF Inductive
<1>2. QED
  BY <1>1, Invariance, PTL

(* For any number of processes sharing cache_path, no failed or killed      *)
(* store ever removes the live file, and no two share a temporary file.     *)
THEOREM CleanupIsSafe == Spec => []CleanupSparesCache
<1>1. Inductive => CleanupSparesCache
  BY DEF Inductive
<1>2. QED
  BY <1>1, Invariance, PTL

(* Every way out of store() and load(), however many fail at whichever      *)
(* system call, leaves no descriptor open and no temporary file held.       *)
THEOREM NothingLeaks == Spec => []NothingHeldWhenIdle
<1>1. Inductive => NothingHeldWhenIdle
  BY DEF Inductive
<1>2. QED
  BY <1>1, Invariance, PTL

(* A load that has the file open reads one file from start to end.          *)
THEOREM LoadSeesOneFile == Spec => ReadSeesOneFile
<1>1. Inductive /\ [Next]_vars =>
        [\A p \in Process : opened[p] # None /\ opened'[p] = opened[p]
                              => data'[opened[p]] = data[opened[p]]]_vars
  BY ReadStep
<1>2. QED
  BY <1>1, Invariance, PTL DEF Spec, ReadSeesOneFile

(* For any number of processes on one cache_path, with failures, crashes    *)
(* and short writes: a store() exchanges the file in the step it answers    *)
(* TRUE in, or never; a load() gives what the file held at one moment.      *)
THEOREM StoresAreAtomic == Spec => ReplacedAtomically
BY AbstractInit, AbstractStep, Invariance, PTL
   DEF Spec, ReplacedAtomically, Abstract!Spec

(* When os.write writes all it is given, the file never holds part of an    *)
(* envelope, as _cache.py:50 says of a crash: it takes the short write that *)
(* is not looked at.                                                        *)
THEOREM WholeWithoutShortWrites == ASSUME ~ShortWrites PROVE Spec => []NeverTruncated
<1>1. Init => NeverTruncated
  BY AbstractInit, FileCacheAssumption DEF Abstract!Init, NeverTruncated, Initial
<1>2. Inductive /\ [Next]_vars /\ NeverTruncated => NeverTruncated'
  <2> SUFFICES ASSUME Inductive, [Next]_vars, NeverTruncated PROVE NeverTruncated'
    OBVIOUS
  <2>1. CASE UNCHANGED FileContent
    BY <2>1 DEF NeverTruncated
  <2>2. ASSUME NEW p \in Process, Abstract!Exchange(p) PROVE NeverTruncated'
    <3>1. raw[p] \in Envelopes
      BY <2>2 DEF Abstract!Exchange, Stage, Inductive, HoldingInv, HoldsTemp, TypeOK
    <3>2. FileContent' = raw[p]
      BY <2>2 DEF Abstract!Exchange
    <3>3. QED
      BY <3>1, <3>2, FileCacheAssumption DEF NeverTruncated
  <2>3. QED
    BY <2>1, <2>2, AbstractStep
       DEF Abstract!Next, Abstract!vars, Abstract!AskStore, Abstract!FailStore,
           Abstract!Look, Abstract!Give, Abstract!FindNothing, Abstract!Crash
<1>3. QED
  BY <1>1, <1>2, Invariance, PTL DEF Spec
=============================================================================
