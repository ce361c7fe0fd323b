-------------------------- MODULE LifecycleProofs ---------------------------
(***************************************************************************)
(* Proofs about the fleet: the safety properties of Lifecycle for any      *)
(* number of processes, rulesets and crashes.                              *)
(***************************************************************************)
EXTENDS Lifecycle, TLAPS

USE DEF Nothing, Garbage, Body, Version

-----------------------------------------------------------------------------
(* Helper: a whole 200 is a success with its own body and ETag.             *)
LEMMA DeliveredOutcome ==
  ASSUME NEW x, x.raised = "nothing", x.status = 200, x.fits
  PROVE  T!FetchRuleset(x) =
           [kind |-> "success", body |-> x.body, etag |-> x.etag, retryAfter |-> "none"]
BY DEF T!FetchRuleset, T!ReadSuccess, T!Caught

(* Helper: what a working server's answer becomes: a 304 for its own ETag,  *)
(* otherwise its ruleset, with its ETag or with none.                       *)
LEMMA HonestOutcome ==
  ASSUME version \in Version, NEW tag \in Version \cup {Nothing}, NEW x \in Honest(tag)
  PROVE  /\ x.raised \notin T!Uncaught
         /\ T!FetchRuleset(x) \in T!Outcome
         /\ tag = version => T!FetchRuleset(x) =
              [kind |-> "notModified", body |-> Nothing, etag |-> Nothing, retryAfter |-> "none"]
         /\ tag # version => \E t \in {version, Nothing} : T!FetchRuleset(x) =
              [kind |-> "success", body |-> version, etag |-> t, retryAfter |-> "none"]
<1> USE DEF T!Bare
<1>1. CASE tag = version
  <2>1. x = Answering(304, Nothing, Nothing)
    BY <1>1 DEF Honest
  <2>2. x.raised = "nothing" /\ x.status = 304
    BY <2>1 DEF Answering
  <2>3. T!FetchRuleset(x) =
          [kind |-> "notModified", body |-> Nothing, etag |-> Nothing, retryAfter |-> "none"]
    BY <2>2 DEF T!FetchRuleset, T!MapStatus, T!Caught
  <2>4. QED
    BY <1>1, <2>2, <2>3 DEF T!Uncaught, T!Outcome, T!FetchKind, T!RetryAfter
<1>2. CASE tag # version
  <2>1. PICK t \in {version, Nothing} : x = Answering(200, version, t)
    BY <1>2 DEF Honest
  <2>2. /\ x.raised = "nothing" /\ x.status = 200 /\ x.fits
        /\ x.body = version /\ x.etag = t
    BY <2>1 DEF Answering
  <2>3. T!FetchRuleset(x) =
          [kind |-> "success", body |-> version, etag |-> t, retryAfter |-> "none"]
    BY <2>2, DeliveredOutcome
  <2>4. T!FetchRuleset(x) \in T!Outcome
    BY <2>3 DEF T!Outcome, T!FetchKind, T!RetryAfter
  <2>5. x.raised \notin T!Uncaught
    BY <2>2 DEF T!Uncaught
  <2>6. QED
    BY <1>2, <2>3, <2>4, <2>5
<1>3. QED
  BY <1>1, <1>2

(* Helper: nothing else that arrives is a 304, or a ruleset.                *)
LEMMA OtherOutcome ==
  ASSUME version \in Version, NEW x \in Corrupted \cup Failure,
         x.raised \notin T!Uncaught
  PROVE  /\ T!FetchRuleset(x) \in T!Outcome
         /\ T!FetchRuleset(x).kind # "notModified"
         /\ T!FetchRuleset(x).body \notin Version
<1>0. x.raised \notin T!Uncaught
  OBVIOUS
<1>1. CASE x \in Corrupted
  <2>1. /\ x.raised = "nothing" /\ x.status = 200 /\ x.fits
        /\ x.body = Garbage /\ x.etag = version
    BY <1>1 DEF Corrupted, Answering
  <2>2. T!FetchRuleset(x) =
          [kind |-> "success", body |-> Garbage, etag |-> version, retryAfter |-> "none"]
    BY <2>1, DeliveredOutcome
  <2>3. T!FetchRuleset(x) \in T!Outcome
    BY <2>2 DEF T!Outcome, T!FetchKind, T!RetryAfter
  <2>4. QED
    BY <2>2, <2>3, LifecycleAssumption
<1>2. CASE x \in Failure
  <2>1. x \in T!Exchange /\ (x.raised # "nothing" \/ x.status \notin {200, 304})
    BY <1>2, LifecycleAssumption
  <2>2. \/ T!FetchRuleset(x) \in
             {T!Bare(kind) : kind \in T!FetchKind \ {"success", "notModified"}}
        \/ T!FetchRuleset(x) =
             [T!Bare("rateLimited") EXCEPT !.retryAfter = T!ParseRetryAfter(x.retryAfter)]
    <3>1. CASE x.raised \in T!Caught
      BY <3>1 DEF T!FetchRuleset, T!FetchKind
    <3>2. CASE x.raised \notin T!Caught
      <4>1. T!FetchRuleset(x) = T!MapStatus(x) /\ x.status # 304
        BY <1>0, <2>1, <3>2 DEF T!FetchRuleset, T!ReadSuccess, T!Caught, T!Exchange
      <4>2. QED
        BY <4>1 DEF T!MapStatus, T!FetchKind
    <3>3. QED
      BY <3>1, <3>2
  <2>3. ASSUME NEW k \in T!FetchKind \ {"success", "notModified"}, NEW r \in T!RetryAfter
        PROVE  LET o == [T!Bare(k) EXCEPT !.retryAfter = r]
               IN o \in T!Outcome /\ o.kind # "notModified" /\ o.body = Nothing
    BY <2>3 DEF T!Bare, T!Outcome
  <2>4. Nothing \notin Version
    BY LifecycleAssumption
  <2>5. PICK k \in T!FetchKind \ {"success", "notModified"}, r \in T!RetryAfter :
          T!FetchRuleset(x) = [T!Bare(k) EXCEPT !.retryAfter = r]
    <3>1. CASE \E k \in T!FetchKind \ {"success", "notModified"} : T!FetchRuleset(x) = T!Bare(k)
      <4>1. PICK k \in T!FetchKind \ {"success", "notModified"} : T!FetchRuleset(x) = T!Bare(k)
        BY <3>1
      <4>2. T!Bare(k) = [T!Bare(k) EXCEPT !.retryAfter = "none"]
        BY DEF T!Bare
      <4>3. QED
        BY <4>1, <4>2 DEF T!RetryAfter
    <3>2. QED
      BY <2>2, <3>1 DEF T!FetchKind, T!RetryAfter, T!ParseRetryAfter
  <2>6. QED
    BY <2>3, <2>4, <2>5
<1>3. QED
  BY <1>1, <1>2

-----------------------------------------------------------------------------
(* What the induction knows of one process.                                 *)
Facts(p) ==
  /\ ProcessInv(p)
  /\ place[p] = "landing" /\ reply[p].kind = "notModified" => served[p] = certified[p]
  /\ writer = p => file >= served[p] /\ file >= seen[p]
  /\ offered[p] \in Version => served[p] >= offered[p]

LEMMA InductiveIs ==
  Inductive <=> TypeOK /\ NothingAhead /\ \A p \in Process : Facts(p)
BY DEF Inductive, Facts, NotModifiedIsTruthful, RestartKeepsRuleset, OutageSurvived

LEMMA InductiveInit == Init => Inductive
<1> SUFFICES ASSUME Init PROVE Inductive
  OBVIOUS
<1>1. T!NoOutcome \in T!Outcome /\ T!NoOutcome.body = Nothing
  BY DEF T!NoOutcome, T!Bare, T!Outcome, T!RetryAfter
<1>2. TypeOK
  BY <1>1, LifecycleAssumption DEF Init, TypeOK, Place
<1>3. NothingAhead
  BY DEF Init, NothingAhead
<1>4. ASSUME NEW p \in Process PROVE Facts(p)
  BY <1>1, LifecycleAssumption
     DEF Init, Facts, ProcessInv, HoldsNothing, RulesetUnderWay, EtagNamesServed
<1>5. QED
  BY <1>2, <1>3, <1>4, InductiveIs

(* What holds of a process holds still after a step that is none of its     *)
(* own: the server's, or another process's, which may replace the file.     *)
LEMMA Bystander ==
  ASSUME NEW p \in Process, TypeOK, Facts(p), version' \in Version, version' >= version,
         place'[p] = place[p], served'[p] = served[p], etag'[p] = etag[p],
         reply'[p] = reply[p], certified'[p] = certified[p],
         offered'[p] = offered[p], seen'[p] = seen[p],
         writer' # p \/ (file' = file /\ writer' = writer)
  PROVE  Facts(p)'
<1>1. version \in Int /\ version' \in Int /\ reply[p] \in T!Outcome
  BY DEF TypeOK
<1>2. reply[p].body \in Version => reply[p].body \in Int
  OBVIOUS
<1>3. HoldsNothing(p)' /\ EtagNamesServed(p)'
  BY DEF Facts, ProcessInv, HoldsNothing, EtagNamesServed
<1>4. RulesetUnderWay(p)'
  BY <1>1, <1>2 DEF Facts, ProcessInv, RulesetUnderWay
<1>5. QED
  BY <1>3, <1>4 DEF Facts, ProcessInv

(* So a step of one process has to be looked at from that process alone.    *)
LEMMA OwnStep ==
  ASSUME Inductive, NEW q \in Process,
         TypeOK', NothingAhead', Facts(q)', version' = version,
         writer' \in {q, Nobody} \/ (file' = file /\ writer' = writer),
         \A p \in Process \ {q} :
           /\ place'[p] = place[p] /\ served'[p] = served[p] /\ etag'[p] = etag[p]
           /\ reply'[p] = reply[p] /\ certified'[p] = certified[p]
           /\ offered'[p] = offered[p] /\ seen'[p] = seen[p]
  PROVE  Inductive'
<1>1. TypeOK /\ \A p \in Process : Facts(p)
  BY InductiveIs
<1>2. version \in Version /\ version' >= version
  BY <1>1 DEF TypeOK
<1>3. ASSUME NEW p \in Process \ {q} PROVE Facts(p)'
  BY <1>1, <1>2, <1>3, Bystander, LifecycleAssumption
<1>4. Inductive' <=> TypeOK' /\ NothingAhead' /\ \A p \in Process : Facts(p)'
  BY DEF Inductive, Facts, NotModifiedIsTruthful, RestartKeepsRuleset, OutageSurvived
<1>5. QED
  BY <1>3, <1>4

-----------------------------------------------------------------------------
(* The server                                                              *)

LEMMA ServerPreserves ==
  ASSUME Inductive, Export \/ Expire
  PROVE  Inductive'
<1>1. TypeOK /\ NothingAhead /\ \A p \in Process : Facts(p)
  BY InductiveIs
<1>2. version' \in Version /\ version' >= version /\ expired' \in 0..MaxVersion
  BY <1>1, LifecycleAssumption DEF Export, Expire, TypeOK
<1>3. UNCHANGED <<file, place, served, etag, reply, crashes, certified, historyVars>>
  BY DEF Export, Expire
<1>4. TypeOK'
  BY <1>1, <1>2, <1>3 DEF TypeOK, historyVars
<1>5. NothingAhead'
  BY <1>1, <1>2, <1>3 DEF NothingAhead, TypeOK, historyVars
<1>6. ASSUME NEW p \in Process PROVE Facts(p)'
  BY <1>1, <1>2, <1>3, Bystander DEF historyVars
<1>7. QED
  BY <1>4, <1>5, <1>6
     DEF Inductive, Facts, NotModifiedIsTruthful, RestartKeepsRuleset, OutageSurvived

-----------------------------------------------------------------------------
(* A process: each of its steps, seen from that process.                   *)

LEMMA StartPreserves ==
  ASSUME Inductive, NEW p \in Process, Start(p)
  PROVE  Inductive'
<1>1. TypeOK /\ NothingAhead /\ Facts(p)
  BY InductiveIs
<1>2. TypeOK' /\ NothingAhead'
  BY <1>1 DEF Start, Goto, TypeOK, NothingAhead, Place, serverVars, historyVars
<1>3. Facts(p)'
  BY <1>1 DEF Start, Goto, TypeOK, Facts, ProcessInv, HoldsNothing, RulesetUnderWay,
     EtagNamesServed, serverVars, historyVars
<1>4. QED
  BY <1>1, <1>2, <1>3, OwnStep DEF Start, Goto, TypeOK, serverVars, historyVars

LEMMA LoadPreserves ==
  ASSUME Inductive, NEW p \in Process, Load(p)
  PROVE  Inductive'
<1>1. TypeOK /\ NothingAhead /\ Facts(p)
  BY InductiveIs
<1>2. PICK raw \in {file, Nothing} :
        /\ offered' = [offered EXCEPT ![p] = raw]
        /\ served' = [served EXCEPT ![p] = IF Restorable(raw) THEN raw ELSE Nothing]
  BY DEF Load
<1>3. TypeOK'
  BY <1>1, <1>2 DEF Load, Goto, TypeOK, Place, Restorable, serverVars
<1>4. NothingAhead'
  BY <1>1, <1>2 DEF Load, NothingAhead, TypeOK, Restorable, serverVars
<1>5. Facts(p)'
  <2>1. /\ place[p] = "load" /\ place'[p] = "ask" /\ UNCHANGED <<file, reply, etag>>
        /\ UNCHANGED <<writer, seen>>
        /\ offered'[p] = raw /\ served'[p] \in {raw, Nothing}
        /\ raw \in Version => served'[p] = raw
        /\ served'[p] \in Version => raw = file
    BY <1>1, <1>2, LifecycleAssumption DEF Load, Goto, TypeOK, Restorable
  <2>2. (HoldsNothing(p) /\ RulesetUnderWay(p) /\ EtagNamesServed(p))'
    BY <1>1, <2>1 DEF Facts, ProcessInv, HoldsNothing, RulesetUnderWay, EtagNamesServed
  <2>3. served'[p] \in Version \cup {Nothing}
    BY <1>3 DEF TypeOK
  <2>4. (writer = p => file >= served[p] /\ file >= seen[p])'
    BY <1>1, <2>1, <2>3 DEF Facts, TypeOK
  <2>5. (offered[p] \in Version => served[p] >= offered[p])'
    BY <2>1
  <2>6. QED
    BY <2>1, <2>2, <2>4, <2>5 DEF Facts, ProcessInv
<1>6. QED
  BY <1>1, <1>2, <1>3, <1>4, <1>5, OwnStep DEF Load, Goto, TypeOK, serverVars

(* Whatever arrives is typed, and is a 304 or a ruleset only from a server  *)
(* that means it.                                                           *)
LEMMA ReceivePreserves ==
  ASSUME Inductive, NEW p \in Process, Reach(p) \/ Miss(p)
  PROVE  Inductive'
<1>1. TypeOK /\ NothingAhead /\ Facts(p)
  BY InductiveIs
<1>2. PICK x \in Honest(etag[p]) \cup Corrupted \cup Failure :
        /\ IF x.raised \in T!Uncaught
           THEN Goto(p, "ask", "dead") /\ UNCHANGED reply
           ELSE Goto(p, "ask", "landing") /\ reply' = [reply EXCEPT ![p] = T!FetchRuleset(x)]
        /\ certified' = [certified EXCEPT ![p] = IF place'[p] = "landing" THEN version ELSE Nothing]
        /\ UNCHANGED <<serverVars, file, served, etag, crashes, historyVars>>
  BY DEF Reach, Miss, Receive
<1>3. version \in Version /\ etag[p] \in Version \cup {Nothing}
  BY <1>1 DEF TypeOK
<1>4. /\ T!FetchRuleset(x) \in T!Outcome \/ x.raised \in T!Uncaught
      /\ x.raised \notin T!Uncaught /\ T!FetchRuleset(x).kind = "notModified" =>
           etag[p] = version /\ T!FetchRuleset(x).body = Nothing
      /\ x.raised \notin T!Uncaught /\ T!FetchRuleset(x).body \in Version =>
           /\ T!FetchRuleset(x).body = version
           /\ T!FetchRuleset(x).etag \in {Nothing, version}
  <2>1. CASE x \in Honest(etag[p]) /\ etag[p] = version
    BY <1>3, <2>1, HonestOutcome, LifecycleAssumption
  <2>2. CASE x \in Honest(etag[p]) /\ etag[p] # version
    BY <1>3, <2>2, HonestOutcome
  <2>3. CASE x \in Corrupted \cup Failure
    BY <1>3, <2>3, OtherOutcome
  <2>4. QED
    BY <2>1, <2>2, <2>3
<1>5. TypeOK'
  <2>1. place' \in [Process -> Place]
    BY <1>1, <1>2 DEF Goto, TypeOK, Place
  <2>2. reply' \in [Process -> T!Outcome]
    BY <1>1, <1>2, <1>4 DEF TypeOK
  <2>3. certified' \in [Process -> Version \cup {Nothing}]
    BY <1>1, <1>2 DEF TypeOK
  <2>4. QED
    BY <1>1, <1>2, <2>1, <2>2, <2>3 DEF TypeOK, serverVars, historyVars
<1>6. NothingAhead'
  BY <1>1, <1>2 DEF NothingAhead, serverVars, historyVars
<1>7. Facts(p)'
  <2>1. CASE x.raised \in T!Uncaught
    BY <1>1, <1>2, <2>1 DEF Goto, TypeOK, Facts, ProcessInv, HoldsNothing, RulesetUnderWay,
       EtagNamesServed, serverVars, historyVars
  <2>2. CASE x.raised \notin T!Uncaught
    <3>1. /\ place[p] = "ask" /\ place'[p] = "landing" /\ certified'[p] = version
          /\ reply'[p] = T!FetchRuleset(x)
          /\ UNCHANGED <<version, file, served, etag, historyVars>>
      BY <1>1, <1>2, <2>2 DEF Goto, TypeOK, serverVars
    <3>2. HoldsNothing(p)' /\ EtagNamesServed(p)'
      BY <1>1, <3>1 DEF Facts, ProcessInv, HoldsNothing, EtagNamesServed
    <3>3. RulesetUnderWay(p)'
      BY <1>1, <1>3, <1>4, <2>2, <3>1 DEF RulesetUnderWay, NothingAhead, TypeOK, historyVars
    <3>4. (place[p] = "landing" /\ reply[p].kind = "notModified" => served[p] = certified[p])'
      BY <1>1, <1>3, <1>4, <2>2, <3>1, LifecycleAssumption DEF Facts, ProcessInv, EtagNamesServed
    <3>5. QED
      BY <1>1, <3>1, <3>2, <3>3, <3>4 DEF Facts, ProcessInv, historyVars
  <2>3. QED
    BY <2>1, <2>2
<1>8. QED
  BY <1>1, <1>2, <1>5, <1>6, <1>7, OwnStep DEF Goto, TypeOK, serverVars, historyVars

(* A verified ruleset goes on to the file; anything else is dropped.        *)
LEMMA LandPreserves ==
  ASSUME Inductive, NEW p \in Process, Land(p)
  PROVE  Inductive'
<1>1. TypeOK /\ NothingAhead /\ Facts(p)
  BY InductiveIs
<1>2. /\ place[p] = "landing" /\ certified' = [certified EXCEPT ![p] = Nothing]
      /\ UNCHANGED <<serverVars, file, served, etag, crashes, historyVars>>
      /\ \/ /\ Verified(reply[p]) /\ place' = [place EXCEPT ![p] = "store"]
            /\ UNCHANGED reply
         \/ /\ place' = [place EXCEPT ![p] = "wait"]
            /\ reply' = [reply EXCEPT ![p] = T!NoOutcome]
  BY DEF Land, Goto, After
<1>3. T!NoOutcome \in T!Outcome
  BY DEF T!NoOutcome, T!Bare, T!Outcome, T!RetryAfter
<1>4. TypeOK'
  BY <1>1, <1>2, <1>3 DEF TypeOK, Place, serverVars, historyVars
<1>5. NothingAhead'
  BY <1>1, <1>2 DEF NothingAhead, serverVars, historyVars
<1>6. Facts(p)'
  BY <1>1, <1>2 DEF TypeOK, Facts, ProcessInv, HoldsNothing, RulesetUnderWay,
     EtagNamesServed, Verified, Acceptable, serverVars, historyVars
<1>7. QED
  BY <1>1, <1>2, <1>4, <1>5, <1>6, OwnStep DEF TypeOK, serverVars, historyVars

LEMMA StorePreserves ==
  ASSUME Inductive, NEW p \in Process, StoreCache(p)
  PROVE  Inductive'
<1>1. TypeOK /\ NothingAhead /\ Facts(p)
  BY InductiveIs
<1>2. /\ place[p] = "store" /\ place' = [place EXCEPT ![p] = "publish"]
      /\ UNCHANGED <<serverVars, served, etag, reply, crashes, certified, offered, seen>>
  BY DEF StoreCache, Goto, After
<1>3. \/ file' = reply[p].body /\ writer' = p
      \/ file' = Garbage /\ writer' = Nobody
      \/ file' = file /\ writer' = IF writer = p THEN Nobody ELSE writer
  BY DEF StoreCache
<1>4. reply[p].body \in Version /\ reply[p].body <= version
      /\ reply[p].body >= served[p] /\ reply[p].body >= seen[p]
  BY <1>1, <1>2 DEF Facts, ProcessInv, RulesetUnderWay
<1>5. TypeOK'
  <2>1. file' \in Body \cup {Nothing} /\ writer' \in Process \cup {Nobody}
    BY <1>1, <1>3, <1>4 DEF TypeOK
  <2>2. place' \in [Process -> Place]
    BY <1>1, <1>2 DEF TypeOK, Place
  <2>3. QED
    BY <1>1, <1>2, <2>1, <2>2 DEF TypeOK, serverVars
<1>6. NothingAhead'
  BY <1>1, <1>2, <1>3, <1>4 DEF NothingAhead, TypeOK, serverVars
<1>7. Facts(p)'
  <2>1. place'[p] = "publish"
    BY <1>1, <1>2 DEF TypeOK
  <2>2. HoldsNothing(p)' /\ EtagNamesServed(p)'
    BY <1>1, <1>2, <2>1 DEF Facts, ProcessInv, HoldsNothing, EtagNamesServed
  <2>3. writer' = p => file' = reply[p].body
    BY <1>3, LifecycleAssumption
  <2>4. RulesetUnderWay(p)'
    BY <1>1, <1>2, <1>4, <2>1, <2>3 DEF Facts, ProcessInv, RulesetUnderWay, serverVars
  <2>5. (writer = p => file >= served[p] /\ file >= seen[p])'
    BY <1>2, <1>4, <2>3
  <2>6. QED
    BY <1>1, <1>2, <2>1, <2>2, <2>4, <2>5 DEF Facts, ProcessInv
<1>8. writer' \in {p, Nobody} \/ (file' = file /\ writer' = writer)
  BY <1>3
<1>9. version' = version
  BY <1>2 DEF serverVars
<1>10. \A q \in Process \ {p} :
          /\ place'[q] = place[q] /\ served'[q] = served[q] /\ etag'[q] = etag[q]
          /\ reply'[q] = reply[q] /\ certified'[q] = certified[q]
          /\ offered'[q] = offered[q] /\ seen'[q] = seen[q]
  BY <1>1, <1>2 DEF TypeOK
<1>11. QED
  BY <1>5, <1>6, <1>7, <1>8, <1>9, <1>10, OwnStep

LEMMA PublishPreserves ==
  ASSUME Inductive, NEW p \in Process, Publish(p)
  PROVE  Inductive'
<1>1. TypeOK /\ NothingAhead /\ Facts(p)
  BY InductiveIs
<1>2. /\ place[p] = "publish" /\ place' = [place EXCEPT ![p] = "note"]
      /\ served' = [served EXCEPT ![p] = reply[p].body]
      /\ UNCHANGED <<serverVars, file, etag, reply, crashes, certified, historyVars>>
  BY DEF Publish, Goto, After
<1>3. reply[p].body \in Version /\ reply[p].body <= version
      /\ reply[p].body >= served[p] /\ reply[p].body >= seen[p]
  BY <1>1, <1>2 DEF Facts, ProcessInv, RulesetUnderWay
<1>4. TypeOK'
  BY <1>1, <1>2, <1>3 DEF TypeOK, Place, serverVars, historyVars
<1>5. NothingAhead'
  BY <1>1, <1>2, <1>3 DEF NothingAhead, TypeOK, serverVars, historyVars
<1>6. Facts(p)'
  BY <1>1, <1>2, <1>3 DEF TypeOK, Facts, ProcessInv, HoldsNothing, RulesetUnderWay,
     EtagNamesServed, serverVars, historyVars
<1>7. QED
  BY <1>1, <1>2, <1>4, <1>5, <1>6, OwnStep DEF TypeOK, serverVars, historyVars

LEMMA NotePreserves ==
  ASSUME Inductive, NEW p \in Process, Note(p)
  PROVE  Inductive'
<1>1. TypeOK /\ NothingAhead /\ Facts(p)
  BY InductiveIs
<1>2. /\ place[p] = "note" /\ place' = [place EXCEPT ![p] = "wait"]
      /\ etag' = [etag EXCEPT ![p] = reply[p].etag]
      /\ reply' = [reply EXCEPT ![p] = T!NoOutcome]
      /\ UNCHANGED <<serverVars, file, served, crashes, certified, historyVars>>
  BY DEF Note, Goto
<1>3. reply[p].body \in Version /\ reply[p].etag \in {Nothing, reply[p].body}
      /\ served[p] = reply[p].body
  BY <1>1, <1>2 DEF Facts, ProcessInv, RulesetUnderWay
<1>4. T!NoOutcome \in T!Outcome
  BY DEF T!NoOutcome, T!Bare, T!Outcome, T!RetryAfter
<1>5. TypeOK'
  BY <1>1, <1>2, <1>3, <1>4 DEF TypeOK, Place, serverVars, historyVars
<1>6. NothingAhead'
  BY <1>1, <1>2 DEF NothingAhead, serverVars, historyVars
<1>7. Facts(p)'
  BY <1>1, <1>2, <1>3 DEF TypeOK, Facts, ProcessInv, HoldsNothing, RulesetUnderWay,
     EtagNamesServed, serverVars, historyVars
<1>8. QED
  BY <1>1, <1>2, <1>5, <1>6, <1>7, OwnStep DEF TypeOK, serverVars, historyVars

LEMMA WaitPreserves ==
  ASSUME Inductive, NEW p \in Process, Wait(p)
  PROVE  Inductive'
<1>1. TypeOK /\ NothingAhead /\ Facts(p)
  BY InductiveIs
<1>2. TypeOK' /\ NothingAhead'
  BY <1>1 DEF Wait, Goto, TypeOK, NothingAhead, Place, serverVars, historyVars
<1>3. Facts(p)'
  BY <1>1 DEF Wait, Goto, TypeOK, Facts, ProcessInv, HoldsNothing, RulesetUnderWay,
     EtagNamesServed, serverVars, historyVars
<1>4. QED
  BY <1>1, <1>2, <1>3, OwnStep DEF Wait, Goto, TypeOK, serverVars, historyVars

LEMMA CrashPreserves ==
  ASSUME Inductive, NEW p \in Process, Crash(p)
  PROVE  Inductive'
<1>1. TypeOK /\ NothingAhead /\ Facts(p)
  BY InductiveIs
<1>2. T!NoOutcome \in T!Outcome /\ T!NoOutcome.body = Nothing
  BY DEF T!NoOutcome, T!Bare, T!Outcome, T!RetryAfter
<1>3. TypeOK'
  BY <1>1, <1>2, LifecycleAssumption DEF Crash, TypeOK, Place, serverVars
<1>4. NothingAhead'
  BY <1>1, LifecycleAssumption DEF Crash, NothingAhead, TypeOK, serverVars
<1>5. Facts(p)'
  <2>1. /\ place'[p] = "down" /\ served'[p] = Nothing /\ etag'[p] = Nothing
        /\ reply'[p] = T!NoOutcome /\ offered'[p] = Nothing /\ seen'[p] = served[p]
        /\ UNCHANGED <<file, writer>>
    BY <1>1 DEF Crash, TypeOK
  <2>2. ProcessInv(p)'
    BY <2>1 DEF ProcessInv, HoldsNothing, RulesetUnderWay, EtagNamesServed
  <2>3. (writer = p => file >= served[p] /\ file >= seen[p])'
    BY <1>1, <2>1 DEF Facts, TypeOK
  <2>4. QED
    BY <2>1, <2>2, <2>3, LifecycleAssumption DEF Facts
<1>6. QED
  BY <1>1, <1>3, <1>4, <1>5, OwnStep DEF Crash, TypeOK, serverVars

LEMMA InductiveStep == Inductive /\ [Next]_vars => Inductive'
<1> SUFFICES ASSUME Inductive, [Next]_vars PROVE Inductive'
  OBVIOUS
<1>1. ASSUME NEW p \in Process, Start(p) \/ Step(p) \/ Crash(p) PROVE Inductive'
  BY <1>1, StartPreserves, LoadPreserves, ReceivePreserves, LandPreserves, StorePreserves,
     PublishPreserves, NotePreserves, WaitPreserves, CrashPreserves DEF Step
<1>2. CASE UNCHANGED vars
  BY <1>2 DEF vars, serverVars, historyVars, Inductive, TypeOK, NothingAhead, ProcessInv,
     HoldsNothing, RulesetUnderWay, EtagNamesServed, NotModifiedIsTruthful,
     RestartKeepsRuleset, OutageSurvived
<1>3. QED
  BY <1>1, <1>2, ServerPreserves DEF Next

-----------------------------------------------------------------------------
(* Every part of the invariant holds of every run.                          *)
THEOREM Invariance == Spec => []Inductive
<1>1. QED
  BY InductiveInit, InductiveStep, PTL DEF Spec

(* Only versions are served, stored apart from what a short write leaves,   *)
(* and named by an ETag (_record, _load_cache).                             *)
THEOREM TypeCorrect == Spec => []TypeOK
<1>1. Inductive => TypeOK
  BY DEF Inductive
<1>2. QED
  BY Invariance, <1>1, PTL

(* A 304 always speaks of the ruleset being served.                         *)
THEOREM NotModifiedTellsTheTruth == Spec => []NotModifiedIsTruthful
<1>1. Inductive => NotModifiedIsTruthful
  BY DEF Inductive
<1>2. QED
  BY Invariance, <1>1, PTL

(* What a process shows is in the file first, so a crash does not undo it.  *)
THEOREM StoredBeforeShown == Spec => []RestartKeepsRuleset
<1>1. Inductive => RestartKeepsRuleset
  BY DEF Inductive
<1>2. QED
  BY Invariance, <1>1, PTL

(* What was found in the cache file at the start is never lost.             *)
THEOREM CacheOutlivesOutage == Spec => []OutageSurvived
<1>1. Inductive => OutageSurvived
  BY DEF Inductive
<1>2. QED
  BY Invariance, <1>1, PTL

(* Within a lifetime the rulesets served only get newer.                    *)
THEOREM ServedOnlyMovesOn == Spec => ServedNeverGoesBack
<1>1. ASSUME Inductive, [Next]_vars
      PROVE  [\A p \in Process : place'[p] # "down" => served'[p] >= served[p]]_vars
  <2>1. TypeOK /\ \A p \in Process : Facts(p)
    BY <1>1, InductiveIs
  <2>2. SUFFICES ASSUME NEW p \in Process, place'[p] # "down"
                 PROVE  served'[p] >= served[p]
    OBVIOUS
  <2>3. served[p] \in Int
    BY <2>1 DEF TypeOK
  <2>4. CASE served' = served
    BY <2>3, <2>4
  <2>5. ASSUME NEW q \in Process, Load(q) \/ Publish(q) \/ Crash(q)
        PROVE  served'[p] >= served[p]
    <3>1. CASE q # p
      BY <2>1, <2>3, <2>5, <3>1 DEF Load, Publish, Crash, TypeOK
    <3>2. CASE q = p /\ Load(q)
      <4>1. served[p] = Nothing
        BY <2>1, <3>2 DEF Load, Goto, Facts, ProcessInv, HoldsNothing
      <4>2. served'[p] \in Version \cup {Nothing}
        BY <2>1, <3>2 DEF Load, TypeOK, Restorable
      <4>3. QED
        BY <4>1, <4>2
    <3>3. CASE q = p /\ Publish(q)
      BY <2>1, <3>3 DEF Publish, Goto, TypeOK, Facts, ProcessInv, RulesetUnderWay
    <3>4. CASE q = p /\ Crash(q)
      BY <2>1, <2>2, <3>4 DEF Crash, TypeOK
    <3>5. QED
      BY <2>5, <3>1, <3>2, <3>3, <3>4
  <2>6. QED
    BY <1>1, <2>4, <2>5 DEF Next, Step, Export, Expire, Start, Reach, Miss, Receive, Land,
       StoreCache, Note, Wait, vars
<1>2. QED
  BY Invariance, <1>1, PTL DEF Spec, ServedNeverGoesBack

(* A restart on a file that the process itself replaced last takes nothing  *)
(* back; MCLifecycleShared.cfg shows why "itself" is needed.                *)
THEOREM RestartResumes == Spec => OwnFileNeverRollsBack
<1> DEFINE Resumes(p) == place[p] = "load" /\ writer = p /\ offered'[p] \in Version
                           => served'[p] >= seen[p]
<1>1. ASSUME Inductive, [Next]_vars
      PROVE  [\A p \in Process : Resumes(p)]_vars
  <2>1. TypeOK /\ \A p \in Process : Facts(p)
    BY <1>1, InductiveIs
  <2> SUFFICES ASSUME NEW p \in Process, place[p] = "load", writer = p,
                      offered'[p] \in Version
               PROVE  served'[p] >= seen[p]
    OBVIOUS
  <2>2. offered[p] \notin Version
    BY <2>1, LifecycleAssumption DEF Facts, ProcessInv, HoldsNothing
  <2>3. offered' # offered
    BY <2>2
  <2>4. PICK q \in Process : Load(q) \/ Crash(q)
    BY <1>1, <2>3 DEF Next, Step, Export, Expire, Start, Reach, Miss, Receive, Land,
       StoreCache, Publish, Note, Wait, vars, historyVars
  <2>5. q = p /\ Load(p)
    BY <2>1, <2>2, <2>4, LifecycleAssumption DEF Load, Crash, TypeOK
  <2>6. PICK raw \in {file, Nothing} :
          /\ offered' = [offered EXCEPT ![p] = raw]
          /\ served' = [served EXCEPT ![p] = IF Restorable(raw) THEN raw ELSE Nothing]
    BY <2>5 DEF Load
  <2>7. raw \in Version /\ offered'[p] = raw
    BY <2>1, <2>6 DEF TypeOK
  <2>8. raw = file /\ served'[p] = file
    BY <2>1, <2>6, <2>7, LifecycleAssumption DEF TypeOK, Restorable
  <2>9. file >= seen[p]
    BY <2>1 DEF Facts
  <2>10. QED
    BY <2>8, <2>9
<1>2. QED
  BY Invariance, <1>1, PTL DEF Spec, OwnFileNeverRollsBack
=============================================================================
