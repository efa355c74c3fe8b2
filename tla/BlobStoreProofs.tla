--------------------------- MODULE BlobStoreProofs ----------------------------
(***************************************************************************)
(* Proofs about BlobStore, for any set of writers and of contents.         *)
(***************************************************************************)
EXTENDS BlobStore, TLAPS

(***************************************************************************)
(* StoreInv is inductive.  A step of a writer changes no other writer's    *)
(* file or place, and the only file it can put under a blob's name is its  *)
(* own, which PlaceInv says is synced.  A crash leaves no writer in the    *)
(* middle.                                                                 *)
(***************************************************************************)
LEMMA InitInv == Init => StoreInv
BY DEF Init, StoreInv, TypeOK, NoTornBlob, NoTempAfterAnswer, PlaceInv, OutcomeInv, Files, PCs

LEMMA StepInv == StoreInv /\ [Next]_vars => StoreInv'
<1> SUFFICES ASSUME StoreInv, [Next]_vars PROVE StoreInv'
  OBVIOUS
<1> USE DEF StoreInv, TypeOK, NoTornBlob, NoTempAfterAnswer, PlaceInv, OutcomeInv, Files, PCs
<1>1. ASSUME NEW w \in Writers, Store(w) PROVE StoreInv'
  BY <1>1 DEF Store, Goto
<1>2. ASSUME NEW w \in Writers, Close(w) PROVE StoreInv'
  BY <1>2 DEF Close, Goto
<1>13. ASSUME NEW w \in Writers, WriteFails(w) PROVE StoreInv'
  <2>1. PICK c \in Contents : content' = [content EXCEPT ![w] = c]
    BY <1>13 DEF WriteFails
  <2>2. CASE temp' = temp
    BY <1>13, <2>1, <2>2 DEF WriteFails
  <2>3. CASE temp' = [temp EXCEPT ![w] = "broken"]
    BY <1>13, <2>1, <2>3 DEF WriteFails
  <2> QED BY <1>13, <2>2, <2>3 DEF WriteFails
<1>14. ASSUME NEW w \in Writers, Abandon(w) PROVE StoreInv'
  BY <1>14 DEF Abandon, Goto
<1>3. ASSUME NEW w \in Writers, Sync(w) PROVE StoreInv'
  BY <1>3 DEF Sync, Goto
<1>4. ASSUME NEW w \in Writers, SyncFails(w) PROVE StoreInv'
  BY <1>4 DEF SyncFails, Settle, Goto
<1>5. ASSUME NEW w \in Writers, Stat(w) PROVE StoreInv'
  BY <1>5 DEF Stat, Settle, Goto
<1>6. ASSUME NEW w \in Writers, Link(w) PROVE StoreInv'
  BY <1>6 DEF Link, Settle, Goto
<1>7. ASSUME NEW w \in Writers, LinkFails(w) PROVE StoreInv'
  BY <1>7 DEF LinkFails, Settle, Goto
<1>8. ASSUME NEW w \in Writers, RemoveTemp(w) PROVE StoreInv'
  BY <1>8 DEF RemoveTemp, Goto
<1>9. ASSUME NEW w \in Writers, Complete(w) PROVE StoreInv'
  BY <1>9 DEF Complete, Goto
<1>10. ASSUME NEW c \in Contents, UnLink(c) PROVE StoreInv'
  BY <1>10 DEF UnLink
<1>11. ASSUME Crash PROVE StoreInv'
  <2>1. NoTornBlob'
    BY <1>11 DEF Crash, Remains
  <2>2. pc' \in [Writers -> PCs]
    BY <1>11 DEF Crash
  <2>3. \A w \in Writers : temp[w] = "none" => temp'[w] = "none"
    BY <1>11 DEF Crash, Remains
  <2>4. \A w \in Writers : pc'[w] = "lost" \/ (pc[w] = "answered" /\ pc'[w] = "answered")
    BY <1>11 DEF Crash
  <2>5. NoTempAfterAnswer'
    BY <2>3, <2>4
  <2>6. PlaceInv' /\ OutcomeInv'
    BY <1>11, <2>4 DEF Crash
  <2>7. TypeOK'
    BY <1>11, <2>2 DEF Crash
  <2> QED BY <2>1, <2>5, <2>6, <2>7
<1>12. CASE UNCHANGED vars
  BY <1>12 DEF vars
<1> QED
  BY <1>1, <1>2, <1>3, <1>4, <1>5, <1>6, <1>7, <1>8, <1>9, <1>10, <1>11, <1>12, <1>13,
     <1>14
     DEF Next, GoroutineStep

(***************************************************************************)
(* The inductive invariant, and the three parts of it a reader wants.      *)
(***************************************************************************)
THEOREM StoreInvariant == Spec => []StoreInv
BY InitInv, StepInv, PTL DEF Spec

(***************************************************************************)
(* No blob is ever torn: what has a name was synced before it got it.      *)
(***************************************************************************)
THEOREM BlobsWhole == Spec => []NoTornBlob
BY StoreInvariant, PTL DEF StoreInv

(***************************************************************************)
(* A writer that has its answer has no temporary file.                     *)
(***************************************************************************)
THEOREM TempsRemoved == Spec => []NoTempAfterAnswer
BY StoreInvariant, PTL DEF StoreInv

------------------------------------------------------------------------------
(***************************************************************************)
(* The store implements the set of blobs.                                  *)
(***************************************************************************)
LEMMA InitAbstract == Init => Abstract!Init
BY DEF Init, Abstract!Init, CallOf

LEMMA StepAbstract == StoreInv /\ [Next]_vars => [Abstract!Next]_(Abstract!vars)
<1> DEFINE stored == {c \in Contents : blob[c] # "none"}
           call == [w \in Writers |-> CallOf(pc[w], outcome[w])]
<1> SUFFICES ASSUME StoreInv, [Next]_vars
             PROVE  Abstract!Next \/ UNCHANGED <<stored, content, call>>
  BY DEF Abstract!vars
<1> USE DEF StoreInv, TypeOK, PCs
<1>1. ASSUME NEW w \in Writers, Store(w) PROVE UNCHANGED <<stored, content, call>>
  BY <1>1 DEF Store, Goto, CallOf
<1>2. ASSUME NEW w \in Writers, Close(w) PROVE Abstract!Close(w)
  BY <1>2 DEF Close, Goto, CallOf, Abstract!Close
<1>14. ASSUME NEW w \in Writers, WriteFails(w) PROVE \E c \in Contents : Abstract!Write(w, c)
  BY <1>14 DEF WriteFails, CallOf, Abstract!Write
<1>15. ASSUME NEW w \in Writers, Abandon(w) PROVE UNCHANGED <<stored, content, call>>
  BY <1>15 DEF Abandon, Goto, CallOf
<1>3. ASSUME NEW w \in Writers, Sync(w) PROVE UNCHANGED <<stored, content, call>>
  BY <1>3 DEF Sync, Goto, CallOf
<1>4. ASSUME NEW w \in Writers, SyncFails(w) PROVE Abstract!Fail(w)
  BY <1>4 DEF SyncFails, Settle, Goto, CallOf, Abstract!Fail
<1>5. ASSUME NEW w \in Writers, Stat(w), Present(w) PROVE Abstract!Put(w)
  <2>1. content[w] \in stored /\ stored' = stored /\ UNCHANGED content
    BY <1>5 DEF Stat, Present
  <2>2. call[w] = "called"
    BY <1>5 DEF Stat, CallOf
  <2>3. /\ pc' = [pc EXCEPT ![w] = "remove"]
        /\ outcome' = [outcome EXCEPT ![w] = "ok"]
    BY <1>5 DEF Stat, Settle, Goto
  <2>4. CallOf("remove", "ok") = "put"
    BY DEF CallOf
  <2>5. \A v \in Writers : call'[v] = IF v = w THEN "put" ELSE call[v]
    BY <2>3, <2>4 DEF CallOf
  <2>6. call' = [call EXCEPT ![w] = "put"]
    BY <2>5
  <2> QED
    BY <2>1, <2>2, <2>6 DEF Abstract!Put
<1>6. ASSUME NEW w \in Writers, Stat(w), ~Present(w) PROVE UNCHANGED <<stored, content, call>>
  BY <1>6 DEF Stat, Goto, CallOf, Present
<1>7. ASSUME NEW w \in Writers, Link(w) PROVE Abstract!Put(w)
  BY <1>7 DEF Link, Settle, Goto, CallOf, PlaceInv, Abstract!Put
<1>8. ASSUME NEW w \in Writers, LinkFails(w) PROVE Abstract!Excuse(w) \/ Abstract!Fail(w)
  BY <1>8 DEF LinkFails, Settle, Goto, CallOf, Present, Abstract!Excuse, Abstract!Fail
<1>9. ASSUME NEW w \in Writers, RemoveTemp(w) PROVE UNCHANGED <<stored, content, call>>
  BY <1>9 DEF RemoveTemp, Goto, CallOf
<1>10. ASSUME NEW w \in Writers, Complete(w) PROVE Abstract!Answer(w)
  BY <1>10 DEF Complete, Goto, CallOf, OutcomeInv, Abstract!Answer, Abstract!Return
<1>11. ASSUME NEW c \in Contents, UnLink(c) PROVE Abstract!Remove(c)
  BY <1>11 DEF UnLink, Abstract!Remove
<1>12. ASSUME Crash PROVE Abstract!Crash
  <2>1. stored' \in SUBSET stored
    BY <1>12 DEF Crash, Remains
  <2>2. call' = [w \in Writers |-> IF call[w] \in {"ok", "refused", "failed"} THEN call[w] ELSE "lost"]
    BY <1>12 DEF Crash, CallOf, OutcomeInv
  <2> QED
    BY <1>12, <2>1, <2>2 DEF Crash, Abstract!Crash
<1>13. CASE UNCHANGED vars
  BY <1>13 DEF vars, CallOf
<1> QED
  BY <1>1, <1>2, <1>3, <1>4, <1>5, <1>6, <1>7, <1>8, <1>9, <1>10, <1>11, <1>12, <1>13,
     <1>14, <1>15
     DEF Next, GoroutineStep, Abstract!Next

(***************************************************************************)
(* Every behaviour of the store is one of the set.                         *)
(***************************************************************************)
THEOREM Implements == Spec => ImplementsBlobSet
<1>1. Spec => []StoreInv
  BY StoreInvariant
<1> QED
  BY <1>1, InitAbstract, StepAbstract, PTL DEF Spec, Abstract!Spec, ImplementsBlobSet

===============================================================================
