------------------------ MODULE GarbageCollectorProofs ------------------------
(***************************************************************************)
(* What the collector's lock count guarantees for any number of sessions,  *)
(* admin requests, distributions and contents: the count is exact, nothing *)
(* is collected while a session holds the collector, and what a session    *)
(* has stored stays until it is over.  And what the mark and the sweep     *)
(* guarantee when no admin request overlaps a collection: the history      *)
(* stays, no collection panics, and what nothing refers to is gone.        *)
(***************************************************************************)
EXTENDS MCGarbageCollector, FiniteSetTheorems, TLAPS

LEMMA HoldersFinite == IsFiniteSet(Holders) /\ Cardinality(Holders) \in Nat
<1>1. Holders \in SUBSET Sessions
  BY DEF Holders
<1>2. IsFiniteSet(Holders)
  BY <1>1, FS_Subset, SessionsAssumption
<1> QED
  BY <1>2, FS_CardinalityType

(***************************************************************************)
(* A step that keeps the sessions holding the collector, its count and its *)
(* phase, stores blobs but removes none, and leaves alone the upload of    *)
(* every holder, keeps the invariant.                                      *)
(***************************************************************************)
LEMMA SameHolders ==
  ASSUME LockInv,
         pc' \in [Sessions \cup Admins -> PCs],
         upload' \in [Sessions -> [content : Contents, dist : Dists] \cup {None}],
         OwnerMerging',
         Holders' = Holders, UNCHANGED lockCount,
         phase' \in {"list", "sweep", "refs"} => phase \in {"list", "sweep", "refs"},
         store \subseteq store',
         \A s \in Sessions : pc'[s] \in {"received", "merging", "merged"} =>
            \/ pc[s] \in {"received", "merging", "merged"} /\ upload'[s] = upload[s]
            \/ File(upload'[s].content) \in store'
  PROVE  LockInv'
<1>1. LockCountExact'
  BY DEF LockInv, LockCountExact
<1>2. NoSweepWhileHeld'
  BY DEF LockInv, NoSweepWhileHeld
<1>3. HeldUploadsIntact'
  BY DEF LockInv, HeldUploadsIntact, File
<1> QED
  BY <1>1, <1>2, <1>3 DEF LockInv

LEMMA SessionStepLockInv ==
  ASSUME LockInv, NEW s \in Sessions, SessionStep(s)
  PROVE  LockInv'
<1> USE SessionsAssumption, NoneAssumption
<1>0. /\ pc \in [Sessions \cup Admins -> PCs] /\ s \in Sessions \cup Admins
      /\ upload \in [Sessions -> [content : Contents, dist : Dists] \cup {None}]
      /\ OwnerMerging
      /\ {"disable", "open", "received", "merging", "enable", "closing", "closed"} \subseteq PCs
      /\ \A t \in Sessions : pc[t] \in {"received", "merging", "merged"} =>
            File(upload[t].content) \in store
  BY DEF LockInv, HeldUploadsIntact, PCs
<1>1. ASSUME NEW c \in Contents, NEW d \in Dists, NewUploadSession(s, c, d)
      PROVE  LockInv'
  <2>1. pc[s] = "new" /\ pc' = [pc EXCEPT ![s] = "disable"]
    BY <1>1 DEF NewUploadSession, StoreChanges
  <2>2. upload' = [upload EXCEPT ![s] = [content |-> c, dist |-> d]]
    BY <1>1 DEF NewUploadSession
  <2>3. UNCHANGED <<job, gcVars>> /\ store \subseteq store'
    BY <1>1 DEF NewUploadSession, StoreChanges
  <2>4. Holders' = Holders
    BY <1>0, <2>1 DEF Holders
  <2>5. OwnerMerging'
    BY <1>0, <2>1, <2>3 DEF OwnerMerging
  <2> QED
    BY <1>0, <2>1, <2>2, <2>3, <2>4, <2>5, SameHolders DEF gcVars
<1>7. ASSUME NEW c \in Contents, NEW d \in Dists, RefuseChanges(s, c, d)
      PROVE  LockInv'
  <2>1. pc[s] = "new" /\ pc' = [pc EXCEPT ![s] = "closed"]
    BY <1>7 DEF RefuseChanges, StoreChanges
  <2>2. UNCHANGED <<job, upload, gcVars>> /\ store \subseteq store'
    BY <1>7 DEF RefuseChanges, StoreChanges
  <2>3. Holders' = Holders
    BY <1>0, <2>1 DEF Holders
  <2>4. OwnerMerging'
    BY <1>0, <2>1, <2>2 DEF OwnerMerging
  <2> QED
    BY <1>0, <2>1, <2>2, <2>3, <2>4, SameHolders DEF gcVars
<1>2. CASE AddFile(s)
  <2>1. pc[s] = "open" /\ \E q \in {"open", "received"} : pc' = [pc EXCEPT ![s] = q]
    BY <1>2 DEF AddFile
  <2>2. UNCHANGED <<job, upload, gcVars>> /\ store' = store \cup {File(upload[s].content)}
    BY <1>2 DEF AddFile
  <2>3. Holders' = Holders
    BY <1>0, <2>1 DEF Holders
  <2>4. OwnerMerging'
    BY <1>0, <2>1, <2>2 DEF OwnerMerging
  <2> QED
    BY <1>0, <2>1, <2>2, <2>3, <2>4, SameHolders DEF gcVars
<1>3. CASE AddUpload(s)
  <2>1. pc[s] = "received" /\ pc' = [pc EXCEPT ![s] = "merging"]
    BY <1>3 DEF AddUpload
  <2>2. UNCHANGED <<store, upload, gcVars>> /\ job'.owner = s
    <3>1. \E new, writes : Begin(s, new, writes)
      BY <1>3, Zenon DEF AddUpload
    <3> QED
      BY <3>1 DEF Begin
  <2>3. Holders' = Holders
    BY <1>0, <2>1 DEF Holders
  <2>4. OwnerMerging'
    BY <1>0, <2>1, <2>2 DEF OwnerMerging
  <2> QED
    BY <1>0, <2>1, <2>2, <2>3, <2>4, SameHolders DEF gcVars
<1>4. CASE Expire(s)
  <2>1. pc[s] \in {"open", "merged"} /\ pc' = [pc EXCEPT ![s] = "enable"]
    BY <1>4 DEF Expire
  <2>2. UNCHANGED <<store, upload, job, gcVars>>
    BY <1>4 DEF Expire
  <2>3. Holders' = Holders
    BY <1>0, <2>1 DEF Holders
  <2>4. OwnerMerging'
    BY <1>0, <2>1, <2>2 DEF OwnerMerging
  <2> QED
    BY <1>0, <2>1, <2>2, <2>3, <2>4, SameHolders DEF gcVars
<1>5. CASE DisableGarbageCollector(s)
  <2>1. pc[s] = "disable" /\ pc' = [pc EXCEPT ![s] = "open"] /\ lockCount' = lockCount + 1
    BY <1>5 DEF DisableGarbageCollector
  <2>2. UNCHANGED <<store, upload, job, phase>> /\ phase = "idle"
    BY <1>5 DEF DisableGarbageCollector, Serving
  <2>3. Holders' = Holders \cup {s} /\ s \notin Holders
    BY <1>0, <2>1 DEF Holders
  <2>4. LockCountExact'
    BY <2>1, <2>3, HoldersFinite, FS_AddElement DEF LockInv, LockCountExact
  <2>5. NoSweepWhileHeld'
    BY <2>2 DEF NoSweepWhileHeld
  <2>6. HeldUploadsIntact'
    BY <1>0, <2>1, <2>2 DEF HeldUploadsIntact
  <2>7. OwnerMerging'
    BY <1>0, <2>1, <2>2 DEF OwnerMerging
  <2> QED
    BY <1>0, <2>1, <2>2, <2>4, <2>5, <2>6, <2>7 DEF LockInv
<1>6. CASE EnableGarbageCollector(s)
  <2>1. /\ pc[s] = "enable" /\ lockCount' = lockCount - 1
        /\ \/ pc' = [pc EXCEPT ![s] = "closing"] /\ Collects(lockCount')
           \/ pc' = [pc EXCEPT ![s] = "closed"] /\ phase' = "idle"
    BY <1>6 DEF EnableGarbageCollector, Serving
  <2>2. UNCHANGED <<store, upload, job>>
    BY <1>6 DEF EnableGarbageCollector
  <2>3. Holders' = Holders \ {s} /\ s \in Holders
    BY <1>0, <2>1 DEF Holders
  <2>4. LockCountExact'
    BY <2>1, <2>3, HoldersFinite, FS_RemoveElement DEF LockInv, LockCountExact
  <2>5. NoSweepWhileHeld'
    <3>1. CASE Collects(lockCount')
      <4>1. Cardinality(Holders') = 0
        BY <2>4, <3>1 DEF LockCountExact, Collects
      <4>2. IsFiniteSet(Holders')
        BY <2>3, HoldersFinite, FS_RemoveElement
      <4> QED
        BY <4>1, <4>2, FS_EmptySet DEF NoSweepWhileHeld
    <3>2. CASE phase' = "idle"
      BY <3>2 DEF NoSweepWhileHeld
    <3> QED
      BY <2>1, <3>1, <3>2
  <2>6. HeldUploadsIntact'
    BY <1>0, <2>1, <2>2 DEF HeldUploadsIntact
  <2>7. OwnerMerging'
    BY <1>0, <2>1, <2>2 DEF OwnerMerging
  <2> QED
    BY <1>0, <2>1, <2>2, <2>4, <2>5, <2>6, <2>7 DEF LockInv
<1> QED
  BY <1>1, <1>2, <1>3, <1>4, <1>5, <1>6, <1>7 DEF SessionStep

\* Admin requests begin jobs: no session, no blob and no count changes.
LEMMA AdminStepLockInv ==
  ASSUME LockInv, NEW a \in Admins, AdminStep(a)
  PROVE  LockInv'
<1> USE SessionsAssumption, NoneAssumption
<1>0. /\ pc \in [Sessions \cup Admins -> PCs] /\ a \notin Sessions
      /\ upload \in [Sessions -> [content : Contents, dist : Dists] \cup {None}]
      /\ "working" \in PCs
  BY DEF LockInv, PCs
<1>1. /\ pc' = [pc EXCEPT ![a] = "working"]
      /\ \E new, writes : Begin(a, new, writes)
  <2>1. PICK d \in Dists : \/ ChangeOption(a, d) \/ ChangeKey(a, d) \/ RefuseKey(a, d)
                           \/ PutDist(a, d) \/ DeleteDist(a, d)
    BY DEF AdminStep
  <2>2. CASE ChangeOption(a, d) \/ ChangeKey(a, d)
    <3>1. \E k : PutConfig(a, d, k)
      BY <2>2, Zenon DEF ChangeOption, ChangeKey
    <3> QED
      BY <3>1, Zenon DEF PutConfig
  <2>3. CASE PutDist(a, d)
    BY <2>3, Zenon DEF PutDist
  <2>4. CASE DeleteDist(a, d)
    BY <2>4, Zenon DEF DeleteDist
  <2>5. CASE RefuseKey(a, d)
    BY <2>5, Zenon DEF RefuseKey
  <2> QED
    BY <2>1, <2>2, <2>3, <2>4, <2>5
<1>2. UNCHANGED <<store, upload, lockCount, phase>> /\ job'.owner = a
  BY <1>1 DEF Begin, gcVars
<1>3. Holders' = Holders
  BY <1>0, <1>1 DEF Holders
<1>4. OwnerMerging'
  BY <1>0, <1>2 DEF OwnerMerging
<1>5. \A s \in Sessions : pc'[s] = pc[s] /\ upload'[s] = upload[s]
  BY <1>0, <1>1, <1>2
<1> QED
  BY <1>0, <1>1, <1>2, <1>3, <1>4, <1>5, SameHolders DEF LockInv

LEMMA JobStepLockInv ==
  ASSUME LockInv, WriteStep \/ EndJob \/ GarbageCollect
  PROVE  LockInv'
<1> USE SessionsAssumption, NoneAssumption
<1>0. /\ pc \in [Sessions \cup Admins -> PCs]
      /\ upload \in [Sessions -> [content : Contents, dist : Dists] \cup {None}]
      /\ OwnerMerging
      /\ {"merging", "merged", "closed"} \subseteq PCs
  BY DEF LockInv, PCs
<1>1. CASE WriteStep
  <2>1. UNCHANGED <<pc, upload, gcVars>> /\ store \subseteq store' /\ job'.owner = job.owner
    BY <1>1 DEF WriteStep
  <2>2. Holders' = Holders /\ OwnerMerging'
    BY <1>0, <2>1 DEF Holders, OwnerMerging
  <2> QED
    BY <1>0, <2>1, <2>2, SameHolders DEF gcVars
<1>2. CASE EndJob
  <2>1. UNCHANGED <<store, upload, gcVars>> /\ job'.owner = None
    BY <1>2 DEF EndJob, NoJob
  <2>2. pc' = [pc EXCEPT ![job.owner] = IF job.owner \in Sessions THEN "merged" ELSE "closed"]
    BY <1>2 DEF EndJob
  <2>3. pc' \in [Sessions \cup Admins -> PCs]
    BY <1>0, <2>2
  <2>4. ASSUME NEW s \in Sessions
        PROVE  pc'[s] = pc[s] \/ (pc[s] = "merging" /\ pc'[s] = "merged")
    <3>1. CASE s = job.owner
      <4>1. pc[s] = "merging"
        BY <1>0, <3>1 DEF OwnerMerging
      <4>2. pc' = [pc EXCEPT ![s] = "merged"]
        BY <2>2, <3>1
      <4> QED
        BY <1>0, <4>1, <4>2
    <3>2. CASE s # job.owner
      <4> DEFINE l == IF job.owner \in Sessions THEN "merged" ELSE "closed"
      <4>1. pc' = [pc EXCEPT ![job.owner] = l]
        BY <2>2
      <4> HIDE DEF l
      <4> QED
        BY <1>0, <3>2, <4>1
    <3> QED
      BY <3>1, <3>2
  <2>5. Holders' = Holders
    BY <2>4 DEF Holders
  <2>6. OwnerMerging'
    BY <2>1 DEF OwnerMerging
  <2> QED
    BY <1>0, <2>1, <2>3, <2>4, <2>5, <2>6, SameHolders DEF gcVars
<1>3. CASE GarbageCollect
  <2>1. UNCHANGED <<store, pc, upload, lockCount, phase>> /\ job'.owner = job.owner
    BY <1>3 DEF GarbageCollect
  <2>2. Holders' = Holders /\ OwnerMerging'
    BY <1>0, <2>1 DEF Holders, OwnerMerging
  <2> QED
    BY <1>0, <2>1, <2>2, SameHolders
<1> QED
  BY <1>1, <1>2, <1>3

\* The collection itself runs only while nobody holds the collector.
LEMMA CollectorStepLockInv ==
  ASSUME LockInv, CollectorStep
  PROVE  LockInv'
<1> USE SessionsAssumption, NoneAssumption
<1>0. /\ pc \in [Sessions \cup Admins -> PCs]
      /\ upload \in [Sessions -> [content : Contents, dist : Dists] \cup {None}]
      /\ OwnerMerging
      /\ {"merging", "closed"} \subseteq PCs
  BY DEF LockInv, PCs
<1>1. /\ phase \in {"list", "sweep", "refs"}
      /\ UNCHANGED <<upload, job, lockCount>>
      /\ pc' = pc \/ pc' = [pc EXCEPT ![caller] = "closed"]
  BY DEF CollectorStep, ListRef, VisitRef, Visit, Mark, VisitRefs, Finish
<1>2. Holders = {}
  BY <1>1 DEF LockInv, NoSweepWhileHeld
<1>3. \A s \in Sessions :
        /\ pc[s] \notin {"open", "received", "merging", "merged", "enable"}
        /\ pc'[s] \notin {"open", "received", "merging", "merged", "enable"}
  BY <1>0, <1>1, <1>2 DEF Holders
<1>4. Holders' = {}
  BY <1>3 DEF Holders
<1>5. LockCountExact' /\ NoSweepWhileHeld' /\ HeldUploadsIntact'
  BY <1>1, <1>2, <1>3, <1>4
     DEF LockInv, LockCountExact, NoSweepWhileHeld, HeldUploadsIntact
<1>6. OwnerMerging'
  BY <1>0, <1>1, <1>3 DEF OwnerMerging
<1>7. pc' \in [Sessions \cup Admins -> PCs]
  BY <1>0, <1>1
<1> QED
  BY <1>0, <1>1, <1>5, <1>6, <1>7 DEF LockInv

(***************************************************************************)
(* The invariant holds in every reachable state, for any set of admin      *)
(* operations: they break other promises (HistoryKept), not this one.      *)
(***************************************************************************)
THEOREM LockDiscipline == Spec => []LockInv
<1>1. Init => LockInv
  <2> SUFFICES ASSUME Init PROVE LockInv
    OBVIOUS
  <2>1. /\ pc \in [Sessions \cup Admins -> PCs] /\ \A s \in Sessions : pc[s] = "new"
        /\ upload \in [Sessions -> [content : Contents, dist : Dists] \cup {None}]
    BY DEF Init, PCs
  <2>2. OwnerMerging
    BY NoneAssumption DEF Init, NoJob, OwnerMerging
  <2>3. Holders = {}
    BY <2>1 DEF Holders
  <2>4. LockCountExact
    BY <2>3, FS_EmptySet DEF Init, LockCountExact
  <2>5. NoSweepWhileHeld /\ HeldUploadsIntact
    BY <2>1 DEF Init, NoSweepWhileHeld, HeldUploadsIntact
  <2> QED
    BY <2>1, <2>2, <2>4, <2>5 DEF LockInv
<1>2. LockInv /\ [Next]_vars => LockInv'
  <2> SUFFICES ASSUME LockInv, [Next]_vars PROVE LockInv'
    OBVIOUS
  <2>1. CASE Next
    BY <2>1, SessionStepLockInv, AdminStepLockInv, JobStepLockInv, CollectorStepLockInv DEF Next
  <2>2. CASE UNCHANGED vars
    BY <2>2 DEF vars, gcVars, LockInv, OwnerMerging, LockCountExact, NoSweepWhileHeld,
                HeldUploadsIntact, Holders
  <2> QED
    BY <2>1, <2>2
<1> QED
  BY <1>1, <1>2, PTL DEF Spec

\* The count is the number of sessions that hold the collector: it is never
\* negative, so archivestore.go:202 never panics.
THEOREM CountNeverNegative == Spec => []LockCountExact
<1>1. LockInv => LockCountExact
  BY DEF LockInv
<1> QED
  BY <1>1, LockDiscipline, PTL

\* Nothing is listed, marked or unlinked while a session holds the collector.
THEOREM NoCollectionDuringUpload == Spec => []NoSweepWhileHeld
<1>1. LockInv => NoSweepWhileHeld
  BY DEF LockInv
<1> QED
  BY <1>1, LockDiscipline, PTL

\* A file stored by a session's handler stays on disk until the session is over.
THEOREM UploadsSurvive == Spec => []HeldUploadsIntact
<1>1. LockInv => HeldUploadsIntact
  BY DEF LockInv
<1> QED
  BY <1>1, LockDiscipline, PTL

------------------------------------------------------------------------------
(***************************************************************************)
(* Only uploads ask for a collection: what is left of the job of an admin  *)
(* request, whatever it was, is writes of blobs and of references.         *)
(***************************************************************************)
PlainWrites(todo) == \E W : todo \in Seq(W) /\ \A w \in W : w.op # "collect"

OnlyUploadsCollect == job.owner \in Sessions \/ PlainWrites(job.todo)

LEMMA NotAsking == ~PlainWrites(CollectGarbage)
<1> SUFFICES ASSUME NEW W, CollectGarbage \in Seq(W), \A w \in W : w.op # "collect" PROVE FALSE
  BY DEF PlainWrites
<1>1. CollectGarbage[1] \in W /\ CollectGarbage[1].op = "collect"
  BY DEF CollectGarbage
<1> QED BY <1>1

LEMMA PlainTail ==
  ASSUME NEW todo, PlainWrites(todo), todo # <<>>
  PROVE  PlainWrites(Tail(todo))
  BY DEF PlainWrites

LEMMA PlainConcat ==
  ASSUME NEW s, NEW t, PlainWrites(s), PlainWrites(t)
  PROVE  PlainWrites(s \o t)
<1>1. PICK V : s \in Seq(V) /\ \A w \in V : w.op # "collect"
  BY DEF PlainWrites
<1>2. PICK W : t \in Seq(W) /\ \A w \in W : w.op # "collect"
  BY DEF PlainWrites
<1> DEFINE U == V \cup W
<1>3. s \in Seq(U) /\ t \in Seq(U) /\ \A w \in U : w.op # "collect"
  BY <1>1, <1>2
<1> HIDE DEF U
<1>4. s \o t \in Seq(U)
  BY <1>3
<1> QED BY <1>3, <1>4 DEF PlainWrites

\* The writes of the admin requests.
LEMMA PlainStores ==
  ASSUME NEW a, NEW b
  PROVE  PlainWrites(<<Store(a)>>) /\ PlainWrites(<<Store(a), Store(b)>>)
<1> DEFINE W == {Store(a), Store(b)}
<1>1. <<Store(a)>> \in Seq(W) /\ <<Store(a), Store(b)>> \in Seq(W)
  OBVIOUS
<1>2. \A w \in W : w.op # "collect"
  BY DEF Store
<1> HIDE DEF W
<1> QED BY <1>1, <1>2 DEF PlainWrites

LEMMA PlainRefs ==
  ASSUME NEW d, NEW n
  PROVE  PlainWrites(SetRef(d, n)) /\ PlainWrites(Delete(d)) /\ PlainWrites(<<>>)
<1> DEFINE W == {[op |-> "truncate", dist |-> d], [op |-> "write", dist |-> d, rel |-> n],
                 [op |-> "delete", dist |-> d]}
<1>1. SetRef(d, n) \in Seq(W) /\ Delete(d) \in Seq(W) /\ <<>> \in Seq(W)
  BY DEF SetRef, Delete
<1>2. \A w \in W : w.op # "collect"
  OBVIOUS
<1> HIDE DEF W
<1> QED BY <1>1, <1>2 DEF PlainWrites

LEMMA PlainRoot ==
  ASSUME NEW d, NEW n
  PROVE  PlainWrites(RootWrites(d, n))
<1> DEFINE W == {Store(Config(DefaultConfig)), Store(Index({})), Store(Rel(n))}
           stores == <<Store(Config(DefaultConfig)), Store(Index({})), Store(Rel(n))>>
<1>1. stores \in Seq(W) /\ \A w \in W : w.op # "collect"
  BY DEF Store
<1> HIDE DEF W
<1>2. PlainWrites(stores)
  BY <1>1 DEF PlainWrites
<1> HIDE DEF stores
<1>3. RootWrites(d, n) = stores \o SetRef(d, n)
  BY DEF RootWrites, stores
<1> QED BY <1>2, <1>3, PlainConcat, PlainRefs

LEMMA AdminsWrite ==
  ASSUME NEW a \in Admins, AdminStep(a)
  PROVE  PlainWrites(job'.todo)
<1>1. PICK d \in Dists : \/ ChangeOption(a, d) \/ ChangeKey(a, d) \/ RefuseKey(a, d)
                         \/ PutDist(a, d) \/ DeleteDist(a, d)
  BY DEF AdminStep
<1>2. ASSUME NEW k, PutConfig(a, d, k) PROVE PlainWrites(job'.todo)
  <2> DEFINE n == Len(rel) + 1
             newKey == IF k.key = rel[refs[d]].config.key THEN <<>> ELSE <<Store(Key(k.key))>>
             stores == <<Store(Config(k)), Store(Rel(n))>>
  <2>1. job'.todo = newKey \o stores \o SetRef(d, n)
    BY <1>2 DEF PutConfig, Begin
  <2>2. PlainWrites(newKey) /\ PlainWrites(stores)
    BY PlainStores, PlainRefs
  <2> HIDE DEF n, newKey, stores
  <2> QED BY <2>1, <2>2, PlainConcat, PlainRefs
<1>3. CASE PutDist(a, d)
  <2> DEFINE n == Len(rel) + 1
             stores == <<Store(Index({})), Store(Rel(n + 1))>>
  <2>1. job'.todo = RootWrites(d, n) \o stores \o SetRef(d, n + 1)
    BY <1>3 DEF PutDist, Begin
  <2>2. PlainWrites(stores)
    BY PlainStores
  <2> HIDE DEF n, stores
  <2> QED BY <2>1, <2>2, PlainRoot, PlainConcat, PlainRefs
<1>4. CASE DeleteDist(a, d)
  <2>1. job'.todo = Delete(d)
    BY <1>4 DEF DeleteDist, Begin
  <2> QED BY <2>1, PlainRefs
<1>5. ChangeOption(a, d) \/ ChangeKey(a, d) => \E k : PutConfig(a, d, k)
  BY Zenon DEF ChangeOption, ChangeKey
<1>6. CASE RefuseKey(a, d)
  <2>1. PICK k : job'.todo = <<Store(Key(k))>>
    BY <1>6 DEF RefuseKey, Begin
  <2> QED BY <2>1, PlainStores
<1> QED BY <1>1, <1>2, <1>3, <1>4, <1>5, <1>6

LEMMA NextOnlyUploads ==
  ASSUME OnlyUploadsCollect, [Next]_vars
  PROVE  OnlyUploadsCollect'
<1>1. ASSUME NEW s \in Sessions, SessionStep(s) PROVE OnlyUploadsCollect'
  <2>1. CASE AddUpload(s)
    <3>1. \E new, writes : Begin(s, new, writes)
      BY <2>1, Zenon DEF AddUpload
    <3>2. job'.owner = s
      BY <3>1 DEF Begin
    <3> QED BY <3>2 DEF OnlyUploadsCollect
  <2>2. CASE ~AddUpload(s)
    <3>1. UNCHANGED job
      BY <1>1, <2>2 DEF SessionStep, NewUploadSession, RefuseChanges, StoreChanges, AddFile, Expire,
                     DisableGarbageCollector, EnableGarbageCollector
    <3> QED BY <3>1 DEF OnlyUploadsCollect
  <2> QED BY <2>1, <2>2
<1>2. ASSUME NEW a \in Admins, AdminStep(a) PROVE OnlyUploadsCollect'
  BY <1>2, AdminsWrite DEF OnlyUploadsCollect
<1>3. CASE WriteStep \/ GarbageCollect
  <2>1. CASE WriteStep
    <3>1. job'.owner = job.owner /\ job'.todo = Tail(job.todo) /\ job.todo # <<>>
      BY <2>1 DEF WriteStep
    <3> QED BY <3>1, PlainTail DEF OnlyUploadsCollect
  <2>2. CASE GarbageCollect
    <3>1. job.todo = CollectGarbage /\ job'.owner = job.owner
      BY <2>2 DEF GarbageCollect
    <3> QED BY <3>1, NotAsking DEF OnlyUploadsCollect
  <2> QED BY <1>3, <2>1, <2>2
<1>4. CASE EndJob
  <2>1. job'.todo = <<>>
    BY <1>4 DEF EndJob, NoJob
  <2> QED BY <2>1, PlainRefs DEF OnlyUploadsCollect
<1>5. CASE CollectorStep
  <2>1. UNCHANGED job
    BY <1>5 DEF CollectorStep, ListRef, VisitRef, Visit, Mark, VisitRefs, Finish
  <2> QED BY <2>1 DEF OnlyUploadsCollect
<1>6. CASE UNCHANGED vars
  BY <1>6 DEF vars, OnlyUploadsCollect
<1> QED BY <1>1, <1>2, <1>3, <1>4, <1>5, <1>6 DEF Next

\* The session that asks still holds the collector, so somebody will run the collection.
LEMMA NextNotMissed ==
  ASSUME LockInv, OnlyUploadsCollect, NoMissedCollection, [Next]_vars
  PROVE  NoMissedCollection'
<1>1. ASSUME NEW s \in Sessions, SessionStep(s) PROVE NoMissedCollection'
  <2>1. CASE DisableGarbageCollector(s)
    BY <2>1, HoldersFinite DEF DisableGarbageCollector, NoMissedCollection, LockInv, LockCountExact
  <2>2. CASE EnableGarbageCollector(s)
    <3>1. CASE Collects(lockCount')
      BY <2>2, <3>1 DEF EnableGarbageCollector, NoMissedCollection
    <3>2. CASE ~Collects(lockCount')
      BY <2>2, <3>2 DEF EnableGarbageCollector, Collects, NoMissedCollection
    <3> QED BY <3>1, <3>2
  <2>3. CASE AddUpload(s)
    <3>1. \E new, writes : Begin(s, new, writes)
      BY <2>3, Zenon DEF AddUpload
    <3> QED BY <3>1 DEF Begin, gcVars, NoMissedCollection
  <2>4. CASE \E c \in Contents, d \in Dists : NewUploadSession(s, c, d) \/ RefuseChanges(s, c, d)
    BY <2>4 DEF NewUploadSession, RefuseChanges, StoreChanges, gcVars, NoMissedCollection
  <2>5. CASE AddFile(s) \/ Expire(s)
    BY <2>5 DEF AddFile, Expire, gcVars, NoMissedCollection
  <2> QED BY <1>1, <2>1, <2>2, <2>3, <2>4, <2>5 DEF SessionStep
<1>2. ASSUME NEW a \in Admins, AdminStep(a) PROVE NoMissedCollection'
  <2>1. UNCHANGED gcVars
    <3>1. PICK d \in Dists : \/ ChangeOption(a, d) \/ ChangeKey(a, d) \/ RefuseKey(a, d)
                             \/ PutDist(a, d) \/ DeleteDist(a, d)
      BY <1>2 DEF AdminStep
    <3>2. \E new, writes : Begin(a, new, writes)
      <4>1. CASE ChangeOption(a, d) \/ ChangeKey(a, d)
        <5>1. \E k : PutConfig(a, d, k)
          BY <4>1, Zenon DEF ChangeOption, ChangeKey
        <5> QED BY <5>1, Zenon DEF PutConfig
      <4>2. CASE PutDist(a, d)
        BY <4>2, Zenon DEF PutDist
      <4>3. CASE DeleteDist(a, d)
        BY <4>3, Zenon DEF DeleteDist
      <4>4. CASE RefuseKey(a, d)
        BY <4>4, Zenon DEF RefuseKey
      <4> QED BY <3>1, <4>1, <4>2, <4>3, <4>4
    <3> QED BY <3>2 DEF Begin
  <2> QED BY <2>1 DEF gcVars, NoMissedCollection
<1>3. CASE GarbageCollect
  <2>1. job.owner \in Sessions
    BY <1>3, NotAsking DEF GarbageCollect, OnlyUploadsCollect
  <2>2. job.owner \in Holders
    BY <2>1 DEF LockInv, OwnerMerging, Holders
  <2>3. lockCount # 0
    BY <2>2, HoldersFinite, FS_EmptySet DEF LockInv, LockCountExact
  <2> QED BY <1>3, <2>3 DEF GarbageCollect, NoMissedCollection
<1>4. CASE WriteStep \/ EndJob
  BY <1>4 DEF WriteStep, EndJob, gcVars, NoMissedCollection
<1>5. CASE CollectorStep
  BY <1>5 DEF CollectorStep, ListRef, VisitRef, Visit, Mark, VisitRefs, Finish, NoMissedCollection
<1>6. CASE UNCHANGED vars
  BY <1>6 DEF vars, gcVars, NoMissedCollection
<1> QED BY <1>1, <1>2, <1>3, <1>4, <1>5, <1>6 DEF Next

\* A collection that was asked for is run by the last session to end: with nobody
\* open and the collector idle, none is pending.
THEOREM CollectionsRun == Spec => []NoMissedCollection
<1>1. Init => OnlyUploadsCollect /\ NoMissedCollection
  BY PlainRefs DEF Init, NoJob, OnlyUploadsCollect, NoMissedCollection
<1>2. LockInv /\ OnlyUploadsCollect /\ NoMissedCollection /\ [Next]_vars
        => OnlyUploadsCollect' /\ NoMissedCollection'
  BY NextOnlyUploads, NextNotMissed
<1> QED BY <1>1, <1>2, LockDiscipline, PTL DEF Spec

------------------------------------------------------------------------------
(***************************************************************************)
(* The mark and the sweep, as long as no admin request and no collection   *)
(* have overlapped.                                                        *)
(*                                                                         *)
(* What a release needs of the disk: what it and its past refer to, but    *)
(* for the changes files.                                                  *)
(***************************************************************************)
Own(n) == {Rel(n), Index(rel[n].entries)} \cup ConfigAssets(rel[n].config)
            \cup {File(c) : c \in rel[n].entries}

Needs == [n \in 1..Len(rel) |-> UNION {Own(m) : m \in Chain(n)}]

(***************************************************************************)
(* A list of writes is good on a disk S if it writes no reference to a     *)
(* release before all that the release needs (F) is on disk, and writes    *)
(* every reference that it truncates.                                      *)
(***************************************************************************)
IsSeq(t) == \E W : t \in Seq(W)

Stored(t) == {t[i].blob : i \in {j \in 1..Len(t) : t[j].op = "store"}}

StoredBefore(t, i) == {t[k].blob : k \in {j \in 1..Len(t) : j < i /\ t[j].op = "store"}}

Good(F, S, t) ==
  /\ IsSeq(t)
  /\ \A i \in 1..Len(t) :
       /\ t[i].op = "truncate" =>
            i + 1 \in 1..Len(t) /\ t[i + 1].op = "write" /\ t[i + 1].dist = t[i].dist
       /\ t[i].op = "write" => t[i].rel \in DOMAIN F /\ F[t[i].rel] \subseteq S \cup StoredBefore(t, i)

Configs == [opt : Admins \cup {None}, key : Admins \cup {None}]

ReleasesInv ==
  /\ IsSeq(rel)
  /\ \A n \in 1..Len(rel) : /\ rel[n].past \subseteq 1..(n - 1)
                            /\ rel[n].config \in Configs

RefsInv ==
  /\ refs \in [Dists -> 0..Len(rel) \cup {Torn}]
  /\ \A d \in Dists : refs[d] = Torn =>
       job.todo # <<>> /\ Head(job.todo).op = "write" /\ Head(job.todo).dist = d
  /\ \A d \in Dists : refs[d] \in 1..Len(rel) => Needs[refs[d]] \subseteq store

JobInv ==
  /\ job.owner \in Sessions \cup Admins \cup {None}
  /\ job.owner = None => job.todo = <<>>
  /\ Good(Needs, store, job.todo)

UploadsKnown ==
  \A s \in Sessions : pc[s] \in {"new", "closed"} \/ upload[s] \in [content : Contents, dist : Dists]

\* The collection: what it has found and what it has still to visit.
PhaseInv ==
  /\ phase \in {"idle", "list", "sweep", "refs"}
  /\ job.owner \in Admins => phase = "idle"
  /\ phase = "idle" => used = {}
  /\ phase # "idle" => caller \in Sessions /\ pc[caller] = "closing"
  /\ phase \in {"list", "refs"} => names \subseteq {d \in Dists : refs[d] # 0}
  /\ phase = "list" =>
       /\ used \subseteq {Rel(n) : n \in Heads}
       /\ \A d \in Dists : refs[d] \notin {0, Torn} => Rel(refs[d]) \in used \/ d \in names
  /\ phase = "sweep" =>
       /\ used = Reachable /\ listed \cap used = {}
       /\ store \subseteq used \cup listed \cup late
  /\ phase = "refs" => store \subseteq Reachable \cup late

\* What late becomes in a step.
Noted == late' = IF phase' \in {"sweep", "refs"} THEN late \cup (store' \ store) ELSE {}

KeepInv == ReleasesInv /\ RefsInv /\ JobInv /\ UploadsKnown /\ PhaseInv

\* Lists of writes.
LEMMA StoresAreGood ==
  ASSUME NEW F, NEW S, NEW W, NEW t \in Seq(W), \A w \in W : w.op = "store"
  PROVE  Good(F, S, t)
<1>1. \A i \in 1..Len(t) : t[i].op = "store"
  OBVIOUS
<1>2. IsSeq(t)
  BY DEF IsSeq
<1> QED BY <1>1, <1>2 DEF Good

LEMMA NothingIsGood ==
  ASSUME NEW F, NEW S
  PROVE  Good(F, S, <<>>) /\ Stored(<<>>) = {}
<1>1. <<>> \in Seq({}) /\ Len(<<>>) = 0
  OBVIOUS
<1>2. IsSeq(<<>>)
  BY <1>1 DEF IsSeq
<1> QED BY <1>1, <1>2 DEF Good, Stored

LEMMA OneStore ==
  ASSUME NEW F, NEW S, NEW a
  PROVE  Good(F, S, <<Store(a)>>) /\ Stored(<<Store(a)>>) = {a}
<1> DEFINE W == {Store(a)}
           t == <<Store(a)>>
<1>1. t \in Seq(W)
  OBVIOUS
<1>2. \A w \in W : w.op = "store"
  BY DEF Store
<1>3. Stored(t) = {a}
  BY DEF Stored, Store
<1> HIDE DEF W, t
<1>4. Good(F, S, t)
  BY <1>1, <1>2, StoresAreGood
<1> QED BY <1>3, <1>4 DEF t

LEMMA TwoStores ==
  ASSUME NEW F, NEW S, NEW a, NEW b
  PROVE  Good(F, S, <<Store(a), Store(b)>>) /\ Stored(<<Store(a), Store(b)>>) = {a, b}
<1> DEFINE W == {Store(a), Store(b)}
           t == <<Store(a), Store(b)>>
<1>1. t \in Seq(W)
  OBVIOUS
<1>2. \A w \in W : w.op = "store"
  BY DEF Store
<1>3. Stored(t) = {a, b}
  BY DEF Stored, Store
<1> HIDE DEF W, t
<1>4. Good(F, S, t)
  BY <1>1, <1>2, StoresAreGood
<1> QED BY <1>3, <1>4 DEF t

LEMMA ThreeStores ==
  ASSUME NEW F, NEW S, NEW a, NEW b, NEW c
  PROVE  Good(F, S, <<Store(a), Store(b), Store(c)>>) /\ Stored(<<Store(a), Store(b), Store(c)>>) = {a, b, c}
<1> DEFINE W == {Store(a), Store(b), Store(c)}
           t == <<Store(a), Store(b), Store(c)>>
<1>1. t \in Seq(W)
  OBVIOUS
<1>2. \A w \in W : w.op = "store"
  BY DEF Store
<1>3. Stored(t) = {a, b, c}
  BY DEF Stored, Store
<1> HIDE DEF W, t
<1>4. Good(F, S, t)
  BY <1>1, <1>2, StoresAreGood
<1> QED BY <1>3, <1>4 DEF t

LEMMA RefsAreGood ==
  ASSUME NEW F, NEW S, NEW d, NEW n \in DOMAIN F, F[n] \subseteq S
  PROVE  Good(F, S, SetRef(d, n)) /\ Stored(SetRef(d, n)) = {}
<1> DEFINE W == {[op |-> "truncate", dist |-> d], [op |-> "write", dist |-> d, rel |-> n]}
           t == SetRef(d, n)
<1>1. /\ t \in Seq(W) /\ Len(t) = 2
      /\ t[1] = [op |-> "truncate", dist |-> d] /\ t[2] = [op |-> "write", dist |-> d, rel |-> n]
  BY DEF SetRef
<1> HIDE DEF t
<1>2. IsSeq(t)
  BY <1>1 DEF IsSeq
<1>3. 1..2 = {1, 2}
  OBVIOUS
<1>4. Good(F, S, t)
  BY <1>1, <1>2, <1>3 DEF Good
<1>5. Stored(t) = {}
  BY <1>1, <1>3 DEF Stored
<1> QED BY <1>4, <1>5 DEF t

LEMMA OthersAreGood ==
  ASSUME NEW F, NEW S, NEW d
  PROVE  Good(F, S, Delete(d)) /\ Good(F, S, CollectGarbage)
<1>1. ASSUME NEW w, w.op \notin {"truncate", "write"} PROVE Good(F, S, <<w>>)
  <2>1. <<w>> \in Seq({w}) /\ Len(<<w>>) = 1 /\ <<w>>[1] = w
    OBVIOUS
  <2>2. IsSeq(<<w>>)
    BY <2>1 DEF IsSeq
  <2> QED BY <1>1, <2>1, <2>2 DEF Good
<1> QED BY <1>1 DEF Delete, CollectGarbage

LEMMA ConcatIsGood ==
  ASSUME NEW F, NEW S, NEW s, NEW t, Good(F, S, s), Good(F, S \cup Stored(s), t)
  PROVE  Good(F, S, s \o t) /\ Stored(s \o t) = Stored(s) \cup Stored(t)
<1>1. PICK V : s \in Seq(V)
  BY DEF Good, IsSeq
<1>2. PICK W : t \in Seq(W)
  BY DEF Good, IsSeq
<1> DEFINE U == V \cup W
           st == s \o t
           m == Len(s)
<1>3. s \in Seq(U) /\ t \in Seq(U)
  BY <1>1, <1>2
<1> HIDE DEF U
<1>4. /\ st \in Seq(U) /\ Len(st) = m + Len(t) /\ m \in Nat /\ Len(t) \in Nat
      /\ \A i \in 1..m : st[i] = s[i]
      /\ \A i \in 1..Len(t) : st[m + i] = t[i]
  BY <1>3
<1> HIDE DEF st, m
<1>5. \A i \in 1..Len(st) : i \in 1..m \/ (i - m \in 1..Len(t) /\ st[i] = t[i - m])
  BY <1>4
<1>6. ASSUME NEW i \in 1..m PROVE StoredBefore(st, i) = StoredBefore(s, i)
  <2>1. {j \in 1..Len(st) : j < i /\ st[j].op = "store"} = {j \in 1..m : j < i /\ s[j].op = "store"}
    BY <1>4
  <2> QED BY <1>4, <2>1 DEF StoredBefore, m
<1>7. ASSUME NEW i \in 1..Len(t) PROVE StoredBefore(st, m + i) = Stored(s) \cup StoredBefore(t, i)
  <2>1. ASSUME NEW b \in StoredBefore(st, m + i) PROVE b \in Stored(s) \cup StoredBefore(t, i)
    <3>1. PICK j \in 1..Len(st) : j < m + i /\ st[j].op = "store" /\ b = st[j].blob
      BY DEF StoredBefore
    <3>2. CASE j \in 1..m
      BY <1>4, <3>1, <3>2 DEF Stored, m
    <3>3. CASE j - m \in 1..Len(t) /\ st[j] = t[j - m]
      <4>1. j - m < i
        BY <1>4, <3>1
      <4> QED BY <3>1, <3>3, <4>1 DEF StoredBefore
    <3> QED BY <1>5, <3>2, <3>3
  <2>2. ASSUME NEW b \in Stored(s) PROVE b \in StoredBefore(st, m + i)
    <3>1. PICK j \in 1..m : s[j].op = "store" /\ b = s[j].blob
      BY DEF Stored, m
    <3>2. j \in 1..Len(st) /\ j < m + i /\ st[j] = s[j]
      BY <1>4
    <3> QED BY <3>1, <3>2 DEF StoredBefore
  <2>3. ASSUME NEW b \in StoredBefore(t, i) PROVE b \in StoredBefore(st, m + i)
    <3>1. PICK j \in 1..Len(t) : j < i /\ t[j].op = "store" /\ b = t[j].blob
      BY DEF StoredBefore
    <3>2. m + j \in 1..Len(st) /\ m + j < m + i /\ st[m + j] = t[j]
      BY <1>4, <3>1
    <3> QED BY <3>1, <3>2 DEF StoredBefore
  <2> QED BY <2>1, <2>2, <2>3
<1>8. Good(F, S, st)
  <2>1. IsSeq(st)
    BY <1>4 DEF IsSeq
  <2>2. ASSUME NEW i \in 1..Len(st)
        PROVE  /\ st[i].op = "truncate" =>
                    i + 1 \in 1..Len(st) /\ st[i + 1].op = "write" /\ st[i + 1].dist = st[i].dist
               /\ st[i].op = "write" =>
                    st[i].rel \in DOMAIN F /\ F[st[i].rel] \subseteq S \cup StoredBefore(st, i)
    <3>1. CASE i \in 1..m
      <4>1. /\ s[i].op = "truncate" =>
                 i + 1 \in 1..m /\ s[i + 1].op = "write" /\ s[i + 1].dist = s[i].dist
            /\ s[i].op = "write" =>
                 s[i].rel \in DOMAIN F /\ F[s[i].rel] \subseteq S \cup StoredBefore(s, i)
        BY <3>1 DEF Good, m
      <4>2. i + 1 \in 1..m => i + 1 \in 1..Len(st) /\ st[i + 1] = s[i + 1]
        BY <1>4
      <4> QED BY <1>4, <1>6, <3>1, <4>1, <4>2
    <3>2. CASE i - m \in 1..Len(t) /\ st[i] = t[i - m]
      <4> DEFINE k == i - m
      <4>1. k \in 1..Len(t) /\ st[i] = t[k] /\ i = m + k
        BY <1>4, <3>2
      <4> HIDE DEF k
      <4>2. /\ t[k].op = "truncate" =>
                 k + 1 \in 1..Len(t) /\ t[k + 1].op = "write" /\ t[k + 1].dist = t[k].dist
            /\ t[k].op = "write" =>
                 t[k].rel \in DOMAIN F /\ F[t[k].rel] \subseteq (S \cup Stored(s)) \cup StoredBefore(t, k)
        BY <4>1 DEF Good
      <4>3. k + 1 \in 1..Len(t) => i + 1 \in 1..Len(st) /\ st[i + 1] = t[k + 1]
        <5>1. i + 1 = m + (k + 1)
          BY <1>4, <4>1
        <5> QED BY <1>4, <4>1, <5>1
      <4>4. StoredBefore(st, i) = Stored(s) \cup StoredBefore(t, k)
        BY <1>7, <4>1
      <4> QED BY <4>1, <4>2, <4>3, <4>4
    <3> QED BY <1>5, <3>1, <3>2
  <2> QED BY <2>1, <2>2 DEF Good
<1>9. Stored(st) = Stored(s) \cup Stored(t)
  <2>1. ASSUME NEW b \in Stored(st) PROVE b \in Stored(s) \cup Stored(t)
    <3>1. PICK j \in 1..Len(st) : st[j].op = "store" /\ b = st[j].blob
      BY DEF Stored
    <3> QED BY <1>4, <1>5, <3>1 DEF Stored, m
  <2>2. ASSUME NEW b \in Stored(s) PROVE b \in Stored(st)
    <3>1. PICK j \in 1..m : s[j].op = "store" /\ b = s[j].blob
      BY DEF Stored, m
    <3> QED BY <1>4, <3>1 DEF Stored
  <2>3. ASSUME NEW b \in Stored(t) PROVE b \in Stored(st)
    <3>1. PICK j \in 1..Len(t) : t[j].op = "store" /\ b = t[j].blob
      BY DEF Stored
    <3>2. m + j \in 1..Len(st) /\ st[m + j] = t[j]
      BY <1>4
    <3> QED BY <3>1, <3>2 DEF Stored
  <2> QED BY <2>1, <2>2, <2>3
<1> QED BY <1>8, <1>9 DEF st

\* More on disk, or for a release, spoils nothing.
LEMMA GoodIsMonotone ==
  ASSUME NEW F, NEW G, NEW S, NEW T, NEW t, Good(F, S, t), S \subseteq T,
         \A n \in DOMAIN F : n \in DOMAIN G /\ G[n] = F[n]
  PROVE  Good(G, T, t)
<1>1. \A i \in 1..Len(t) :
        t[i].op = "write" => t[i].rel \in DOMAIN G /\ G[t[i].rel] \subseteq T \cup StoredBefore(t, i)
  BY DEF Good
<1> QED BY <1>1 DEF Good

\* The first write of a good list, and the rest.
LEMMA HeadIsGood ==
  ASSUME NEW F, NEW S, NEW t, Good(F, S, t), t # <<>>
  PROVE  /\ Head(t).op = "truncate" =>
              /\ Tail(t) # <<>>
              /\ Head(Tail(t)).op = "write" /\ Head(Tail(t)).dist = Head(t).dist
         /\ Head(t).op = "write" => Head(t).rel \in DOMAIN F /\ F[Head(t).rel] \subseteq S
         /\ Good(F, IF Head(t).op = "store" THEN S \cup {Head(t).blob} ELSE S, Tail(t))
<1> DEFINE u == Tail(t)
           T == IF t[1].op = "store" THEN S \cup {t[1].blob} ELSE S
<1>1. PICK W : t \in Seq(W)
  BY DEF Good, IsSeq
<1>2. /\ u \in Seq(W) /\ Len(u) = Len(t) - 1 /\ Len(t) \in Nat \ {0} /\ Head(t) = t[1]
      /\ \A i \in 1..Len(u) : u[i] = t[i + 1] /\ i + 1 \in 1..Len(t)
      /\ Len(u) # 0 => u # <<>> /\ Head(u) = u[1]
  <2>1. u \in Seq(W) /\ Len(u) = Len(t) - 1 /\ Len(t) \in Nat \ {0} /\ Head(t) = t[1]
    BY <1>1
  <2>2. \A i \in 1..Len(u) : u[i] = t[i + 1] /\ i + 1 \in 1..Len(t)
    BY <1>1
  <2> HIDE DEF u
  <2>3. Len(u) # 0 => u # <<>> /\ Head(u) = u[1]
    BY <2>1
  <2> QED BY <2>1, <2>2, <2>3
<1> HIDE DEF u
<1>3. 1 \in 1..Len(t) /\ StoredBefore(t, 1) = {}
  BY <1>2 DEF StoredBefore
<1>4. t[1].op = "truncate" => u # <<>> /\ Head(u).op = "write" /\ Head(u).dist = t[1].dist
  <2>1. t[1].op = "truncate" => 2 \in 1..Len(t) /\ t[2].op = "write" /\ t[2].dist = t[1].dist
    BY <1>3 DEF Good
  <2>2. 2 \in 1..Len(t) => u # <<>> /\ Head(u) = t[2]
    <3> SUFFICES ASSUME 2 \in 1..Len(t) PROVE u # <<>> /\ Head(u) = t[2]
      OBVIOUS
    <3>1. Len(u) # 0 /\ 1 \in 1..Len(u)
      BY <1>2
    <3> QED BY <1>2, <3>1
  <2> QED BY <2>1, <2>2
<1>5. t[1].op = "write" => t[1].rel \in DOMAIN F /\ F[t[1].rel] \subseteq S
  BY <1>3 DEF Good
<1>6. ASSUME NEW i \in 1..Len(u) PROVE S \cup StoredBefore(t, i + 1) \subseteq T \cup StoredBefore(u, i)
  <2> SUFFICES ASSUME NEW b \in StoredBefore(t, i + 1) PROVE b \in T \cup StoredBefore(u, i)
    OBVIOUS
  <2>1. PICK j \in 1..Len(t) : j < i + 1 /\ t[j].op = "store" /\ b = t[j].blob
    BY DEF StoredBefore
  <2>2. CASE j = 1
    BY <2>1, <2>2
  <2>3. CASE j # 1
    <3>1. j - 1 \in 1..Len(u) /\ j - 1 < i /\ u[j - 1] = t[j]
      BY <1>2, <2>1, <2>3
    <3> QED BY <2>1, <3>1 DEF StoredBefore
  <2> QED BY <2>2, <2>3
<1>7. Good(F, T, u)
  <2>1. IsSeq(u)
    BY <1>2 DEF IsSeq
  <2>2. ASSUME NEW i \in 1..Len(u)
        PROVE  /\ u[i].op = "truncate" =>
                    i + 1 \in 1..Len(u) /\ u[i + 1].op = "write" /\ u[i + 1].dist = u[i].dist
               /\ u[i].op = "write" =>
                    u[i].rel \in DOMAIN F /\ F[u[i].rel] \subseteq T \cup StoredBefore(u, i)
    <3>1. u[i] = t[i + 1] /\ i + 1 \in 1..Len(t)
      BY <1>2
    <3>2. /\ t[i + 1].op = "truncate" =>
               /\ (i + 1) + 1 \in 1..Len(t) /\ t[(i + 1) + 1].op = "write"
               /\ t[(i + 1) + 1].dist = t[i + 1].dist
          /\ t[i + 1].op = "write" =>
               t[i + 1].rel \in DOMAIN F /\ F[t[i + 1].rel] \subseteq S \cup StoredBefore(t, i + 1)
      BY <3>1 DEF Good
    <3>3. (i + 1) + 1 \in 1..Len(t) => i + 1 \in 1..Len(u) /\ u[i + 1] = t[(i + 1) + 1]
      BY <1>2
    <3> QED BY <1>6, <3>1, <3>2, <3>3
  <2> QED BY <2>1, <2>2 DEF Good
<1> QED BY <1>2, <1>4, <1>5, <1>7 DEF u

\* Releases are only added, and what an old one needs does not change.
LEMMA ReleasesGrow ==
  ASSUME ReleasesInv, NEW new, IsSeq(new), rel' = rel \o new
  PROVE  /\ IsSeq(rel)' /\ Len(rel) \in Nat /\ Len(new) \in Nat /\ Len(rel') = Len(rel) + Len(new)
         /\ \A n \in 1..Len(rel) : n \in 1..Len(rel') /\ rel'[n] = rel[n]
         /\ \A n \in 1..Len(new) : rel'[Len(rel) + n] = new[n]
         /\ \A n \in 1..Len(rel) :
              /\ Chain(n)' = Chain(n) /\ Chain(n) \subseteq 1..Len(rel)
              /\ Own(n)' = Own(n) /\ Needs'[n] = Needs[n]
<1>1. PICK V : rel \in Seq(V)
  BY DEF ReleasesInv, IsSeq
<1>2. PICK W : new \in Seq(W)
  BY DEF IsSeq
<1> DEFINE U == V \cup W
           N == Len(rel)
           L == Len(new)
<1>3. rel \in Seq(U) /\ new \in Seq(U)
  BY <1>1, <1>2
<1> HIDE DEF U
<1>4. /\ rel' \in Seq(U) /\ N \in Nat /\ L \in Nat /\ Len(rel') = N + L
      /\ \A n \in 1..N : rel'[n] = rel[n]
      /\ \A n \in 1..L : rel'[N + n] = new[n]
  BY <1>3
<1> HIDE DEF N, L
<1>5. \A n \in 1..N : n \in 1..Len(rel')
  BY <1>4
<1>6. \A n \in 1..N : Chain(n)' = Chain(n) /\ Chain(n) \subseteq 1..N /\ Own(n)' = Own(n)
  <2> SUFFICES ASSUME NEW n \in 1..N
               PROVE  Chain(n)' = Chain(n) /\ Chain(n) \subseteq 1..N /\ Own(n)' = Own(n)
    OBVIOUS
  <2>1. rel'[n] = rel[n] /\ rel[n].past \subseteq 1..(n - 1)
    BY <1>4 DEF ReleasesInv, N
  <2>2. 1..(n - 1) \subseteq 1..N
    BY <1>4
  <2> QED BY <2>1, <2>2 DEF Chain, Own
<1>7. ASSUME NEW n \in 1..N PROVE Needs'[n] = Needs[n]
  <2>1. Needs'[n] = UNION {Own(m)' : m \in Chain(n)'} /\ Needs[n] = UNION {Own(m) : m \in Chain(n)}
    BY <1>5 DEF Needs, N
  <2>2. \A m \in Chain(n) : Own(m)' = Own(m)
    BY <1>6
  <2> QED BY <1>6, <2>1, <2>2
<1>8. IsSeq(rel)'
  BY <1>4 DEF IsSeq
<1> QED BY <1>4, <1>5, <1>6, <1>7, <1>8 DEF N, L

\* What a release that is appended needs, if its past is that of a release before it.
LEMMA NeedsOfChild ==
  ASSUME NEW h, NEW n, n \in 1..Len(rel'), rel'[n].past = Chain(h)', h \in 1..Len(rel')
  PROVE  Needs'[n] = Needs'[h] \cup Own(n)'
<1>1. Chain(n)' = {n} \cup Chain(h)'
  BY DEF Chain
<1>2. /\ Needs'[n] = UNION {Own(m)' : m \in Chain(n)'}
      /\ Needs'[h] = UNION {Own(m)' : m \in Chain(h)'}
  BY DEF Needs
<1> QED BY <1>1, <1>2

LEMMA NeedsOfRoot ==
  ASSUME NEW n, n \in 1..Len(rel'), rel'[n].past = {}
  PROVE  Needs'[n] = Own(n)' /\ Chain(n)' = {n}
BY DEF Needs, Chain

\* A job begins: its writes have to be good on the disk as it is.
LEMMA BeginKeeps ==
  ASSUME KeepInv, phase = "idle", NEW p \in Sessions \cup Admins, NEW new, NEW writes, IsSeq(new),
         Begin(p, new, writes), UploadsKnown',
         \A i \in 1..Len(new) :
            /\ new[i].past \subseteq 1..(Len(rel) + i - 1)
            /\ new[i].config \in Configs,
         Good(Needs', store, writes)
  PROVE  KeepInv'
<1>1. /\ job.owner = None /\ rel' = rel \o new /\ job' = [owner |-> p, todo |-> writes]
      /\ UNCHANGED <<store, refs, upload, gcVars>>
  BY DEF Begin
<1>2. /\ IsSeq(rel)' /\ Len(rel) \in Nat /\ Len(new) \in Nat /\ Len(rel') = Len(rel) + Len(new)
      /\ \A n \in 1..Len(rel) : n \in 1..Len(rel') /\ rel'[n] = rel[n] /\ Needs'[n] = Needs[n]
      /\ \A n \in 1..Len(new) : rel'[Len(rel) + n] = new[n]
  BY <1>1, ReleasesGrow DEF KeepInv
<1>3. ReleasesInv'
  <2> SUFFICES ASSUME NEW n \in 1..Len(rel')
               PROVE  /\ rel'[n].past \subseteq 1..(n - 1)
                      /\ rel'[n].config \in Configs
    BY <1>2 DEF ReleasesInv
  <2>1. CASE n \in 1..Len(rel)
    BY <1>2, <2>1 DEF KeepInv, ReleasesInv
  <2>2. CASE n \notin 1..Len(rel)
    <3> DEFINE i == n - Len(rel)
    <3>1. i \in 1..Len(new) /\ n = Len(rel) + i
      BY <1>2, <2>2
    <3> HIDE DEF i
    <3>2. rel'[n] = new[i]
      BY <1>2, <3>1
    <3> QED BY <1>2, <3>1, <3>2
  <2> QED BY <2>1, <2>2
<1>4. RefsInv'
  <2>1. /\ refs \in [Dists -> 0..Len(rel) \cup {Torn}] /\ \A d \in Dists : refs[d] # Torn
        /\ \A d \in Dists : refs[d] \in 1..Len(rel) => Needs[refs[d]] \subseteq store
    BY <1>1 DEF KeepInv, RefsInv, JobInv
  <2>2. refs' = refs /\ store' = store
    BY <1>1
  <2>3. 0..Len(rel) \subseteq 0..Len(rel')
    BY <1>2
  <2>4. \A d \in Dists : refs[d] \in 1..Len(rel') => refs[d] \in 1..Len(rel)
    BY <1>2, <2>1
  <2>5. ASSUME NEW d \in Dists, refs'[d] \in 1..Len(rel') PROVE Needs'[refs'[d]] \subseteq store'
    BY <1>2, <2>1, <2>2, <2>4, <2>5
  <2> QED BY <2>1, <2>2, <2>3, <2>5 DEF RefsInv
<1>5. JobInv'
  BY <1>1, NoneAssumption DEF JobInv
<1>6. PhaseInv'
  BY <1>1 DEF gcVars, KeepInv, PhaseInv
<1> QED BY <1>3, <1>4, <1>5, <1>6 DEF KeepInv

\* The head a job starts from: a release, and all that it needs is on disk.
LEMMA HeadIsKept ==
  ASSUME KeepInv, job.owner = None, NEW d \in Dists, refs[d] # 0
  PROVE  refs[d] \in 1..Len(rel) /\ Needs[refs[d]] \subseteq store /\ Own(refs[d]) \subseteq store
<1>1. refs[d] # Torn /\ refs[d] \in 0..Len(rel) \cup {Torn}
  BY DEF KeepInv, RefsInv, JobInv
<1>2. refs[d] \in 1..Len(rel)
  BY <1>1
<1>3. Needs[refs[d]] \subseteq store
  BY <1>2 DEF KeepInv, RefsInv
<1>4. Own(refs[d]) \subseteq Needs[refs[d]]
  BY <1>2 DEF Needs, Chain
<1> QED BY <1>2, <1>3, <1>4

\* Lists of writes after one another.
LEMMA ThenIsGood ==
  ASSUME NEW F, NEW S, NEW T, NEW U, NEW s, NEW t, Good(F, S, s), Stored(s) = T,
         Good(F, S \cup T, t), Stored(t) = U
  PROVE  Good(F, S, s \o t) /\ Stored(s \o t) = T \cup U
  BY ConcatIsGood

LEMMA ThenRefs ==
  ASSUME NEW F, NEW S, NEW T, NEW s, Good(F, S, s), Stored(s) = T, NEW d, NEW n \in DOMAIN F,
         F[n] \subseteq S \cup T
  PROVE  Good(F, S, s \o SetRef(d, n)) /\ Stored(s \o SetRef(d, n)) = T
<1> DEFINE u == SetRef(d, n)
           U == Stored(u)
<1>1. Good(F, S \cup T, u)
  BY RefsAreGood
<1>2. T \cup U = T
  BY RefsAreGood
<1> HIDE DEF u
<1>3. Good(F, S, s \o u) /\ Stored(s \o u) = T \cup U
  BY <1>1, ThenIsGood
<1> QED BY <1>2, <1>3 DEF u

\* The writes of a release whose past is on disk, and of the reference to it.
LEMMA ChildWrites ==
  ASSUME NEW F, NEW S, NEW d, NEW n \in DOMAIN F, NEW a, NEW b, F[n] \subseteq S \cup {a, b}
  PROVE  /\ Good(F, S, <<Store(a), Store(b)>> \o SetRef(d, n))
         /\ Stored(<<Store(a), Store(b)>> \o SetRef(d, n)) = {a, b}
<1> DEFINE t == <<Store(a), Store(b)>>
           T == {a, b}
<1>1. Good(F, S, t) /\ Stored(t) = T
  BY TwoStores
<1> HIDE DEF t
<1>2. Good(F, S, t \o SetRef(d, n)) /\ Stored(t \o SetRef(d, n)) = T
  BY <1>1, ThenRefs
<1> QED BY <1>2 DEF t

LEMMA RootIsWritten ==
  ASSUME NEW F, NEW S, NEW d, NEW n \in DOMAIN F,
         F[n] \subseteq {Config(DefaultConfig), Index({}), Rel(n)}
  PROVE  /\ Good(F, S, RootWrites(d, n))
         /\ Stored(RootWrites(d, n)) = {Config(DefaultConfig), Index({}), Rel(n)}
<1>1. ASSUME NEW a, NEW b, NEW c, F[n] \subseteq {a, b, c}
      PROVE  /\ Good(F, S, <<Store(a), Store(b), Store(c)>> \o SetRef(d, n))
             /\ Stored(<<Store(a), Store(b), Store(c)>> \o SetRef(d, n)) = {a, b, c}
  <2> DEFINE t == <<Store(a), Store(b), Store(c)>>
  <2>1. Good(F, S, t) /\ Stored(t) = {a, b, c}
    BY ThreeStores
  <2> HIDE DEF t
  <2>2. Good(F, S, t \o SetRef(d, n)) /\ Stored(t \o SetRef(d, n)) = {a, b, c}
    BY <1>1, <2>1, ThenRefs
  <2> QED BY <2>2 DEF t
<1> QED BY <1>1 DEF RootWrites

\* The releases a job appends.
IsNext(n) == n = Len(rel) + 1

OnDisk(h) == h \in 1..Len(rel) /\ Needs[h] \subseteq store

\* What a release refers to, but for its index and itself, is among S.
Among(S, es, k) == store \subseteq S /\ ConfigAssets(k) \subseteq S /\ \A x \in es : File(x) \in S

RootChild(n, es) == [past |-> {n}, entries |-> es, config |-> DefaultConfig]

LEMMA EmptyRootChild ==
  ASSUME NEW n
  PROVE  [Root EXCEPT !.past = {n}] = RootChild(n, {})
<1>1. Root = [past |-> {}, entries |-> {}, config |-> DefaultConfig]
  BY DEF Root
<1> QED BY <1>1 DEF RootChild

LEMMA ChildNeeds ==
  ASSUME KeepInv, NEW h, OnDisk(h), NEW n, IsNext(n), NEW es, NEW k, NEW S, NEW r, r = Child(h, es, k),
         NEW new, new = <<r>>,
         k \in Configs,
         rel' = rel \o new, Among(S, es, k)
  PROVE  /\ IsSeq(new) /\ n \in DOMAIN Needs'
         /\ Needs'[n] \subseteq S \cup {Index(es), Rel(n)}
         /\ \A i \in 1..Len(new) :
              /\ new[i].past \subseteq 1..(Len(rel) + i - 1)
              /\ new[i].config \in Configs
<1> USE DEF IsNext, Among
<1>1. h \in 1..Len(rel) /\ Needs[h] \subseteq store
  BY DEF OnDisk
<1>2. r.past = Chain(h) /\ r.entries = es /\ r.config = k
  BY DEF Child
<1>3. IsSeq(new) /\ Len(new) = 1 /\ new[1] = r
  <2>1. new \in Seq({r}) /\ Len(new) = 1 /\ new[1] = r
    OBVIOUS
  <2> QED BY <2>1 DEF IsSeq
<1>4. /\ Len(rel) \in Nat /\ Len(rel') = Len(rel) + Len(new)
      /\ \A i \in 1..Len(rel) : i \in 1..Len(rel') /\ Needs'[i] = Needs[i]
      /\ \A i \in 1..Len(new) : rel'[Len(rel) + i] = new[i]
      /\ \A i \in 1..Len(rel) : Chain(i)' = Chain(i) /\ Chain(i) \subseteq 1..Len(rel)
  <2>1. ReleasesInv /\ rel' = rel \o new
    BY DEF KeepInv
  <2> QED BY <1>3, <2>1, ReleasesGrow
<1>5. /\ Len(rel') = n /\ rel'[n] = r /\ n \in 1..Len(rel')
      /\ h \in 1..Len(rel') /\ Chain(h)' = Chain(h) /\ Chain(h) \subseteq 1..Len(rel)
      /\ Needs'[h] = Needs[h]
  BY <1>1, <1>3, <1>4
<1>6. rel'[n].past = Chain(h)'
  BY <1>2, <1>5
<1>7. Needs'[n] = Needs[h] \cup Own(n)'
  BY <1>5, <1>6, NeedsOfChild
<1>8. Own(n)' \subseteq S \cup {Index(es), Rel(n)}
  BY <1>2, <1>5 DEF Own
<1>9. n \in DOMAIN Needs'
  BY <1>5 DEF Needs
<1>10. Needs'[n] \subseteq S \cup {Index(es), Rel(n)}
  BY <1>1, <1>7, <1>8
<1>11. \A i \in 1..Len(new) :
         /\ new[i].past \subseteq 1..(Len(rel) + i - 1)
         /\ new[i].config \in Configs
  <2> SUFFICES ASSUME NEW i \in 1..Len(new)
               PROVE  /\ new[i].past \subseteq 1..(Len(rel) + i - 1)
                      /\ new[i].config \in Configs
    OBVIOUS
  <2>1. i = 1 /\ Len(rel) + i - 1 = Len(rel)
    BY <1>3, <1>4
  <2> QED BY <1>2, <1>3, <1>5, <2>1
<1> QED BY <1>3, <1>9, <1>10, <1>11

LEMMA RootChildNeeds ==
  ASSUME KeepInv, NEW es, NEW n, IsNext(n), NEW m, m = n + 1, NEW r, NEW new,
         r = RootChild(n, es), new = <<Root, r>>, rel' = rel \o new
  PROVE  /\ IsSeq(new)
         /\ n \in DOMAIN Needs' /\ m \in DOMAIN Needs'
         /\ Needs'[n] \subseteq {Config(DefaultConfig), Index({}), Rel(n)}
         /\ Needs'[m] \subseteq {Config(DefaultConfig), Index({}), Rel(n)}
              \cup {Index(es), Rel(m)} \cup {File(x) : x \in es}
         /\ \A i \in 1..Len(new) :
              /\ new[i].past \subseteq 1..(Len(rel) + i - 1)
              /\ new[i].config \in Configs
<1> USE DEF IsNext
<1>1. /\ Root.past = {} /\ Root.entries = {} /\ Root.config = DefaultConfig
      /\ r.past = {n} /\ r.entries = es /\ r.config = DefaultConfig
  BY DEF Root, RootChild
<1>2. /\ DefaultConfig \in Configs
      /\ ConfigAssets(DefaultConfig) = {Config(DefaultConfig)}
  BY DEF DefaultConfig, ConfigAssets, Configs
<1>3. IsSeq(new) /\ Len(new) = 2 /\ new[1] = Root /\ new[2] = r
  <2>1. new \in Seq({Root, r}) /\ Len(new) = 2 /\ new[1] = Root /\ new[2] = r
    OBVIOUS
  <2> QED BY <2>1 DEF IsSeq
<1>4. /\ Len(rel) \in Nat /\ Len(rel') = Len(rel) + Len(new)
      /\ \A i \in 1..Len(new) : rel'[Len(rel) + i] = new[i]
  BY <1>3, ReleasesGrow DEF KeepInv
<1>5. 1 \in 1..Len(new) /\ 2 \in 1..Len(new)
  BY <1>3
<1>6. rel'[n] = Root /\ rel'[m] = r /\ n \in 1..Len(rel') /\ m \in 1..Len(rel')
  BY <1>3, <1>4, <1>5
<1>7. n \in DOMAIN Needs' /\ m \in DOMAIN Needs'
  BY <1>6 DEF Needs
<1>8. Own(n)' = {Config(DefaultConfig), Index({}), Rel(n)}
  <2>1. {File(x) : x \in {}} = {}
    OBVIOUS
  <2>2. Own(n)' = {Rel(n), Index({})} \cup {Config(DefaultConfig)} \cup {File(x) : x \in {}}
    BY <1>1, <1>2, <1>6 DEF Own
  <2> QED BY <2>1, <2>2
<1>9. Own(m)' = {Config(DefaultConfig), Index(es), Rel(m)} \cup {File(x) : x \in es}
  <2>1. Own(m)' = {Rel(m), Index(es)} \cup {Config(DefaultConfig)} \cup {File(x) : x \in es}
    BY <1>1, <1>2, <1>6 DEF Own
  <2> QED BY <2>1
<1>10. Needs'[n] = Own(n)' /\ Chain(n)' = {n}
  BY <1>1, <1>6, NeedsOfRoot
<1>11. Needs'[m] = Needs'[n] \cup Own(m)'
  <2>1. rel'[m].past = Chain(n)'
    BY <1>1, <1>6, <1>10
  <2> QED BY <1>6, <2>1, NeedsOfChild
<1>12. \A i \in 1..Len(new) :
         /\ new[i].past \subseteq 1..(Len(rel) + i - 1)
         /\ new[i].config \in Configs
  <2> SUFFICES ASSUME NEW i \in 1..Len(new)
               PROVE  /\ new[i].past \subseteq 1..(Len(rel) + i - 1)
                      /\ new[i].config \in Configs
    OBVIOUS
  <2>1. CASE i = 1
    BY <1>1, <1>2, <1>3, <2>1
  <2>2. CASE i = 2
    <3>1. n \in 1..(Len(rel) + i - 1)
      BY <1>4, <2>2
    <3> QED BY <1>1, <1>2, <1>3, <2>2, <3>1
  <2> QED BY <1>3, <2>1, <2>2
<1>13. Needs'[n] \subseteq {Config(DefaultConfig), Index({}), Rel(n)}
  BY <1>8, <1>10
<1>14. Needs'[m] \subseteq {Config(DefaultConfig), Index({}), Rel(n)}
         \cup {Index(es), Rel(m)} \cup {File(x) : x \in es}
  BY <1>9, <1>11, <1>13
<1> QED BY <1>3, <1>7, <1>12, <1>13, <1>14

\* The writes of a root and its child.
LEMMA RootChildWrites ==
  ASSUME NEW F, NEW S, NEW d, NEW n \in DOMAIN F, NEW m \in DOMAIN F, NEW es,
         F[n] \subseteq {Config(DefaultConfig), Index({}), Rel(n)},
         F[m] \subseteq {Config(DefaultConfig), Index({}), Rel(n)}
                          \cup {Index(es), Rel(m)} \cup {File(x) : x \in es},
         \A x \in es : File(x) \in S
  PROVE  Good(F, S, RootWrites(d, n) \o <<Store(Index(es)), Store(Rel(m))>> \o SetRef(d, m))
<1> DEFINE s == RootWrites(d, n)
           t == <<Store(Index(es)), Store(Rel(m))>>
           T == {Config(DefaultConfig), Index({}), Rel(n)}
           U == {Index(es), Rel(m)}
<1>1. Good(F, S, s) /\ Stored(s) = T
  BY RootIsWritten
<1>2. Good(F, S \cup T, t) /\ Stored(t) = U
  BY TwoStores
<1>3. F[m] \subseteq S \cup (T \cup U)
  OBVIOUS
<1> HIDE DEF s, t, T, U
<1>4. Good(F, S, s \o t) /\ Stored(s \o t) = T \cup U
  <2> SUFFICES ASSUME NEW p, p = s, NEW q, q = t
               PROVE  Good(F, S, p \o q) /\ Stored(p \o q) = T \cup U
    OBVIOUS
  <2> QED BY <1>1, <1>2, ThenIsGood
<1>5. Good(F, S, s \o t \o SetRef(d, m))
  <2> DEFINE st == s \o t
             V == T \cup U
  <2>1. Good(F, S, st) /\ Stored(st) = V /\ F[m] \subseteq S \cup V
    BY <1>3, <1>4
  <2> HIDE DEF st, V
  <2>2. Good(F, S, st \o SetRef(d, m))
    BY <2>1, ThenRefs
  <2> QED BY <2>2 DEF st
<1> QED BY <1>5 DEF s, t

\* A request for a collection after good writes.
LEMMA ThenCollect ==
  ASSUME NEW F, NEW S, NEW s, Good(F, S, s)
  PROVE  Good(F, S, s \o CollectGarbage)
<1>1. Good(F, S \cup Stored(s), CollectGarbage)
  BY OthersAreGood
<1> QED BY <1>1, ConcatIsGood

(***************************************************************************)
(* The steps that start a job.                                             *)
(***************************************************************************)
LEMMA HolderIsIdle ==
  ASSUME LockInv, KeepInv, NEW s \in Holders
  PROVE  phase = "idle"
  BY DEF LockInv, NoSweepWhileHeld, KeepInv, PhaseInv

LEMMA AddUploadKeeps ==
  ASSUME LockInv, KeepInv, NEW s \in Sessions, AddUpload(s)
  PROVE  KeepInv'
<1>1. /\ pc[s] = "received" /\ job.owner = None /\ pc' = [pc EXCEPT ![s] = "merging"]
      /\ pc \in [Sessions \cup Admins -> PCs]
  BY DEF AddUpload, LockInv
<1>2. phase = "idle"
  <2>1. s \in Holders
    BY <1>1 DEF Holders
  <2> QED BY <2>1, HolderIsIdle
<1>3. PICK d, c : d = upload[s].dist /\ c = upload[s].content
  OBVIOUS
<1>4. d \in Dists /\ File(c) \in store
  <2>1. upload[s] \in [content : Contents, dist : Dists] /\ File(upload[s].content) \in store
    BY <1>1 DEF KeepInv, UploadsKnown, LockInv, HeldUploadsIntact
  <2> QED BY <1>3, <2>1
<1>5. PICK h, n, es : h = refs[d] /\ n = Len(rel) + 1 /\ es = rel[h].entries \cup {c}
  OBVIOUS
<1>6. ASSUME NEW new, NEW writes, Begin(s, new, writes) PROVE UploadsKnown'
  <2>1. upload' = upload
    BY <1>6 DEF Begin
  <2> QED BY <1>1, <2>1 DEF KeepInv, UploadsKnown
<1>7. CASE Begin(s, <<>>, <<Store(Index(es))>>)
  <2>1. Good(Needs', store, <<Store(Index(es))>>) /\ IsSeq(<<>>) /\ Len(<<>>) = 0
    BY OneStore, NothingIsGood DEF Good
  <2> DEFINE new == <<>>
             writes == <<Store(Index(es))>>
  <2>2. \A i \in 1..Len(new) :
          /\ new[i].past \subseteq 1..(Len(rel) + i - 1)
          /\ new[i].config \in Configs
    BY <2>1
  <2>3. Begin(s, new, writes) /\ UploadsKnown' /\ s \in Sessions \cup Admins
    BY <1>6, <1>7
  <2>4. IsSeq(new) /\ Good(Needs', store, writes)
    BY <2>1
  <2> HIDE DEF new, writes
  <2> QED BY <1>2, <2>2, <2>3, <2>4, BeginKeeps
<1>8. CASE /\ h # 0
           /\ Begin(s, <<Child(h, es, rel[h].config)>>,
                    <<Store(Index(es)), Store(Rel(n))>> \o SetRef(d, n) \o CollectGarbage)
  <2>1. h \in 1..Len(rel) /\ Own(h) \subseteq store
    BY <1>1, <1>4, <1>5, <1>8, HeadIsKept
  <2>2. PICK k, r : k = rel[h].config /\ r = Child(h, es, k)
    OBVIOUS
  <2>3. /\ k \in Configs
        /\ ConfigAssets(k) \subseteq store /\ \A x \in es : File(x) \in store
    BY <1>4, <1>5, <2>1, <2>2 DEF KeepInv, ReleasesInv, Own
  <2> DEFINE writes == <<Store(Index(es)), Store(Rel(n))>> \o SetRef(d, n) \o CollectGarbage
  <2>4. PICK new : new = <<r>>
    OBVIOUS
  <2>5. Begin(s, new, writes)
    BY <1>8, <2>2, <2>4
  <2>6. rel' = rel \o new
    BY <2>5 DEF Begin
  <2>7. /\ IsSeq(new) /\ n \in DOMAIN Needs'
        /\ Needs'[n] \subseteq store \cup {Index(es), Rel(n)}
        /\ \A i \in 1..Len(new) :
             /\ new[i].past \subseteq 1..(Len(rel) + i - 1)
             /\ new[i].config \in Configs
    <3>1. IsNext(n) /\ Among(store, es, k) /\ OnDisk(h)
      BY <1>1, <1>4, <1>5, <1>8, <2>3, HeadIsKept DEF IsNext, Among, OnDisk
    <3> QED BY <2>2, <2>3, <2>4, <2>6, <3>1, ChildNeeds
  <2>8. Good(Needs', store, writes)
    BY <2>7, ChildWrites, ThenCollect
  <2>9. UploadsKnown' /\ s \in Sessions \cup Admins
    BY <1>6, <2>5
  <2> HIDE DEF writes
  <2> QED BY <1>2, <2>5, <2>7, <2>8, <2>9, BeginKeeps
<1>9. CASE Begin(s, <<Root, [past |-> {n}, entries |-> {c}, config |-> DefaultConfig]>>,
                 RootWrites(d, n) \o <<Store(Index({c})), Store(Rel(n + 1))>>
                                  \o SetRef(d, n + 1) \o CollectGarbage)
  <2>1. PICK r, m, ec : r = RootChild(n, ec) /\ m = n + 1 /\ ec = {c}
    OBVIOUS
  <2>2. PICK new : new = <<Root, r>>
    OBVIOUS
  <2> DEFINE writes == RootWrites(d, n) \o <<Store(Index(ec)), Store(Rel(m))>>
                         \o SetRef(d, m) \o CollectGarbage
  <2>3. Begin(s, new, writes)
    BY <1>9, <2>1, <2>2 DEF RootChild
  <2>4. rel' = rel \o new
    BY <2>3 DEF Begin
  <2>5. /\ IsSeq(new) /\ n \in DOMAIN Needs' /\ m \in DOMAIN Needs'
        /\ Needs'[n] \subseteq {Config(DefaultConfig), Index({}), Rel(n)}
        /\ Needs'[m] \subseteq {Config(DefaultConfig), Index({}), Rel(n)}
             \cup {Index(ec), Rel(m)} \cup {File(x) : x \in ec}
        /\ \A i \in 1..Len(new) :
             /\ new[i].past \subseteq 1..(Len(rel) + i - 1)
             /\ new[i].config \in Configs
    <3>1. IsNext(n)
      BY <1>5 DEF IsNext
    <3> QED BY <2>1, <2>2, <2>4, <3>1, RootChildNeeds
  <2>6. \A x \in ec : File(x) \in store
    BY <1>4, <2>1
  <2>7. Good(Needs', store, writes)
    BY <2>5, <2>6, RootChildWrites, ThenCollect
  <2>8. UploadsKnown' /\ s \in Sessions \cup Admins
    BY <1>6, <2>3
  <2> HIDE DEF writes
  <2> QED BY <1>2, <2>3, <2>5, <2>7, <2>8, BeginKeeps
<1>10. \/ Begin(s, <<>>, <<Store(Index(es))>>)
       \/ /\ h # 0
          /\ Begin(s, <<Child(h, es, rel[h].config)>>,
                   <<Store(Index(es)), Store(Rel(n))>> \o SetRef(d, n) \o CollectGarbage)
       \/ Begin(s, <<Root, [past |-> {n}, entries |-> {c}, config |-> DefaultConfig]>>,
                RootWrites(d, n) \o <<Store(Index({c})), Store(Rel(n + 1))>>
                                 \o SetRef(d, n + 1) \o CollectGarbage)
  BY <1>3, <1>5, Zenon DEF AddUpload
<1> QED BY <1>7, <1>8, <1>9, <1>10

LEMMA PutConfigKeeps ==
  ASSUME LockInv, KeepInv, phase = "idle", NEW a \in Admins, NEW d \in Dists, NEW k,
         refs[d] # 0, PutConfig(a, d, k), UploadsKnown',
         k \in Configs
  PROVE  KeepInv'
<1>1. PICK h, n : h = refs[d] /\ n = Len(rel) + 1
  OBVIOUS
<1>2. PICK newKey : newKey = IF k.key = rel[h].config.key THEN <<>> ELSE <<Store(Key(k.key))>>
  OBVIOUS
<1>3. PICK es, r, new : es = rel[h].entries /\ r = Child(h, es, k) /\ new = <<r>>
  OBVIOUS
<1> DEFINE stores == <<Store(Config(k)), Store(Rel(n))>>
           writes == newKey \o stores \o SetRef(d, n)
<1>4. Begin(a, new, writes)
  BY <1>1, <1>2, <1>3 DEF PutConfig
<1>5. job.owner = None /\ rel' = rel \o new
  BY <1>4 DEF Begin
<1>6. h \in 1..Len(rel) /\ Own(h) \subseteq store
  BY <1>1, <1>5, HeadIsKept
<1>7. PICK T : /\ Good(Needs', store, newKey) /\ Stored(newKey) = T
               /\ k.key # rel[h].config.key => T = {Key(k.key)}
  <2>1. CASE k.key = rel[h].config.key
    BY <1>2, <2>1, NothingIsGood
  <2>2. CASE k.key # rel[h].config.key
    BY <1>2, <2>2, OneStore
  <2> QED BY <2>1, <2>2
<1> DEFINE U == {Config(k), Rel(n)}
           S == store \cup T \cup U
<1>8. ConfigAssets(k) \subseteq S /\ store \subseteq S /\ Index(es) \in S
      /\ \A x \in es : File(x) \in S
  <2>1. ConfigAssets(rel[h].config) \subseteq store /\ Index(es) \in store
        /\ \A x \in es : File(x) \in store
    BY <1>3, <1>6 DEF Own
  <2>2. ConfigAssets(k) \subseteq S
    BY <1>7, <2>1 DEF ConfigAssets
  <2> QED BY <2>1, <2>2
<1> HIDE DEF S
<1>9. /\ IsSeq(new) /\ n \in DOMAIN Needs'
      /\ Needs'[n] \subseteq S \cup {Index(es), Rel(n)}
      /\ \A i \in 1..Len(new) :
           /\ new[i].past \subseteq 1..(Len(rel) + i - 1)
           /\ new[i].config \in Configs
  <2>1. IsNext(n) /\ Among(S, es, k) /\ OnDisk(h)
    BY <1>1, <1>5, <1>8, HeadIsKept DEF IsNext, Among, OnDisk
  <2> QED BY <1>3, <1>5, <2>1, ChildNeeds
<1>10. Needs'[n] \subseteq store \cup (T \cup U)
  BY <1>8, <1>9 DEF S
<1>11. Good(Needs', store \cup T, stores) /\ Stored(stores) = U
  BY TwoStores
<1> HIDE DEF stores, U
<1>12. Good(Needs', store, newKey \o stores) /\ Stored(newKey \o stores) = T \cup U
  <2> SUFFICES ASSUME NEW q, q = stores
               PROVE  Good(Needs', store, newKey \o q) /\ Stored(newKey \o q) = T \cup U
    OBVIOUS
  <2>1. Good(Needs', store \cup T, q) /\ Stored(q) = U
    BY <1>11
  <2>2. Good(Needs', store, newKey) /\ Stored(newKey) = T
    BY <1>7
  <2> QED BY <2>1, <2>2, ThenIsGood
<1>13. Good(Needs', store, writes)
  <2> SUFFICES ASSUME NEW q, q = newKey \o stores PROVE Good(Needs', store, q \o SetRef(d, n))
    OBVIOUS
  <2> QED BY <1>9, <1>10, <1>12, ThenRefs
<1> HIDE DEF writes
<1> QED BY <1>4, <1>9, <1>13, BeginKeeps

LEMMA AdminStepKeeps ==
  ASSUME LockInv, KeepInv, phase = "idle", NEW a \in Admins, AdminStep(a)
  PROVE  KeepInv'
<1>1. PICK d \in Dists : \/ ChangeOption(a, d) \/ ChangeKey(a, d) \/ RefuseKey(a, d)
                         \/ PutDist(a, d) \/ DeleteDist(a, d)
  BY DEF AdminStep
<1>2. ASSUME pc' = [pc EXCEPT ![a] = "working"], upload' = upload PROVE UploadsKnown'
  <2>1. pc \in [Sessions \cup Admins -> PCs] /\ a \notin Sessions
    BY SessionsAssumption DEF LockInv
  <2>2. \A s \in Sessions : pc'[s] = pc[s]
    BY <1>2, <2>1
  <2> QED BY <1>2, <2>2 DEF KeepInv, UploadsKnown
<1>3. CASE ChangeOption(a, d) \/ ChangeKey(a, d)
  <2>1. job.owner = None /\ refs[d] # 0
    BY <1>3 DEF ChangeOption, ChangeKey
  <2>2. rel[refs[d]].config \in Configs
    BY <2>1, HeadIsKept DEF KeepInv, ReleasesInv
  <2>3. PICK k : /\ PutConfig(a, d, k)
                 /\ \/ k = [rel[refs[d]].config EXCEPT !.opt = a]
                    \/ k = [rel[refs[d]].config EXCEPT !.key = a]
    BY <1>3, Zenon DEF ChangeOption, ChangeKey
  <2>4. k \in Configs
    BY <2>2, <2>3 DEF Configs
  <2>5. UploadsKnown'
    <3>1. pc' = [pc EXCEPT ![a] = "working"] /\ \E new, writes : Begin(a, new, writes)
      BY <2>3, Zenon DEF PutConfig
    <3>2. upload' = upload
      BY <3>1 DEF Begin
    <3> QED BY <1>2, <3>1, <3>2
  <2> QED BY <2>1, <2>3, <2>4, <2>5, PutConfigKeeps
<1>4. CASE PutDist(a, d)
  <2>1. PICK n, m, ec, r : n = Len(rel) + 1 /\ m = n + 1 /\ ec = {} /\ r = RootChild(n, ec)
    OBVIOUS
  <2>2. PICK new : new = <<Root, r>>
    OBVIOUS
  <2> DEFINE writes == RootWrites(d, n) \o <<Store(Index(ec)), Store(Rel(m))>> \o SetRef(d, m)
  <2>3. [Root EXCEPT !.past = {n}] = r
    BY <2>1, EmptyRootChild
  <2>4. Begin(a, new, writes) /\ pc' = [pc EXCEPT ![a] = "working"]
    BY <1>4, <2>1, <2>2, <2>3 DEF PutDist
  <2>5. rel' = rel \o new /\ upload' = upload
    BY <2>4 DEF Begin
  <2>6. /\ IsSeq(new) /\ n \in DOMAIN Needs' /\ m \in DOMAIN Needs'
        /\ Needs'[n] \subseteq {Config(DefaultConfig), Index({}), Rel(n)}
        /\ Needs'[m] \subseteq {Config(DefaultConfig), Index({}), Rel(n)}
             \cup {Index(ec), Rel(m)} \cup {File(x) : x \in ec}
        /\ \A i \in 1..Len(new) :
             /\ new[i].past \subseteq 1..(Len(rel) + i - 1)
             /\ new[i].config \in Configs
    <3>1. IsNext(n)
      BY <2>1 DEF IsNext
    <3> QED BY <2>1, <2>2, <2>5, <3>1, RootChildNeeds
  <2>7. \A x \in ec : File(x) \in store
    BY <2>1
  <2>8. Good(Needs', store, writes)
    BY <2>6, <2>7, RootChildWrites
  <2>9. UploadsKnown' /\ a \in Sessions \cup Admins
    BY <1>2, <2>4, <2>5
  <2> HIDE DEF writes
  <2> QED BY <2>4, <2>6, <2>8, <2>9, BeginKeeps
<1>5. CASE DeleteDist(a, d)
  <2> DEFINE new == <<>>
             writes == Delete(d)
  <2>1. Begin(a, new, writes) /\ pc' = [pc EXCEPT ![a] = "working"]
    BY <1>5 DEF DeleteDist
  <2>2. UploadsKnown'
    BY <1>2, <2>1 DEF Begin
  <2>3. IsSeq(new) /\ Len(new) = 0
    BY NothingIsGood DEF Good
  <2>4. \A i \in 1..Len(new) :
          /\ new[i].past \subseteq 1..(Len(rel) + i - 1)
          /\ new[i].config \in Configs
    BY <2>3
  <2>5. Good(Needs', store, writes)
    BY OthersAreGood
  <2>6. a \in Sessions \cup Admins
    OBVIOUS
  <2> HIDE DEF new, writes
  <2> QED BY <2>1, <2>2, <2>3, <2>4, <2>5, <2>6, BeginKeeps
<1>6. CASE RefuseKey(a, d)
  <2>1. PICK k : Begin(a, <<>>, <<Store(Key(k))>>) /\ pc' = [pc EXCEPT ![a] = "working"]
    BY <1>6 DEF RefuseKey
  <2> DEFINE new == <<>>
             writes == <<Store(Key(k))>>
  <2>2. Begin(a, new, writes)
    BY <2>1
  <2>3. UploadsKnown'
    BY <1>2, <2>1 DEF Begin
  <2>4. IsSeq(new) /\ Len(new) = 0
    BY NothingIsGood DEF Good
  <2>5. \A i \in 1..Len(new) :
          /\ new[i].past \subseteq 1..(Len(rel) + i - 1)
          /\ new[i].config \in Configs
    BY <2>4
  <2>6. Good(Needs', store, writes)
    BY OneStore
  <2>7. a \in Sessions \cup Admins
    OBVIOUS
  <2> HIDE DEF new, writes
  <2> QED BY <2>2, <2>3, <2>4, <2>5, <2>6, <2>7, BeginKeeps
<1> QED BY <1>1, <1>3, <1>4, <1>5, <1>6

(***************************************************************************)
(* The writes, and the sessions.                                           *)
(***************************************************************************)
LEMMA BusyIsIdle ==
  ASSUME LockInv, KeepInv, job.owner # None
  PROVE  phase = "idle"
<1>1. CASE job.owner \in Sessions
  <2>1. job.owner \in Holders
    BY <1>1 DEF LockInv, OwnerMerging, Holders
  <2> QED BY <2>1, HolderIsIdle
<1>2. CASE job.owner \in Admins
  BY <1>2 DEF KeepInv, PhaseInv
<1> QED BY <1>1, <1>2 DEF KeepInv, JobInv

LEMMA NeedsUnchanged ==
  ASSUME UNCHANGED rel
  PROVE  Needs' = Needs /\ (ReleasesInv => ReleasesInv')
  BY DEF Needs, Own, Chain, ReleasesInv

LEMMA WriteStepKeeps ==
  ASSUME LockInv, KeepInv, WriteStep
  PROVE  KeepInv'
<1>1. PICK w : w = Head(job.todo)
  OBVIOUS
<1>2. /\ job.todo # <<>> /\ w.op # "collect"
      /\ store' = IF w.op = "store" THEN store \cup {w.blob} ELSE store
      /\ refs' = CASE w.op = "truncate" -> [refs EXCEPT ![w.dist] = Torn]
                   [] w.op = "write"    -> [refs EXCEPT ![w.dist] = w.rel]
                   [] w.op = "delete"   -> [refs EXCEPT ![w.dist] = 0]
                   [] OTHER             -> refs
      /\ job'.owner = job.owner /\ job'.todo = Tail(job.todo)
      /\ UNCHANGED <<rel, pc, upload, gcVars>>
  BY <1>1 DEF WriteStep
<1>3. phase = "idle"
  BY <1>2, BusyIsIdle DEF KeepInv, JobInv
<1>4. Needs' = Needs /\ ReleasesInv'
  BY <1>2, NeedsUnchanged DEF KeepInv
<1>5. /\ w.op = "truncate" =>
           /\ Tail(job.todo) # <<>>
           /\ Head(Tail(job.todo)).op = "write" /\ Head(Tail(job.todo)).dist = w.dist
      /\ w.op = "write" => w.rel \in DOMAIN Needs /\ Needs[w.rel] \subseteq store
      /\ Good(Needs, IF w.op = "store" THEN store \cup {w.blob} ELSE store, Tail(job.todo))
  <2>1. Good(Needs, store, job.todo) /\ job.todo # <<>>
    BY <1>2 DEF KeepInv, JobInv
  <2>2. /\ Head(job.todo).op = "truncate" =>
             /\ Tail(job.todo) # <<>>
             /\ Head(Tail(job.todo)).op = "write"
             /\ Head(Tail(job.todo)).dist = Head(job.todo).dist
        /\ Head(job.todo).op = "write" =>
             Head(job.todo).rel \in DOMAIN Needs /\ Needs[Head(job.todo).rel] \subseteq store
    BY <2>1, HeadIsGood, Zenon
  <2>3. Good(Needs, IF Head(job.todo).op = "store" THEN store \cup {Head(job.todo).blob} ELSE store,
             Tail(job.todo))
    BY <2>1, HeadIsGood
  <2>4. Good(Needs, IF w.op = "store" THEN store \cup {w.blob} ELSE store, Tail(job.todo))
    BY <1>1, <2>3
  <2> QED BY <1>1, <2>2, <2>4
<1>6. JobInv'
  <2>1. job'.owner # None
    BY <1>2 DEF KeepInv, JobInv
  <2>2. Good(Needs', store', job'.todo)
    BY <1>2, <1>4, <1>5
  <2> QED BY <1>2, <2>1, <2>2 DEF KeepInv, JobInv
<1>7. RefsInv'
  <2>1. /\ refs \in [Dists -> 0..Len(rel) \cup {Torn}] /\ Len(rel') = Len(rel)
        /\ \A d \in Dists : refs[d] = Torn => w.op = "write" /\ w.dist = d
        /\ \A d \in Dists : refs[d] \in 1..Len(rel) => Needs[refs[d]] \subseteq store
        /\ store \subseteq store' /\ DOMAIN Needs = 1..Len(rel)
    BY <1>1, <1>2 DEF KeepInv, RefsInv, Needs
  <2> SUFFICES /\ refs' \in [Dists -> 0..Len(rel) \cup {Torn}]
               /\ \A d \in Dists : refs'[d] = Torn =>
                    job'.todo # <<>> /\ Head(job'.todo).op = "write" /\ Head(job'.todo).dist = d
               /\ \A d \in Dists : refs'[d] \in 1..Len(rel) => Needs[refs'[d]] \subseteq store
    BY <1>2, <1>4, <2>1 DEF RefsInv
  <2>2. CASE w.op = "truncate"
    <3>1. refs' = [refs EXCEPT ![w.dist] = Torn]
      BY <1>2, <2>2
    <3>2. \A d \in Dists : refs'[d] = refs[d] \/ (d = w.dist /\ refs'[d] = Torn)
      BY <2>1, <3>1
    <3>3. refs' \in [Dists -> 0..Len(rel) \cup {Torn}]
      BY <2>1, <3>1
    <3>4. \A d \in Dists : refs[d] # Torn
      BY <2>1, <2>2
    <3>5. \A d \in Dists : refs'[d] = Torn =>
            job'.todo # <<>> /\ Head(job'.todo).op = "write" /\ Head(job'.todo).dist = d
      BY <1>2, <1>5, <2>2, <3>2, <3>4
    <3>6. Torn \notin 1..Len(rel)
      BY DEF Torn
    <3>7. \A d \in Dists : refs'[d] \in 1..Len(rel) => refs'[d] = refs[d]
      BY <3>2, <3>6
    <3> QED BY <2>1, <3>3, <3>5, <3>7
  <2>3. CASE w.op = "write"
    <3>1. refs' = [refs EXCEPT ![w.dist] = w.rel] /\ w.rel \in 1..Len(rel)
          /\ Needs[w.rel] \subseteq store
      BY <1>2, <1>5, <2>1, <2>3
    <3>2. \A d \in Dists : refs'[d] = IF d = w.dist THEN w.rel ELSE refs[d]
      BY <2>1, <3>1
    <3>3. w.rel # Torn /\ w.rel \in 0..Len(rel)
      BY <3>1 DEF Torn
    <3> QED BY <2>1, <3>1, <3>2, <3>3
  <2>4. CASE w.op = "delete"
    <3>1. refs' = [refs EXCEPT ![w.dist] = 0]
      BY <1>2, <2>4
    <3>2. \A d \in Dists : refs'[d] = IF d = w.dist THEN 0 ELSE refs[d]
      BY <2>1, <3>1
    <3>3. 0 # Torn /\ 0 \notin 1..Len(rel)
      BY DEF Torn
    <3>4. 0 \in 0..Len(rel)
      <4>1. Len(rel) \in Nat
        BY DEF KeepInv, ReleasesInv, IsSeq
      <4> QED BY <4>1
    <3> QED BY <2>1, <2>4, <3>1, <3>2, <3>3, <3>4
  <2>5. CASE w.op \notin {"truncate", "write", "delete"}
    <3>1. refs' = refs
      BY <1>2, <2>5
    <3> QED BY <2>1, <2>5, <3>1
  <2> QED BY <2>2, <2>3, <2>4, <2>5
<1>8. PhaseInv' /\ UploadsKnown'
  BY <1>2, <1>3 DEF KeepInv, PhaseInv, UploadsKnown, gcVars
<1> QED BY <1>4, <1>6, <1>7, <1>8 DEF KeepInv

\* Steps that leave the releases, the references and the job as they are.
LEMMA StoreGrows ==
  ASSUME KeepInv, UNCHANGED <<rel, refs, job>>, store \subseteq store'
  PROVE  ReleasesInv' /\ RefsInv' /\ JobInv' /\ Needs' = Needs
<1>1. Needs' = Needs /\ ReleasesInv'
  BY NeedsUnchanged DEF KeepInv
<1>2. RefsInv'
  BY <1>1 DEF KeepInv, RefsInv
<1>3. Good(Needs', store', job'.todo)
  BY <1>1, GoodIsMonotone DEF KeepInv, JobInv
<1> QED BY <1>1, <1>2, <1>3 DEF KeepInv, JobInv

LEMMA JobEndsKeep ==
  ASSUME LockInv, KeepInv, EndJob \/ GarbageCollect
  PROVE  KeepInv'
<1>1. phase = "idle" /\ UNCHANGED <<store, rel, refs, upload, phase, used, listed, names>>
  BY BusyIsIdle DEF EndJob, GarbageCollect, Serving, gcVars
<1>2. job'.todo = <<>> /\ (job'.owner = job.owner \/ job'.owner = None)
  BY DEF EndJob, GarbageCollect, NoJob
<1>3. Needs' = Needs /\ ReleasesInv'
  BY <1>1, NeedsUnchanged DEF KeepInv
<1>4. JobInv'
  BY <1>2, NothingIsGood DEF KeepInv, JobInv
<1>5. \A d \in Dists : refs[d] # Torn
  <2>1. job.todo = <<>> \/ job.todo = CollectGarbage
    BY DEF EndJob, GarbageCollect
  <2>2. Head(CollectGarbage).op = "collect"
    BY DEF CollectGarbage
  <2> QED BY <2>1, <2>2 DEF KeepInv, RefsInv
<1>6. RefsInv'
  BY <1>1, <1>3, <1>5 DEF KeepInv, RefsInv
<1>7. UploadsKnown'
  <2>1. CASE EndJob
    <3>1. pc \in [Sessions \cup Admins -> PCs]
      BY DEF LockInv
    <3>2. ASSUME NEW s \in Sessions, pc[s] \in {"new", "closed"} PROVE pc'[s] = pc[s]
      <4>1. s # job.owner
        BY <3>2 DEF LockInv, OwnerMerging
      <4> DEFINE l == IF job.owner \in Sessions THEN "merged" ELSE "closed"
      <4>2. pc' = [pc EXCEPT ![job.owner] = l]
        BY <2>1 DEF EndJob
      <4> HIDE DEF l
      <4> QED BY <3>1, <3>2, <4>1, <4>2
    <3> QED BY <1>1, <3>2 DEF KeepInv, UploadsKnown
  <2>2. CASE GarbageCollect
    BY <1>1, <2>2 DEF GarbageCollect, KeepInv, UploadsKnown
  <2> QED BY <2>1, <2>2
<1>8. PhaseInv'
  BY <1>1, <1>2, NoneAssumption DEF KeepInv, PhaseInv
<1> QED BY <1>3, <1>4, <1>6, <1>7, <1>8 DEF KeepInv

LEMMA SameReachable ==
  ASSUME UNCHANGED <<rel, refs>>
  PROVE  Heads' = Heads /\ Reachable' = Reachable
  BY DEF Heads, Reachable, Assets, Chain, EntryAssets

\* A changes file stored during a collection is one of the blobs stored late.
LEMMA ChangesKeep ==
  ASSUME LockInv, KeepInv, Noted, NEW s \in Sessions, NEW c \in Contents, NEW d \in Dists,
         NewUploadSession(s, c, d) \/ RefuseChanges(s, c, d)
  PROVE  KeepInv'
<1>1. pc[s] = "new" /\ store' = store \cup {Changes(c)} /\ UNCHANGED <<rel, refs, job, gcVars>>
  BY DEF NewUploadSession, RefuseChanges, StoreChanges
<1>2. /\ pc \in [Sessions \cup Admins -> PCs]
      /\ upload \in [Sessions -> [content : Contents, dist : Dists] \cup {None}]
  BY DEF LockInv
<1>3. /\ \A p \in Sessions \cup Admins : p # s => pc'[p] = pc[p]
      /\ \A t \in Sessions : t # s => upload'[t] = upload[t]
  BY <1>2 DEF NewUploadSession, RefuseChanges
<1>4. UploadsKnown'
  BY <1>2, <1>3 DEF NewUploadSession, RefuseChanges, KeepInv, UploadsKnown
<1>5. ReleasesInv' /\ RefsInv' /\ JobInv' /\ Needs' = Needs
  BY <1>1, StoreGrows
<1>6. Heads' = Heads /\ Reachable' = Reachable
  BY <1>1, SameReachable
<1>7. PhaseInv'
  BY <1>1, <1>3, <1>6 DEF KeepInv, PhaseInv, Noted, gcVars
<1> QED BY <1>4, <1>5, <1>7 DEF KeepInv

LEMMA HandlerKeeps ==
  ASSUME LockInv, KeepInv, NEW s \in Sessions,
         AddFile(s) \/ Expire(s) \/ DisableGarbageCollector(s) \/ EnableGarbageCollector(s),
         phase' # "idle" => job'.owner \notin Admins
  PROVE  KeepInv'
<1>1. phase = "idle"
  <2>1. CASE AddFile(s) \/ Expire(s)
    <3>1. s \in Holders
      BY <2>1 DEF AddFile, Expire, Holders
    <3> QED BY <3>1, HolderIsIdle
  <2>2. CASE DisableGarbageCollector(s) \/ EnableGarbageCollector(s)
    BY <2>2 DEF DisableGarbageCollector, EnableGarbageCollector, Serving
  <2> QED BY <2>1, <2>2
<1>2. UNCHANGED <<rel, refs, job, upload, used>> /\ store \subseteq store'
  BY DEF AddFile, Expire, DisableGarbageCollector, EnableGarbageCollector, gcVars
<1>3. ReleasesInv' /\ RefsInv' /\ JobInv'
  BY <1>2, StoreGrows
<1>4. UploadsKnown'
  <2>1. pc[s] \notin {"new", "closed"} /\ \E l \in PCs \ {"new"} : pc' = [pc EXCEPT ![s] = l]
    BY DEF AddFile, Expire, DisableGarbageCollector, EnableGarbageCollector, PCs
  <2>2. pc \in [Sessions \cup Admins -> PCs]
    BY DEF LockInv
  <2>3. \A t \in Sessions : pc[t] \in {"new", "closed"} => pc'[t] = pc[t]
    BY <2>1, <2>2
  <2> QED BY <1>2, <2>3 DEF KeepInv, UploadsKnown
<1>5. CASE phase' = "idle"
  <2>1. PhaseInv'
    BY <1>1, <1>2, <1>5 DEF KeepInv, PhaseInv
  <2> QED BY <1>3, <1>4, <2>1 DEF KeepInv
<1>6. CASE phase' # "idle"
  <2>1. /\ phase' = "list" /\ names' = {d \in Dists : refs[d] # 0}
        /\ caller' = s /\ pc' = [pc EXCEPT ![s] = "closing"]
    BY <1>1, <1>6 DEF AddFile, Expire, DisableGarbageCollector, EnableGarbageCollector, gcVars
  <2>2. pc'[s] = "closing"
    BY <2>1 DEF LockInv
  <2>3. PhaseInv'
    BY <1>1, <1>2, <1>6, <2>1, <2>2 DEF KeepInv, PhaseInv
  <2> QED BY <1>3, <1>4, <2>3 DEF KeepInv
<1> QED BY <1>5, <1>6

(***************************************************************************)
(* The collection.                                                         *)
(***************************************************************************)
LEMMA WhatIsReachable ==
  ASSUME KeepInv
  PROVE  /\ Heads \subseteq 1..Len(rel)
         /\ \A n \in Heads : Needs[n] \subseteq store /\ Needs[n] \subseteq Reachable
         /\ Reachable = Walk(Heads)
         /\ {b \in Reachable : b[1] # "changes"} \subseteq store
<1>1. \A d \in Dists : refs[d] \in 1..Len(rel) \cup {0, Torn}
  BY DEF KeepInv, RefsInv
<1>2. Heads \subseteq 1..Len(rel)
  BY <1>1 DEF Heads
<1>3. \A n \in Heads : Needs[n] \subseteq store
  BY <1>1, <1>2 DEF Heads, KeepInv, RefsInv
<1>4. \A n \in Heads : Needs[n] = UNION {Own(m) : m \in Chain(n)}
  BY <1>2 DEF Needs
<1>5. ASSUME NEW m PROVE Own(m) \subseteq Assets(m) /\ {b \in Assets(m) : b[1] # "changes"} \subseteq Own(m)
  BY DEF Own, Assets, EntryAssets, Changes
<1>6. \A n \in Heads : Needs[n] \subseteq Reachable
  <2> SUFFICES ASSUME NEW n \in Heads, NEW b \in Needs[n] PROVE b \in Reachable
    OBVIOUS
  <2>1. PICK m \in Chain(n) : b \in Own(m)
    BY <1>4
  <2>2. b \in Assets(m)
    BY <1>5, <2>1
  <2> QED BY <2>1, <2>2 DEF Reachable
<1>7. {b \in Reachable : b[1] # "changes"} \subseteq store
  <2> SUFFICES ASSUME NEW b \in Reachable, b[1] # "changes" PROVE b \in store
    OBVIOUS
  <2>1. PICK n \in Heads : b \in UNION {Assets(m) : m \in Chain(n)}
    BY DEF Reachable
  <2>2. PICK m \in Chain(n) : b \in Assets(m)
    BY <2>1
  <2>3. b \in Needs[n]
    BY <1>4, <1>5, <2>2
  <2> QED BY <1>3, <2>3
<1>8. Reachable = Walk(Heads)
  BY DEF Reachable, Walk
<1> QED BY <1>2, <1>3, <1>6, <1>7, <1>8

\* Nobody works on the repository while a collection is under way.
LEMMA Undisturbed ==
  ASSUME LockInv, KeepInv, phase # "idle"
  PROVE  job.owner = None /\ job.todo = <<>> /\ \A d \in Dists : refs[d] # Torn
<1>1. job.owner = None
  BY BusyIsIdle
<1> QED BY <1>1 DEF KeepInv, JobInv, RefsInv

\* Steps of a collection that do not unlink.
LEMMA CollectorStands ==
  ASSUME LockInv, KeepInv, UNCHANGED <<rel, refs, job, upload, store, pc>>, PhaseInv'
  PROVE  KeepInv'
<1>1. ReleasesInv' /\ RefsInv' /\ JobInv'
  BY StoreGrows
<1>2. UploadsKnown'
  BY DEF KeepInv, UploadsKnown
<1> QED BY <1>1, <1>2 DEF KeepInv

LEMMA CollectorKeeps ==
  ASSUME LockInv, KeepInv, Noted, CollectorStep
  PROVE  KeepInv'
<1>0. phase \in {"list", "sweep", "refs"} /\ UNCHANGED <<rel, refs, job, upload>>
  BY DEF CollectorStep, ListRef, VisitRef, Visit, Mark, VisitRefs, Finish
<1>1. job.owner = None /\ job.todo = <<>> /\ \A d \in Dists : refs[d] # Torn
  BY <1>0, Undisturbed
<1>2. Heads' = Heads /\ Reachable' = Reachable
  BY <1>0, SameReachable
<1>3. ASSUME ~Finish PROVE caller' \in Sessions /\ pc'[caller'] = "closing"
  <2>1. caller' = caller /\ pc' = pc
    BY <1>3 DEF CollectorStep, ListRef, VisitRef, Visit, Mark, VisitRefs
  <2> QED BY <1>0, <2>1 DEF KeepInv, PhaseInv
<1>4. phase' = "idle" \/ ~Finish
  BY DEF Finish
<1> USE NoneAssumption
<1>5. ASSUME NEW d \in Dists, ListRef(d) PROVE KeepInv'
  <2>1. /\ phase = "list" /\ d \in names /\ refs[d] \notin {0, Torn}
        /\ phase' = "list" /\ used' = used \cup {Rel(refs[d])} /\ names' = names \ {d}
        /\ UNCHANGED <<store, pc>>
    BY <1>1, <1>5 DEF ListRef, KeepInv, PhaseInv
  <2>2. refs[d] \in Heads
    BY <2>1 DEF Heads
  <2>3. PhaseInv'
    <3>1. used' \subseteq {Rel(n) : n \in Heads}
      BY <2>1, <2>2 DEF KeepInv, PhaseInv
    <3>2. \A e \in Dists : refs[e] \notin {0, Torn} => Rel(refs[e]) \in used' \/ e \in names'
      BY <2>1 DEF KeepInv, PhaseInv
    <3>3. names' \subseteq {e \in Dists : refs[e] # 0}
      BY <2>1 DEF KeepInv, PhaseInv
    <3>4. \A n : Rel(n)' = Rel(n)
      BY DEF Rel
    <3> QED BY <1>0, <1>1, <1>2, <1>3, <1>4, <2>1, <3>1, <3>2, <3>3, <3>4 DEF PhaseInv
  <2> QED BY <1>0, <2>1, <2>3, CollectorStands
<1>6. CASE Mark
  <2> DEFINE heads == {n \in 1..Len(rel) : Rel(n) \in used}
  <2>1. phase = "list" /\ names = {} /\ UNCHANGED <<store, pc>>
    BY <1>6 DEF Mark
  <2>2. heads = Heads
    <3>1. ASSUME NEW n \in heads PROVE n \in Heads
      <4>1. PICK m \in Heads : Rel(n) = Rel(m)
        BY <2>1 DEF KeepInv, PhaseInv
      <4> QED BY <4>1 DEF Rel
    <3>2. ASSUME NEW n \in Heads PROVE n \in heads
      <4>1. PICK d \in Dists : n = refs[d] /\ refs[d] \notin {0, Torn}
        BY DEF Heads
      <4>2. Rel(n) \in used
        BY <2>1, <4>1 DEF KeepInv, PhaseInv
      <4> QED BY <4>2, WhatIsReachable
    <3> QED BY <3>1, <3>2
  <2>3. {b \in Walk(Heads) : b[1] \in {"release", "index"}} \subseteq store
    BY WhatIsReachable
  <2>4. phase' = "sweep" /\ used' = Walk(Heads) /\ listed' = store \ Walk(Heads)
    BY <1>6, <2>2, <2>3 DEF Mark
  <2>5. used' = Reachable /\ listed' = store \ Reachable
    BY <2>4, WhatIsReachable
  <2>6. PhaseInv'
    BY <1>0, <1>1, <1>2, <1>3, <1>4, <2>1, <2>4, <2>5 DEF PhaseInv
  <2> QED BY <1>0, <2>1, <2>6, CollectorStands
<1>7. ASSUME NEW b, Visit(b) PROVE KeepInv'
  <2>1. /\ phase = "sweep" /\ phase' = "sweep" /\ b \in listed \cup (store \ used)
        /\ listed' = listed \ {b} /\ store' = store \ {b} /\ used' = used /\ UNCHANGED pc
    BY <1>7 DEF Visit
  <2>2. used = Reachable /\ listed \cap used = {} /\ store \subseteq used \cup listed \cup late
    BY <2>1 DEF KeepInv, PhaseInv
  <2>3. b \notin Reachable
    BY <2>1, <2>2
  <2>4. Needs' = Needs /\ ReleasesInv'
    BY <1>0, NeedsUnchanged DEF KeepInv
  <2>5. \A d \in Dists : refs[d] \in 1..Len(rel) => Needs[refs[d]] \subseteq store'
    <3> SUFFICES ASSUME NEW d \in Dists, refs[d] \in 1..Len(rel) PROVE Needs[refs[d]] \subseteq store'
      OBVIOUS
    <3>1. refs[d] \in Heads
      BY DEF Heads, Torn
    <3> QED BY <2>1, <2>3, <3>1, WhatIsReachable
  <2>6. RefsInv'
    BY <1>0, <1>1, <2>4, <2>5 DEF KeepInv, RefsInv
  <2>7. JobInv'
    BY <1>0, <1>1, NothingIsGood DEF KeepInv, JobInv
  <2>8. UploadsKnown'
    BY <1>0, <2>1 DEF KeepInv, UploadsKnown
  <2>9. late \subseteq late'
    BY <2>1 DEF Noted
  <2>10. store' \subseteq used' \cup listed' \cup late' /\ listed' \cap used' = {}
    BY <2>1, <2>2, <2>9
  <2>11. PhaseInv'
    BY <1>0, <1>1, <1>2, <1>3, <1>4, <2>1, <2>2, <2>10 DEF PhaseInv
  <2> QED BY <2>4, <2>6, <2>7, <2>8, <2>11 DEF KeepInv
<1>8. CASE VisitRefs
  <2>1. /\ phase = "sweep" /\ listed = {} /\ phase' = "refs" /\ names' = {d \in Dists : refs[d] # 0}
        /\ UNCHANGED <<store, pc>>
    BY <1>8 DEF VisitRefs
  <2>2. store \subseteq Reachable \cup late /\ late \subseteq late'
    BY <2>1 DEF KeepInv, PhaseInv, Noted
  <2>3. PhaseInv'
    BY <1>0, <1>1, <1>2, <1>3, <1>4, <2>1, <2>2 DEF PhaseInv
  <2> QED BY <1>0, <2>1, <2>3, CollectorStands
<1>9. ASSUME NEW d \in Dists, VisitRef(d) PROVE KeepInv'
  <2>1. phase = "refs" /\ phase' = "refs" /\ names' = names \ {d} /\ UNCHANGED <<store, pc>>
    BY <1>9 DEF VisitRef, KeepInv, PhaseInv
  <2>2. late \subseteq late'
    BY <2>1 DEF Noted
  <2>3. PhaseInv'
    BY <1>0, <1>1, <1>2, <1>3, <1>4, <2>1, <2>2 DEF KeepInv, PhaseInv
  <2> QED BY <1>0, <2>1, <2>3, CollectorStands
<1>10. CASE Finish
  <2>1. phase' = "idle" /\ used' = {} /\ pc' = [pc EXCEPT ![caller] = "closed"] /\ UNCHANGED store
    BY <1>10 DEF Finish
  <2>2. ReleasesInv' /\ RefsInv' /\ JobInv'
    BY <1>0, <2>1, StoreGrows
  <2>3. PhaseInv'
    BY <1>0, <1>1, <2>1 DEF PhaseInv
  <2>4. UploadsKnown'
    <3>1. pc \in [Sessions \cup Admins -> PCs]
      BY DEF LockInv
    <3>2. \A s \in Sessions : pc[s] \in {"new", "closed"} => s # caller
      BY <1>0 DEF KeepInv, PhaseInv
    <3>3. \A s \in Sessions : pc[s] \in {"new", "closed"} => pc'[s] = pc[s]
      BY <2>1, <3>1, <3>2
    <3> QED BY <1>0, <3>3 DEF KeepInv, UploadsKnown
  <2> QED BY <2>2, <2>3, <2>4 DEF KeepInv
<1> QED BY <1>5, <1>6, <1>7, <1>8, <1>9, <1>10 DEF CollectorStep

(***************************************************************************)
(* The whole specification.                                                *)
(***************************************************************************)
LEMMA KeepInit ==
  ASSUME Init
  PROVE  KeepInv
<1>1. NumDists \in Nat /\ 2 * NumDists \in Nat
  BY NumDistsAssumption
<1>2. rel = [n \in 1..2 * NumDists |-> IF n % 2 = 1 THEN Root ELSE [Root EXCEPT !.past = {n - 1}]]
  BY DEF Init
<1>3. ReleasesInv /\ Len(rel) = 2 * NumDists
  <2> DEFINE W == {rel[n] : n \in 1..2 * NumDists}
  <2>1. rel \in [1..2 * NumDists -> W]
    BY <1>2
  <2>2. rel \in Seq(W) /\ Len(rel) = 2 * NumDists
    BY <1>1, <1>2, <2>1
  <2>3. ASSUME NEW n \in 1..2 * NumDists
        PROVE  rel[n].past \subseteq 1..(n - 1) /\ rel[n].config \in Configs
    <3>1. Root.past = {} /\ Root.config \in Configs /\ DOMAIN Root = {"past", "entries", "config"}
      BY DEF Root, DefaultConfig, Configs
    <3>2. PICK m \in 1..2 * NumDists : m = n
      OBVIOUS
    <3>3. rel[m] = IF m % 2 = 1 THEN Root ELSE [Root EXCEPT !.past = {m - 1}]
      BY <1>2
    <3>4. CASE m % 2 = 1
      BY <3>1, <3>2, <3>3, <3>4
    <3>5. CASE m % 2 # 1
      <4>1. m - 1 \in 1..(m - 1)
        BY <1>1, <3>5
      <4> QED BY <3>1, <3>2, <3>3, <3>5, <4>1
    <3> QED BY <3>4, <3>5
  <2> QED BY <2>2, <2>3 DEF ReleasesInv, IsSeq
<1>4. ASSUME NEW n \in 1..Len(rel) PROVE Needs[n] \subseteq store
  <2>1. Chain(n) \subseteq 1..Len(rel)
    BY <1>1, <1>3 DEF Chain, ReleasesInv
  <2>2. \A m \in Chain(n) : Own(m) \subseteq Assets(m)
    BY DEF Own, Assets, EntryAssets
  <2>3. store = UNION {Assets(m) : m \in 1..Len(rel)}
    BY <1>3 DEF Init
  <2>4. Needs[n] = UNION {Own(m) : m \in Chain(n)}
    BY DEF Needs
  <2> QED BY <2>1, <2>2, <2>3, <2>4
<1>5. \A d \in Dists : refs[d] \in 1..Len(rel)
  BY <1>1, <1>3 DEF Init, Dists
<1>6. RefsInv
  <2>1. refs \in [Dists -> 0..Len(rel) \cup {Torn}]
    BY <1>5, <1>3, <1>1 DEF Init
  <2>2. \A d \in Dists : refs[d] # Torn
    BY <1>5 DEF Torn
  <2> QED BY <1>4, <2>1, <2>2 DEF RefsInv
<1>7. JobInv
  BY NothingIsGood DEF Init, NoJob, JobInv
<1>8. UploadsKnown
  BY DEF Init, UploadsKnown
<1>9. PhaseInv
  BY NoneAssumption DEF Init, NoJob, PhaseInv
<1> QED BY <1>3, <1>6, <1>7, <1>8, <1>9 DEF KeepInv

LEMMA StutterKeeps ==
  ASSUME KeepInv, UNCHANGED <<vars, late>>
  PROVE  KeepInv'
<1>1. UNCHANGED <<store, rel, refs, pc, upload, job, phase, used, listed, names, caller, late>>
  BY DEF vars, gcVars
<1>2. ReleasesInv' /\ RefsInv' /\ JobInv'
  BY <1>1, StoreGrows
<1>3. Heads' = Heads /\ Reachable' = Reachable
  BY <1>1, SameReachable
<1>4. PhaseInv'
  BY <1>1, <1>3 DEF KeepInv, PhaseInv
<1> QED BY <1>1, <1>2, <1>4 DEF KeepInv, UploadsKnown

LEMMA KeepNext ==
  ASSUME LockInv, raced \/ KeepInv, [MCNext]_mcVars
  PROVE  (raced \/ KeepInv)'
<1> SUFFICES ASSUME ~raced' PROVE KeepInv'
  OBVIOUS
<1>1. CASE UNCHANGED mcVars
  BY <1>1, StutterKeeps DEF mcVars
<1>2. CASE MCNext
  <2>1. Next /\ KeepInv /\ Noted /\ (phase' # "idle" => job'.owner \notin Admins)
    BY <1>2 DEF MCNext, Noted
  <2>2. ASSUME NEW s \in Sessions, SessionStep(s) PROVE KeepInv'
    BY <2>1, <2>2, ChangesKeep, AddUploadKeeps, HandlerKeeps DEF SessionStep
  <2>3. ASSUME NEW a \in Admins, AdminStep(a) PROVE KeepInv'
    <3>1. \A new, writes : Begin(a, new, writes) => job'.owner = a /\ phase' = phase
      BY DEF Begin, gcVars
    <3>2. \E new, writes : Begin(a, new, writes)
      BY <2>3 DEF AdminStep, ChangeOption, ChangeKey, RefuseKey, PutConfig, PutDist, DeleteDist
    <3> QED BY <2>1, <2>3, <3>1, <3>2, AdminStepKeeps
  <2>4. CASE WriteStep
    BY <2>1, <2>4, WriteStepKeeps
  <2>5. CASE EndJob \/ GarbageCollect
    BY <2>1, <2>5, JobEndsKeep
  <2>6. CASE CollectorStep
    BY <2>1, <2>6, CollectorKeeps
  <2> QED BY <2>1, <2>2, <2>3, <2>4, <2>5, <2>6 DEF Next
<1> QED BY <1>1, <1>2

LEMMA WitnessesOnlyWatch == MCSpec => Spec
<1>1. MCInit => Init
  BY DEF MCInit
<1>2. [MCNext]_mcVars => [Next]_vars
  BY DEF MCNext, mcVars
<1> QED BY <1>1, <1>2, PTL DEF MCSpec, Spec

LEMMA KeepAlways == MCSpec => [](LockInv /\ (raced \/ KeepInv))
<1>1. MCInit => raced \/ KeepInv
  BY KeepInit DEF MCInit
<1>2. LockInv /\ (raced \/ KeepInv) /\ [MCNext]_mcVars => (raced \/ KeepInv)'
  BY KeepNext
<1>3. MCSpec => []LockInv
  BY WitnessesOnlyWatch, LockDiscipline, PTL
<1> QED BY <1>1, <1>2, <1>3, PTL DEF MCSpec

\* Whatever the history of a distribution refers to stays on disk, the changes
\* files apart, unless an admin request and a collection have overlapped.
THEOREM HistoryStays == MCSpec => []UploadedHistoryKept
<1>1. raced \/ KeepInv => UploadedHistoryKept
  BY WhatIsReachable DEF UploadedHistoryKept
<1> QED BY <1>1, KeepAlways, PTL

\* Unless they have overlapped, no collection meets a release, an index or a
\* reference that it cannot read.
THEOREM CollectorNeverPanics == MCSpec => []NeverPanics
<1>1. raced \/ KeepInv => NeverPanics
  BY DEF NeverPanics, KeepInv, PhaseInv
<1> QED BY <1>1, KeepAlways, PTL

\* When a collection ends, whatever was in the store when it marked and no head
\* refers to is gone, unless it has been stored again since, or an admin request
\* has overlapped a collection.
THEOREM CollectionsAreComplete == MCSpec => CollectionComplete
<1>1. (raced \/ KeepInv) /\ [MCNext]_mcVars
        => [phase = "refs" /\ phase' = "idle" => raced \/ store \subseteq Reachable \cup late]_mcVars
  BY DEF KeepInv, PhaseInv
<1> QED BY <1>1, KeepAlways, PTL DEF MCSpec, CollectionComplete

===============================================================================
