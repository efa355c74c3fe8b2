--------------------------- MODULE GarbageCollector ---------------------------
(***************************************************************************)
(* archivestore.go: the garbage collector of the blob store, and everybody *)
(* who stores blobs while it may run.                                      *)
(*                                                                         *)
(* One goroutine serves three request channels.  Upload sessions disable   *)
(* collection when their handler starts and enable it when it ends (their  *)
(* TTL); AddUpload asks for a collection, which waits until the count of   *)
(* sessions is zero.  Blobs are content addressed, so storing the same     *)
(* content twice is storing it once.  A blob is collected when no chain of *)
(* releases from a head refers to it; history trimming is off here (module *)
(* HistoryTrim has it).                                                    *)
(*                                                                         *)
(* Admin requests (PUT of a configuration, a key or a distribution, DELETE *)
(* of a distribution) hold the write lock of the Governor, and nothing     *)
(* else: they neither disable the collector nor wait for it.               *)
(***************************************************************************)
EXTENDS Integers, Sequences, FiniteSets

CONSTANTS
  Sessions,   \* upload sessions; each lives once
  Admins,     \* admin requests, each served once
  AdminOps,   \* what they do: a subset of {"config", "key", "create", "delete"}
  NumDists,   \* distributions there are at the start, 1 .. NumDists
  Contents,   \* what an upload may contain
  None

ASSUME SessionsAssumption == IsFiniteSet(Sessions) /\ Sessions \cap Admins = {}
ASSUME NoneAssumption == None \notin Sessions \cup Admins
ASSUME NumDistsAssumption == NumDists \in Nat
ASSUME AdminOpsAssumption == AdminOps \subseteq {"config", "key", "create", "delete"}

Dists == 1..NumDists

VARIABLES
  store,      \* the blobs on disk
  rel,        \* the releases ever built: rel[n] is the content of blob Rel(n)
  refs,       \* refs/heads: a release, 0 when there is no ref, Torn while SetRef rewrites it
  pc,         \* where each session and admin request is
  upload,     \* what each session uploads, and to which distribution
  job,        \* who holds the write lock, and the writes it still has to make
  lockCount,  \* garbageCollector's count of sessions
  runGC,      \* garbageCollector's pending flag
  phase,      \* "idle"; "list", "sweep" and "refs" in a collection; "panic"
  used,       \* the releases ListRefs has found, then the blobs marked
  listed,     \* the unmarked blobs the sweep has still to visit
  names,      \* the refs the current walk of refs/ has still to visit
  caller      \* the session whose request the collector is serving

gcVars == <<lockCount, runGC, phase, used, listed, names, caller>>
vars == <<store, rel, refs, pc, upload, job, gcVars>>

(***************************************************************************)
(* Blobs.  Index stands for a release index together with the files        *)
(* generated from it; File for an uploaded file and its control data.      *)
(***************************************************************************)
File(c)     == <<"file", c>>
Changes(c)  == <<"changes", c>>
Config(k)   == <<"config", k>>
Key(a)      == <<"key", a>>
Index(es)   == <<"index", es>>
Rel(n)      == <<"release", n>>
Ref(d)      == <<"ref", d>>

Torn == -1
DefaultConfig == [opt |-> None, key |-> None]

ConfigAssets(k) == {Config(k)} \cup (IF k.key = None THEN {} ELSE {Key(k.key)})

EntryAssets(es) == {File(c) : c \in es} \cup {Changes(c) : c \in es}

\* What a release keeps alive, the chain of its parents (past) left out.
Assets(n) ==
  {Rel(n), Index(rel[n].entries)}
    \cup ConfigAssets(rel[n].config) \cup EntryAssets(rel[n].entries)

Chain(n) == {n} \cup rel[n].past

Heads == {refs[d] : d \in Dists} \ {0, Torn}

------------------------------------------------------------------------------
(***************************************************************************)
(* The write lock and the writes made under it, one at a time and in the   *)
(* order of the code.  The new releases enter rel when the job starts;     *)
(* their blobs reach the disk with the job's writes.                       *)
(***************************************************************************)
NoJob == [owner |-> None, todo |-> <<>>]

Store(b)    == [op |-> "store", blob |-> b]
SetRef(d,n) == <<[op |-> "truncate", dist |-> d], [op |-> "write", dist |-> d, rel |-> n]>>
Delete(d)   == <<[op |-> "delete", dist |-> d]>>
CollectGarbage == <<[op |-> "collect"]>>

\* A panic in the collector ends the process: no goroutine takes another step.
Alive == phase # "panic"

\* Mutant: the first blob cannot be stored, and the request goes on.
BeginUnchecked(p, new, writes) ==
  /\ Alive
  /\ job.owner = None
  /\ rel' = rel \o new
  /\ \E todo \in {writes, Tail(writes)} : job' = [owner |-> p, todo |-> todo]
  /\ UNCHANGED <<store, refs, upload, gcVars>>

Begin(p, new, writes) ==
  /\ Alive
  /\ job.owner = None
  /\ rel' = rel \o new
  /\ job' = [owner |-> p, todo |-> writes]
  /\ UNCHANGED <<store, refs, upload, gcVars>>

Root == [past |-> {}, entries |-> {}, config |-> DefaultConfig]

Child(n, es, k) == [past |-> Chain(n), entries |-> es, config |-> k]

\* GetReleaseRoot for a new distribution: config, index and release, then the ref.
RootWrites(d, n) ==
  <<Store(Config(DefaultConfig)), Store(Index({})), Store(Rel(n))>> \o SetRef(d, n)

(***************************************************************************)
(* AddUpload, run by the updater: build the index and the release, move    *)
(* the ref, ask for a collection.  An upload that is already in the index  *)
(* changes nothing and asks for nothing.  A distribution that has been     *)
(* deleted since the session started is created again.                     *)
(***************************************************************************)
AddUpload(s) ==
  /\ pc[s] = "received" /\ job.owner = None
  /\ LET c  == upload[s].content
         d  == upload[s].dist
         n  == Len(rel) + 1
         es == rel[refs[d]].entries \cup {c}
     IN \/ /\ refs[d] # 0 /\ es = rel[refs[d]].entries
           /\ Begin(s, <<>>, <<Store(Index(es))>>)
        \/ /\ refs[d] # 0 /\ es # rel[refs[d]].entries
           /\ Begin(s, <<Child(refs[d], es, rel[refs[d]].config)>>,
                    <<Store(Index(es)), Store(Rel(n))>> \o SetRef(d, n) \o CollectGarbage)
        \/ /\ refs[d] = 0
           /\ Begin(s, <<Root, [past |-> {n}, entries |-> {c}, config |-> DefaultConfig]>>,
                    RootWrites(d, n) \o <<Store(Index({c})), Store(Rel(n + 1))>>
                                     \o SetRef(d, n + 1) \o CollectGarbage)
  /\ pc' = [pc EXCEPT ![s] = "merging"]

\* PUT dists/<d>/config or its signing key: the key if it is new, the config, the
\* release, the ref.  A request that changes nothing writes nothing.
PutConfig(a, d, k) ==
  LET h      == refs[d]
      n      == Len(rel) + 1
      newKey == IF k.key = rel[h].config.key THEN <<>> ELSE <<Store(Key(k.key))>>
  IN /\ pc[a] = "waiting"
     /\ rel[h].config # k
     /\ Begin(a, <<Child(h, rel[h].entries, k)>>,
              newKey \o <<Store(Config(k)), Store(Rel(n))>> \o SetRef(d, n))
     /\ pc' = [pc EXCEPT ![a] = "working"]

ChangeOption(a, d) ==
  /\ "config" \in AdminOps /\ job.owner = None /\ refs[d] # 0
  /\ PutConfig(a, d, [rel[refs[d]].config EXCEPT !.opt = a])

ChangeKey(a, d) ==
  /\ "key" \in AdminOps /\ job.owner = None /\ refs[d] # 0
  /\ PutConfig(a, d, [rel[refs[d]].config EXCEPT !.key = a])

\* The key is stored before it is read: one that does not parse stays in the store,
\* and so does one that is the distribution's key already.
RefuseKey(a, d) ==
  /\ "key" \in AdminOps /\ job.owner = None /\ refs[d] # 0
  /\ pc[a] = "waiting"
  /\ \E k \in {a, rel[refs[d]].config.key} \ {None} : Begin(a, <<>>, <<Store(Key(k))>>)
  /\ pc' = [pc EXCEPT ![a] = "working"]

\* PUT dists/<d> for a name that has no ref: a root release and its first child.
PutDist(a, d) ==
  LET n == Len(rel) + 1
  IN /\ "create" \in AdminOps
     /\ pc[a] = "waiting"
     /\ refs[d] = 0
     /\ Begin(a, <<Root, [Root EXCEPT !.past = {n}]>>,
              RootWrites(d, n) \o <<Store(Index({})), Store(Rel(n + 1))>> \o SetRef(d, n + 1))
     /\ pc' = [pc EXCEPT ![a] = "working"]

DeleteDist(a, d) ==
  /\ "delete" \in AdminOps
  /\ pc[a] = "waiting"
  /\ refs[d] # 0
  /\ Begin(a, <<>>, Delete(d))
  /\ pc' = [pc EXCEPT ![a] = "working"]

\* One write of the job.
WriteStep ==
  /\ Alive /\ job.todo # <<>>
  /\ LET w == Head(job.todo) IN
       /\ w.op # "collect"
       /\ store' = IF w.op = "store" THEN store \cup {w.blob} ELSE store
       /\ refs' = CASE w.op = "truncate" -> [refs EXCEPT ![w.dist] = Torn]
                    [] w.op = "write"    -> [refs EXCEPT ![w.dist] = w.rel]
                    [] w.op = "delete"   -> [refs EXCEPT ![w.dist] = 0]
                    [] OTHER             -> refs
  /\ job' = [owner |-> job.owner, todo |-> Tail(job.todo)]
  /\ UNCHANGED <<rel, pc, upload, gcVars>>

\* The job is done: the write lock is released and the client answered.
EndJob ==
  /\ Alive /\ job.owner # None /\ job.todo = <<>>
  /\ job' = NoJob
  /\ pc' = [pc EXCEPT ![job.owner] = IF job.owner \in Sessions THEN "merged" ELSE "closed"]
  /\ UNCHANGED <<store, rel, refs, upload, gcVars>>

------------------------------------------------------------------------------
(***************************************************************************)
(* Upload sessions.  The changes file is stored by the request that        *)
(* creates the session, before it is looked at and before the session's    *)
(* handler has disabled the collector; everything else is stored by the    *)
(* handler.                                                                *)
(***************************************************************************)
StoreChanges(s, c, d) ==
  /\ Alive /\ pc[s] = "new"
  /\ refs[d] \notin {0, Torn}
  /\ store' = store \cup {Changes(c)}
  /\ UNCHANGED <<rel, refs, job, gcVars>>

NewUploadSession(s, c, d) ==
  /\ StoreChanges(s, c, d)
  /\ upload' = [upload EXCEPT ![s] = [content |-> c, dist |-> d]]
  /\ pc' = [pc EXCEPT ![s] = "disable"]

\* A changes file that cannot be parsed or verified: it stays in the store, and
\* there is no handler.
RefuseChanges(s, c, d) ==
  /\ StoreChanges(s, c, d)
  /\ pc' = [pc EXCEPT ![s] = "closed"]
  /\ UNCHANGED upload

\* Some of the upload's files are stored, or the last of them.
AddFile(s) ==
  /\ Alive /\ pc[s] = "open"
  /\ store' = store \cup {File(upload[s].content)}
  /\ \E q \in {"open", "received"} : pc' = [pc EXCEPT ![s] = q]
  /\ UNCHANGED <<rel, refs, upload, job, gcVars>>

\* Mutant: a session that ends without its files does not enable the collector.
ExpireSilently(s) ==
  /\ Alive /\ pc[s] \in {"open", "merged"}
  /\ pc' = [pc EXCEPT ![s] = IF @ = "open" THEN "closed" ELSE "enable"]
  /\ UNCHANGED <<store, rel, refs, upload, job, gcVars>>

\* The TTL: the handler leaves its loop, whether or not the upload is complete.
Expire(s) ==
  /\ Alive /\ pc[s] \in {"open", "merged"}
  /\ pc' = [pc EXCEPT ![s] = "enable"]
  /\ UNCHANGED <<store, rel, refs, upload, job, gcVars>>

------------------------------------------------------------------------------
(***************************************************************************)
(* The collector's goroutine: one request at a time.                       *)
(***************************************************************************)
Serving == phase = "idle"

DisableGarbageCollector(s) ==
  /\ Serving /\ pc[s] = "disable"
  /\ lockCount' = lockCount + 1
  /\ pc' = [pc EXCEPT ![s] = "open"]
  /\ UNCHANGED <<store, rel, refs, upload, job, runGC, phase, used, listed, names, caller>>

\* GarbageCollect(), the last thing AddUpload does: its own session still
\* holds the collector, so only the flag is set.
GarbageCollect ==
  /\ Serving /\ job.todo = CollectGarbage
  /\ runGC' = TRUE
  /\ job' = [owner |-> job.owner, todo |-> <<>>]
  /\ UNCHANGED <<store, rel, refs, pc, upload, lockCount, phase, used, listed, names, caller>>

\* Mutant: sessions that are still open do not hold a collection up.
CollectsEagerly(count) == runGC

\* Mutant: the last session to end does not count itself out.
CollectsLate(count) == runGC /\ count = 0 /\ lockCount = 0

Collects(count) == runGC /\ count = 0

\* EnableGarbageCollector: the last session to end runs the collection that was
\* asked for, and waits for it.  The collection starts with ListRefs.
EnableGarbageCollector(s) ==
  /\ Serving /\ pc[s] = "enable"
  /\ lockCount' = lockCount - 1
  /\ IF Collects(lockCount')
     THEN /\ phase' = "list" /\ names' = {d \in Dists : refs[d] # 0}
          /\ caller' = s /\ pc' = [pc EXCEPT ![s] = "closing"]
     ELSE /\ pc' = [pc EXCEPT ![s] = "closed"]
          /\ UNCHANGED <<phase, names, caller>>
  /\ UNCHANGED <<store, rel, refs, upload, job, runGC, used, listed>>

\* ListRefs reads the refs one after the other.  One that has just been deleted
\* ends the walk, and the refs not read yet are not in its result (or, deleted a
\* moment later, comes out as an empty id); so does one being rewritten.
ListRef(d) ==
  /\ phase = "list" /\ d \in names
  /\ \/ /\ refs[d] \notin {0, Torn}
        /\ used' = used \cup {Rel(refs[d])}
        /\ names' = names \ {d} /\ UNCHANGED phase
     \/ /\ refs[d] = 0
        /\ names' = {} /\ UNCHANGED <<used, phase>>
     \/ /\ refs[d] \in {0, Torn}
        /\ phase' = "panic" /\ UNCHANGED <<used, names>>
  /\ UNCHANGED <<store, rel, refs, pc, upload, job, lockCount, runGC, listed, caller>>

\* Mutant: the walk marks only the head of each distribution.
WalkHead(ns) == UNION {Assets(m) : m \in ns}

\* gcWalkRelease from each ref listed, to the end of the chain of parents.
Walk(ns) == UNION {UNION {Assets(m) : m \in Chain(n)} : n \in ns}

\* The mark.  It dereferences every release on the chain and every index: one that
\* cannot be read is a nil pointer and ends the process.
Mark ==
  /\ phase = "list" /\ names = {}
  /\ LET heads == {n \in 1..Len(rel) : Rel(n) \in used}
         read  == {b \in Walk(heads) : b[1] \in {"release", "index"}}
     IN IF read \subseteq store
        THEN phase' = "sweep" /\ used' = Walk(heads) /\ listed' = store \ Walk(heads)
        ELSE phase' = "panic" /\ UNCHANGED <<used, listed>>
  /\ UNCHANGED <<store, rel, refs, pc, upload, job, lockCount, runGC, names, caller>>

\* Mutant: the sweep does not unlink.
VisitKeeps(b) ==
  /\ phase = "sweep"
  /\ b \in listed
  /\ listed' = listed \ {b}
  /\ UNCHANGED <<store, rel, refs, pc, upload, job, lockCount, runGC, phase, used, names, caller>>

\* ForEach visits what its walk has listed, and may or may not meet a blob stored
\* since; what is not marked is unlinked.
Visit(b) ==
  /\ phase = "sweep"
  /\ b \in listed \cup (store \ used)
  /\ listed' = listed \ {b}
  /\ store' = store \ {b}
  /\ UNCHANGED <<rel, refs, pc, upload, job, lockCount, runGC, phase, used, names, caller>>

\* refs/ is the last directory ForEach walks.  A ref listed and then deleted has
\* no FileInfo: the walker dereferences nil.
VisitRefs ==
  /\ phase = "sweep" /\ listed = {}
  /\ phase' = "refs"
  /\ names' = {d \in Dists : refs[d] # 0}
  /\ UNCHANGED <<store, rel, refs, pc, upload, job, lockCount, runGC, used, listed, caller>>

VisitRef(d) ==
  /\ phase = "refs" /\ d \in names
  /\ phase' = IF refs[d] = 0 THEN "panic" ELSE phase
  /\ names' = names \ {d}
  /\ UNCHANGED <<store, rel, refs, pc, upload, job, lockCount, runGC, used, listed, caller>>

\* runGC = false; close(req.done): the session that waited is over.
Finish ==
  /\ phase = "refs" /\ names = {}
  /\ phase' = "idle"
  /\ runGC' = FALSE
  /\ used' = {}
  /\ caller' = None
  /\ pc' = [pc EXCEPT ![caller] = "closed"]
  /\ UNCHANGED <<store, rel, refs, upload, job, lockCount, listed, names>>

------------------------------------------------------------------------------
(***************************************************************************)
(* Every distribution has been created with PUT dists/<d>, a root release  *)
(* and its child, and nothing else is in the store.                        *)
(***************************************************************************)
Init ==
  /\ rel = [n \in 1..2 * NumDists |-> IF n % 2 = 1 THEN Root ELSE [Root EXCEPT !.past = {n - 1}]]
  /\ refs = [d \in Dists |-> 2 * d]
  /\ store = UNION {Assets(n) : n \in 1..2 * NumDists}
  /\ pc = [p \in Sessions \cup Admins |-> IF p \in Sessions THEN "new" ELSE "waiting"]
  /\ upload = [s \in Sessions |-> None]
  /\ job = NoJob
  /\ lockCount = 0 /\ runGC = FALSE
  /\ phase = "idle" /\ used = {} /\ listed = {} /\ names = {} /\ caller = None

SessionStep(s) ==
  \/ \E c \in Contents, d \in Dists : NewUploadSession(s, c, d) \/ RefuseChanges(s, c, d)
  \/ AddFile(s) \/ AddUpload(s) \/ Expire(s)
  \/ DisableGarbageCollector(s) \/ EnableGarbageCollector(s)

AdminStep(a) ==
  \E d \in Dists : \/ ChangeOption(a, d) \/ ChangeKey(a, d) \/ RefuseKey(a, d)
                   \/ PutDist(a, d) \/ DeleteDist(a, d)

CollectorStep ==
  \/ \E d \in Dists : ListRef(d) \/ VisitRef(d)
  \/ \E b \in listed \cup store : Visit(b)
  \/ Mark \/ VisitRefs \/ Finish

Next ==
  \/ \E s \in Sessions : SessionStep(s)
  \/ \E a \in Admins : AdminStep(a)
  \/ WriteStep \/ EndJob \/ GarbageCollect
  \/ CollectorStep

Spec == Init /\ [][Next]_vars

------------------------------------------------------------------------------
PCs == {"new", "disable", "open", "received", "merging", "merged", "enable", "closing",
        "waiting", "working", "closed"}

TypeOK ==
  /\ rel \in Seq([past : SUBSET (1..Len(rel)), entries : SUBSET Contents,
                  config : [opt : Admins \cup {None}, key : Admins \cup {None}]])
  /\ refs \in [Dists -> 0..Len(rel) \cup {Torn}]
  /\ pc \in [Sessions \cup Admins -> PCs]
  /\ job.owner \in Sessions \cup Admins \cup {None}
  /\ lockCount \in 0..Cardinality(Sessions)
  /\ runGC \in BOOLEAN
  /\ phase \in {"idle", "list", "sweep", "refs", "panic"}
  /\ caller \in Sessions \cup {None}

\* The sessions whose handler has disabled the collector and not enabled it.
Holders == {s \in Sessions : pc[s] \in {"open", "received", "merging", "merged", "enable"}}

(***************************************************************************)
(* The collector's count is the number of sessions that hold it, so it     *)
(* never goes negative ("GC Lock count has gone negactive",                *)
(* archivestore.go:202).                                                   *)
(***************************************************************************)
LockCountExact == lockCount = Cardinality(Holders)

(***************************************************************************)
(* Nothing is listed, marked or unlinked while a session holds the         *)
(* collector (archivestore.go:208).                                        *)
(***************************************************************************)
NoSweepWhileHeld == phase \in {"list", "sweep", "refs"} => Holders = {}

(***************************************************************************)
(* A file that a session has stored stays until the session is over, even  *)
(* when the same content was garbage of an earlier session.                *)
(***************************************************************************)
HeldUploadsIntact ==
  \A s \in Sessions : pc[s] \in {"received", "merging", "merged"} =>
    File(upload[s].content) \in store

(***************************************************************************)
(* What makes these three inductive: only the session whose upload is      *)
(* being merged owns a job.                                                *)
(***************************************************************************)
OwnerMerging == job.owner \in Sessions => pc[job.owner] = "merging"

LockInv ==
  /\ pc \in [Sessions \cup Admins -> PCs]
  /\ upload \in [Sessions -> [content : Contents, dist : Dists] \cup {None}]
  /\ OwnerMerging
  /\ LockCountExact
  /\ NoSweepWhileHeld
  /\ HeldUploadsIntact

(***************************************************************************)
(* A collection asked for is never forgotten: with no session open and the *)
(* collector idle, none is pending.                                        *)
(***************************************************************************)
NoMissedCollection == lockCount = 0 /\ phase = "idle" => ~runGC

\* What the history of some distribution refers to.
Reachable == UNION {UNION {Assets(m) : m \in Chain(n)} : n \in Heads}

(***************************************************************************)
(* "All previous revisions are kept, so no items are ever actaully lost"   *)
(* (README.md:173-174): whatever a chain of releases from a head refers to *)
(* is on disk.                                                             *)
(***************************************************************************)
HistoryKept == Reachable \subseteq store

===============================================================================
