--------------------------- MODULE PublicationProofs ---------------------------
(***************************************************************************)
(* Proofs about Publication: for any distributions, items, keys and        *)
(* clients, downloads find whole releases, a change that has been          *)
(* published is there, nothing is stale, and a reference is never lost.    *)
(*                                                                         *)
(* The inductive invariant, PubInv, says of every distribution that it is  *)
(* in order unless a job is at work on it, and of the job what it has made *)
(* so far.  A crash turns a distribution a job was at work on into one     *)
(* that is marred, about which nothing is claimed.                         *)
(***************************************************************************)
EXTENDS Publication, TLAPS

LogRecord == [old : Release \cup {None, Torn}, new : Release]

JobRecord ==
  [owner : Uploaders \cup Admins \cup {None}, dist : Dists \cup {None},
   todo : Seq(Release), publish : BOOLEAN, rel : Release \cup {None},
   stage : Stages, links : SUBSET Items, failed : BOOLEAN]

SessionRecord == [pc : SessionPCs, item : Items \cup {None}, branch : Dists \cup {None}]

LEMMA NoJobType == NoJob \in JobRecord
  BY DEF NoJob, JobRecord, Stages

LEMMA FilesArePublic == \A r \in Release : Files(r) \in SUBSET PublicFiles
  BY DEF PublicFiles

\* What the references are set to, for a job with one release and for one with two.
LEMMA OneRelease ==
  ASSUME NEW r \in Release
  PROVE  /\ <<r>> \in Seq(Release) /\ Len(<<r>>) = 1 /\ Head(<<r>>) = r /\ Tail(<<r>>) = <<>>
         /\ <<r>>[1] = r /\ <<r>> # <<>>
  OBVIOUS

LEMMA TwoReleases ==
  ASSUME NEW r \in Release, NEW n \in Release
  PROVE  /\ <<r, n>> \in Seq(Release) /\ Len(<<r, n>>) = 2 /\ Head(<<r, n>>) = r
         /\ Tail(<<r, n>>) = <<n>> /\ <<r, n>>[2] = n /\ <<r, n>> # <<>> /\ <<r, n>> # <<n>>
  OBVIOUS

\* A root is a release without items.
LEMMA RootRelease ==
  ASSUME NEW d \in Dists, NEW s \in Dists
  PROVE  Root(d, s) \in Release /\ Root(d, s).codename = d /\ Root(d, s).items = {}
  BY DEF Root, Release

------------------------------------------------------------------------------
\* The distributions that are there to begin with are in order.
THEOREM InitPub == Init => PubInv
<1> SUFFICES ASSUME Init PROVE PubInv
  OBVIOUS
<1>1. PICK S \in SUBSET Dists :
        /\ refs = [d \in Dists |-> IF d \in S THEN Root(d, d) ELSE None]
        /\ reflog = [d \in Dists |->
                       IF d \in S THEN [old |-> Root(d, d), new |-> Root(d, d)] ELSE None]
  BY DEF Init
<1>2. TypeOK
  <2>1. refs \in [Dists -> Release \cup {None, Torn}]
    BY <1>1, RootRelease
  <2>2. reflog \in [Dists -> LogRecord \cup {None}]
    BY <1>1, RootRelease DEF LogRecord
  <2>3. job \in JobRecord
    BY NoJobType DEF Init
  <2>4. session \in [Uploaders -> SessionRecord]
    BY DEF Init, SessionPCs, SessionRecord
  <2> QED BY <2>1, <2>2, <2>3, <2>4 DEF TypeOK, Init, LogRecord, JobRecord, SessionRecord
<1>3. \A d \in Dists : InOrder(d)
  BY <1>1, RootRelease DEF Init, InOrder, Served
<1>4. CodeNames
  BY <1>1, RootRelease, RefsAssumption DEF Init, CodeNames, NoJob
<1>5. job.stage = "none" /\ job.owner = None
  BY DEF Init, NoJob
<1> QED
  BY <1>2, <1>3, <1>4, <1>5 DEF PubInv, Init, SessionInv, JobInv, TodoInv, LogInv, OrderInv, CreationInv,
       TreeInv, PoolInv, PublishedWhenDone, Setting, Reifying, Parts

\* Requests that leave the distributions alone.
LEMMA QuietStep ==
  ASSUME PubInv, TypeOK', SessionInv', UNCHANGED <<refs, reflog, tree, pool, job, marred>>,
         job.stage = "none" \/ readers' \subseteq readers
  PROVE  PubInv'
<1> USE DEF PubInv
<1>1. CodeNames' /\ LogInv' /\ CreationInv' /\ TreeInv' /\ PoolInv' /\ PublishedWhenDone'
  BY DEF CodeNames, LogInv, CreationInv, TreeInv, PoolInv, PublishedWhenDone, Linked, Files
<1>2. JobInv'
  BY DEF JobInv, TodoInv
<1>3. OrderInv'
  BY DEF OrderInv, InOrder, Served, Files
<1> QED BY <1>1, <1>2, <1>3

\* A request that takes the write lock to publish a release.
LEMMA BeginStep ==
  ASSUME PubInv, TypeOK', SessionInv',
         NEW who, who # None, NEW d \in Dists, NEW todo, NEW publish \in BOOLEAN,
         NEW rel \in Release, rel.codename = d, ~publish => rel.items = {},
         \/ todo = <<rel>> /\ publish
         \/ /\ refs[d] = None
            /\ \E r \in Release : r.codename = d /\ r.items = {} /\ todo = <<r, rel>>,
         Begin(who, d, todo, publish)
  PROVE  PubInv'
<1> USE DEF PubInv, Begin
<1>1. job.stage = "none" /\ job' = [owner |-> who, dist |-> d, todo |-> todo, publish |-> publish,
             rel |-> todo[Len(todo)], stage |-> "log", links |-> {}, failed |-> FALSE]
  BY DEF JobInv
<1>2. job'.owner = who /\ job'.dist = d /\ job'.todo = todo /\ job'.publish = publish
      /\ job'.rel = todo[Len(todo)] /\ job'.stage = "log"
  BY <1>1
<1>3. job'.rel = rel
  <2>1. CASE todo = <<rel>>
    BY <1>2, <2>1, OneRelease
  <2>2. ASSUME NEW r \in Release, todo = <<r, rel>> PROVE job'.rel = rel
    BY <1>2, <2>2, TwoReleases
  <2> QED BY <2>1, <2>2
<1>4. CodeNames' /\ LogInv' /\ TreeInv' /\ PoolInv' /\ PublishedWhenDone'
  BY <1>2, <1>3 DEF CodeNames, LogInv, TreeInv, PoolInv, PublishedWhenDone, Parts
<1>5. JobInv'
  BY <1>2, <1>3 DEF JobInv, TodoInv, Setting, Reifying, Parts
<1>6. OrderInv'
  BY <1>1 DEF OrderInv, InOrder, Served, Files
<1>7. CreationInv'
  <2>1. CASE refs[d] = None
    BY <1>1, <1>2, <2>1, RefsAssumption DEF OrderInv, InOrder, CreationInv
  <2>2. CASE todo = <<rel>> /\ publish
    BY <1>2, <2>2, OneRelease DEF CreationInv
  <2> QED BY <2>1, <2>2
<1> QED BY <1>4, <1>5, <1>6, <1>7

\* A session that is no longer open.
LEMMA SessionCloses ==
  ASSUME TypeOK, SessionInv, NEW u \in Uploaders, NEW p \in SessionPCs, p # "open",
         session' = [session EXCEPT ![u].pc = p]
  PROVE  session' \in [Uploaders -> SessionRecord] /\ SessionInv'
<1>1. session \in [Uploaders -> SessionRecord]
  BY DEF TypeOK, SessionRecord
<1>2. [session[u] EXCEPT !.pc = p] \in SessionRecord /\ [session[u] EXCEPT !.pc = p].pc = p
  BY <1>1 DEF SessionRecord
<1>3. \A v \in Uploaders : session'[v] = IF v = u THEN [session[u] EXCEPT !.pc = p] ELSE session[v]
  BY <1>1
<1> QED BY <1>1, <1>2, <1>3 DEF SessionInv

\* Uploads: what they leave alone, and AddUpload.
LEMMA SessionStep ==
  ASSUME PubInv, NEW u \in Uploaders, NEW d \in Dists,
         SessionRefused(u, d) \/ (\E i \in Items : NewUploadSession(u, i, d)) \/ AddUploadNothing(u)
  PROVE  PubInv'
<1>1. CASE SessionRefused(u, d)
  <2>1. TypeOK' /\ SessionInv'
    BY <1>1, SessionCloses DEF PubInv, TypeOK, SessionRefused, SessionPCs, SessionRecord
  <2> QED BY <1>1, <2>1, QuietStep DEF SessionRefused
<1>2. ASSUME NEW i \in Items, NewUploadSession(u, i, d) PROVE PubInv'
  <2>1. refs[d] \in Release /\ refs[d].suite \in Dists
    BY <1>2 DEF PubInv, TypeOK, NewUploadSession, Release
  <2>2. TypeOK' /\ SessionInv'
    BY <1>2, <2>1 DEF PubInv, TypeOK, SessionInv, NewUploadSession, SessionPCs
  <2> QED BY <1>2, <2>2, QuietStep DEF NewUploadSession
<1>3. CASE AddUploadNothing(u)
  <2>1. TypeOK' /\ SessionInv'
    BY <1>3, SessionCloses DEF PubInv, TypeOK, AddUploadNothing, SessionPCs, SessionRecord
  <2> QED BY <1>3, <2>1, QuietStep DEF AddUploadNothing
<1> QED BY <1>1, <1>2, <1>3

LEMMA AddUploadStep ==
  ASSUME PubInv, NEW u \in Uploaders, AddUpload(u)
  PROVE  PubInv'
<1> DEFINE b == session[u].branch
           r == IF refs[b] = None THEN Root(b, "stable") ELSE refs[b]
           n == [r EXCEPT !.items = @ \cup {session[u].item}]
           todo == IF refs[b] = None THEN <<r, n>> ELSE <<n>>
<1>1. b \in Dists /\ session[u].item \in Items
  BY DEF PubInv, SessionInv, AddUpload
<1>2. r \in Release /\ r.codename = b /\ (refs[b] = None => r.items = {})
  <2>1. CASE refs[b] = None
    BY <1>1, <2>1, RootRelease, StableAssumption
  <2>2. CASE refs[b] # None
    BY <1>1, <2>2 DEF PubInv, TypeOK, CodeNames, AddUpload
  <2> QED BY <2>1, <2>2
<1>3. n \in Release /\ n.codename = b
  BY <1>1, <1>2 DEF Release
<1>4. Begin(u, b, todo, TRUE) /\ Working(u) /\ UNCHANGED pc
  BY DEF AddUpload
<1>5. todo = <<n>> \/ (refs[b] = None /\ todo = <<r, n>>)
  OBVIOUS
<1>6. todo \in Seq(Release) /\ todo[Len(todo)] = n
  <2>1. CASE todo = <<n>>
    BY <1>3, <2>1, OneRelease
  <2>2. CASE todo = <<r, n>>
    BY <1>2, <1>3, <2>2, TwoReleases
  <2> QED BY <1>5, <2>1, <2>2
<1>7. TypeOK' /\ SessionInv'
  <2>1. job' \in JobRecord
    BY <1>1, <1>3, <1>4, <1>6 DEF Begin, JobRecord, Stages
  <2>2. /\ session' \in [Uploaders -> SessionRecord]
        /\ SessionInv'
    BY <1>4, SessionCloses DEF Working, PubInv, SessionPCs
  <2> QED BY <1>4, <2>1, <2>2 DEF Begin, PubInv, TypeOK, JobRecord, SessionRecord
<1>8. u # None
  BY NamesAssumption
<1> HIDE DEF b, r, n, todo
<1> QED BY <1>1, <1>2, <1>3, <1>4, <1>5, <1>7, <1>8, BeginStep

\* Administrative requests.
LEMMA ChangeKeyStep ==
  ASSUME PubInv, NEW a \in Admins, NEW d \in Dists, NEW k \in Keys \cup {None}, ChangeKey(a, d, k)
  PROVE  PubInv'
<1> DEFINE n == [refs[d] EXCEPT !.key = k]
<1>1. refs[d] \in Release /\ refs[d].codename = d
  BY DEF PubInv, TypeOK, CodeNames, ChangeKey
<1>2. n \in Release /\ n.codename = d
  BY <1>1 DEF Release
<1>3. Begin(a, d, <<n>>, TRUE) /\ Admitted(a) /\ a # None
  BY NamesAssumption DEF ChangeKey
<1>4. TypeOK' /\ SessionInv'
  <2>1. job' \in JobRecord
    BY <1>2, <1>3, OneRelease DEF Begin, JobRecord, Stages
  <2> QED BY <1>3, <2>1 DEF Begin, Admitted, PubInv, TypeOK, SessionInv, JobRecord
<1> HIDE DEF n
<1> QED BY <1>2, <1>3, <1>4, BeginStep

LEMMA PutDistStep ==
  ASSUME PubInv, NEW a \in Admins, NEW d \in Dists, PutDist(a, d)
  PROVE  PubInv'
<1> DEFINE n == Root(d, d)
<1>1. n \in Release /\ n.codename = d /\ n.items = {}
  BY RootRelease
<1>2. Begin(a, d, <<n, n>>, FALSE) /\ Admitted(a) /\ a # None /\ refs[d] = None
  BY NamesAssumption DEF PutDist
<1> HIDE DEF n
<1>3. TypeOK' /\ SessionInv'
  <2>1. job' \in JobRecord
    BY <1>1, <1>2, TwoReleases DEF Begin, JobRecord, Stages
  <2> QED BY <1>2, <2>1 DEF Begin, Admitted, PubInv, TypeOK, SessionInv, JobRecord
<1> QED BY <1>1, <1>2, <1>3, BeginStep

\* A job that goes on keeps what it is about.
LEMMA JobGoesOn ==
  ASSUME TypeOK, NEW stage \in Stages, job' = [job EXCEPT !.stage = stage]
  PROVE  /\ job' \in JobRecord
         /\ job'.stage = stage
         /\ job'.owner = job.owner /\ job'.dist = job.dist /\ job'.todo = job.todo
         /\ job'.publish = job.publish /\ job'.rel = job.rel /\ job'.links = job.links
<1>1. job \in JobRecord
  BY DEF TypeOK, JobRecord
<1> QED BY <1>1 DEF JobRecord

\* The same, for the actions that change two fields of it.
LEMMA JobMovesOn ==
  ASSUME TypeOK, NEW stage \in Stages, NEW todo \in Seq(Release),
         job' = [job EXCEPT !.stage = stage, !.todo = todo]
  PROVE  /\ job' \in JobRecord
         /\ job'.stage = stage /\ job'.todo = todo
         /\ job'.owner = job.owner /\ job'.dist = job.dist
         /\ job'.publish = job.publish /\ job'.rel = job.rel
<1>1. job \in JobRecord
  BY DEF TypeOK, JobRecord
<1> QED BY <1>1, Zenon DEF JobRecord

LEMMA JobFails ==
  ASSUME TypeOK, NEW stage \in Stages, job' = [job EXCEPT !.stage = stage, !.failed = TRUE]
  PROVE  /\ job' \in JobRecord
         /\ job'.stage = stage
         /\ job'.owner = job.owner /\ job'.dist = job.dist
         /\ job'.publish = job.publish /\ job'.rel = job.rel
<1>1. job \in JobRecord
  BY DEF TypeOK, JobRecord
<1> QED BY <1>1, Zenon DEF JobRecord

LEMMA JobTakesLinks ==
  ASSUME TypeOK, NEW stage \in Stages, NEW links \in SUBSET Items,
         job' = [job EXCEPT !.stage = stage, !.links = links]
  PROVE  /\ job' \in JobRecord
         /\ job'.stage = stage /\ job'.links = links
         /\ job'.owner = job.owner /\ job'.dist = job.dist
         /\ job'.publish = job.publish /\ job'.rel = job.rel
<1>1. job \in JobRecord
  BY DEF TypeOK, JobRecord
<1> QED BY <1>1, Zenon DEF JobRecord

\* The end of a distribution.
LEMMA DeletingJob ==
  ASSUME NEW a \in Admins, NEW d \in Dists,
         job' = [NoJob EXCEPT !.owner = a, !.dist = d, !.stage = "deleteref"]
  PROVE  /\ job' \in JobRecord /\ job'.stage = "deleteref" /\ job'.owner = a /\ job'.dist = d
         /\ job'.rel = None /\ job'.publish = FALSE
<1>1. job' = [owner |-> a, dist |-> d, todo |-> <<>>, publish |-> FALSE, rel |-> None,
              stage |-> "deleteref", links |-> {}, failed |-> FALSE]
  BY Zenon DEF NoJob
<1> QED BY ONLY <1>1 DEF JobRecord, Stages

LEMMA DeleteDistStep ==
  ASSUME PubInv, NEW a \in Admins, NEW d \in Dists, DeleteDist(a, d)
  PROVE  PubInv'
<1> USE DEF PubInv, DeleteDist
<1>1. /\ job' = [NoJob EXCEPT !.owner = a, !.dist = d, !.stage = "deleteref"]
      /\ job.stage = "none" /\ a # None
  BY NamesAssumption DEF JobInv
<1>2. /\ job' \in JobRecord /\ job'.stage = "deleteref" /\ job'.owner = a /\ job'.dist = d
      /\ job'.rel = None /\ job'.publish = FALSE
  BY <1>1, DeletingJob, Zenon
<1>3. TypeOK' /\ SessionInv'
  BY <1>2 DEF TypeOK, SessionInv, Admitted, JobRecord
<1>4. OrderInv'
  BY <1>1, <1>2 DEF OrderInv, InOrder, Served, Files
<1>5. JobInv' /\ CodeNames' /\ LogInv' /\ CreationInv' /\ TreeInv' /\ PoolInv' /\ PublishedWhenDone'
  BY <1>1, <1>2 DEF JobInv, TodoInv, CodeNames, LogInv, CreationInv, TreeInv, PoolInv,
       PublishedWhenDone, Setting, Reifying, Parts
<1> QED BY <1>3, <1>4, <1>5

LEMMA DeleteRefStep ==
  ASSUME PubInv, DeleteRef
  PROVE  PubInv'
<1> USE DEF PubInv, DeleteRef
<1>1. job' \in JobRecord /\ job'.stage = "remove" /\ job'.owner = job.owner /\ job'.dist = job.dist
      /\ job'.rel = job.rel /\ job'.publish = job.publish
  BY JobGoesOn DEF Stages
<1>2. TypeOK' /\ SessionInv'
  BY <1>1 DEF TypeOK, SessionInv, JobRecord
<1>3. OrderInv'
  BY <1>1 DEF OrderInv, InOrder, Served, Files, TypeOK
<1>4. JobInv' /\ CodeNames' /\ LogInv' /\ CreationInv' /\ TreeInv' /\ PoolInv' /\ PublishedWhenDone'
  BY <1>1, RefsAssumption DEF JobInv, TodoInv, CodeNames, LogInv, CreationInv, TreeInv, PoolInv,
       PublishedWhenDone, Setting, Reifying, Parts, TypeOK
<1> QED BY <1>2, <1>3, <1>4

LEMMA RemoveTreeStep ==
  ASSUME PubInv, RemoveTree
  PROVE  PubInv'
<1> USE DEF PubInv, RemoveTree
<1>1. job' \in JobRecord /\ job'.stage = "done" /\ job'.owner = job.owner /\ job'.dist = job.dist
      /\ job'.rel = job.rel /\ job'.publish = job.publish
  BY JobGoesOn DEF Stages
<1>2. TypeOK' /\ SessionInv'
  BY <1>1 DEF TypeOK, SessionInv, JobRecord
<1>3. OrderInv'
  BY <1>1 DEF OrderInv, InOrder, Served, Files, TypeOK, JobInv, TodoInv
<1>4. JobInv' /\ CodeNames' /\ LogInv' /\ CreationInv' /\ TreeInv' /\ PoolInv' /\ PublishedWhenDone'
  BY <1>1 DEF JobInv, TodoInv, CodeNames, LogInv, CreationInv, TreeInv, PoolInv,
       PublishedWhenDone, Setting, Reifying, Parts
<1> QED BY <1>2, <1>3, <1>4

\* What the reference is set to next is a release.
LEMMA SettingHead ==
  ASSUME PubInv, job.stage \in Setting
  PROVE  job.dist \in Dists /\ Head(job.todo) \in Release
<1>1. job.dist \in Dists /\ job.rel \in Release
  BY DEF PubInv, JobInv, TodoInv, Setting
<1>2. CASE job.todo = <<job.rel>>
  BY <1>1, <1>2, OneRelease
<1>3. ASSUME NEW r \in Release, job.todo = <<r, job.rel>> PROVE Head(job.todo) \in Release
  BY <1>1, <1>3, TwoReleases
<1> QED BY <1>1, <1>2, <1>3 DEF PubInv, JobInv, TodoInv

LEMMA LogRefStep ==
  ASSUME PubInv, LogRef
  PROVE  PubInv'
<1> USE DEF PubInv, LogRef
<1>1. /\ job' \in JobRecord /\ job'.stage = "truncate" /\ job'.owner = job.owner /\ job'.dist = job.dist
      /\ job'.rel = job.rel /\ job'.publish = job.publish /\ job'.todo = job.todo
  BY JobGoesOn DEF Stages
<1>2. job.dist \in Dists /\ Head(job.todo) \in Release
  BY SettingHead DEF Setting
<1>3. reflog' \in [Dists -> LogRecord \cup {None}]
  <2>1. [old |-> refs[job.dist], new |-> Head(job.todo)] \in LogRecord
    BY <1>2 DEF LogRecord, TypeOK
  <2>2. reflog \in [Dists -> LogRecord \cup {None}]
    BY DEF TypeOK, LogRecord
  <2> QED BY <1>2, <2>1, <2>2
<1>4. TypeOK' /\ SessionInv'
  BY <1>1, <1>3 DEF TypeOK, SessionInv, JobRecord, LogRecord
<1>5. LogInv'
  BY <1>1, <1>2 DEF LogInv, TypeOK
<1>6. OrderInv'
  BY <1>1 DEF OrderInv, InOrder, Served, Files
<1>7. JobInv' /\ CodeNames' /\ CreationInv' /\ TreeInv' /\ PoolInv' /\ PublishedWhenDone'
  BY <1>1 DEF JobInv, TodoInv, CodeNames, CreationInv, TreeInv, PoolInv,
       PublishedWhenDone, Setting, Reifying, Parts
<1> QED BY <1>4, <1>5, <1>6, <1>7

LEMMA TruncateRefStep ==
  ASSUME PubInv, TruncateRef
  PROVE  PubInv'
<1> USE DEF PubInv, TruncateRef
<1>1. /\ job' \in JobRecord /\ job'.stage = "write" /\ job'.owner = job.owner /\ job'.dist = job.dist
      /\ job'.rel = job.rel /\ job'.publish = job.publish /\ job'.todo = job.todo
  BY JobGoesOn DEF Stages
<1>2. TypeOK' /\ SessionInv'
  BY <1>1 DEF TypeOK, SessionInv, JobRecord
<1>3. OrderInv'
  BY <1>1 DEF OrderInv, InOrder, Served, Files, TypeOK
<1>4. CodeNames'
  BY <1>1, RefsAssumption DEF CodeNames, TypeOK
<1>5. JobInv' /\ LogInv' /\ CreationInv' /\ TreeInv' /\ PoolInv' /\ PublishedWhenDone'
  BY <1>1 DEF JobInv, TodoInv, LogInv, CreationInv, TreeInv, PoolInv,
       PublishedWhenDone, Setting, Reifying, Parts
<1> QED BY <1>2, <1>3, <1>4, <1>5

\* The reference is a root and goes on to the release, or it is the release.
LEMMA WriteRefStep ==
  ASSUME PubInv, WriteRef
  PROVE  PubInv'
<1> USE DEF PubInv, WriteRef
<1>1. /\ job \in JobRecord /\ job.dist \in Dists /\ job.rel \in Release /\ job.rel.codename = job.dist
      /\ refs \in [Dists -> Release \cup {None, Torn}]
      /\ job' = [job EXCEPT !.stage = AfterWrite, !.todo = Tail(job.todo)]
      /\ \A d \in Dists : d # job.dist => refs'[d] = refs[d]
  BY RefsAssumption DEF TypeOK, JobRecord, JobInv, TodoInv, Setting, CodeNames
<1>2. CASE job.todo = <<job.rel>>
  <2>1. /\ refs'[job.dist] = job.rel /\ refs' \in [Dists -> Release \cup {None, Torn}]
        /\ AfterWrite = IF job.publish THEN "clear" ELSE "done"
    BY <1>1, <1>2, OneRelease DEF AfterWrite
  <2>2. /\ job' \in JobRecord /\ job'.stage = IF job.publish THEN "clear" ELSE "done"
        /\ job'.owner = job.owner /\ job'.dist = job.dist /\ job'.rel = job.rel
        /\ job'.publish = job.publish
    <3>1. AfterWrite \in Stages /\ Tail(job.todo) \in Seq(Release)
      BY <1>2, <2>1, OneRelease DEF Stages
    <3> QED BY <1>1, <2>1, <3>1, JobMovesOn
  <2>3. TypeOK' /\ SessionInv'
    BY <2>1, <2>2 DEF TypeOK, SessionInv, JobRecord
  <2>4. OrderInv'
    BY <1>1, <2>1, <2>2 DEF OrderInv, CreationInv, InOrder, Served, Files, JobInv, TodoInv, Setting
  <2>5. CodeNames'
    BY <1>1, <2>1, <2>2 DEF CodeNames
  <2>6. JobInv' /\ LogInv' /\ CreationInv' /\ TreeInv' /\ PoolInv' /\ PublishedWhenDone'
    BY <1>1, <2>1, <2>2 DEF JobInv, TodoInv, LogInv, CreationInv, TreeInv, PoolInv,
         PublishedWhenDone, Setting, Reifying, Parts
  <2> QED BY <2>3, <2>4, <2>5, <2>6
<1>3. ASSUME NEW r \in Release, r.codename = job.dist, r.items = {}, job.todo = <<r, job.rel>>
      PROVE  PubInv'
  <2>1. /\ refs'[job.dist] = r /\ refs' \in [Dists -> Release \cup {None, Torn}]
        /\ AfterWrite = "log" /\ Len(job.todo) = 2
    BY <1>1, <1>3, TwoReleases DEF AfterWrite
  <2>2. /\ job' \in JobRecord /\ job'.stage = "log" /\ job'.todo = <<job.rel>>
        /\ job'.owner = job.owner /\ job'.dist = job.dist /\ job'.rel = job.rel
        /\ job'.publish = job.publish
    <3>1. "log" \in Stages /\ Tail(job.todo) = <<job.rel>> /\ <<job.rel>> \in Seq(Release)
      BY <1>1, <1>3, OneRelease, TwoReleases DEF Stages
    <3>2. job' = [job EXCEPT !.stage = "log", !.todo = <<job.rel>>]
      BY <1>1, <2>1, <3>1, Zenon
    <3> QED BY <3>1, <3>2, JobMovesOn
  <2>3. TypeOK' /\ SessionInv'
    BY <2>1, <2>2 DEF TypeOK, SessionInv, JobRecord
  <2>4. OrderInv' /\ CreationInv'
    BY <1>1, <1>3, <2>1, <2>2 DEF OrderInv, CreationInv, InOrder, Served, Files, Setting
  <2>5. CodeNames'
    BY <1>1, <1>3, <2>1, <2>2 DEF CodeNames
  <2>6. JobInv' /\ LogInv' /\ TreeInv' /\ PoolInv' /\ PublishedWhenDone'
    BY <1>1, <2>1, <2>2 DEF JobInv, TodoInv, LogInv, TreeInv, PoolInv,
         PublishedWhenDone, Setting, Reifying, Parts
  <2> QED BY <2>3, <2>4, <2>5, <2>6
<1> QED BY <1>2, <1>3 DEF JobInv, TodoInv, Setting

------------------------------------------------------------------------------
\* ReifyRelease: what a job that publishes has to start from.
LEMMA ReifyingJob ==
  ASSUME PubInv, job.stage \in Reifying
  PROVE  /\ job \in JobRecord /\ job.dist \in Dists /\ job.rel \in Release
         /\ job.rel.codename = job.dist /\ refs[job.dist] = job.rel /\ job.publish
         /\ Files(job.rel) \in SUBSET PublicFiles
  BY FilesArePublic, RefsAssumption DEF PubInv, TypeOK, JobRecord, JobInv, TodoInv, CodeNames, Reifying, Parts

\* A step of such a job that leaves the references, sessions and requests alone.
LEMMA ReifyGoesOn ==
  ASSUME PubInv, job.stage \in Reifying, job'.stage \in Reifying \cup {"done"},
         job' \in JobRecord, job'.owner = job.owner, job'.dist = job.dist, job'.rel = job.rel,
         job'.publish = job.publish, UNCHANGED <<refs, reflog, session, pc, readers>>,
         \A d \in Dists : d # job.dist =>
           tree'[d] = tree[d] /\ pool'[d] = pool[d] /\ marred'[d] = marred[d],
         tree' \in [Dists -> SUBSET PublicFiles], pool' \in [Dists -> SUBSET Items],
         marred' \in [Dists -> SUBSET {"crash", "link"}]
  PROVE  /\ TypeOK' /\ SessionInv' /\ CodeNames' /\ JobInv' /\ LogInv' /\ CreationInv'
         /\ \A d \in Dists : d # job.dist => InOrder(d)'
<1> USE DEF PubInv
<1>1. TypeOK' /\ SessionInv'
  BY DEF TypeOK, SessionInv, JobRecord
<1>2. CodeNames' /\ LogInv' /\ CreationInv'
  BY DEF CodeNames, LogInv, CreationInv, Reifying, Setting, Parts
<1>3. JobInv'
  BY DEF JobInv, TodoInv, Reifying, Setting, Parts
<1>4. ASSUME NEW d \in Dists, d # job.dist PROVE InOrder(d)'
  BY <1>4 DEF OrderInv, InOrder, Served, Files
<1> QED BY <1>1, <1>2, <1>3, <1>4

LEMMA ClearDistStep ==
  ASSUME PubInv, ClearDist
  PROVE  PubInv'
<1> USE DEF ClearDist
<1>1. /\ job.stage \in Reifying
      /\ job' \in JobRecord /\ job'.stage = "indexes" /\ job'.owner = job.owner
      /\ job'.dist = job.dist /\ job'.rel = job.rel /\ job'.publish = job.publish
  BY JobGoesOn DEF PubInv, Stages, Reifying, Parts
<1>2. /\ tree' \in [Dists -> SUBSET PublicFiles] /\ tree'[job.dist] = {}
      /\ marred' \in [Dists -> SUBSET {"crash", "link"}] /\ marred'[job.dist] = {}
      /\ \A d \in Dists : d # job.dist =>
           tree'[d] = tree[d] /\ pool'[d] = pool[d] /\ marred'[d] = marred[d]
  BY <1>1, ReifyingJob DEF PubInv, TypeOK
<1>3. /\ TypeOK' /\ SessionInv' /\ CodeNames' /\ JobInv' /\ LogInv' /\ CreationInv'
      /\ \A d \in Dists : d # job.dist => InOrder(d)'
  BY <1>1, <1>2, ReifyGoesOn DEF PubInv, TypeOK, Reifying, Parts
<1>4. OrderInv' /\ TreeInv' /\ PoolInv' /\ PublishedWhenDone'
  BY <1>1, <1>2, <1>3 DEF OrderInv, TreeInv, PoolInv, PublishedWhenDone, Linked
<1> QED BY <1>3, <1>4 DEF PubInv

\* The parts come in the order of Linked.
LEMMA PartsInOrder ==
  ASSUME PubInv, NEW part \in Parts, job.stage = part, job'.rel = job.rel,
         job'.stage = AfterPart(part)
  PROVE  /\ Linked' = Linked \cup {<<part, job.rel>>}
         /\ AfterPart(part) \in {"Release", "InRelease", "clearpool"}
         /\ AfterPart(part) = "InRelease" => job.rel.key # None
         /\ part # "clearpool" /\ part \in Reifying
<1>1. part = "InRelease" => job.rel.key # None
  BY DEF PubInv, TreeInv, Parts
<1>2. CASE part = "indexes"
  BY <1>2 DEF AfterPart, Linked, Reifying, Parts
<1>3. CASE part = "Release"
  BY <1>3 DEF AfterPart, Linked, Files, Reifying, Parts
<1>4. CASE part = "InRelease"
  BY <1>1, <1>4 DEF AfterPart, Linked, Files, Reifying, Parts
<1> QED BY <1>2, <1>3, <1>4 DEF Parts

LEMMA LinkPartStep ==
  ASSUME PubInv, NEW part \in Parts, LinkPart(part)
  PROVE  PubInv'
<1> USE DEF LinkPart
<1>1. AfterPart(part) \in Stages
  BY DEF AfterPart, Stages, Parts
<1>2. /\ job' \in JobRecord /\ job'.stage = AfterPart(part) /\ job'.owner = job.owner
      /\ job'.dist = job.dist /\ job'.rel = job.rel /\ job'.publish = job.publish
  BY <1>1, JobGoesOn DEF PubInv
<1>3. /\ Linked' = Linked \cup {<<part, job.rel>>}
      /\ AfterPart(part) \in {"Release", "InRelease", "clearpool"}
      /\ AfterPart(part) = "InRelease" => job.rel.key # None
      /\ job.stage \in Reifying
  BY <1>2, PartsInOrder
<1>4. <<part, job.rel>> \in PublicFiles
  <2>1. job.rel \in Release /\ Files(job.rel) \in SUBSET PublicFiles
    BY <1>3, ReifyingJob
  <2>2. part = "InRelease" => job.rel.key # None
    BY DEF PubInv, TreeInv, Parts
  <2> QED BY <2>1, <2>2 DEF Files, Parts
<1>5. /\ tree' \in [Dists -> SUBSET PublicFiles]
      /\ tree'[job.dist] = tree[job.dist] \cup {<<part, job.rel>>}
      /\ \A d \in Dists : d # job.dist => tree'[d] = tree[d]
  BY <1>3, <1>4, ReifyingJob DEF PubInv, TypeOK
<1>6. /\ TypeOK' /\ SessionInv' /\ CodeNames' /\ JobInv' /\ LogInv' /\ CreationInv'
      /\ \A d \in Dists : d # job.dist => InOrder(d)'
  BY <1>2, <1>3, <1>5, ReifyGoesOn DEF PubInv, TypeOK, Reifying, Parts
<1>7. TreeInv'
  BY <1>2, <1>3, <1>5 DEF PubInv, TreeInv
<1>8. OrderInv' /\ PoolInv' /\ PublishedWhenDone'
  BY <1>2, <1>3, <1>6 DEF OrderInv, PoolInv, PublishedWhenDone
<1> QED BY <1>6, <1>7, <1>8 DEF PubInv

LEMMA LinkPartFailsStep ==
  ASSUME PubInv, NEW part \in Parts, LinkPartFails(part)
  PROVE  PubInv'
<1>1. job.stage \in Reifying /\ job.stage = part /\ Mar("link")
      /\ UNCHANGED <<refs, reflog, pool, session, pc, readers>>
  BY DEF LinkPartFails, Reifying
<1>2. /\ marred' \in [Dists -> SUBSET {"crash", "link"}]
      /\ marred'[job.dist] = marred[job.dist] \cup {"link"}
      /\ \A d \in Dists : d # job.dist => marred'[d] = marred[d]
  BY <1>1, ReifyingJob DEF PubInv, TypeOK, Mar
<1>3. job' = [job EXCEPT !.stage = AfterPart(part)] /\ UNCHANGED tree /\ AfterPart(part) \in Stages
  BY DEF LinkPartFails, AfterPart, Stages, Parts
<1>4. /\ job' \in JobRecord /\ job'.stage = AfterPart(part) /\ job'.owner = job.owner
      /\ job'.dist = job.dist /\ job'.rel = job.rel /\ job'.publish = job.publish
  BY <1>3, JobGoesOn DEF PubInv
<1>5. /\ Linked' = Linked \cup {<<part, job.rel>>}
      /\ AfterPart(part) \in {"Release", "InRelease", "clearpool"}
      /\ AfterPart(part) = "InRelease" => job.rel.key # None
  BY <1>1, <1>4, PartsInOrder
<1>6. /\ TypeOK' /\ SessionInv' /\ CodeNames' /\ JobInv' /\ LogInv' /\ CreationInv'
      /\ \A d \in Dists : d # job.dist => InOrder(d)'
  BY <1>1, <1>2, <1>3, <1>4, <1>5, ReifyGoesOn DEF PubInv, TypeOK, Reifying, Parts
<1>7. TreeInv'
  BY <1>1, <1>2, <1>3, <1>4, <1>5, ReifyingJob DEF PubInv, TreeInv
<1>8. OrderInv' /\ PoolInv' /\ PublishedWhenDone'
  BY <1>4, <1>5, <1>6 DEF OrderInv, PoolInv, PublishedWhenDone
<1> QED BY <1>6, <1>7, <1>8 DEF PubInv

LEMMA ReifyFailsStep ==
  ASSUME PubInv, ReifyFails
  PROVE  PubInv'
<1>1. /\ job.stage \in Reifying /\ Mar("link")
      /\ tree' = [tree EXCEPT ![job.rel.codename] = {}]
      /\ job' = [job EXCEPT !.stage = "done", !.failed = TRUE]
      /\ UNCHANGED <<refs, reflog, pool, session, pc, readers>>
  BY Zenon DEF ReifyFails, Reifying
<1>2. /\ marred' \in [Dists -> SUBSET {"crash", "link"}]
      /\ marred'[job.dist] = marred[job.dist] \cup {"link"}
      /\ \A d \in Dists : d # job.dist => marred'[d] = marred[d]
  BY <1>1, ReifyingJob DEF PubInv, TypeOK, Mar
<1>3. /\ job' \in JobRecord /\ job'.stage = "done" /\ job'.owner = job.owner
      /\ job'.dist = job.dist /\ job'.rel = job.rel /\ job'.publish = job.publish
  <2>1. "done" \in Stages /\ TypeOK
    BY DEF Stages, PubInv
  <2> QED BY <1>1, <2>1, JobFails, Zenon
<1>4. /\ tree' \in [Dists -> SUBSET PublicFiles] /\ tree'[job.dist] = {}
      /\ \A d \in Dists : d # job.dist => tree'[d] = tree[d]
  BY ONLY <1>1, PubInv, ReifyingJob DEF PubInv, TypeOK
<1>5. /\ TypeOK' /\ SessionInv' /\ CodeNames' /\ JobInv' /\ LogInv' /\ CreationInv'
      /\ \A d \in Dists : d # job.dist => InOrder(d)'
  BY <1>1, <1>2, <1>3, <1>4, ReifyGoesOn DEF PubInv, TypeOK
<1>6. OrderInv'
  BY <1>2, <1>3, <1>4, <1>5 DEF OrderInv, InOrder
<1>7. TreeInv' /\ PoolInv' /\ PublishedWhenDone'
  BY <1>1, <1>2, <1>3, ReifyingJob DEF TreeInv, PoolInv, PublishedWhenDone, Parts
<1> QED BY <1>5, <1>6, <1>7 DEF PubInv

\* updatePool.
LEMMA ClearPoolStep ==
  ASSUME PubInv, ClearPool
  PROVE  PubInv'
<1>1. /\ job.stage = "clearpool" /\ job.stage \in Reifying
      /\ pool' = [pool EXCEPT ![job.rel.codename] = {}]
      /\ UNCHANGED <<refs, reflog, tree, session, pc, readers, marred>>
  BY DEF ClearPool, Reifying
<1>2. job.rel.items \in SUBSET Items
  BY <1>1, ReifyingJob DEF Release
<1>3. /\ job' \in JobRecord /\ job'.stage = "pool" /\ job'.links = job.rel.items
      /\ job'.owner = job.owner /\ job'.dist = job.dist /\ job'.rel = job.rel
      /\ job'.publish = job.publish
  <2>1. job' = [job EXCEPT !.stage = "pool", !.links = job.rel.items]
    BY Zenon DEF ClearPool
  <2>2. "pool" \in Stages /\ TypeOK
    BY DEF Stages, PubInv
  <2> QED BY <1>2, <2>1, <2>2, JobTakesLinks, Zenon
<1>4. /\ pool' \in [Dists -> SUBSET Items] /\ pool'[job.dist] = {}
      /\ \A d \in Dists : d # job.dist => pool'[d] = pool[d]
  BY <1>1, ReifyingJob DEF PubInv, TypeOK
<1>5. /\ TypeOK' /\ SessionInv' /\ CodeNames' /\ JobInv' /\ LogInv' /\ CreationInv'
      /\ \A d \in Dists : d # job.dist => InOrder(d)'
  BY <1>1, <1>3, <1>4, ReifyGoesOn DEF PubInv, TypeOK, Reifying
<1>6. TreeInv'
  BY <1>1, <1>3 DEF PubInv, TreeInv, Linked, Files
<1>7. OrderInv' /\ PoolInv' /\ PublishedWhenDone'
  BY <1>3, <1>4, <1>5 DEF OrderInv, PoolInv, PublishedWhenDone
<1> QED BY <1>5, <1>6, <1>7 DEF PubInv

LEMMA LinkPoolStep ==
  ASSUME PubInv, NEW i \in Items, LinkPool(i)
  PROVE  PubInv'
<1>1. /\ job.stage = "pool" /\ job.stage \in Reifying
      /\ UNCHANGED <<refs, reflog, tree, session, pc, readers>>
      /\ i \in job.links /\ job' = [job EXCEPT !.links = @ \ {i}]
  BY DEF LinkPool, Reifying
<1>2. /\ job' \in JobRecord /\ job'.stage = "pool" /\ job'.links = job.links \ {i}
      /\ job'.owner = job.owner /\ job'.dist = job.dist /\ job'.rel = job.rel
      /\ job'.publish = job.publish
  BY <1>1, ReifyingJob DEF JobRecord
<1>3. /\ pool' \in [Dists -> SUBSET Items] /\ marred' \in [Dists -> SUBSET {"crash", "link"}]
      /\ \A d \in Dists : d # job.dist => pool'[d] = pool[d] /\ marred'[d] = marred[d]
      /\ pool[job.dist] \subseteq pool'[job.dist]
      /\ pool'[job.dist] \subseteq pool[job.dist] \cup {i}
      /\ marred[job.dist] \subseteq marred'[job.dist]
      /\ marred'[job.dist] \subseteq marred[job.dist] \cup {"link"}
      /\ "link" \notin marred'[job.dist] => i \in pool'[job.dist]
  <2>1. /\ job.dist \in Dists /\ job.rel.codename = job.dist
        /\ pool \in [Dists -> SUBSET Items] /\ marred \in [Dists -> SUBSET {"crash", "link"}]
    BY <1>1, ReifyingJob DEF PubInv, TypeOK
  <2>2. CASE pool' = [pool EXCEPT ![job.rel.codename] = @ \cup {i}] /\ UNCHANGED marred
    BY <2>1, <2>2
  <2>3. CASE Mar("link") /\ UNCHANGED pool
    BY <2>1, <2>3 DEF Mar
  <2> QED BY <2>2, <2>3 DEF LinkPool
<1>4. PoolInv'
  <2>1. /\ job.links \subseteq job.rel.items /\ pool[job.dist] \subseteq job.rel.items
        /\ "link" \notin marred[job.dist] => job.rel.items \ job.links \subseteq pool[job.dist]
    BY <1>1 DEF PubInv, PoolInv
  <2> QED BY <1>1, <1>2, <1>3, <2>1 DEF PoolInv
<1>5. /\ TypeOK' /\ SessionInv' /\ CodeNames' /\ JobInv' /\ LogInv' /\ CreationInv'
      /\ \A d \in Dists : d # job.dist => InOrder(d)'
  BY <1>1, <1>2, <1>3, ReifyGoesOn DEF PubInv, TypeOK, Reifying
<1>6. TreeInv'
  <2>1. Linked = Files(job.rel) /\ Linked' = Files(job.rel)
    BY <1>1, <1>2 DEF Linked, Files
  <2> QED BY <1>1, <1>2, <1>3, <2>1 DEF PubInv, TreeInv
<1>7. OrderInv' /\ PublishedWhenDone'
  BY <1>2, <1>5 DEF OrderInv, PublishedWhenDone
<1> QED BY <1>4, <1>5, <1>6, <1>7 DEF PubInv

LEMMA PoolDoneStep ==
  ASSUME PubInv, PoolDone
  PROVE  PubInv'
<1> USE DEF PoolDone
<1>1. /\ job.stage = "pool" /\ job.stage \in Reifying /\ job.links = {}
      /\ UNCHANGED <<refs, reflog, tree, pool, session, pc, readers, marred>>
  BY DEF Reifying
<1>2. /\ job' \in JobRecord /\ job'.stage = "done" /\ job'.owner = job.owner
      /\ job'.dist = job.dist /\ job'.rel = job.rel /\ job'.publish = job.publish
  BY JobGoesOn DEF PubInv, Stages
<1>3. /\ TypeOK' /\ SessionInv' /\ CodeNames' /\ JobInv' /\ LogInv' /\ CreationInv'
      /\ \A d \in Dists : d # job.dist => InOrder(d)'
  BY <1>1, <1>2, ReifyGoesOn DEF PubInv, TypeOK
<1>4. /\ refs[job.dist] = job.rel /\ job.rel \in Release /\ tree[job.dist] \subseteq Files(job.rel)
      /\ "crash" \notin marred[job.dist] /\ pool[job.dist] \subseteq job.rel.items
      /\ "link" \notin marred[job.dist] =>
           tree[job.dist] = Files(job.rel) /\ pool[job.dist] = job.rel.items
  BY <1>1, ReifyingJob DEF PubInv, TreeInv, PoolInv, Linked
<1>5. InOrder(job.dist)'
  BY <1>1, <1>4 DEF InOrder, Served, Files
<1>6. OrderInv' /\ PublishedWhenDone'
  BY <1>1, <1>2, <1>3, <1>4, <1>5 DEF OrderInv, PublishedWhenDone, Files
<1>7. TreeInv' /\ PoolInv'
  BY <1>2 DEF TreeInv, PoolInv, Parts
<1> QED BY <1>3, <1>6, <1>7 DEF PubInv

\* The lock is released, and the distribution is in order.
LEMMA EndJobStep ==
  ASSUME PubInv, EndJob
  PROVE  PubInv'
<1> USE DEF PubInv, EndJob
<1>1. job' = NoJob /\ job'.stage = "none" /\ job'.owner = None /\ job'.rel = None /\ job' \in JobRecord
  BY NoJobType DEF NoJob
<1>2. Answer \in {"failed", "ok"}
  BY DEF Answer
<1>3. /\ session' \in [Uploaders -> SessionRecord] /\ SessionInv'
      /\ pc' \in [Admins -> {"waiting", "working", "ok", "failed"}]
  <2>1. CASE job.owner \in Uploaders /\ session' = [session EXCEPT ![job.owner].pc = Answer]
               /\ UNCHANGED pc
    BY <1>2, <2>1, SessionCloses DEF SessionPCs, TypeOK
  <2>2. CASE pc' = [pc EXCEPT ![job.owner] = Answer] /\ UNCHANGED session
    BY <1>2, <2>2 DEF TypeOK, SessionInv, SessionRecord
  <2> QED BY <2>1, <2>2 DEF Answers
<1>4. TypeOK'
  BY <1>1, <1>3 DEF TypeOK, JobRecord, SessionRecord
<1>5. OrderInv'
  BY <1>1 DEF OrderInv, InOrder, Served, Files
<1>6. JobInv' /\ CodeNames' /\ LogInv' /\ CreationInv' /\ TreeInv' /\ PoolInv' /\ PublishedWhenDone'
  BY <1>1 DEF JobInv, TodoInv, CodeNames, LogInv, CreationInv, TreeInv, PoolInv,
       PublishedWhenDone, Setting, Reifying, Parts
<1> QED BY <1>3, <1>4, <1>5, <1>6

LEMMA DownloadStep ==
  ASSUME PubInv, NEW c \in Readers, StartDownload(c) \/ EndDownload(c)
  PROVE  PubInv'
<1>1. CASE StartDownload(c)
  <2>1. TypeOK' /\ SessionInv' /\ job.stage = "none"
    BY <1>1 DEF PubInv, TypeOK, SessionInv, StartDownload, JobInv
  <2> QED BY <1>1, <2>1, QuietStep DEF StartDownload
<1>2. CASE EndDownload(c)
  <2>1. TypeOK' /\ SessionInv' /\ readers' \subseteq readers
    BY <1>2 DEF PubInv, TypeOK, SessionInv, EndDownload
  <2> QED BY <1>2, <2>1, QuietStep DEF EndDownload
<1> QED BY <1>1, <1>2

\* What was being worked on is marred, unless nothing of it had been touched.
LEMMA CrashStep ==
  ASSUME PubInv, Crash
  PROVE  PubInv'
<1> USE DEF PubInv, Crash
<1>1. /\ job' = NoJob /\ job'.stage = "none" /\ job'.owner = None /\ job'.rel = None
      /\ job' \in JobRecord /\ readers' = {} /\ UNCHANGED <<refs, reflog, tree, pool>>
  BY NoJobType DEF NoJob
<1>2. session' \in [Uploaders -> SessionRecord] /\ SessionInv'
  <2>1. session \in [Uploaders -> SessionRecord]
    BY DEF TypeOK, SessionRecord
  <2>2. \A u \in Uploaders :
          /\ session[u] \in SessionRecord
          /\ [session[u] EXCEPT !.pc = "lost"] \in SessionRecord
          /\ [session[u] EXCEPT !.pc = "lost"].pc = "lost"
    BY <2>1 DEF SessionRecord, SessionPCs
  <2> QED BY <2>2 DEF SessionInv
<1>3. pc' \in [Admins -> {"waiting", "working", "ok", "failed"}]
  BY DEF TypeOK
<1>4. /\ marred' \in [Dists -> SUBSET {"crash", "link"}]
      /\ \A d \in Dists : d # job.dist => marred'[d] = marred[d]
      /\ job.stage \in Midway => "crash" \in marred'[job.dist] \/ job.dist \notin Dists
      /\ job.stage \notin Midway => marred' = marred
  BY DEF TypeOK, Mar
<1>5. TypeOK'
  BY <1>1, <1>2, <1>3, <1>4 DEF TypeOK, JobRecord, SessionRecord
<1>6. ASSUME NEW d \in Dists PROVE InOrder(d)'
  <2>1. CASE d = job.dist /\ job.stage \in Midway
    BY <1>4, <2>1 DEF InOrder
  <2>2. CASE d # job.dist \/ job.stage \notin Midway
    <3>1. InOrder(d)
      BY <2>2 DEF OrderInv, TypeOK, Stages, Parts, Midway
    <3>2. marred'[d] = marred[d]
      BY <1>4, <2>2
    <3> QED BY <1>1, <3>1, <3>2 DEF InOrder, Served, Files
  <2> QED BY <2>1, <2>2
<1>7. JobInv' /\ CodeNames' /\ LogInv' /\ CreationInv' /\ TreeInv' /\ PoolInv' /\ PublishedWhenDone'
  BY <1>1 DEF JobInv, TodoInv, CodeNames, LogInv, CreationInv, TreeInv, PoolInv,
       PublishedWhenDone, Setting, Reifying, Parts
<1> QED BY <1>2, <1>5, <1>6, <1>7 DEF OrderInv

------------------------------------------------------------------------------
\* The references are moved by three actions only.
LEMMA RefsStay ==
  ASSUME [Next]_vars, ~(TruncateRef \/ WriteRef \/ DeleteRef)
  PROVE  UNCHANGED refs
<1>1. CASE SetRefStep \/ EndJob \/ RemoveTree \/ Crash
  BY <1>1 DEF SetRefStep, LogRef, EndJob, RemoveTree, Crash
<1>2. CASE ReifyStep
  BY <1>2 DEF ReifyStep, ClearDist, ClearPool, PoolDone, LinkPart, LinkPartFails, LinkPool, ReifyFails
<1>3. ASSUME NEW u \in Uploaders, NEW d \in Dists,
             SessionRefused(u, d) \/ (\E i \in Items : NewUploadSession(u, i, d))
      PROVE  UNCHANGED refs
  BY <1>3 DEF SessionRefused, NewUploadSession
<1>4. ASSUME NEW u \in Uploaders, AddUpload(u) \/ AddUploadNothing(u) PROVE UNCHANGED refs
  BY <1>4 DEF AddUpload, AddUploadNothing, Begin
<1>5. ASSUME NEW a \in Admins, NEW d \in Dists,
             (\E k \in Keys \cup {None} : ChangeKey(a, d, k)) \/ PutDist(a, d) \/ DeleteDist(a, d)
      PROVE  UNCHANGED refs
  BY <1>5 DEF ChangeKey, PutDist, DeleteDist, Begin
<1>6. ASSUME NEW c \in Readers, StartDownload(c) \/ EndDownload(c) PROVE UNCHANGED refs
  BY <1>6 DEF StartDownload, EndDownload
<1>7. CASE UNCHANGED vars
  BY <1>7 DEF vars
<1> QED
  BY <1>1, <1>2, <1>3, <1>4, <1>5, <1>6, <1>7 DEF Next

\* Every action preserves the invariant.
THEOREM NextPub == PubInv /\ [Next]_vars => PubInv'
<1> SUFFICES ASSUME PubInv, [Next]_vars PROVE PubInv'
  OBVIOUS
<1>1. ASSUME NEW u \in Uploaders, NEW d \in Dists,
             SessionRefused(u, d) \/ (\E i \in Items : NewUploadSession(u, i, d))
      PROVE  PubInv'
  BY <1>1, SessionStep
<1>2. ASSUME NEW u \in Uploaders, AddUpload(u) \/ AddUploadNothing(u) PROVE PubInv'
  BY <1>2, AddUploadStep, SessionStep, StableAssumption
<1>3. ASSUME NEW a \in Admins, NEW d \in Dists,
             (\E k \in Keys \cup {None} : ChangeKey(a, d, k)) \/ PutDist(a, d) \/ DeleteDist(a, d)
      PROVE  PubInv'
  BY <1>3, ChangeKeyStep, PutDistStep, DeleteDistStep
<1>4. CASE DeleteRef \/ RemoveTree
  BY <1>4, DeleteRefStep, RemoveTreeStep
<1>5. CASE SetRefStep
  BY <1>5, LogRefStep, TruncateRefStep, WriteRefStep DEF SetRefStep
<1>6. CASE ReifyStep
  BY <1>6, ClearDistStep, ClearPoolStep, PoolDoneStep, LinkPartStep, LinkPartFailsStep, LinkPoolStep,
     ReifyFailsStep
     DEF ReifyStep
<1>7. CASE EndJob
  BY <1>7, EndJobStep
<1>8. ASSUME NEW c \in Readers, StartDownload(c) \/ EndDownload(c) PROVE PubInv'
  BY <1>8, DownloadStep
<1>9. CASE Crash
  BY <1>9, CrashStep
<1>10. CASE UNCHANGED vars
  <2>1. TypeOK' /\ SessionInv'
    BY <1>10 DEF PubInv, TypeOK, SessionInv, vars
  <2> QED BY <1>10, <2>1, QuietStep DEF vars
<1> QED
  BY <1>1, <1>2, <1>3, <1>4, <1>5, <1>6, <1>7, <1>8, <1>9, <1>10 DEF Next

\* The inductive invariant holds in every reachable state.
THEOREM PublicationInvariant == Spec => []PubInv
<1> QED BY InitPub, NextPub, PTL DEF Spec

\* Every variable has its type, for any constants.
THEOREM PublicationTypes == Spec => []TypeOK
<1>1. PubInv => TypeOK
  BY DEF PubInv
<1> QED BY <1>1, PublicationInvariant, PTL

\* A download finds one whole release of every distribution that is not marred.
THEOREM EveryDownloadIsWhole == Spec => []DownloadsWhole
<1>1. PubInv => DownloadsWhole
  <2> SUFFICES ASSUME PubInv, readers # {}, NEW d \in Dists, marred[d] = {} PROVE Served(d)
    BY DEF DownloadsWhole
  <2>1. job.stage = "none"
    BY DEF PubInv, JobInv
  <2> QED BY <2>1 DEF PubInv, OrderInv, InOrder
<1> QED BY <1>1, PublicationInvariant, PTL

\* A change that has been published is there, all of it and nothing else.
THEOREM ChangesArePublished == Spec => []PublishedWhenDone
<1>1. PubInv => PublishedWhenDone
  BY DEF PubInv
<1> QED BY <1>1, PublicationInvariant, PTL

\* Failed links leave nothing of another release for downloads to find.
THEOREM NothingIsStale == Spec => []NeverStale
<1>1. PubInv => NeverStale
  <2> SUFFICES ASSUME PubInv, readers # {}, NEW d \in Dists, tree[d] # {}, "crash" \notin marred[d]
               PROVE  /\ refs[d] \in Release
                      /\ tree[d] \subseteq Files(refs[d])
                      /\ pool[d] \subseteq refs[d].items
    BY DEF NeverStale
  <2>1. job.stage = "none"
    BY DEF PubInv, JobInv
  <2> QED BY <2>1 DEF PubInv, OrderInv, InOrder
<1> QED BY <1>1, PublicationInvariant, PTL

\* A reference is truncated when the log has what it was and what it will be.
THEOREM ReferencesAreLogged == Spec => RefRecoverable
<1>1. ASSUME PubInv, [Next]_vars, NEW d \in Dists, refs[d] # Torn, refs'[d] = Torn
      PROVE  reflog[d] # None /\ reflog[d].old = refs[d] /\ reflog[d].new \in Release
  <2>1. CASE TruncateRef
    <3>1. d = job.dist
      BY <1>1, <2>1 DEF TruncateRef, PubInv, TypeOK
    <3>2. reflog[d] = [old |-> refs[d], new |-> Head(job.todo)] /\ reflog[d] \in LogRecord \cup {None}
      BY <1>1, <2>1, <3>1 DEF TruncateRef, PubInv, LogInv, TypeOK, LogRecord
    <3>3. Head(job.todo) \in Release /\ refs[d] \in Release \cup {None, Torn}
      BY <1>1, <2>1, SettingHead DEF TruncateRef, PubInv, TypeOK, Setting
    <3>4. reflog[d] # None
      <4>1. [old |-> refs[d], new |-> Head(job.todo)] \in LogRecord
        BY <3>3 DEF LogRecord
      <4> QED BY <3>2, <4>1, RefsAssumption DEF LogRecord
    <3> QED BY <3>2, <3>3, <3>4
  <2>2. CASE WriteRef
    <3>1. Head(job.todo) \in Release /\ refs' = [refs EXCEPT ![job.dist] = Head(job.todo)]
      BY <1>1, <2>2, SettingHead DEF WriteRef, Setting
    <3> QED BY <1>1, <3>1, RefsAssumption DEF PubInv, TypeOK
  <2>3. CASE DeleteRef
    BY <1>1, <2>3, NamesAssumption DEF DeleteRef, PubInv, TypeOK
  <2>4. CASE ~(TruncateRef \/ WriteRef \/ DeleteRef)
    <3>1. UNCHANGED refs
      BY <1>1, <2>4, RefsStay
    <3> QED BY <1>1, <3>1
  <2> QED BY <2>1, <2>2, <2>3, <2>4
<1>2. PubInv /\ [Next]_vars =>
        [\A d \in Dists : refs[d] # Torn /\ refs'[d] = Torn =>
           reflog[d] # None /\ reflog[d].old = refs[d] /\ reflog[d].new \in Release]_vars
  BY <1>1
<1> QED BY <1>2, PublicationInvariant, PTL DEF Spec, RefRecoverable

================================================================================
