------------------------------ MODULE Publication ------------------------------
(***************************************************************************)
(* archive.go, store.go (references) and the handlers that use them: how a *)
(* change of a distribution becomes what clients download.                 *)
(*                                                                         *)
(* A change builds a release, moves the reference of its distribution      *)
(* (SetRef: a line in the reflog, then a file that is truncated and        *)
(* written), and rebuilds the public tree from the release (ReifyRelease:  *)
(* clear dists/<codename>, link its files, clear and link the pool).  All  *)
(* of it is done under the write lock; downloads hold the read lock        *)
(* (Governor); the request that starts an upload session holds neither.    *)
(* The process can be killed between any two writes; nothing is rebuilt    *)
(* when it is started again.                                               *)
(*                                                                         *)
(* The blobs behind a release are the business of GarbageCollector; that   *)
(* an upload's files are complete, of UploadSession.                       *)
(***************************************************************************)
EXTENDS Naturals, Sequences, FiniteSets

CONSTANTS
  Dists,      \* names of distributions; "stable" is one
  Items,      \* what can be uploaded
  Keys,       \* signing keys
  Uploaders,  \* clients that upload one item each
  Admins,     \* clients that make one administrative request each
  Readers,    \* clients that download
  None, Torn

ASSUME StableAssumption == "stable" \in Dists
ASSUME NamesAssumption ==
  /\ Uploaders \cap Admins = {}
  /\ None \notin Uploaders \cup Admins \cup Keys
  /\ None # Torn

Release == [codename : Dists, suite : Dists, items : SUBSET Items, key : Keys \cup {None}]

ASSUME RefsAssumption ==
  /\ None \notin Release /\ Torn \notin Release
  /\ None \notin [old : Release \cup {None, Torn}, new : Release]

VARIABLES
  refs,       \* refs/heads/<dist>.ref: a release; None: no file; Torn: an empty file
  reflog,     \* the last line of the reflog for each of them: [old, new]
  tree,       \* archive/dists/<codename>: the files there, with the release they are of
  pool,       \* archive/pool/<codename>: the items there
  session,    \* of each uploader: [pc, item, branch]
  pc,         \* of each admin: "waiting", "working", "ok", "failed"
  job,        \* what is being done under the write lock
  readers,    \* who holds the read lock
  marred      \* history: what has gone wrong since the tree of each of them was last
              \* cleared, "crash" or "link"

vars == <<refs, reflog, tree, pool, session, pc, job, readers, marred>>

------------------------------------------------------------------------------
\* The root of a distribution, and a child of it (NewChild copies everything else).
Root(d, suite) == [codename |-> d, suite |-> suite, items |-> {}, key |-> None]

\* The files of a release in dists/<codename>; it is signed when it has a key.
Files(r) == {<<"indexes", r>>, <<"Release", r>>}
              \cup (IF r.key = None THEN {} ELSE {<<"InRelease", r>>})

\* The releases the references have still to be set to, one after the other; the
\* last one is published, if the change publishes.
NoJob == [owner |-> None, dist |-> None, todo |-> <<>>, publish |-> FALSE, rel |-> None,
          stage |-> "none", links |-> {}, failed |-> FALSE]

Begin(who, d, todo, publish) ==
  /\ job.owner = None /\ readers = {}
  /\ job' = [owner |-> who, dist |-> d, todo |-> todo, publish |-> publish,
             rel |-> todo[Len(todo)], stage |-> "log", links |-> {}, failed |-> FALSE]
  /\ UNCHANGED <<refs, reflog, tree, pool, readers, marred>>

Mar(how) == marred' = [marred EXCEPT ![job.dist] = @ \cup {how}]

------------------------------------------------------------------------------
(***************************************************************************)
(* Upload sessions.  The first request reads the reference, without a      *)
(* lock; the session is for the branch that is the release's suite.        *)
(***************************************************************************)
NewUploadSession(u, i, d) ==
  /\ session[u].pc = "new"
  /\ refs[d] \notin {None, Torn}
  /\ session' = [session EXCEPT ![u] = [pc |-> "open", item |-> i, branch |-> refs[d].suite]]
  /\ UNCHANGED <<refs, reflog, tree, pool, pc, job, readers, marred>>

\* A reference that is being rewritten is read as an empty id: 500.
SessionRefused(u, d) ==
  /\ session[u].pc = "new"
  /\ refs[d] = Torn
  /\ session' = [session EXCEPT ![u].pc = "refused"]
  /\ UNCHANGED <<refs, reflog, tree, pool, pc, job, readers, marred>>

Working(u) == session' = [session EXCEPT ![u].pc = "merging"]

\* AddUpload, under the updater's write lock: a branch without a reference is
\* created, with the suite "stable"; an item that is there already changes nothing.
AddUpload(u) ==
  LET b == session[u].branch
      r == IF refs[b] = None THEN Root(b, "stable") ELSE refs[b]
      n == [r EXCEPT !.items = @ \cup {session[u].item}]
  IN /\ session[u].pc = "open"
     /\ refs[b] # Torn
     /\ session[u].item \notin r.items
     /\ Begin(u, b, IF refs[b] = None THEN <<r, n>> ELSE <<n>>, TRUE)
     /\ Working(u)
     /\ UNCHANGED pc

\* The item is there already, or the reference is torn and cannot be read.
AddUploadNothing(u) ==
  LET b == session[u].branch
  IN /\ session[u].pc = "open"
     /\ job.owner = None /\ readers = {}
     /\ refs[b] # None
     /\ \/ refs[b] = Torn /\ session' = [session EXCEPT ![u].pc = "failed"]
        \/ /\ refs[b] # Torn /\ session[u].item \in refs[b].items
           /\ session' = [session EXCEPT ![u].pc = "ok"]
     /\ UNCHANGED <<refs, reflog, tree, pool, pc, job, readers, marred>>

------------------------------------------------------------------------------
(***************************************************************************)
(* Administrative requests, each under the write lock: the signing key     *)
(* (any other change of the configuration does the same), a new            *)
(* distribution, which is not published, and the end of one.               *)
(***************************************************************************)
Admitted(a) == pc[a] = "waiting" /\ pc' = [pc EXCEPT ![a] = "working"] /\ UNCHANGED session

ChangeKey(a, d, k) ==
  /\ refs[d] \notin {None, Torn} /\ refs[d].key # k
  /\ Begin(a, d, <<[refs[d] EXCEPT !.key = k]>>, TRUE)
  /\ Admitted(a)

PutDist(a, d) ==
  /\ refs[d] = None
  /\ Begin(a, d, <<Root(d, d), Root(d, d)>>, FALSE)
  /\ Admitted(a)

DeleteDist(a, d) ==
  /\ refs[d] # None
  /\ job.owner = None /\ readers = {}
  /\ job' = [NoJob EXCEPT !.owner = a, !.dist = d, !.stage = "deleteref"]
  /\ Admitted(a)
  /\ UNCHANGED <<refs, reflog, tree, pool, readers, marred>>

DeleteRef ==
  /\ job.stage = "deleteref"
  /\ refs' = [refs EXCEPT ![job.dist] = None]
  /\ job' = [job EXCEPT !.stage = "remove"]
  /\ UNCHANGED <<reflog, tree, pool, session, pc, readers, marred>>

\* The pool stays.
RemoveTree ==
  /\ job.stage = "remove"
  /\ tree' = [tree EXCEPT ![job.dist] = {}]
  /\ marred' = [marred EXCEPT ![job.dist] = {}]
  /\ job' = [job EXCEPT !.stage = "done"]
  /\ UNCHANGED <<refs, reflog, pool, session, pc, readers>>

------------------------------------------------------------------------------
(***************************************************************************)
(* SetRef.                                                                 *)
(***************************************************************************)
LogRef ==
  /\ job.stage = "log"
  /\ reflog' = [reflog EXCEPT ![job.dist] = [old |-> refs[job.dist], new |-> Head(job.todo)]]
  /\ job' = [job EXCEPT !.stage = "truncate"]
  /\ UNCHANGED <<refs, tree, pool, session, pc, readers, marred>>

\* Mutant: the file is truncated before there is a line in the log.
TruncateRefFirst ==
  /\ job.stage \in {"log", "truncate"} /\ job.dist \in Dists
  /\ refs' = [refs EXCEPT ![job.dist] = Torn]
  /\ job' = [job EXCEPT !.stage = "write"]
  /\ UNCHANGED <<reflog, tree, pool, session, pc, readers, marred>>

TruncateRef ==
  /\ job.stage = "truncate"
  /\ refs' = [refs EXCEPT ![job.dist] = Torn]
  /\ job' = [job EXCEPT !.stage = "write"]
  /\ UNCHANGED <<reflog, tree, pool, session, pc, readers, marred>>

AfterWrite == IF Len(job.todo) > 1 THEN "log" ELSE IF job.publish THEN "clear" ELSE "done"

WriteRef ==
  /\ job.stage = "write"
  /\ refs' = [refs EXCEPT ![job.dist] = Head(job.todo)]
  /\ job' = [job EXCEPT !.stage = AfterWrite, !.todo = Tail(@)]
  /\ UNCHANGED <<reflog, tree, pool, session, pc, readers, marred>>

------------------------------------------------------------------------------
(***************************************************************************)
(* ReifyRelease and updatePool.                                            *)
(***************************************************************************)
Parts == {"indexes", "Release", "InRelease"}

AfterPart(part) ==
  IF part = "indexes" THEN "Release"
  ELSE IF part = "Release" /\ job.rel.key # None THEN "InRelease" ELSE "clearpool"

\* Mutant: what is there is left there.
ClearDistNot ==
  /\ job.stage = "clear"
  /\ marred' = [marred EXCEPT ![job.dist] = {}]
  /\ job' = [job EXCEPT !.stage = "indexes"]
  /\ UNCHANGED <<refs, reflog, tree, pool, session, pc, readers>>

ClearDist ==
  /\ job.stage = "clear"
  /\ tree' = [tree EXCEPT ![job.rel.codename] = {}]
  /\ marred' = [marred EXCEPT ![job.dist] = {}]
  /\ job' = [job EXCEPT !.stage = "indexes"]
  /\ UNCHANGED <<refs, reflog, pool, session, pc, readers>>

LinkPart(part) ==
  /\ job.stage = part
  /\ tree' = [tree EXCEPT ![job.rel.codename] = @ \cup {<<part, job.rel>>}]
  /\ job' = [job EXCEPT !.stage = AfterPart(part)]
  /\ UNCHANGED <<refs, reflog, pool, session, pc, readers, marred>>

\* Link returns nil for a link that cannot be made.
LinkPartFails(part) ==
  /\ job.stage = part /\ part # "indexes"
  /\ Mar("link")
  /\ job' = [job EXCEPT !.stage = AfterPart(part)]
  /\ UNCHANGED <<refs, reflog, tree, pool, session, pc, readers>>

\* An error that is returned: a directory cannot be made, the name is that of another
\* file, the index cannot be read, or Sources.gz or Packages.gz, whose link was not made,
\* cannot be opened.  The distribution is cleared, and the pool stays as far as it is.
ReifyFails ==
  /\ job.stage \in Parts \cup {"pool"}
  /\ Mar("link")
  /\ tree' = [tree EXCEPT ![job.rel.codename] = {}]
  /\ job' = [job EXCEPT !.stage = "done", !.failed = TRUE]
  /\ UNCHANGED <<refs, reflog, pool, session, pc, readers>>

ClearPool ==
  /\ job.stage = "clearpool"
  /\ pool' = [pool EXCEPT ![job.rel.codename] = {}]
  /\ job' = [job EXCEPT !.stage = "pool", !.links = job.rel.items]
  /\ UNCHANGED <<refs, reflog, tree, session, pc, readers, marred>>

LinkPool(i) ==
  /\ job.stage = "pool" /\ i \in job.links
  /\ \/ pool' = [pool EXCEPT ![job.rel.codename] = @ \cup {i}] /\ UNCHANGED marred
     \/ Mar("link") /\ UNCHANGED pool
  /\ job' = [job EXCEPT !.links = @ \ {i}]
  /\ UNCHANGED <<refs, reflog, tree, session, pc, readers>>

\* Mutant: a pool that has all it needs is not gone through.
PoolDoneEarly ==
  /\ job.stage = "pool" /\ Cardinality(job.links) <= 1
  /\ job' = [job EXCEPT !.stage = "done"]
  /\ UNCHANGED <<refs, reflog, tree, pool, session, pc, readers, marred>>

PoolDone ==
  /\ job.stage = "pool" /\ job.links = {}
  /\ job' = [job EXCEPT !.stage = "done"]
  /\ UNCHANGED <<refs, reflog, tree, pool, session, pc, readers, marred>>

Answer == IF job.failed THEN "failed" ELSE "ok"

Answers ==
  \/ /\ job.owner \in Uploaders
     /\ session' = [session EXCEPT ![job.owner].pc = Answer] /\ UNCHANGED pc
  \/ /\ job.owner \in Admins
     /\ pc' = [pc EXCEPT ![job.owner] = Answer] /\ UNCHANGED session

\* Mutant: the lock is released once the references are set.
EndJobEarly ==
  /\ job.stage \in {"done", "clear"}
  /\ Answers
  /\ job' = NoJob
  /\ UNCHANGED <<refs, reflog, tree, pool, readers, marred>>

\* The write lock is released and the client answered.
EndJob ==
  /\ job.stage = "done"
  /\ Answers
  /\ job' = NoJob
  /\ UNCHANGED <<refs, reflog, tree, pool, readers, marred>>

------------------------------------------------------------------------------
\* Downloads, under the read lock.
StartDownload(c) ==
  /\ c \notin readers /\ job.owner = None
  /\ readers' = readers \cup {c}
  /\ UNCHANGED <<refs, reflog, tree, pool, session, pc, job, marred>>

EndDownload(c) ==
  /\ c \in readers
  /\ readers' = readers \ {c}
  /\ UNCHANGED <<refs, reflog, tree, pool, session, pc, job, marred>>

\* A job cut off here has made the reference, the tree and the pool disagree.
Midway == {"write", "clear", "indexes", "Release", "InRelease", "clearpool", "pool", "remove"}

\* The process is killed and started again: locks and sessions are gone.
Crash ==
  /\ IF job.stage \in Midway THEN Mar("crash") ELSE UNCHANGED marred
  /\ job' = NoJob
  /\ readers' = {}
  /\ session' = [u \in Uploaders |->
                   IF session[u].pc \in {"open", "merging"}
                   THEN [session[u] EXCEPT !.pc = "lost"] ELSE session[u]]
  /\ pc' = [a \in Admins |-> IF pc[a] = "working" THEN "failed" ELSE pc[a]]
  /\ UNCHANGED <<refs, reflog, tree, pool>>

------------------------------------------------------------------------------
\* The distributions that are there have just been created with PUT.
Init ==
  /\ \E S \in SUBSET Dists :
       /\ refs = [d \in Dists |-> IF d \in S THEN Root(d, d) ELSE None]
       /\ reflog = [d \in Dists |->
                      IF d \in S THEN [old |-> Root(d, d), new |-> Root(d, d)] ELSE None]
  /\ tree = [d \in Dists |-> {}]
  /\ pool = [d \in Dists |-> {}]
  /\ session = [u \in Uploaders |-> [pc |-> "new", item |-> None, branch |-> None]]
  /\ pc = [a \in Admins |-> "waiting"]
  /\ job = NoJob
  /\ readers = {}
  /\ marred = [d \in Dists |-> {}]

SetRefStep == LogRef \/ TruncateRef \/ WriteRef

ReifyStep ==
  \/ ClearDist \/ ClearPool \/ PoolDone \/ ReifyFails
  \/ \E part \in Parts : LinkPart(part) \/ LinkPartFails(part)
  \/ \E i \in Items : LinkPool(i)

Next ==
  \/ \E u \in Uploaders, d \in Dists :
       SessionRefused(u, d) \/ \E i \in Items : NewUploadSession(u, i, d)
  \/ \E u \in Uploaders : AddUpload(u) \/ AddUploadNothing(u)
  \/ \E a \in Admins, d \in Dists :
       \/ \E k \in Keys \cup {None} : ChangeKey(a, d, k)
       \/ PutDist(a, d) \/ DeleteDist(a, d)
  \/ DeleteRef \/ RemoveTree
  \/ SetRefStep \/ ReifyStep \/ EndJob
  \/ \E c \in Readers : StartDownload(c) \/ EndDownload(c)
  \/ Crash

Spec == Init /\ [][Next]_vars

------------------------------------------------------------------------------
Stages == {"none", "log", "truncate", "write", "clear", "clearpool", "pool", "deleteref",
           "remove", "done"} \cup Parts

PublicFiles == UNION {Files(r) : r \in Release}

SessionPCs == {"new", "open", "merging", "ok", "failed", "refused", "lost"}

TypeOK ==
  /\ refs \in [Dists -> Release \cup {None, Torn}]
  /\ reflog \in [Dists -> [old : Release \cup {None, Torn}, new : Release] \cup {None}]
  /\ tree \in [Dists -> SUBSET PublicFiles]
  /\ pool \in [Dists -> SUBSET Items]
  /\ session \in [Uploaders -> [pc : SessionPCs, item : Items \cup {None},
                                 branch : Dists \cup {None}]]
  /\ pc \in [Admins -> {"waiting", "working", "ok", "failed"}]
  /\ job \in [owner : Uploaders \cup Admins \cup {None}, dist : Dists \cup {None},
              todo : Seq(Release), publish : BOOLEAN, rel : Release \cup {None},
              stage : Stages, links : SUBSET Items, failed : BOOLEAN]
  /\ readers \subseteq Readers
  /\ marred \in [Dists -> SUBSET {"crash", "link"}]

(***************************************************************************)
(* What the public tree of a distribution holds, pool and all, is its      *)
(* release; nothing, when there is no reference; and nothing yet, when it  *)
(* has been created and nothing has been uploaded.                         *)
(***************************************************************************)
Served(d) ==
  \/ refs[d] = None /\ tree[d] = {}
  \/ refs[d] \in Release /\ tree[d] = Files(refs[d]) /\ pool[d] = refs[d].items
  \/ refs[d] \in Release /\ tree[d] = {} /\ refs[d].items = {}

(***************************************************************************)
(* "Locks to ensure the repo update is atomic" (server.go:27): a download  *)
(* finds, of every distribution, one whole release, that of the reference, *)
(* whatever was uploaded, changed, created and deleted before; but for a   *)
(* distribution that was cut off by a crash, or a link of which failed,    *)
(* and has not been published since.                                       *)
(***************************************************************************)
DownloadsWhole == readers # {} => \A d \in Dists : marred[d] = {} => Served(d)

(***************************************************************************)
(* "Synchronous confirmation of repository regeneration" (README.md:11): a *)
(* change that has been published, no link failing, has put its release in *)
(* the reference and all of it in the public tree and in the pool, and     *)
(* nothing of any other release, whatever state a crash or a failure had   *)
(* left there.                                                             *)
(***************************************************************************)
PublishedWhenDone ==
  job.stage = "done" /\ job.publish /\ "link" \notin marred[job.dist] =>
    /\ refs[job.dist] = job.rel
    /\ tree[job.dist] = Files(job.rel)
    /\ pool[job.dist] = job.rel.items

(***************************************************************************)
(* Even when links fail, a download finds no file of another release than  *)
(* that of the reference, and no package that it does not have: only a     *)
(* crash can leave those, until the distribution is published again.       *)
(***************************************************************************)
NeverStale ==
  readers # {} => \A d \in Dists : tree[d] # {} /\ "crash" \notin marred[d] =>
    /\ refs[d] \in Release
    /\ tree[d] \subseteq Files(refs[d])
    /\ pool[d] \subseteq refs[d].items

(***************************************************************************)
(* SetRef syncs the reflog before it touches the file (store.go:374): the  *)
(* last line has the reference that is about to be lost, and the new one.  *)
(* A crash then leaves an empty file, and what was in it can be found.     *)
(***************************************************************************)
RefRecoverable ==
  [][\A d \in Dists : refs[d] # Torn /\ refs'[d] = Torn =>
       reflog[d] # None /\ reflog[d].old = refs[d] /\ reflog[d].new \in Release]_vars

(***************************************************************************)
(* The inductive invariant behind these.  A session works for a branch; a  *)
(* reference leads to a release of its own distribution; a job is alone,   *)
(* and moves the reference through at most a root to its release; where no *)
(* job is at work the tree is that of the reference; and where one is, it  *)
(* holds what has been linked so far.                                      *)
(***************************************************************************)
SessionInv ==
  \A u \in Uploaders : session[u].pc = "open" =>
    session[u].item \in Items /\ session[u].branch \in Dists

Setting == {"log", "truncate", "write"}
Reifying == {"clear", "clearpool", "pool"} \cup Parts

CodeNames ==
  /\ \A d \in Dists : refs[d] \in Release => refs[d].codename = d
  /\ job.rel # None => job.rel.codename = job.dist

\* The releases the reference is set to.
TodoInv ==
  /\ job.stage \in Setting =>
       /\ job.rel \in Release
       /\ ~job.publish => job.rel.items = {}
       /\ \/ job.todo = <<job.rel>>
          \/ \E r \in Release : /\ r.codename = job.dist /\ r.items = {}
                              /\ job.todo = <<r, job.rel>>
  /\ job.stage \in Reifying \/ (job.stage = "done" /\ job.publish) =>
       job.rel \in Release /\ refs[job.dist] = job.rel
  /\ job.stage \in Reifying => job.publish
  /\ job.stage \in {"deleteref", "remove"} => ~job.publish
  /\ job.stage = "remove" => refs[job.dist] = None

JobInv ==
  /\ job.owner = None <=> job.stage = "none"
  /\ job.stage # "none" => readers = {} /\ job.dist \in Dists
  /\ TodoInv

\* A truncated reference can be found in the log.
LogInv ==
  job.stage = "truncate" =>
    reflog[job.dist] = [old |-> refs[job.dist], new |-> Head(job.todo)]

\* What a distribution nobody works on looks like.
InOrder(d) ==
  /\ marred[d] = {} => Served(d)
  /\ tree[d] # {} /\ "crash" \notin marred[d] =>
       refs[d] \in Release /\ tree[d] \subseteq Files(refs[d]) /\ pool[d] \subseteq refs[d].items

OrderInv ==
  \A d \in Dists :
    d # job.dist \/ job.stage \in {"none", "log", "truncate", "deleteref", "done"} => InOrder(d)

\* A distribution that is being created has no tree.
CreationInv ==
  job.stage \in Setting /\ (Len(job.todo) = 2 \/ ~job.publish) /\ "crash" \notin marred[job.dist] =>
    tree[job.dist] = {}

Linked ==
  IF job.stage = "indexes" THEN {}
  ELSE IF job.stage = "Release" THEN {<<"indexes", job.rel>>}
  ELSE IF job.stage = "InRelease" THEN {<<"indexes", job.rel>>, <<"Release", job.rel>>}
  ELSE Files(job.rel)

TreeInv ==
  job.stage \in Parts \cup {"clearpool", "pool"} =>
    /\ "crash" \notin marred[job.dist]
    /\ tree[job.dist] \subseteq Linked
    /\ "link" \notin marred[job.dist] => tree[job.dist] = Linked
    /\ job.stage = "InRelease" => job.rel.key # None

PoolInv ==
  job.stage = "pool" =>
    /\ job.links \subseteq job.rel.items /\ pool[job.dist] \subseteq job.rel.items
    /\ "link" \notin marred[job.dist] => job.rel.items \ job.links \subseteq pool[job.dist]

PubInv ==
  /\ TypeOK /\ SessionInv /\ CodeNames /\ JobInv /\ LogInv
  /\ OrderInv /\ CreationInv /\ TreeInv /\ PoolInv /\ PublishedWhenDone

===============================================================================
