# godinstall in TLA+

godinstall is an apt repository server. Clients upload packages over HTTP; the
server stores them in a content addressed store, merges them into the index of a
distribution, rebuilds the public tree, and confirms the upload when that is done.
This directory specifies the parts of it that keep state or decide something, checks
them with TLC on small instances, and proves the most important properties for every
size of the system with TLAPS. `PROJECT.json` is the index: which lines of the source
each definition stands for, what every run checks, and which change of the code each
property would notice.

## 1. The system

| part | source | state | operations |
|---|---|---|---|
| Governor | `governor.go`, `server.go` | a channel of tokens, an RWMutex | `ReadLock`, `ReadUnLock`, `WriteLock`, `WriteUnLock` |
| Upload requests | `upload_handlers.go` | one goroutine per request | GET of a status, PUT/POST of files, with or without a session |
| Upload sessions | `upload_session.go` | expected and received files, the last error, `Complete`; one goroutine, the handler | `AddFile`, `Status`, `Err`, the TTL |
| Session manager | `upload_manager.go`, `safemap.go` | the map of sessions; one goroutine, the updater | `NewSession`, `GetSession`, `mergeSession` |
| Blob store | `store.go` | blobs, temporary files; one goroutine per open writer | `Store`, `Close`, `Link`, `UnLink`, `ForEach` |
| References | `store.go` | `refs/heads/<name>.ref`, the reflog | `SetRef`, `GetRef`, `DeleteRef`, `ListRefs` |
| Garbage collector | `archivestore.go` | lock count, pending flag; one goroutine | disable, enable, collect |
| Archive | `archive.go` | the public tree and the pool | `AddUpload`, `ReifyRelease`, `DeleteDist` |
| Index and pruning | `releaseindex.go`, `prune.go` | a sorted stream of entries, the pruner's closure | `mergeEntryIntoRelease` |
| History | `trim.go`, `release.go`, `log_handlers.go` | a chain of releases, each with `TrimAfter` | `NewRelease`, `TrimHistory`, the log |
| Version order | `debversion.go` | none | `DebVersionCompare` |
| Administration | `config_handlers.go`, `dists_handlers.go` | none of its own | PUT and DELETE of configurations, keys, distributions |
| Release files | `release.go`, `releaseconfig.go` | the Packages, Sources and Release files of a revision and their signatures | `updateReleasefiles`, `updateReleaseSigFiles` |
| Upload client | `upload_cli.go` | a queue of file names, the session's id | `godinstall upload` |
| Parsing, hooks, start | `changes.go`, `control.go`, `deb.go`, `hooks.go`, `server_cli.go`, `main.go`, `writehasher.go` | | see section 7 |

How they meet. A request without a session makes one; the session's handler disables
the collector, takes one message at a time, and enables the collector when its TTL
runs out. The file that completes an upload makes the handler ask the updater for a
merge and wait. The updater takes the Governor's write lock, merges the upload into
the index, makes a release (trimming the history if that is on), moves the reference,
rebuilds the public tree and asks for a collection, which the last session to end will
run. Administrative requests take the same write lock and do the same to the reference
and the tree, without a word to the collector. Downloads take the read lock. Only the
request that starts a session reads a reference with no lock at all.

What is hard about it, with the lines where it bites, is the list `hazards` of
`PROJECT.json`. In short: writers that take many tokens one by one; two locks (the
Governor's and the collector's) that do not know of each other; handlers that expire
while somebody talks to them; state copied, read and acted upon by different
goroutines; a tree and references rewritten in place by a process that may be killed;
and four small algorithms whose boundaries are easy to get wrong.

What makes each part correct:

- **Governor**: no token is lost; a writer is alone; somebody who asks is served.
- **Collector**: nothing runs while an upload is in flight; what a head's history
  refers to is never removed, everything else is; it always comes to an end.
- **Sessions**: what is merged is whole; it is merged once; a client is told "complete"
  only after `AddUpload` has returned, and told of refused files; sessions end.
- **Client**: what it reports is what has happened, a failed `AddUpload` apart; an upload
  with nothing wrong about it succeeds; it comes to an end, unless its session has ended
  before its message.
- **Release files**: Packages and Sources list what the index has, at paths the pool
  serves; the signature is the configured key's and of these files, whatever sequence of
  uploads and configuration changes led there.
- **Publication**: a download sees one whole release; a finished change is published;
  a crash is repaired by the next change and loses no reference for good.
- **Blob store**: a blob's name leads to all of its data; temporary files go; `Close`
  answers; seen from outside, the store is a set.
- **Trimming**: what the log shows can be read; the window on the history has the
  configured length and never moves back.
- **Merging**: the index is sorted, holds what the rules say, and its log explains it.
- **Versions**: the order is that of the Debian policy.

## 2. The modules

| module | models | proofs | instances |
|---|---|---|---|
| `BoundedRW` | abstract: a bounded readers-writer lock | | |
| `Governor` | `governor.go` and the handlers around it | `GovernorProofs` | `MCGovernor` |
| `GarbageCollector` | `archivestore.go`: the collector and all who store blobs | `GarbageCollectorProofs` | `MCGarbageCollector` |
| `UploadSession` | requests, sessions, manager, updater | `UploadSessionProofs` | `MCUploadSession`, `MCUploadShared` |
| `UploadClient` | `upload_cli.go`, composed with `UploadSession` | `UploadSessionProofs` | `MCUploadClient` |
| `Configuration` | `config_handlers.go`, the files and signatures of `release.go`, the pool's paths | `ConfigurationProofs` | `MCConfiguration` |
| `Publication` | `archive.go`, references, admin requests, downloads, crashes | `PublicationProofs` | `MCPublication` |
| `BlobSet` | abstract: the store as a set with calls in flight | | |
| `BlobStore` | `store.go`: `Store`, `Close` and the goroutine between | `BlobStoreProofs` | `MCBlobStore` |
| `HistoryTrim` | `trim.go`, the collector's walk, the log's walk | `HistoryTrimProofs` | `MCHistoryTrim` |
| `ReleaseMerge` | `releaseindex.go`, `prune.go` | `ReleaseMergeProofs` | `MCReleaseMerge` |
| `DebVersion` | `debversion.go` | `ReleaseMergeProofs` | `MCDebVersion` |

The modules cut the system where the code has an interface, and each names in its header
which other module has the other side. The Governor's property (a writer is alone) is why
`Publication`, `Configuration` and `GarbageCollector` have one `job` at a time and why
`HistoryTrim` and `ReleaseMerge` have no concurrency but the collector's; the collector's
(nothing is collected while a session is open) is why `Publication` and `BlobStore` can
take an upload's blobs as given.

### Governor and BoundedRW

A place (`pc`) per goroutine and one action per blocking operation: taking a token
(`ReadTake`, one turn of the drain loop in `WriteDrain`), the two halves of
`sync.RWMutex.Lock` (`LockRequest` shuts out new readers,
`LockAcquire` waits for the old ones), the check and the refill of `WriteUnLock`. Max = 0
skips the channel, as in the code. `BoundedRW` knows only who is inside; the
refinement maps the places `reading` and `writing` to it.

### GarbageCollector

The store is a set of blobs, each named by what it holds, so equal content is one blob.
A release is a record `[past, entries, config]`; `Assets` is what `gcWalkRelease` marks
for it. Admin requests and the updater's merge are a `job`: a list of writes made one
at a time, in the order of the code, under the write lock. The collector's goroutine
serves one request at a time; a collection is the steps of `ListRefs`, the mark, one
`Visit` per blob of `ForEach` (which may or may not meet a blob stored since it
listed the directory), and the walk of `refs/`. Where the code dereferences a nil
pointer, `phase` becomes `"panic"` and every goroutine stops. Uploads store their
changes file (`StoreChanges`) before the handler's goroutine has disabled the collector,
as the code does, and before `NewUploadSession` has found out whether it will start one:
`RefuseChanges` is its errors after the `Store`, which leave a blob of no session. A
key is stored before it is parsed (`RefuseKey`). A session may receive some of its files
and expire. An index stands for itself and the files generated from it; trimming is off
(`HistoryTrim`). DELETE of a signing key and the public keys are other changes of the
configuration with the same writes; they are in `Configuration`.

### UploadSession

A session has the fields of the struct that matter; `handler` says whether its goroutine
is in its select, waits for the updater, or is over. A request is a sequence of parts with
a place of its own. A send on `incoming` or `getstatus` and its answer are one step,
because the handler does nothing else in between; the merge is the exception and is cut
into `AddFile`, `TakeUpdate`, `AddUpload`, `Respond`. `AddUpload` is an attempt that
succeeds (`published`) or fails (`failed`), and the handler does not look at which.
`Err()` after each file, `Err()` after the last, and `Status()` are messages of their own,
and other requests may come between. The answer to a refused file asks for the error a
second time (`Check`, then `Refuse`); if it has been cleared in between, `Error()` is
called on nil and the request's answer is `"panic"`. `Reply` is separate from `Status`
since the copy shares a map with the handler. A part is what its sender knows it to be:
good, corrupt or unverified. Lone debs have the code's extra behaviour: they are expected
when they arrive and, if their signature fails, stay expected.

A request for a new session may be refused before it has one (`NewSessionRefused`: no
such distribution, lone debs not accepted, a changes file that cannot be verified).

### UploadClient

The loop of `cliUploadFile` extends `UploadSession`: `Send` is one turn of it, with the
request `Turns` says is next, and an answer is `Refusal`, `Completed` or `Expects`.
`Expects` appends everything that is expected and not received to the queue, in any order
(the code ranges over a map), whether it is queued already or not. `NoAnswer` is the
connection the server closes after a request's panic; `ConnectionLost`, at any time, is
the `defer resp.Body.Close()` that stands before the test of `err`: the client panics.
The requests that are nobody's turn are another program's; they can use the client's
session. The number of requests a client has is the bound of this model.

### Configuration

A distribution between two revisions is `index`, `config`, `files`, `signature` and
`tree`; a request or an upload makes a `job` and goes through `write` (one entry of the
second pass of `updateReleasefiles` per step), `sign` and `commit`. A paragraph of a
file is the path it gives, which depends on the pool pattern, the source and the
version. Key blobs have a kind, since the code takes what `ReadArmoredKeyRing` takes and
finds out later: keyrings of several keys make `SignerKey` fail, public keys make the
signer dereference nil, keys with a passphrase make it return an error. The public keys'
handlers do not call `updateReleasefiles` (`Inherit`). A panic in a handler is recovered
by net/http and nothing of the job is left; a panic in the updater ends the process
(`down`). `unreadable` are control blobs that cannot be read, whatever the reason.

### Publication

Each write of `SetRef` and each group of links of `ReifyRelease` and `updatePool` is a
step of the `job`, with `stage` as the program counter. `tree` and `pool` are what is in
`dists/<codename>` and `pool/<codename>`. `LinkPartFails` is what follows from `Link`
returning nil for a link it could not make; `ReifyFails` is every error that ends the
rebuild, after which the code removes the distribution's tree, and leaves the pool as far
as it has come. `Crash` may come after any step: locks and
sessions are gone, files stay, nothing is rebuilt. The session's branch is the
release's suite; a branch without a reference is created with the suite `stable`, as
`AddUpload` does.

### BlobStore and BlobSet

A file is `volatile` until `Sync`, `whole` after; a crash may tear a volatile file, may
lose names (directories are not synced), and loses all goroutines. The seven error paths
all remove the temporary name and then answer, so they share `Settle`, `RemoveTemp` and
`Complete`; what distinguishes them is where they leave the main path (`SyncFails`,
`LinkFails`). A failed `Write` (`WriteFails`) leaves the content `broken` if the caller
ignores it and closes the writer, as some do, so that a blob stands under the hash of data
it has not; a caller that returns its error (`Abandon`) never closes the writer, whose
goroutine and temporary file stay. `BlobSet` is the promise: between a call of `Close` and
its answer the content is put into the set in one step, or was there already, or the disk
failed. Its `Put` is the `Stat` that finds the blob or the `Link` that makes it.

### HistoryTrim

A chain of releases numbered from the root. `TrimHistory`'s loop is steps with the
code's own locals (`curr`, `count`, `trimCount`, `activeTrim`), the branches that are
never taken included; that they are dead is a consequence (`LoopInv`: `activeTrim` is
always 0). The collector's and the log's walks are the operators `Marked` and `Shown`.

### ReleaseMerge and DebVersion

One turn of a loop is one step. The old index is consumed from the left, the new entry
waits at the right, and the pruner is a record of what its closure remembers. The code
takes any error of `NextEntry` for the end of the index and publishes what it has: `err`
says that the next entry cannot be read, and `Given` is what the merge has been given in
the end. It ignores the errors of `AddEntry`: an entry that could not be written is
`dropped`. The reference definitions are written independently: `Retained` says on sets
what `README.md:155-156` and `165-166` of the repository say of rules (not that
architectures are packages of their own, which the code does not do, see section 5),
`VersionOrder` says what the policy manual says of versions.

`DebVersion` is the loop of `compareComponent`, one character or one pair per step, in
the hands of `DebVersionCompare`. A string is a sequence of bytes other than NUL, which
`charOrder` could not tell from the end of the string; lengths are not bounded, and
neither is the value of a run of digits, because the code never computes one. The
policy's order takes a string as the characters of its runs of non-digits and the values
of its runs of digits, in turn (`Item`), and lets the first item that differs decide
(`StringOrder`). That is a form one can prove about. `MCDebVersion` says it a second
time, recursively and in the words of the policy manual (`TextOrder`), and lets TLC
evaluate that the two agree (`TextAgrees`).

## 3. The runs

| run | instance | distinct states | shows |
|---|---|---|---|
| `governor` | 3 readers, 2 writers, Max 2 | 928 | token accounting, exclusion, refinement, and service unless two writers drain at once |
| `governor_blocked` | 1 reader, 2 writers, Max 2 | violation | two writers block each other |
| `collector` | 3 sessions, 2 admin requests of 4 kinds, 1 distribution, 1 content | 1,165,846 | the collector's lock, its mark and its sweep |
| `collector_config` | 1 session, 1 configuration change | violation | a configuration lost to a concurrent collection |
| `session` | 3 requests, 1 session with a changes file of 2 files, 1 of a lone deb | 1,662,858 | merges of whole uploads, once, before they are confirmed; consistent statuses; refusals reported |
| `session_ends` | a client with 3 requests and 3 states of its disk, 1 request of another program, the same sessions | 102,954 | the client's reports, good uploads succeed, clients end or hang on a session that is over, sessions end |
| `configuration` | 6 indexes of 3 entries, 3 patterns, 5 key blobs, 3 sets of unreadable control data | 1,481,082 | complete files, a pool that serves them, fresh signatures |
| `publication` | 2 uploads, 2 admin requests, 1 reader, 2 distributions, 1 key, crashes, failing links and rebuilds | 3,453,777 | atomic, complete and recoverable publication |
| `blobs` | 3 writers, 2 contents, crashes, disk errors, failed writes | 421,804 | the store is a set of whole blobs, failed writes that are ignored apart |
| `versions` | all pairs of 156 strings of up to 3 characters, and epochs and revisions | 161,999 | the policy's order, in both of its forms |
| `trim` | 6 releases, lengths -1, 0, 1, 2 | 1,429,605 | the window on the history |
| `merge` | 7 entries of 2 packages, 6 rule sets, reads and writes that fail | 995,872 | merging and pruning by the rules |

**Bounds.** They are the smallest at which every interesting case happens. Two tokens
and two writers are the least for a partial drain; a third reader lets one queue
behind two. Three sessions let a collection be asked for by one while another is open
and a third starts; two admin requests let one follow the other inside a collection;
one content makes every upload compete for the same blobs. Three requests are two in
one session beside one that repeats what either did. Two distributions are the least
for auto-creation to confuse suite and name. A trimmed chain needs length + 2 releases
before the first cut and more for cuts on cuts: six do for lengths up to 2. Six rule
sets have the limits 0, 1 and none on either side, a first match that hides a second
rule, and one that matches nothing. A client needs one request for the changes file and
one for each of its two files, which is also the least for a file to be queued twice.
Three entries are a source with packages for all and for one architecture, a package of
another architecture that comes later in the index, and a source alone; the patterns
include one that does not compile, the key blobs one of each kind and one key twice.
Three characters hold every pair of loop turns of
`compareComponent`: a run of non-digits, zeros, digits, and one more round.
`MaxReleases` and a client's number of requests are the only bounds that appear in a
guard; sessions, requests and admin requests live once each.

**Symmetry** is used in `collector`, `session` and `publication`, which check safety
only, over constants that the specification treats alike. Runs with liveness use none.

**Deadlock** is checked in `configuration`, where the server can always go on. It is not
in the others: they may really stop, because clients need not come back, two writers
may block each other, and panics end the process.

**History variables.** Some properties hold except after something the code does not
protect against. Five conditions remember it, so that the property is checked in all
other behaviours instead of being given up: `raced` (an admin request and a collection
have overlapped), `shared` (requests that have met another one in their session),
`marred` (a distribution whose publication was cut off by a crash or had a failing
link, until it is published again), `doubtful` (a keyring that cannot sign has been
configured), and `Raised` (some release raised `AutoTrimLength`).
The first two live in the MC modules and only watch; the exceptions themselves are
shown by the violation runs or described in section 6. Others remember a fact the
property needs: `late` (the blobs stored since the collection's mark, which it may leave),
`published` and `failed` (what `AddUpload` has come to) and `dropped` (entries the index
could not take).

**Fairness.** `Governor`: goroutines inside a lock operation or a handler go on, and
the Go runtime serves blocked goroutines in FIFO order, so receiving a token, `RLock`
and `Lock` are strongly fair; nobody has to call. `UploadSession`: request goroutines,
the updater, the handler and timers are weakly fair (requests are finite in number, so
a select that is ready again and again ends up always ready); nobody has to send a
request. `UploadClient`: so is a client that can go on, but no other program is.
`BlobStore`: the writer's goroutine is weakly fair, no system call hangs;
nobody has to call `Close`. `GarbageCollector`, `Publication`, `Configuration`,
`HistoryTrim`, `ReleaseMerge` and `DebVersion` are checked for safety only.

Every property has a mutant: a plausible slip in one action of the model, which stands
in the module just before the action it changes, and under which TLC finds the
property violated.

## 4. What is proved

TLAPS proves the following for every value of the constants. Assumptions on the
constants are the named ASSUMEs of the modules; TLC evaluates them in the runs.

- **GovernorProofs.** `IInv` says what every place implies about the token its
  goroutine holds and about the RWMutex, and that the tokens held and those in the
  channel make Max. Tokens held are counted as a set of pairs (`TokensOf`), so that the
  sum is a cardinality and the step lemmas `TokensAfterReceive` and `TokensAfterSend`
  are about adding or removing one element. From it: types (`TypeCorrect`),
  `Conservation`, `UnLockNeverFails` (the error of `WriteUnLock`, which every caller
  drops, cannot happen), `TokensExclude`, `IdleGovernor`, and the refinement
  `Implements`; `MutualExclusion` follows.
- **GarbageCollectorProofs.** `LockInv`: the count is the cardinality of the sessions that
  hold the collector, no collection is under way while there is one, and what they stored
  is on disk; inductive with the fact that a session that owns the job is being merged.
  `CountNeverNegative` (the panic "GC Lock count has gone negactive" is unreachable),
  `NoCollectionDuringUpload`, `UploadsSurvive`. `CollectionsRun` adds that only uploads
  ask for a collection (`OnlyUploadsCollect`: what is left of an admin request's job is
  writes), so that whoever asks still holds the collector. The mark and the sweep are
  proved for the behaviours in which no admin request and no collection have overlapped,
  `raced \/ KeepInv`: a list of writes is `Good` if it writes no reference before
  everything the release needs is on disk (`Needs`: what the chain of the release refers
  to, the changes files apart) and completes every reference it truncates (`JobInv`; the
  lemmas on lists of writes show each job's list good, and that taking its first write
  leaves a good list); so what a reference points to is on disk (`RefsInv`). A collection
  has found the heads of the references it has gone past (`PhaseInv`), marks exactly what
  is `Reachable`, and leaves of the store what is reachable, what it has still to visit,
  and what has been stored since the mark, by whomever: sessions about to start, sessions
  that are refused, admin requests. `HistoryStays`, `CollectorNeverPanics`,
  `CollectionsAreComplete`. That the distributions are there at the start is the
  assumption `NumDistsAssumption`.
- **UploadSessionProofs.** `UploadInv` ties a session that is being merged to the request
  that waits for it and to the updater, and what a client was shown to what the updater
  has done. `ResultInv`, which is separate because only the client's theorems need it,
  says that a session's result is what `AddUpload` made of its one attempt. `WholeMerges`,
  `SingleMerge`, `SynchronousConfirmation`, `ConsistentStatus`; what is confirmed is that
  `AddUpload` has returned. `RefusalsReported` adds (`RefusalInv`) that requests which
  talk to one session at the same time are all `shared`, and that a request whose file was
  refused, and which is not, has been told or is just about to ask. The client's theorems
  rest on `ServiceInv`, what a client can rely on: a session is there until it expires, a
  request that sends a file has one left, and an upload is complete as soon as all its
  files have been received (`NewInv`, `SendingInv`, `OpenInv`, `WholeInv`). A client's
  request carries what is on its disk, so it is none of `UploadSession`'s own
  `RequestArrives`; the lemmas on the server are therefore about `ServerStep`, in which a
  request arrives with any parts. `TurnInv` says that a client has one request in flight
  at most, all in the session its first one made; `AloneInv` that in a session of its own
  only the last request completes the upload, and is then not refused; `GoodInv` that, if
  nothing is wrong with the files, those that are missing stand at the head of the queue,
  each once. `ClientsInvariant` proves them together, and from them `TrueOutcome` (an
  upload reported complete has been received whole, and merged unless `AddUpload` failed;
  one reported failed has not been given to `AddUpload`) and `GoodUploads` (an upload with
  nothing wrong about it does not fail), for any clients, files and numbers of requests.
- **HistoryTrimProofs.** While no length has been raised, the first release with a
  `TrimAfter` seen from the head is the head itself, so the window is an interval
  whose lower end never falls, and the interval is on disk (`HistoryInv`); once a
  length has been raised it stays raised. `LogAccessible`, `CollectionsEnd`,
  `TrimLength`, for chains of any length. `HistoryMovesOn`: no step lowers the window's
  lower end (`WindowRises`), so what the log no longer shows stays out of it.
- **ConfigurationProofs.** `IInv` says what is written so far at every `done` (the
  union over the entries before it, which the step lemma extends by one), that a job's
  signature is of its files unless `doubtful`, and that a pattern that does not compile
  goes with an empty index. `FilesComplete`, `PoolServes`, `SignaturesFresh`,
  `PatternsServe`, for any indexes, patterns and keys.
- **PublicationProofs.** `PubInv` says of a distribution that nobody works on that it is
  in order (`InOrder`: what it serves is its release, unless marred), and of a job
  what it has done so far: which releases the reference still goes through (`TodoInv`),
  which files are linked (`TreeInv`) and which items (`PoolInv`) at each stage, and
  that a distribution that is being created has no tree (`CreationInv`). The tree has
  to be known at every stage because a crash or a failed link can come after any of
  them, and the next change starts from what they leave. A crash midway mars the
  distribution, of which nothing is then claimed until it is published again.
  `EveryDownloadIsWhole`, `ChangesArePublished`, `NothingIsStale`,
  `ReferencesAreLogged`, for any distributions, items, keys and clients.
- **ReleaseMergeProofs.** `MergeInv`: what the merge has gone past comes before what is
  left (`PlaceInv`); what it has written is what it has gone past, but for what is logged
  as pruned or could not be written (`LogInv`); and the pruner has only been asked about
  packages gone past (`NewestInv`), so that the newest entry of a package is the first it
  sees of it, which it never leaves out. `PrunerInv`: the index being written is what the
  rules retain of the entries gone past, and the pruner, which remembers only the last of
  them, has in its counters the numbers of newer versions and revisions (as cardinalities,
  which grow by the one entry that is next: `NewerInNewVersion`, `NewerInNewRevision`).
  `IndexStaysSorted`, `LogIsComplete`, `NewestStays`, `MergeIsByRule`, for any entries and
  any rules, of what could be read of the old index and but for what could not be written
  to the new one.
- **ReleaseMergeProofs**, on `DebVersion`. `CompareInv`: before a run of digits the two
  places are the same item of the two strings, and the items before it are equal (`At`,
  `Agree`); inside one, `firstdiff` has the sign of the difference of what has been read
  of both numbers, which after their zeros have equally many digits and so reach and
  stay below the same powers of ten (`SameDigits`). Hence a number that goes on when the
  other ends is the greater one, whatever `firstdiff` says (`RunLonger`,
  `SameDigitsLonger`). `ComparesAsPolicy`: the result is the policy's, for strings of
  any length. The policy's order is total and transitive (`StringOrderTransitive`, by
  the first item at which three strings differ), so that `VersionsAreNumbers`: the
  versions of any finite set can be numbered, each with how many are smaller, and
  `ReleaseMerge`'s comparison of numbers is then what `DebVersionCompare` answers. The
  inductions are over the naturals and explicit sets of counterexamples, of which there
  is a least one (`LeastNat`).
- **BlobStoreProofs.** `StoreInv`: only synced files are linked, the temporary name goes
  before the answer. `BlobsWhole` (but for `broken` ones), `TempsRemoved`, and the
  refinement `Implements`: the store is a `BlobSet`, crashes included.

Every safety invariant and every action property of the runs is stated by a theorem.
Only model-checked are the liveness properties (`WriterServed`, `ReaderServed`,
`ClientEnds`, `SessionsEnd`, `CloseReturns`), which depend on fairness and so on
ENABLED, of which the prover knows nothing; and `TextAgrees`, because the policy's text
is stated with RECURSIVE operators, which the prover cannot reason about: that
`StringOrder` is that text is evaluated for all strings of up to three characters.

## 5. Where code and documents disagree

Two runs end in a violation of what a document of the repository says.

- `governor_blocked`: "THis shoudl block until all readers are complete"
  (`governor.go:53-54`). Two writers that drain at once each keep tokens the other
  needs, and block everybody for good. `WriterServed` and `ReaderServed` show that this
  is the only way not to be served, and `Conservation` and `TokensExclude` that
  nothing else is wrong with the lock.
- `collector_config`: "All previous revisions are kept, so no items are ever actaully
  lost" (`README.md:173-174`). A configuration change during a collection loses its blobs.

Seven more are plain from the code and need no run. "Synchronous confirmation of repository
regeneration." (`README.md:11`): `mergeSession`'s error is dropped
(`upload_session.go:189`), and a failed regeneration is confirmed. "Instant feedback on
all failures" (`README.md:12`): when another request's file has cleared the error between
the two calls of `Err()` (`upload_handlers.go:106-107`), the request panics and its
client gets no answer. "Different architectures are treated as different packages"
(`README.md:166`): the pruner tells packages by the source's name (`prune.go:39-40`), and
the order of entries by name and version (`releaseindex.go:133-143`), so that another
architecture of the same source version, uploaded on its own, is `SKIPPRESENT`. "Signing and
verification keys can be updated via the API" (`README.md:20`): after a keyring that is
not exactly one key has been PUT, which is accepted, the signatures stay those of an
older Release file, also for the revision that replaces it (`release.go:152-161`). The
line of Sources.gz in Release has the hash and the size of Sources
(`release.go:450-454`). `.*_0-2` keeps three revisions, not
"the last two" (`README.md:162`), and a trim keeps `AutoTrimLength + 1` parents where
`trim.go:22-23` says "a given number".

## 6. What else the models show

- The changes file of an upload can be collected between `upload_session.go:99` and the
  handler's first line (150); properties of the collector leave changes files out.
- A session that is refused after its changes file has been stored, a keyring that does
  not parse, and a session that expires with some of its files leave blobs that only the
  next collection removes; nothing but a completed upload asks for one.
- Any error of reading the old index ends the merge as its end would
  (`releaseindex.go:216, 223-226`), and errors of writing the new one are ignored
  (232, 243, 261, 277, 292): the release is published without the rest, newest versions
  included, and its log does not say so. `LogExplains`, `MergesByRule` and `NewestKept`
  speak of what could be read and written.
- A `Write` to the store that fails is ignored by some callers (`archivestore.go:536`),
  and their `Close` then links a blob that is not whole; the others return without
  `Close`, and the temporary file and the goroutine stay (`store.go:207-219`).
- A lone deb whose signature fails stays expected and its session cannot complete: it
  ends with its TTL only.
- DELETE of a distribution while the collector lists references ends `ListRefs` early
  (the references not read yet are not marked) or, later, leaves `ForEach` with a nil
  `FileInfo`, which ends the process.
- Raising `AutoTrimLength` can make the next collection walk to an index that is gone
  (`archivestore.go:92`), which ends the process.
- A request that has found its session just before the TTL waits for ever on an
  unbuffered channel (`upload_session.go:214`).
- After a crash in `SetRef` the reference is an empty file. Uploads to it fail and PUT
  is refused; only DELETE and PUT, or an editor and the reflog, bring it back.
- A writer may be told that its blob could not be linked because another writer of the
  same content was faster (`store.go:172-176`).
- When the connection breaks, the upload client closes the body of a nil response and
  panics (`upload_cli.go:125-126`); when its session ends under it, it waits for ever
  (it has no timeout), which is the exception in `ClientEnds`.
- A pool pattern that does not compile is accepted for a distribution without packages;
  the first upload to it then ends the process, and so does every later one
  (`PatternServes`).
- A PUT of a public key as the signing key, where there was none or a usable one, ends
  that handler with a panic: nothing is changed, and the client gets no answer.
- A control blob that cannot be read drops its package from Packages, and a source's
  drops all that came with it, with nothing but a line in the log
  (`release.go:307-311`); the release is published and signed without them.
- An index without any binary has no component, so its sources are in no Sources file.
- A changes file that lists no file is accepted. Its session never completes, because
  only a file can complete it; the client ends with "Upload incomplete, but no files
  expected" (`upload_cli.go:168`), and nothing is merged.
- Two versions that compare as equal may be spelt differently ("1.0" and "1.00"; no
  revision and "-0"). `mergeEntryIntoRelease` takes the second for one that is present,
  while the pruner, which compares spellings (`prune.go:53`), would count two versions.
- An upload that is already in the index causes no new release, even if the rules have
  changed and the merge would prune (`archive.go:358`).

## 7. What is not modelled

Parsing and formatting (`changes.go`, `control.go`, `deb.go`, `DebVersion.String` and
`Parse`) decide what a file is, and the models take the verdict; nothing else depends on
the text. The hashes and sizes that Release lists are a function of the files in
`Configuration`. `NewReleaseIndexEntry` knows one component. An error of
closing the merged index, which ends `mergeEntryIntoRelease` with nothing changed but the
store, is left out of `ReleaseMerge`. Hooks are external commands
whose results change nothing that is modelled. The start of the server and logging keep
no state the rest depends on. Rules are matched by sets of names instead of regular
expressions. Versions are numbers in `ReleaseMerge`, which `VersionsAreNumbers` justifies
but for versions that are equal and spelt differently. GETs change nothing; those that
read under the read lock are the readers of `Governor`.

## 8. Plan

Done, in this order: `Governor` with its abstraction and proofs; `GarbageCollector`;
`UploadSession`; `Publication`; `BlobStore`; the algorithms; `UploadClient`;
`Configuration` with its proofs; `PublicationProofs`; `ReleaseMergeProofs`; the mark and
the sweep in `GarbageCollectorProofs`; the reports of sessions and clients in
`UploadSessionProofs`; `DebVersion` and what `ReleaseMerge` takes from it. Next:

1. `DebVersion`: `String` and `Parse`, and where they are not inverse; rule sets that do
   not parse.
2. A composition of `UploadSession`, `Governor` and `Publication` with the abstract
   lock in place of the detailed one, and an abstract specification of the whole: a
   repository that moves from one release to the next.
