----------------------------- MODULE Configuration -----------------------------
(***************************************************************************)
(* config_handlers.go and release.go: what an administrator configures,    *)
(* and the Packages, Sources and Release files and signatures that every   *)
(* new revision of a distribution gets.                                    *)
(*                                                                         *)
(* updateReleasefiles reads the index twice: once for the architectures,   *)
(* once, one entry per step here, to write the paragraphs.  Then it signs, *)
(* unless nothing has changed since the parent.  Requests and uploads have *)
(* the write lock (Governor), so there is one at a time; what crashes and  *)
(* failing links do to the last step is module Publication.                *)
(*                                                                         *)
(* A file is the set of its paragraphs, which are in the order of the      *)
(* index, and a paragraph the path its Filename or Directory gives.  The   *)
(* Release file lists the hashes of the others: it is the same when they   *)
(* are.                                                                    *)
(* NewReleaseIndexEntry knows one component, "main".                       *)
(***************************************************************************)
EXTENDS Integers, Sequences, FiniteSets

CONSTANTS
  Indexes,     \* what AddUpload may come to: sequences of entries
  Patterns,    \* pool patterns
  Broken,      \* the one that is not a regular expression
  Directory,   \* what PoolFilePath makes of a pattern and a source's name
  Keyrings,    \* blobs with armored keys
  Kind,        \* "private": one private key; "locked": it has a passphrase;
               \* "public": one public key; "many": not one key
  KeyOf,       \* its key, when it is one
  Unreadable,  \* the sets of items whose control data may be lost
  None

ASSUME KeysAssumption ==
  /\ \A k \in Keyrings : Kind[k] \in {"private", "locked", "public", "many"}
  /\ None \notin Keyrings

ASSUME PatternsAssumption == Broken \in Patterns

\* An index is a sequence.
ASSUME IndexesAssumption == \A idx \in Indexes : idx \in Seq({idx[i] : i \in DOMAIN idx})

VARIABLES
  index,       \* the head's entries: [source, version, dsc, binaries]
  config,      \* the head's [pool, signing, public]
  files,       \* the head's [packages, sources]
  signature,   \* InRelease and Release.gpg: at most one [key, of]
  tree,        \* the public tree's [pool, pubkey], or None before there is one
  pc,          \* "idle", "write", "sign", "commit"; "down" when the process has ended
  job,         \* the new revision: [index, config, upload]
  done,        \* the number of entries written
  written,     \* the files being written
  signed,      \* the new revision's signature
  unreadable,  \* the items whose control data cannot be read
  doubtful     \* history: a keyring that cannot sign has been the signing key

head == <<index, config, files, signature, tree>>
work == <<job, done, written, signed>>
vars == <<head, pc, work, unreadable, doubtful>>

------------------------------------------------------------------------------
Elements(s) == {s[i] : i \in DOMAIN s}

Archs(idx) == UNION {{b.arch : b \in e.binaries} : e \in Elements(idx)}

Path(p, e, f) == <<Directory[p][e.source], e.source, e.version, f>>

\* Where an architecture's Packages file takes its packages from.
Serves(b, arch) == b.arch = arch \/ b.arch = "all"

Empty(idx) == [packages |-> [a \in Archs(idx) |-> {}], sources |-> {}]

\* The handler or the updater has returned, with what it had not stored.
Over == job' = None /\ done' = 0 /\ written' = Empty(<<>>) /\ signed' = {}

\* The signing key: the one entity of the keyring.
Unusable(k) == k # None /\ Kind[k] = "many"

------------------------------------------------------------------------------
\* NewChild, with a new index or a new configuration, and the first pass.
Begin(idx, cfg, upload) ==
  /\ pc = "idle"
  /\ pc' = "write"
  /\ job' = [index |-> idx, config |-> cfg, upload |-> upload]
  /\ done' = 0 /\ written' = Empty(idx) /\ signed' = signature
  /\ UNCHANGED <<head, unreadable, doubtful>>

\* The public key handlers change nothing that the files depend on: the new revision
\* has its parent's.
Inherit(cfg) ==
  /\ pc = "idle"
  /\ pc' = "commit"
  /\ job' = [index |-> index, config |-> cfg, upload |-> FALSE]
  /\ done' = 0 /\ written' = files /\ signed' = signature
  /\ UNCHANGED <<head, unreadable, doubtful>>

\* The updater has merged an upload.
Upload(idx) == idx # index /\ Begin(idx, config, TRUE)

\* Mutant: a new pool pattern does not touch the files.
PutConfigInherits(p) == p # config.pool /\ Inherit([config EXCEPT !.pool = p])

\* PUT of what is configured already makes no revision.
PutConfig(p) == p # config.pool /\ Begin(index, [config EXCEPT !.pool = p], FALSE)

PutSigningKey(k) == k # config.signing /\ Begin(index, [config EXCEPT !.signing = k], FALSE)

DeleteSigningKey ==
  config.signing # None /\ Begin(index, [config EXCEPT !.signing = None], FALSE)

\* One key at a time, and only one that is not there.
PostPublicKey(k) ==
  /\ Kind[k] # "many"
  /\ \A known \in config.public : KeyOf[known] # KeyOf[k]
  /\ Inherit([config EXCEPT !.public = @ \cup {k}])

DeletePublicKey(key) ==
  /\ \E k \in config.public : KeyOf[k] = key
  /\ Inherit([config EXCEPT !.public = {k \in @ : KeyOf[k] # key}])

------------------------------------------------------------------------------
(***************************************************************************)
(* A pool pattern that does not compile is nil, and dereferenced for the   *)
(* first entry.  net/http recovers a handler and its lock is released; the *)
(* updater takes the process with it.                                      *)
(***************************************************************************)
Panic ==
  /\ pc' = IF job.upload THEN "down" ELSE "idle"
  /\ Over
  /\ UNCHANGED <<head, unreadable, doubtful>>

\* Mutant: a pattern that does not compile is one that matches nothing.
PanicsNever == FALSE

PatternPanics == job.config.pool = Broken

Item(e, what) == <<e.source, e.version, what>>

Readable(e, what) == Item(e, what) \notin unreadable

\* Mutant: one pass, which knows the architectures it has met.
MetArchs(b) == {a \in Archs(SubSeq(job.index, 1, done + 1)) : Serves(b, a)}

\* The Packages files a binary goes to: "all" to those of every architecture.
Targets(b) == {a \in Archs(job.index) : Serves(b, a)}

\* An entry whose source's control data cannot be read is left out altogether.
LeftOut(e) == e.dsc /\ ~Readable(e, "dsc")

\* What an entry adds to an architecture's Packages, and to Sources.  The source of an
\* index without binaries has no component to go to.
Packages(e, a) ==
  IF LeftOut(e) THEN {}
  ELSE {Path(job.config.pool, e, b.name) :
          b \in {x \in e.binaries : a \in Targets(x) /\ Readable(e, x.name)}}

Source(e) ==
  IF e.dsc /\ ~LeftOut(e) /\ Archs(job.index) # {}
  THEN {Path(job.config.pool, e, "dsc")}
  ELSE {}

WriteEntry ==
  LET e == job.index[done + 1]
  IN /\ pc = "write" /\ done < Len(job.index)
     /\ ~PatternPanics
     /\ written' = [packages |-> [a \in DOMAIN written.packages |->
                                   written.packages[a] \cup Packages(e, a)],
                    sources |-> written.sources \cup Source(e)]
     /\ done' = done + 1
     /\ UNCHANGED <<head, pc, job, signed, unreadable, doubtful>>

WritePanics ==
  /\ pc = "write" /\ done < Len(job.index)
  /\ PatternPanics
  /\ Panic

WriteRelease ==
  /\ pc = "write" /\ done = Len(job.index)
  /\ pc' = "sign"
  /\ UNCHANGED <<head, work, unreadable, doubtful>>

------------------------------------------------------------------------------
(***************************************************************************)
(* updateReleaseSigFiles.  The keys compared are pointers to entities that *)
(* have just been read, so they differ unless there is none.               *)
(***************************************************************************)
\* Mutant: only a new Release file is signed.
ResignNew(key, pkey) == written # files

Resign(key, pkey) == key # None \/ pkey # None \/ written # files

SignatureBy(key, release) == IF key = None THEN {} ELSE {[key |-> KeyOf[key], of |-> release]}

Sign ==
  LET key == job.config.signing
      pkey == config.signing
      fails == Unusable(pkey) \/ Unusable(key) \/ (key # None /\ Kind[key] = "locked")
  IN /\ pc = "sign"
     /\ key # None /\ ~Unusable(pkey) => Kind[key] # "public"
     /\ signed' = IF ~fails /\ Resign(key, pkey) THEN SignatureBy(key, written) ELSE signed
     /\ pc' = "commit"
     /\ UNCHANGED <<head, job, done, written, unreadable, doubtful>>

\* A key without its private part is nil, and dereferenced.
SignPanics ==
  /\ pc = "sign"
  /\ job.config.signing # None /\ Kind[job.config.signing] = "public"
  /\ ~Unusable(config.signing)
  /\ Panic

\* AddRelease, SetDist and ReifyRelease with its updatePool.
PoolOf(idx, p) ==
  UNION {{Path(p, e, b.name) : b \in e.binaries}
           \cup (IF e.dsc THEN {Path(p, e, "dsc")} ELSE {}) : e \in Elements(idx)}

\* pubkey.gpg goes with a signature, when the key can be read.
PubkeyWith(sig, k) == IF sig = {} \/ k = None \/ Unusable(k) THEN None ELSE KeyOf[k]

Commit ==
  /\ pc = "commit"
  /\ pc' = "idle"
  /\ index' = job.index /\ config' = job.config
  /\ files' = written /\ signature' = signed
  /\ tree' = [pool |-> PoolOf(job.index, job.config.pool),
              pubkey |-> PubkeyWith(signed, job.config.signing)]
  /\ doubtful' = (doubtful \/ (job.config.signing # None /\ Kind[job.config.signing] # "private"))
  /\ Over
  /\ UNCHANGED unreadable

\* The process is started again; nothing of the upload is left.
Restart ==
  /\ pc = "down"
  /\ pc' = "idle"
  /\ UNCHANGED <<head, work, unreadable, doubtful>>

------------------------------------------------------------------------------
\* A distribution that has been created, which publishes nothing yet.
Init ==
  /\ index = <<>>
  /\ config \in {[pool |-> p, signing |-> None, public |-> {}] : p \in Patterns \ {Broken}}
  /\ files = Empty(<<>>)
  /\ signature = {}
  /\ tree = None
  /\ pc = "idle"
  /\ job = None /\ done = 0 /\ written = Empty(<<>>) /\ signed = {}
  /\ unreadable \in Unreadable
  /\ doubtful = FALSE

Next ==
  \/ \E idx \in Indexes : Upload(idx)
  \/ \E p \in Patterns : PutConfig(p)
  \/ \E k \in Keyrings : PutSigningKey(k) \/ PostPublicKey(k)
  \/ \E k \in Keyrings : DeletePublicKey(KeyOf[k])
  \/ DeleteSigningKey
  \/ WriteEntry \/ WritePanics \/ WriteRelease
  \/ Sign \/ SignPanics
  \/ Commit \/ Restart

Spec == Init /\ [][Next]_vars

------------------------------------------------------------------------------
(***************************************************************************)
(* The Packages of an architecture lists every package of the index that   *)
(* is for it, those for "all" wherever they are in the index; and Sources  *)
(* every source (release.go:217-360).  A package whose control data cannot *)
(* be read may be missing, and so may what came with a source like that;   *)
(* nothing else ever is.  (The sources of an index without any binary are  *)
(* not listed: there is no component to list them in.)                     *)
(***************************************************************************)
ShouldList(idx, p, arch) ==
  UNION {{Path(p, e, b.name) : b \in {x \in e.binaries : Serves(x, arch)}} : e \in Elements(idx)}

Sources(idx, p) == {Path(p, e, "dsc") : e \in {x \in Elements(idx) : x.dsc}}

Lists(file, paths) == file \subseteq paths /\ (unreadable = {} => file = paths)

Complete(f, idx, p) ==
  /\ DOMAIN f.packages = Archs(idx)
  /\ \A arch \in Archs(idx) : Lists(f.packages[arch], ShouldList(idx, p, arch))
  /\ IF Archs(idx) = {} THEN f.sources = {} ELSE Lists(f.sources, Sources(idx, p))

PackagesComplete == Complete(files, index, config.pool)

(***************************************************************************)
(* What apt is told to fetch is there: every path in a Packages or Sources *)
(* file is one the pool has, whatever has become of the pool pattern since *)
(* the package was uploaded (release.go:300, archive.go:239).              *)
(***************************************************************************)
PoolServesPackages ==
  tree # None =>
    /\ \A arch \in DOMAIN files.packages : files.packages[arch] \subseteq tree.pool
    /\ files.sources \subseteq tree.pool

(***************************************************************************)
(* The published signature is by the configured key, of the published      *)
(* files, and comes with that key; without a key there is none.  This      *)
(* holds as long as nothing but single private keys without a passphrase   *)
(* have been configured.  (After a keyring of two keys the signature stays *)
(* that of an older Release file, also when the key has been replaced or   *)
(* deleted: release.go:151-158.)                                           *)
(***************************************************************************)
SignatureFresh ==
  ~doubtful =>
    /\ signature = SignatureBy(config.signing, files)
    /\ tree # None =>
         tree.pubkey = IF config.signing = None THEN None ELSE KeyOf[config.signing]

(***************************************************************************)
(* A distribution with packages has a pool pattern that works: one that    *)
(* does not compile is only ever configured where nothing has been         *)
(* uploaded, since the handler that rewrites an index panics before it     *)
(* stores anything (config_handlers.go:170).  The first upload after it    *)
(* then ends the process, every time.                                      *)
(***************************************************************************)
PatternServes == index # <<>> => config.pool # Broken

===============================================================================
