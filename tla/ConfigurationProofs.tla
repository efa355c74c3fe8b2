-------------------------- MODULE ConfigurationProofs --------------------------
(***************************************************************************)
(* Proofs about Configuration: for any indexes, patterns and keyrings,     *)
(* the files list what the index holds, the pool serves what they list,    *)
(* and the signature is fresh as long as every configured key can sign.    *)
(*                                                                         *)
(* The inductive invariant follows the new revision through the handler:   *)
(* while its files are written they list what the entries written so far   *)
(* add; once they are, they are complete for its index and its pattern;    *)
(* once they have been signed, the signature is what its key makes it.     *)
(***************************************************************************)
EXTENDS Configuration, TLAPS

Config == [pool : Patterns, signing : Keyrings \cup {None}, public : SUBSET Keyrings]

Idx == Indexes \cup {<<>>}

TypeInv ==
  /\ pc \in {"idle", "write", "sign", "commit", "down"}
  /\ index \in Idx /\ config \in Config
  /\ doubtful \in BOOLEAN

Working == pc \in {"write", "sign", "commit"}

JobInv == Working => job.index \in Idx /\ job.config \in Config

WriteInv ==
  pc = "write" =>
    /\ done \in 0..Len(job.index)
    /\ DOMAIN written.packages = Archs(job.index)
    /\ \A a \in Archs(job.index) :
         written.packages[a] = UNION {Packages(job.index[i], a) : i \in 1..done}
    /\ written.sources = UNION {Source(job.index[i]) : i \in 1..done}
    /\ done > 0 => job.config.pool # Broken

FilesInv ==
  /\ Complete(files, index, config.pool)
  /\ pc \in {"sign", "commit"} => Complete(written, job.index, job.config.pool)

PatternInv ==
  /\ PatternServes
  /\ pc \in {"sign", "commit"} /\ job.index # <<>> => job.config.pool # Broken

Private(k) == k = None \/ Kind[k] = "private"

SigningInv ==
  /\ ~doubtful => Private(config.signing) /\ signature = SignatureBy(config.signing, files)
  /\ pc \in {"write", "sign"} => signed = signature
  /\ pc = "commit" /\ ~doubtful /\ Private(job.config.signing) =>
       signed = SignatureBy(job.config.signing, written)

TreeInv ==
  tree # None =>
    /\ tree.pool = PoolOf(index, config.pool)
    /\ ~doubtful => tree.pubkey = IF config.signing = None THEN None ELSE KeyOf[config.signing]

IInv == TypeInv /\ JobInv /\ WriteInv /\ FilesInv /\ PatternInv /\ SigningInv /\ TreeInv

------------------------------------------------------------------------------
\* Facts about indexes.
LEMMA IdxSequence ==
  ASSUME NEW idx \in Idx
  PROVE  /\ Len(idx) \in Nat /\ DOMAIN idx = 1..Len(idx)
         /\ Len(idx) = 0 <=> idx = <<>>
  BY IndexesAssumption DEF Idx

LEMMA NoEntries ==
  /\ Elements(<<>>) = {} /\ Archs(<<>>) = {}
  BY DEF Elements, Archs

\* When every entry has been written the files are complete (release.go:286-360).
LEMMA WrittenComplete ==
  ASSUME TypeInv, JobInv, WriteInv, pc = "write", done = Len(job.index)
  PROVE  Complete(written, job.index, job.config.pool)
<1> DEFINE idx == job.index
           p == job.config.pool
<1>1. idx \in Idx
  BY DEF JobInv, Working
<1>2. Elements(idx) = {idx[i] : i \in 1..done}
  BY <1>1, IdxSequence DEF Elements
<1>3. ASSUME NEW a \in Archs(idx) PROVE Lists(written.packages[a], ShouldList(idx, p, a))
  <2>1. written.packages[a] = UNION {Packages(e, a) : e \in Elements(idx)}
    BY <1>2, <1>3 DEF WriteInv
  <2>2. ASSUME NEW e \in Elements(idx)
        PROVE  /\ Packages(e, a) \subseteq {Path(p, e, b.name) : b \in {x \in e.binaries : Serves(x, a)}}
               /\ unreadable = {} =>
                    Packages(e, a) = {Path(p, e, b.name) : b \in {x \in e.binaries : Serves(x, a)}}
    BY <1>3 DEF Packages, Targets, LeftOut, Readable
  <2> QED BY <2>1, <2>2 DEF Lists, ShouldList
<1>4. IF Archs(idx) = {} THEN written.sources = {} ELSE Lists(written.sources, Sources(idx, p))
  <2>1. written.sources = UNION {Source(e) : e \in Elements(idx)}
    BY <1>2 DEF WriteInv
  <2> QED BY <2>1 DEF Source, Lists, Sources, LeftOut, Readable
<1> QED BY <1>3, <1>4 DEF Complete, WriteInv

------------------------------------------------------------------------------
THEOREM InitInv == Init => IInv
<1> SUFFICES ASSUME Init PROVE IInv
  OBVIOUS
<1>1. TypeInv
  <2>1. PICK p \in Patterns : config = [pool |-> p, signing |-> None, public |-> {}]
    BY DEF Init
  <2>2. config \in Config
    BY <2>1 DEF Config
  <2> QED BY <2>2 DEF Init, TypeInv, Idx
<1>3. JobInv /\ WriteInv
  BY DEF Init, JobInv, WriteInv, Working
<1>2. FilesInv
  BY NoEntries DEF Init, FilesInv, Complete, Empty
<1> QED BY <1>1, <1>2, <1>3 DEF Init, IInv, PatternInv, PatternServes, SigningInv, TreeInv, Private, SignatureBy

\* A new revision is begun by a handler that has a lock and an idle distribution.
LEMMA BeginInv ==
  ASSUME IInv, NEW idx \in Idx, NEW cfg \in Config, NEW upload, Begin(idx, cfg, upload)
  PROVE  IInv'
<1> USE DEF Begin, head
<1>1. TypeInv' /\ JobInv'
  BY DEF IInv, TypeInv, JobInv, Working
<1>2. WriteInv'
  <2>1. DOMAIN written'.packages = Archs(idx) /\ \A a \in Archs(idx) : written'.packages[a] = {}
    BY DEF Empty
  <2>2. written'.sources = {}
    BY DEF Empty
  <2>3. done' = 0 /\ 1..0 = {}
    OBVIOUS
  <2>4. job'.index = idx /\ Len(idx) \in Nat
    BY IdxSequence
  <2> QED BY <2>1, <2>2, <2>3, <2>4 DEF WriteInv
<1>3. FilesInv' /\ PatternInv' /\ TreeInv'
  BY DEF IInv, FilesInv, PatternInv, PatternServes, TreeInv, Complete, Lists
<1>4. SigningInv'
  BY DEF IInv, SigningInv
<1> QED BY <1>1, <1>2, <1>3, <1>4 DEF IInv

\* A revision that keeps its parent's files, pattern and signing key.
LEMMA InheritInv ==
  ASSUME IInv, NEW cfg \in Config, cfg.pool = config.pool, cfg.signing = config.signing, Inherit(cfg)
  PROVE  IInv'
<1> USE DEF Inherit, head
<1>1. TypeInv' /\ JobInv' /\ WriteInv'
  BY DEF IInv, TypeInv, JobInv, WriteInv, Working
<1>2. FilesInv'
  BY DEF IInv, FilesInv, Complete, Lists
<1>3. PatternInv' /\ TreeInv'
  BY DEF IInv, PatternInv, PatternServes, TreeInv
<1>4. SigningInv'
  BY DEF IInv, SigningInv, Private, SignatureBy
<1> QED BY <1>1, <1>2, <1>3, <1>4 DEF IInv

LEMMA WriteEntryInv ==
  ASSUME IInv, WriteEntry
  PROVE  IInv'
<1> DEFINE e == job.index[done + 1]
<1> USE DEF WriteEntry, head
<1>0. /\ done \in Nat /\ done + 1 \in 1..Len(job.index) /\ Len(job.index) \in Nat
      /\ 1..(done + 1) = (1..done) \cup {done + 1}
  BY IdxSequence DEF IInv, JobInv, Working, WriteInv
<1>1. TypeInv' /\ JobInv'
  BY DEF IInv, TypeInv, JobInv, Working
<1>2. WriteInv'
  <2>2. job' = job /\ DOMAIN job.index = 1..Len(job.index) /\ done' = done + 1
    BY IdxSequence DEF IInv, JobInv, Working
  <2>3. DOMAIN written'.packages = Archs(job.index)
    BY DEF IInv, WriteInv
  <2>4. (\A a \in Archs(job.index) :
           written.packages[a] = UNION {Packages(job.index[i], a) : i \in 1..done})'
    <3> SUFFICES ASSUME NEW a \in Archs(job.index)
                 PROVE  written'.packages[a] = UNION {Packages(job.index[i], a)' : i \in 1..done'}
      BY <2>2
    <3>1. written'.packages[a] = written.packages[a] \cup Packages(e, a)
      BY DEF IInv, WriteInv
    <3>2. written.packages[a] = UNION {Packages(job.index[i], a) : i \in 1..done}
      BY DEF IInv, WriteInv
    <3>3. \A i : Packages(job.index[i], a)' = Packages(job.index[i], a)
      BY DEF Packages, Targets, LeftOut, Readable
    <3> QED BY <1>0, <2>2, <3>1, <3>2, <3>3
  <2>5. (written.sources = UNION {Source(job.index[i]) : i \in 1..done})'
    <3>1. written'.sources = written.sources \cup Source(e)
      OBVIOUS
    <3>2. written.sources = UNION {Source(job.index[i]) : i \in 1..done}
      BY DEF IInv, WriteInv
    <3>3. \A i : Source(job.index[i])' = Source(job.index[i])
      BY DEF Source, LeftOut, Readable
    <3> QED BY <1>0, <2>2, <3>1, <3>2, <3>3
  <2>6. job.config.pool # Broken
    BY DEF PatternPanics
  <2>7. (DOMAIN written.packages = Archs(job.index))'
    BY <2>2, <2>3
  <2>8. (done \in 0..Len(job.index) /\ (done > 0 => job.config.pool # Broken))'
    BY <1>0, <2>2, <2>6
  <2> QED BY <2>4, <2>5, <2>7, <2>8 DEF WriteInv
<1>3. FilesInv' /\ PatternInv' /\ TreeInv' /\ SigningInv'
  BY DEF IInv, FilesInv, PatternInv, PatternServes, TreeInv, SigningInv, Complete, Lists
<1> QED BY <1>1, <1>2, <1>3 DEF IInv

\* The files are complete, and their pattern has compiled if there was an entry.
LEMMA WriteReleaseInv ==
  ASSUME IInv, WriteRelease
  PROVE  IInv'
<1> USE DEF WriteRelease, head, work
<1>1. TypeInv' /\ JobInv' /\ WriteInv'
  BY DEF IInv, TypeInv, JobInv, WriteInv, Working
<1>2. FilesInv'
  <2>1. Complete(written, job.index, job.config.pool)
    BY WrittenComplete DEF IInv
  <2> QED BY <2>1 DEF IInv, FilesInv, Complete, Lists
<1>3. PatternInv'
  <2>1. job.index # <<>> => done > 0
    BY IdxSequence DEF IInv, JobInv, Working
  <2> QED BY <2>1 DEF IInv, PatternInv, PatternServes, WriteInv
<1>4. TreeInv' /\ SigningInv'
  BY DEF IInv, TreeInv, SigningInv
<1> QED BY <1>1, <1>2, <1>3, <1>4 DEF IInv

\* A private key signs anew; without keys there was no signature (release.go:142-211).
LEMMA SignInv ==
  ASSUME IInv, Sign
  PROVE  IInv'
<1> USE DEF Sign, head
<1>1. TypeInv' /\ JobInv' /\ WriteInv'
  BY DEF IInv, TypeInv, JobInv, WriteInv, Working
<1>2. FilesInv' /\ PatternInv' /\ TreeInv'
  BY DEF IInv, FilesInv, PatternInv, PatternServes, TreeInv, Complete, Lists
<1>3. ASSUME ~doubtful, Private(job.config.signing)
      PROVE  signed' = SignatureBy(job.config.signing, written)
  <2> DEFINE key == job.config.signing
             pkey == config.signing
  <2>1. ~Unusable(key) /\ ~Unusable(pkey) /\ (key # None => Kind[key] # "locked")
    BY <1>3 DEF IInv, SigningInv, Private, Unusable
  <2>2. CASE Resign(key, pkey)
    BY <2>1, <2>2
  <2>3. CASE ~Resign(key, pkey)
    <3>1. key = None /\ pkey = None /\ signed' = signed
      BY <2>1, <2>3 DEF Resign
    <3>2. signed = {}
      BY <1>3, <3>1 DEF IInv, SigningInv, SignatureBy
    <3> QED BY <3>1, <3>2 DEF SignatureBy
  <2> QED BY <2>2, <2>3
<1>4. SigningInv'
  BY <1>3 DEF IInv, SigningInv, Private, SignatureBy
<1> QED BY <1>1, <1>2, <1>4 DEF IInv

LEMMA CommitInv ==
  ASSUME IInv, Commit
  PROVE  IInv'
<1> USE DEF Commit, Over
<1>1. TypeInv' /\ JobInv' /\ WriteInv'
  BY DEF IInv, TypeInv, JobInv, WriteInv, Working
<1>2. FilesInv' /\ PatternInv'
  BY DEF IInv, FilesInv, PatternInv, PatternServes, Complete, Lists
<1>3. ~doubtful' => ~doubtful /\ Private(job.config.signing)
  BY DEF Private
<1>4. SigningInv'
  BY <1>3 DEF IInv, SigningInv, Private, SignatureBy
<1>5. TreeInv'
  <2>1. tree'.pool = PoolOf(index', config'.pool)
    BY DEF PoolOf, Elements, Path
  <2>2. ASSUME ~doubtful'
        PROVE  tree'.pubkey = IF config'.signing = None THEN None ELSE KeyOf[config'.signing]
    <3>1. signed = SignatureBy(job.config.signing, written)
      BY <1>3, <2>2 DEF IInv, SigningInv
    <3>2. ~Unusable(job.config.signing)
      BY <1>3, <2>2 DEF Private, Unusable
    <3>3. signed = {} <=> job.config.signing = None
      BY <3>1 DEF SignatureBy
    <3> QED BY <3>2, <3>3 DEF PubkeyWith
  <2> QED BY <2>1, <2>2 DEF TreeInv
<1> QED BY <1>1, <1>2, <1>4, <1>5 DEF IInv

\* Steps that leave the head alone and no work behind.
LEMMA IdleInv ==
  ASSUME IInv, UNCHANGED <<head, unreadable, doubtful>>, pc' \in {"idle", "down"}
  PROVE  IInv'
<1>1. TypeInv' /\ JobInv' /\ WriteInv'
  BY DEF IInv, TypeInv, JobInv, WriteInv, Working, head
<1>2. FilesInv' /\ PatternInv' /\ TreeInv' /\ SigningInv'
  BY DEF IInv, FilesInv, PatternInv, PatternServes, TreeInv, SigningInv, Complete, Lists, head
<1> QED BY <1>1, <1>2 DEF IInv

LEMMA StepInv == IInv /\ [Next]_vars => IInv'
<1> SUFFICES ASSUME IInv, [Next]_vars PROVE IInv'
  OBVIOUS
<1>0. index \in Idx /\ config \in Config
  BY DEF IInv, TypeInv
<1>1. ASSUME NEW idx \in Indexes, Upload(idx) PROVE IInv'
  BY <1>0, <1>1, BeginInv DEF Upload, Idx
<1>2. ASSUME NEW p \in Patterns, PutConfig(p) PROVE IInv'
  <2>1. [config EXCEPT !.pool = p] \in Config
    BY <1>0 DEF Config
  <2> QED BY <1>0, <1>2, <2>1, BeginInv DEF PutConfig
<1>3. ASSUME NEW k \in Keyrings, PutSigningKey(k) PROVE IInv'
  <2>1. [config EXCEPT !.signing = k] \in Config
    BY <1>0 DEF Config
  <2> QED BY <1>0, <1>3, <2>1, BeginInv DEF PutSigningKey
<1>4. CASE DeleteSigningKey
  <2>1. [config EXCEPT !.signing = None] \in Config
    BY <1>0 DEF Config
  <2> QED BY <1>0, <1>4, <2>1, BeginInv DEF DeleteSigningKey
<1>5. ASSUME NEW k \in Keyrings, PostPublicKey(k) PROVE IInv'
  <2> DEFINE cfg == [config EXCEPT !.public = @ \cup {k}]
  <2>1. cfg \in Config /\ cfg.pool = config.pool /\ cfg.signing = config.signing
    BY <1>0 DEF Config
  <2>2. Inherit(cfg)
    BY <1>5 DEF PostPublicKey
  <2> QED BY <2>1, <2>2, InheritInv
<1>6. ASSUME NEW key, DeletePublicKey(key) PROVE IInv'
  <2> DEFINE cfg == [config EXCEPT !.public = {k \in @ : KeyOf[k] # key}]
  <2>1. cfg \in Config /\ cfg.pool = config.pool /\ cfg.signing = config.signing
    BY <1>0 DEF Config
  <2>2. Inherit(cfg)
    BY <1>6 DEF DeletePublicKey
  <2> QED BY <2>1, <2>2, InheritInv
<1>7. CASE WriteEntry
  BY <1>7, WriteEntryInv
<1>8. CASE WriteRelease
  BY <1>8, WriteReleaseInv
<1>9. CASE Sign
  BY <1>9, SignInv
<1>10. CASE Commit
  BY <1>10, CommitInv
<1>11. CASE WritePanics \/ SignPanics \/ Restart
  BY <1>11, IdleInv DEF WritePanics, SignPanics, Restart, Panic
<1>12. CASE UNCHANGED vars
  BY <1>12 DEF vars, head, work, IInv, TypeInv, JobInv, WriteInv, FilesInv, PatternInv, PatternServes,
     SigningInv, TreeInv, Working, Complete, Lists, Packages, Source, Targets, LeftOut, Readable
<1> QED BY <1>1, <1>2, <1>3, <1>4, <1>5, <1>6, <1>7, <1>8, <1>9, <1>10, <1>11, <1>12 DEF Next

(***************************************************************************)
(* The inductive invariant holds in every reachable state.                 *)
(***************************************************************************)
THEOREM ConfigurationInvariant == Spec => []IInv
  BY InitInv, StepInv, PTL DEF Spec

(***************************************************************************)
(* Packages and Sources list what the index holds, whatever is uploaded    *)
(* and configured (release.go:217-360).                                    *)
(***************************************************************************)
THEOREM FilesComplete == Spec => []PackagesComplete
<1>1. IInv => PackagesComplete
  BY DEF IInv, FilesInv, PackagesComplete
<1> QED BY <1>1, ConfigurationInvariant, PTL

\* What complete files list is in the pool of the same index and pattern.
LEMMA ListedInPool ==
  ASSUME NEW f, NEW idx, NEW p, Complete(f, idx, p)
  PROVE  /\ \A a \in DOMAIN f.packages : f.packages[a] \subseteq PoolOf(idx, p)
         /\ f.sources \subseteq PoolOf(idx, p)
<1>1. \A a : ShouldList(idx, p, a) \subseteq PoolOf(idx, p)
  BY DEF ShouldList, PoolOf
<1>2. Sources(idx, p) \subseteq PoolOf(idx, p)
  BY DEF Sources, PoolOf
<1> QED BY <1>1, <1>2 DEF Complete, Lists

(***************************************************************************)
(* Every path that apt is told to fetch is in the pool (archive.go:239).   *)
(***************************************************************************)
THEOREM PoolServes == Spec => []PoolServesPackages
<1>1. IInv => PoolServesPackages
  BY ListedInPool DEF IInv, FilesInv, TreeInv, PoolServesPackages
<1> QED BY <1>1, ConfigurationInvariant, PTL

(***************************************************************************)
(* The signature and the published key are those of the configured key, as *)
(* long as every key ever configured can sign (release.go:142-211).        *)
(***************************************************************************)
THEOREM SignaturesFresh == Spec => []SignatureFresh
<1>1. IInv => SignatureFresh
  BY DEF IInv, SigningInv, TreeInv, SignatureFresh
<1> QED BY <1>1, ConfigurationInvariant, PTL

(***************************************************************************)
(* A distribution with packages has a pool pattern that compiles           *)
(* (config_handlers.go:170).                                               *)
(***************************************************************************)
THEOREM PatternsServe == Spec => []PatternServes
<1>1. IInv => PatternServes
  BY DEF IInv, PatternInv
<1> QED BY <1>1, ConfigurationInvariant, PTL

===============================================================================
