------------------------------- MODULE Governor -------------------------------
(***************************************************************************)
(* governor.go: the lock around the published repository.  It is a channel *)
(* of Max tokens (one per reader; a writer drains all of them) in front of *)
(* a sync.RWMutex.  Max = 0 means no channel: the RWMutex alone.           *)
(*                                                                         *)
(* Readers are the goroutines of GET requests (handleWithReadLock and the  *)
(* download handler), Writers those of PUT, POST and DELETE requests       *)
(* (handleWithWriteLock) and the updater of the UploadSessionManager.      *)
(* Every blocking operation is one step, so the model has every            *)
(* interleaving of the token channel and the RWMutex.                      *)
(***************************************************************************)
EXTENDS Naturals, FiniteSets

CONSTANTS
  Readers,   \* goroutines that take the read lock
  Writers,   \* goroutines that take the write lock
  Max,       \* NewGovernor's argument: concurrent readers, 0 for no limit
  None       \* "no writer has called rwLock.Lock()"

ASSUME ReadersAssumption == IsFiniteSet(Readers)
ASSUME WritersAssumption == IsFiniteSet(Writers) /\ Readers \cap Writers = {}
ASSUME MaxAssumption == Max \in Nat
ASSUME NoneAssumption == None \notin Readers \cup Writers

Procs == Readers \cup Writers

VARIABLES
  pc,        \* where each goroutine is
  reqs,      \* len(g.reqs), the tokens in the channel
  held,      \* tokens a goroutine has received and not sent back
  rReaders,  \* the goroutines that hold rwLock for reading
  rWriter    \* the goroutine inside rwLock.Lock() or holding it, or None

vars == <<pc, reqs, held, rReaders, rWriter>>

Limited == Max # 0

PCs == {"idle",                                          \* outside the lock
        "take", "rlock", "reading", "put",               \* ReadLock, ReadUnLock
        "drain", "lock", "wait", "writing",              \* WriteLock
        "check", "refill"}                               \* WriteUnLock

TypeOK ==
  /\ pc \in [Procs -> PCs]
  /\ reqs \in 0..Max
  /\ held \in [Procs -> 0..Max]
  /\ rReaders \subseteq Readers
  /\ rWriter \in Writers \cup {None}

Init ==
  /\ pc = [p \in Procs |-> "idle"]
  /\ reqs = Max
  /\ held = [p \in Procs |-> 0]
  /\ rReaders = {}
  /\ rWriter = None

Goto(p, l) == pc' = [pc EXCEPT ![p] = l]

\* <-g.reqs blocks while the channel is empty; g.reqs <- req{} while it is full.
Receive(p) == reqs > 0 /\ reqs' = reqs - 1 /\ held' = [held EXCEPT ![p] = @ + 1]
Send(p)    == reqs < Max /\ reqs' = reqs + 1 /\ held' = [held EXCEPT ![p] = @ - 1]

(***************************************************************************)
(* Readers.                                                                *)
(***************************************************************************)
ReadLock(r) ==
  /\ pc[r] = "idle"
  /\ Goto(r, IF Limited THEN "take" ELSE "rlock")
  /\ UNCHANGED <<reqs, held, rReaders, rWriter>>

\* Mutant: the reader goes past the channel without a token.
ReadTakeFree(r) ==
  /\ pc[r] = "take"
  /\ Goto(r, "rlock")
  /\ UNCHANGED <<reqs, held, rReaders, rWriter>>

ReadTake(r) ==
  /\ pc[r] = "take"
  /\ Receive(r)
  /\ Goto(r, "rlock")
  /\ UNCHANGED <<rReaders, rWriter>>

\* A pending Lock() keeps new readers out of a sync.RWMutex.
RLock(r) ==
  /\ pc[r] = "rlock"
  /\ rWriter = None
  /\ rReaders' = rReaders \cup {r}
  /\ Goto(r, "reading")
  /\ UNCHANGED <<reqs, held, rWriter>>

\* Mutant: the token is not given back.
ReadUnLockKeeps(r) ==
  /\ pc[r] = "reading"
  /\ rReaders' = rReaders \ {r}
  /\ Goto(r, "idle")
  /\ UNCHANGED <<reqs, held, rWriter>>

ReadUnLock(r) ==
  /\ pc[r] = "reading"
  /\ rReaders' = rReaders \ {r}
  /\ Goto(r, IF Limited THEN "put" ELSE "idle")
  /\ UNCHANGED <<reqs, held, rWriter>>

ReadPut(r) ==
  /\ pc[r] = "put"
  /\ Send(r)
  /\ Goto(r, "idle")
  /\ UNCHANGED <<rReaders, rWriter>>

(***************************************************************************)
(* Writers.  The drain loop takes one token per iteration, and any number  *)
(* of writers may be in it at once.                                        *)
(***************************************************************************)
WriteLock(w) ==
  /\ pc[w] = "idle"
  /\ Goto(w, IF Limited THEN "drain" ELSE "lock")
  /\ UNCHANGED <<reqs, held, rReaders, rWriter>>

\* Mutant: the drain loop stops one token early.
WriteDrainShort(w) ==
  /\ pc[w] = "drain"
  /\ Receive(w)
  /\ Goto(w, IF held[w] + 1 >= Max - 1 THEN "lock" ELSE "drain")
  /\ UNCHANGED <<rReaders, rWriter>>

WriteDrain(w) ==
  /\ pc[w] = "drain"
  /\ Receive(w)
  /\ Goto(w, IF held[w] + 1 = Max THEN "lock" ELSE "drain")
  /\ UNCHANGED <<rReaders, rWriter>>

\* rwLock.Lock(): one writer at a time gets past the RWMutex's own mutex ...
LockRequest(w) ==
  /\ pc[w] = "lock"
  /\ rWriter = None
  /\ rWriter' = w
  /\ Goto(w, "wait")
  /\ UNCHANGED <<reqs, held, rReaders>>

\* ... and then waits for the readers inside to leave.
LockAcquire(w) ==
  /\ pc[w] = "wait"
  /\ rReaders = {}
  /\ Goto(w, "writing")
  /\ UNCHANGED <<reqs, held, rReaders, rWriter>>

WriteUnLock(w) ==
  /\ pc[w] = "writing"
  /\ rWriter' = None
  /\ Goto(w, IF Limited THEN "check" ELSE "idle")
  /\ UNCHANGED <<reqs, held, rReaders>>

\* len(g.reqs) # 0: WriteUnLock returns an error, which every caller drops, and
\* puts nothing back.
UnLockFails(w) == pc[w] = "check" /\ reqs # 0

WriteCheck(w) ==
  /\ pc[w] = "check"
  /\ Goto(w, IF UnLockFails(w) THEN "idle" ELSE "refill")
  /\ UNCHANGED <<reqs, held, rReaders, rWriter>>

WriteRefill(w) ==
  /\ pc[w] = "refill"
  /\ Send(w)
  /\ Goto(w, IF held[w] = 1 THEN "idle" ELSE "refill")
  /\ UNCHANGED <<rReaders, rWriter>>

ReadStep(r) ==
  \/ ReadLock(r) \/ ReadTake(r) \/ RLock(r) \/ ReadUnLock(r) \/ ReadPut(r)

WriteStep(w) ==
  \/ WriteLock(w) \/ WriteDrain(w) \/ LockRequest(w) \/ LockAcquire(w)
  \/ WriteUnLock(w) \/ WriteCheck(w) \/ WriteRefill(w)

Next ==
  \/ \E r \in Readers : ReadStep(r)
  \/ \E w \in Writers : WriteStep(w)

Spec == Init /\ [][Next]_vars

(***************************************************************************)
(* Fairness.  A goroutine inside ReadLock ... ReadUnLock or WriteLock ...  *)
(* WriteUnLock keeps going: handlers return.  Goroutines blocked on a      *)
(* channel or a mutex are served in FIFO order by the Go runtime, so one   *)
(* that can proceed again and again does: strong fairness on receiving a   *)
(* token and on RLock and Lock.  Nobody is obliged to call ReadLock or     *)
(* WriteLock.                                                              *)
(***************************************************************************)
ReaderFairness(r) ==
  /\ SF_vars(ReadTake(r)) /\ SF_vars(RLock(r))
  /\ WF_vars(ReadUnLock(r)) /\ WF_vars(ReadPut(r))

WriterFairness(w) ==
  /\ SF_vars(WriteDrain(w)) /\ SF_vars(LockRequest(w)) /\ SF_vars(LockAcquire(w))
  /\ WF_vars(WriteUnLock(w)) /\ WF_vars(WriteCheck(w)) /\ WF_vars(WriteRefill(w))

FairSpec ==
  /\ Spec
  /\ \A r \in Readers : ReaderFairness(r)
  /\ \A w \in Writers : WriterFairness(w)

------------------------------------------------------------------------------
(***************************************************************************)
(* The tokens that goroutines hold, as a set of pairs: its cardinality is  *)
(* the sum of held.                                                        *)
(***************************************************************************)
TokensOf(h) == {x \in Procs \X (1..Max) : x[2] <= h[x[1]]}

Outstanding == TokensOf(held)

(***************************************************************************)
(* The inductive invariant: what each place in the code says about the     *)
(* tokens its goroutine holds and about the RWMutex.                       *)
(***************************************************************************)
ReaderInv ==
  \A r \in Readers :
    /\ pc[r] \in {"idle", "take", "rlock", "reading", "put"}
    /\ pc[r] \in {"take", "put"} => Limited
    /\ held[r] = IF Limited /\ pc[r] \in {"rlock", "reading", "put"} THEN 1 ELSE 0
    /\ r \in rReaders <=> pc[r] = "reading"

WriterInv ==
  \A w \in Writers :
    /\ pc[w] \in {"idle", "drain", "lock", "wait", "writing", "check", "refill"}
    /\ pc[w] \in {"drain", "check", "refill"} => Limited
    /\ pc[w] = "idle" => held[w] = 0
    /\ pc[w] = "drain" => held[w] < Max
    /\ pc[w] \in {"lock", "wait", "writing", "check"} => held[w] = Max
    /\ pc[w] = "refill" => held[w] > 0
    /\ rWriter = w <=> pc[w] \in {"wait", "writing"}
    /\ pc[w] = "writing" => rReaders = {}

(***************************************************************************)
(* No token is lost or duplicated, whatever the order of receives and      *)
(* sends: those in the channel and those held make Max.                    *)
(***************************************************************************)
TokensConserved == reqs + Cardinality(Outstanding) = Max

IInv == TypeOK /\ ReaderInv /\ WriterInv /\ TokensConserved

(***************************************************************************)
(* WriteUnLock's error return ("Tried to unlock when lock not exclusively  *)
(* held"), which would lose Max tokens because every caller ignores it,    *)
(* never happens, however many writers compete.                            *)
(***************************************************************************)
UnLockSucceeds == \A w \in Writers : ~UnLockFails(w)

(***************************************************************************)
(* The tokens alone keep readers out: while a writer is between the end of *)
(* its drain and its rwLock.Unlock, no reader and no other writer is past  *)
(* the channel, so nobody ever blocks on the RWMutex.                      *)
(***************************************************************************)
Draining(p) == pc[p] \in {"idle", "take", "drain"}

DrainedAlone ==
  Limited =>
    \A w \in Writers : pc[w] \in {"lock", "wait", "writing", "check"} =>
      \A p \in Procs \ {w} : Draining(p) /\ held[p] = 0

(***************************************************************************)
(* When everybody is outside, the channel is full again: the next request  *)
(* finds the governor as NewGovernor made it.                              *)
(***************************************************************************)
IdleMeansFull == (\A p \in Procs : pc[p] = "idle") => reqs = Max /\ rWriter = None

(***************************************************************************)
(* The repository as the handlers see it.                                  *)
(***************************************************************************)
Inside == {p \in Procs : pc[p] \in {"reading", "writing"}}

RW == INSTANCE BoundedRW WITH inside <- Inside

\* The governor is a bounded readers-writer lock (handleWithReadLock and
\* handleWithWriteLock, server.go).
Refines == RW!Spec

\* A writer is alone in the repository (server.go:27, "Locks to ensure the repo
\* update is atomic").
WriterAlone == RW!WriterAlone

(***************************************************************************)
(* A goroutine that has called WriteLock gets the lock: "block until all   *)
(* readers are complete" (governor.go:53), and no longer.                  *)
(***************************************************************************)
WriterGetsIn == \A w \in Writers : pc[w] \in {"drain", "lock"} ~> pc[w] = "writing"

(***************************************************************************)
(* Two writers that drain at once are the only way for anybody not to be   *)
(* served: however readers and other writers come and go, and whichever    *)
(* of them gets a token first, a writer gets in, or two writers drain.     *)
(***************************************************************************)
TwoDrain == \E v, w \in Writers : v # w /\ pc[v] = "drain" /\ pc[w] = "drain"

WriterServed ==
  \A w \in Writers : pc[w] \in {"drain", "lock"} ~> pc[w] = "writing" \/ TwoDrain

\* The same of a request that has called ReadLock.
ReaderServed ==
  \A r \in Readers : pc[r] \in {"take", "rlock"} ~> pc[r] = "reading" \/ TwoDrain

===============================================================================
