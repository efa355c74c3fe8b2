---------------------------- MODULE GovernorProofs ----------------------------
(***************************************************************************)
(* What holds of the Governor for every set of readers and writers and     *)
(* every Max: the tokens are conserved, so a writer that has drained the   *)
(* channel is alone behind it, so WriteUnLock never fails, and the lock    *)
(* implements the bounded readers-writer lock of BoundedRW.                *)
(***************************************************************************)
EXTENDS Governor, FiniteSetTheorems, TLAPS

(***************************************************************************)
(* The token sets: finite, and one pair larger or smaller after a receive  *)
(* or a send.                                                              *)
(***************************************************************************)
LEMMA TokensFinite ==
  ASSUME NEW h \in [Procs -> 0..Max]
  PROVE  IsFiniteSet(TokensOf(h)) /\ Cardinality(TokensOf(h)) \in Nat
<1>1. IsFiniteSet(Procs)
  BY FS_Union, ReadersAssumption, WritersAssumption DEF Procs
<1>2. IsFiniteSet(1..Max)
  BY FS_Interval, MaxAssumption
<1>3. IsFiniteSet(Procs \X (1..Max))
  BY <1>1, <1>2, FS_Product
<1>4. TokensOf(h) \in SUBSET (Procs \X (1..Max))
  BY DEF TokensOf
<1>5. IsFiniteSet(TokensOf(h))
  BY <1>3, <1>4, FS_Subset
<1> QED
  BY <1>5, FS_CardinalityType

\* A receive adds one pair to the tokens outstanding.
LEMMA TokensAfterReceive ==
  ASSUME NEW h \in [Procs -> 0..Max], NEW p \in Procs, h[p] < Max
  PROVE  LET g == [h EXCEPT ![p] = @ + 1]
         IN  /\ g \in [Procs -> 0..Max]
             /\ Cardinality(TokensOf(g)) = Cardinality(TokensOf(h)) + 1
<1> DEFINE g == [h EXCEPT ![p] = @ + 1]
           new == <<p, h[p] + 1>>
<1> USE MaxAssumption
<1>1. h[p] \in 0..Max /\ h[p] + 1 \in 1..Max
  OBVIOUS
<1>2. g \in [Procs -> 0..Max]
  BY <1>1
<1>3. new \in Procs \X (1..Max) /\ new \notin TokensOf(h)
  BY <1>1 DEF TokensOf
<1>4. ASSUME NEW x \in Procs \X (1..Max)
      PROVE  x \in TokensOf(g) <=> x \in TokensOf(h) \cup {new}
  <2>1. x = <<x[1], x[2]>> /\ x[1] \in Procs /\ x[2] \in 1..Max
    OBVIOUS
  <2>2. CASE x[1] = p
    <3>1. x[2] <= h[p] + 1 <=> x[2] <= h[p] \/ x[2] = h[p] + 1
      BY <1>1, <2>1
    <3>2. x = new <=> x[2] = h[p] + 1
      BY <2>1, <2>2
    <3> QED
      BY <1>1, <2>1, <2>2, <3>1, <3>2 DEF TokensOf
  <2>3. CASE x[1] # p
    BY <2>1, <2>3 DEF TokensOf
  <2> QED
    BY <2>2, <2>3
<1>5. TokensOf(g) = TokensOf(h) \cup {new}
  BY <1>3, <1>4 DEF TokensOf
<1>6. Cardinality(TokensOf(h) \cup {new}) = Cardinality(TokensOf(h)) + 1
  BY <1>3, TokensFinite, FS_AddElement
<1> QED
  BY <1>2, <1>5, <1>6

\* A send takes one pair away: it is a receive read backwards.
LEMMA TokensAfterSend ==
  ASSUME NEW h \in [Procs -> 0..Max], NEW p \in Procs, h[p] > 0
  PROVE  LET g == [h EXCEPT ![p] = @ - 1]
         IN  /\ g \in [Procs -> 0..Max]
             /\ Cardinality(TokensOf(g)) = Cardinality(TokensOf(h)) - 1
<1> DEFINE g == [h EXCEPT ![p] = @ - 1]
<1> USE MaxAssumption
<1>1. g \in [Procs -> 0..Max] /\ g[p] = h[p] - 1 /\ g[p] < Max
  OBVIOUS
<1>2. h = [g EXCEPT ![p] = @ + 1]
  <2> DEFINE k == [g EXCEPT ![p] = @ + 1]
  <2>1. k \in [Procs -> Int] /\ h \in [Procs -> Int]
    BY <1>1
  <2>2. ASSUME NEW q \in Procs
        PROVE  k[q] = h[q]
    BY <1>1
  <2> HIDE DEF k
  <2>3. h = k
    BY <2>1, <2>2
  <2> QED
    BY <2>3 DEF k
<1>3. Cardinality(TokensOf(h)) = Cardinality(TokensOf(g)) + 1
  BY <1>1, <1>2, TokensAfterReceive
<1>4. Cardinality(TokensOf(g)) \in Nat /\ Cardinality(TokensOf(h)) \in Nat
  BY <1>1, TokensFinite
<1> QED
  BY <1>1, <1>3, <1>4

LEMMA NoTokens ==
  ASSUME NEW h \in [Procs -> 0..Max], \A p \in Procs : h[p] = 0
  PROVE  Cardinality(TokensOf(h)) = 0
<1>1. TokensOf(h) = {}
  BY MaxAssumption DEF TokensOf
<1> QED
  BY <1>1, FS_EmptySet

\* Whoever holds Max tokens holds them all.
LEMMA AllTokens ==
  ASSUME NEW h \in [Procs -> 0..Max], NEW p \in Procs, h[p] = Max,
         Cardinality(TokensOf(h)) <= Max
  PROVE  /\ Cardinality(TokensOf(h)) = Max
         /\ \A q \in Procs \ {p} : h[q] = 0
<1> USE MaxAssumption
<1> DEFINE S == {p} \X (1..Max)
           f == [i \in 1..Max |-> <<p, i>>]
<1>1. S \in SUBSET TokensOf(h)
  BY DEF TokensOf
<1>2. IsFiniteSet(1..Max) /\ Cardinality(1..Max) = Max
  BY FS_Interval
<1>3. f \in Bijection(1..Max, S)
  <2>1. f \in [1..Max -> S]
    OBVIOUS
  <2>2. \A i, j \in 1..Max : f[i] = f[j] => i = j
    OBVIOUS
  <2>3. \A t \in S : \E i \in 1..Max : f[i] = t
    OBVIOUS
  <2> HIDE DEF f, S
  <2> QED
    BY <2>1, <2>2, <2>3 DEF Bijection, Injection, Surjection, IsInjective
<1>4. IsFiniteSet(S) /\ Cardinality(S) = Max
  BY <1>2, <1>3, FS_Bijection DEF ExistsBijection
<1>5. /\ Cardinality(S) <= Cardinality(TokensOf(h))
      /\ Cardinality(S) = Cardinality(TokensOf(h)) => S = TokensOf(h)
  BY <1>1, TokensFinite, FS_Subset
<1>6. Cardinality(TokensOf(h)) = Max /\ S = TokensOf(h)
  BY <1>4, <1>5, TokensFinite
<1>7. ASSUME NEW q \in Procs \ {p}, h[q] # 0
      PROVE  FALSE
  <2>1. <<q, 1>> \in TokensOf(h)
    BY <1>7 DEF TokensOf
  <2> QED
    BY <1>6, <1>7, <2>1
<1> QED
  BY <1>6, <1>7

------------------------------------------------------------------------------
(***************************************************************************)
(* The inductive invariant.  A step of p changes pc, held and the RWMutex  *)
(* at p alone; the number of tokens changes only with Receive and Send.    *)
(***************************************************************************)
LEMMA InitIInv == Init => IInv
<1> SUFFICES ASSUME Init PROVE IInv
  OBVIOUS
<1>1. TypeOK
  BY MaxAssumption DEF Init, TypeOK, PCs
<1>2. ReaderInv
  BY NoneAssumption DEF Init, ReaderInv, Procs
<1>3. WriterInv
  BY NoneAssumption DEF Init, WriterInv, Procs
<1>4. TokensConserved
  <2>1. held \in [Procs -> 0..Max] /\ \A p \in Procs : held[p] = 0
    BY MaxAssumption DEF Init
  <2>2. Cardinality(Outstanding) = 0
    BY <2>1, NoTokens DEF Outstanding
  <2> QED
    BY <2>2, MaxAssumption DEF Init, TokensConserved
<1> QED
  BY <1>1, <1>2, <1>3, <1>4 DEF IInv

\* What a receive and a send keep: the types, and the number of tokens.
LEMMA ReceiveKeeps ==
  ASSUME IInv, NEW p \in Procs, Receive(p), held[p] < Max
  PROVE  /\ reqs' \in 0..Max /\ held' \in [Procs -> 0..Max]
         /\ held' = [held EXCEPT ![p] = held[p] + 1]
         /\ TokensConserved'
<1>1. held \in [Procs -> 0..Max] /\ reqs \in 0..Max /\ Max \in Nat
  BY MaxAssumption DEF IInv, TypeOK
<1>2. /\ held' \in [Procs -> 0..Max]
      /\ Cardinality(TokensOf(held')) = Cardinality(TokensOf(held)) + 1
  BY <1>1, TokensAfterReceive DEF Receive
<1>3. Cardinality(TokensOf(held)) \in Nat
  BY <1>1, TokensFinite
<1> QED
  BY <1>1, <1>2, <1>3 DEF IInv, Receive, TokensConserved, Outstanding

LEMMA SendKeeps ==
  ASSUME IInv, NEW p \in Procs, Send(p), held[p] > 0
  PROVE  /\ reqs' \in 0..Max /\ held' \in [Procs -> 0..Max]
         /\ held' = [held EXCEPT ![p] = held[p] - 1]
         /\ TokensConserved'
<1>1. held \in [Procs -> 0..Max] /\ reqs \in 0..Max /\ Max \in Nat
  BY MaxAssumption DEF IInv, TypeOK
<1>2. /\ held' \in [Procs -> 0..Max]
      /\ Cardinality(TokensOf(held')) = Cardinality(TokensOf(held)) - 1
  BY <1>1, TokensAfterSend DEF Send
<1>3. Cardinality(TokensOf(held)) \in Nat
  BY <1>1, TokensFinite
<1> QED
  BY <1>1, <1>2, <1>3 DEF IInv, Send, TokensConserved, Outstanding

LEMMA UnchangedKeepsTokens ==
  ASSUME TokensConserved, UNCHANGED <<reqs, held>>
  PROVE  TokensConserved'
BY DEF TokensConserved, Outstanding, TokensOf

\* A writer that has drained the channel holds every token.
LEMMA DrainedTokens ==
  ASSUME IInv, NEW w \in Writers, pc[w] \in {"lock", "wait", "writing", "check"}
  PROVE  reqs = 0 /\ \A p \in Procs \ {w} : held[p] = 0
<1>1. /\ held \in [Procs -> 0..Max] /\ reqs \in 0..Max /\ Max \in Nat
      /\ w \in Procs /\ held[w] = Max
  BY MaxAssumption DEF IInv, TypeOK, WriterInv, Procs
<1>2. Cardinality(Outstanding) \in Nat
  BY <1>1, TokensFinite DEF Outstanding
<1>3. reqs + Cardinality(Outstanding) = Max
  BY DEF IInv, TokensConserved
<1>4. Cardinality(TokensOf(held)) <= Max
  BY <1>1, <1>2, <1>3 DEF Outstanding
<1>5. Cardinality(Outstanding) = Max /\ \A p \in Procs \ {w} : held[p] = 0
  BY <1>1, <1>4, AllTokens DEF Outstanding
<1> QED
  BY <1>1, <1>3, <1>5

LEMMA ReadStepIInv ==
  ASSUME IInv, NEW r \in Readers, ReadStep(r)
  PROVE  IInv'
<1> USE MaxAssumption, NoneAssumption, WritersAssumption
<1> USE DEF Goto, Procs
<1>0. TypeOK /\ ReaderInv /\ WriterInv /\ TokensConserved /\ r \in Procs /\ r \notin Writers
  BY DEF IInv
<1>1. CASE ReadLock(r)
  <2>1. TypeOK'
    BY <1>0, <1>1 DEF TypeOK, PCs, ReadLock
  <2>2. ReaderInv'
    BY <1>0, <1>1 DEF TypeOK, ReaderInv, ReadLock
  <2>3. WriterInv'
    BY <1>0, <1>1 DEF TypeOK, WriterInv, ReadLock
  <2>4. TokensConserved'
    BY <1>0, <1>1, UnchangedKeepsTokens DEF ReadLock
  <2> QED
    BY <2>1, <2>2, <2>3, <2>4 DEF IInv
<1>2. CASE ReadTake(r)
  <2>0. /\ reqs' \in 0..Max /\ held' \in [Procs -> 0..Max]
        /\ held' = [held EXCEPT ![r] = held[r] + 1]
        /\ TokensConserved'
    <3>1. Receive(r) /\ pc[r] = "take"
      BY <1>2 DEF ReadTake
    <3>2. held[r] = 0 /\ Limited
      BY <1>0, <3>1 DEF ReaderInv
    <3>3. held[r] < Max
      BY <3>2 DEF Limited
    <3> QED
      BY <1>0, <3>1, <3>3, ReceiveKeeps
  <2>1. TypeOK'
    BY <1>0, <1>2, <2>0 DEF TypeOK, PCs, ReadTake
  <2>2. ReaderInv'
    BY <1>0, <1>2, <2>0 DEF TypeOK, ReaderInv, ReadTake
  <2>3. WriterInv'
    BY <1>0, <1>2, <2>0 DEF TypeOK, WriterInv, ReadTake
  <2> QED
    BY <2>0, <2>1, <2>2, <2>3 DEF IInv
<1>3. CASE RLock(r)
  <2>1. TypeOK'
    BY <1>0, <1>3 DEF TypeOK, PCs, RLock
  <2>2. ReaderInv'
    BY <1>0, <1>3 DEF TypeOK, ReaderInv, RLock
  <2>3. WriterInv'
    BY <1>0, <1>3 DEF TypeOK, WriterInv, RLock
  <2>4. TokensConserved'
    BY <1>0, <1>3, UnchangedKeepsTokens DEF RLock
  <2> QED
    BY <2>1, <2>2, <2>3, <2>4 DEF IInv
<1>4. CASE ReadUnLock(r)
  <2>1. TypeOK'
    BY <1>0, <1>4 DEF TypeOK, PCs, ReadUnLock
  <2>2. ReaderInv'
    BY <1>0, <1>4 DEF TypeOK, ReaderInv, ReadUnLock
  <2>3. WriterInv'
    BY <1>0, <1>4 DEF TypeOK, WriterInv, ReadUnLock
  <2>4. TokensConserved'
    BY <1>0, <1>4, UnchangedKeepsTokens DEF ReadUnLock
  <2> QED
    BY <2>1, <2>2, <2>3, <2>4 DEF IInv
<1>5. CASE ReadPut(r)
  <2>0. /\ reqs' \in 0..Max /\ held' \in [Procs -> 0..Max]
        /\ held' = [held EXCEPT ![r] = held[r] - 1]
        /\ TokensConserved'
    <3>1. Send(r) /\ pc[r] = "put"
      BY <1>5 DEF ReadPut
    <3>2. held[r] = 1
      BY <1>0, <3>1 DEF ReaderInv
    <3> QED
      BY <1>0, <3>1, <3>2, SendKeeps
  <2>1. TypeOK'
    BY <1>0, <1>5, <2>0 DEF TypeOK, PCs, ReadPut
  <2>2. ReaderInv'
    BY <1>0, <1>5, <2>0 DEF TypeOK, ReaderInv, ReadPut
  <2>3. WriterInv'
    BY <1>0, <1>5, <2>0 DEF TypeOK, WriterInv, ReadPut
  <2> QED
    BY <2>0, <2>1, <2>2, <2>3 DEF IInv
<1> QED
  BY <1>1, <1>2, <1>3, <1>4, <1>5 DEF ReadStep

LEMMA WriteStepIInv ==
  ASSUME IInv, NEW w \in Writers, WriteStep(w)
  PROVE  IInv'
<1> USE MaxAssumption, NoneAssumption, WritersAssumption
<1> USE DEF Goto, Procs
<1>0. TypeOK /\ ReaderInv /\ WriterInv /\ TokensConserved /\ w \in Procs /\ w \notin Readers
  BY DEF IInv
<1>1. CASE WriteLock(w)
  <2>1. TypeOK'
    BY <1>0, <1>1 DEF TypeOK, PCs, WriteLock
  <2>2. ReaderInv'
    BY <1>0, <1>1 DEF TypeOK, ReaderInv, WriteLock
  <2>3. WriterInv'
    BY <1>0, <1>1 DEF TypeOK, WriterInv, WriteLock, Limited
  <2>4. TokensConserved'
    BY <1>0, <1>1, UnchangedKeepsTokens DEF WriteLock
  <2> QED
    BY <2>1, <2>2, <2>3, <2>4 DEF IInv
<1>2. CASE WriteDrain(w)
  <2>0. /\ reqs' \in 0..Max /\ held' \in [Procs -> 0..Max]
        /\ held' = [held EXCEPT ![w] = held[w] + 1]
        /\ TokensConserved'
    BY <1>0, <1>2, ReceiveKeeps DEF WriteDrain, WriterInv
  <2>1. TypeOK'
    BY <1>0, <1>2, <2>0 DEF TypeOK, PCs, WriteDrain
  <2>2. ReaderInv'
    BY <1>0, <1>2, <2>0 DEF TypeOK, ReaderInv, WriteDrain
  <2>3. WriterInv'
    <3>1. held[w] < Max /\ held[w] \in 0..Max
      BY <1>0, <1>2 DEF TypeOK, WriterInv, WriteDrain
    <3> QED
      BY <1>0, <1>2, <2>0, <3>1 DEF TypeOK, WriterInv, WriteDrain
  <2> QED
    BY <2>0, <2>1, <2>2, <2>3 DEF IInv
<1>3. CASE LockRequest(w)
  <2>1. TypeOK'
    BY <1>0, <1>3 DEF TypeOK, PCs, LockRequest
  <2>2. ReaderInv'
    BY <1>0, <1>3 DEF TypeOK, ReaderInv, LockRequest
  <2>3. WriterInv'
    BY <1>0, <1>3 DEF TypeOK, WriterInv, LockRequest
  <2>4. TokensConserved'
    BY <1>0, <1>3, UnchangedKeepsTokens DEF LockRequest
  <2> QED
    BY <2>1, <2>2, <2>3, <2>4 DEF IInv
<1>4. CASE LockAcquire(w)
  <2>1. TypeOK'
    BY <1>0, <1>4 DEF TypeOK, PCs, LockAcquire
  <2>2. ReaderInv'
    BY <1>0, <1>4 DEF TypeOK, ReaderInv, LockAcquire
  <2>3. WriterInv'
    BY <1>0, <1>4 DEF TypeOK, WriterInv, LockAcquire
  <2>4. TokensConserved'
    BY <1>0, <1>4, UnchangedKeepsTokens DEF LockAcquire
  <2> QED
    BY <2>1, <2>2, <2>3, <2>4 DEF IInv
<1>5. CASE WriteUnLock(w)
  <2>1. TypeOK'
    BY <1>0, <1>5 DEF TypeOK, PCs, WriteUnLock
  <2>2. ReaderInv'
    BY <1>0, <1>5 DEF TypeOK, ReaderInv, WriteUnLock
  <2>3. WriterInv'
    BY <1>0, <1>5 DEF TypeOK, WriterInv, WriteUnLock, Limited
  <2>4. TokensConserved'
    BY <1>0, <1>5, UnchangedKeepsTokens DEF WriteUnLock
  <2> QED
    BY <2>1, <2>2, <2>3, <2>4 DEF IInv
<1>6. CASE WriteCheck(w)
  <2>0. reqs = 0
    BY <1>0, <1>6, DrainedTokens DEF WriteCheck
  <2>1. TypeOK'
    BY <1>0, <1>6 DEF TypeOK, PCs, WriteCheck
  <2>2. ReaderInv'
    BY <1>0, <1>6 DEF TypeOK, ReaderInv, WriteCheck
  <2>3. WriterInv'
    BY <1>0, <1>6, <2>0 DEF TypeOK, WriterInv, WriteCheck, UnLockFails, Limited
  <2>4. TokensConserved'
    BY <1>0, <1>6, UnchangedKeepsTokens DEF WriteCheck
  <2> QED
    BY <2>1, <2>2, <2>3, <2>4 DEF IInv
<1>7. CASE WriteRefill(w)
  <2>0. /\ reqs' \in 0..Max /\ held' \in [Procs -> 0..Max]
        /\ held' = [held EXCEPT ![w] = held[w] - 1]
        /\ TokensConserved'
    BY <1>0, <1>7, SendKeeps DEF WriteRefill, WriterInv
  <2>1. TypeOK'
    BY <1>0, <1>7, <2>0 DEF TypeOK, PCs, WriteRefill
  <2>2. ReaderInv'
    BY <1>0, <1>7, <2>0 DEF TypeOK, ReaderInv, WriteRefill
  <2>3. WriterInv'
    <3>1. held[w] > 0 /\ held[w] \in 0..Max
      BY <1>0, <1>7 DEF TypeOK, WriterInv, WriteRefill
    <3> QED
      BY <1>0, <1>7, <2>0, <3>1 DEF TypeOK, WriterInv, WriteRefill
  <2> QED
    BY <2>0, <2>1, <2>2, <2>3 DEF IInv
<1> QED
  BY <1>1, <1>2, <1>3, <1>4, <1>5, <1>6, <1>7 DEF WriteStep

(***************************************************************************)
(* The invariant holds in every reachable state.                           *)
(***************************************************************************)
THEOREM Inductive == Spec => []IInv
<1>1. Init => IInv
  BY InitIInv
<1>2. IInv /\ [Next]_vars => IInv'
  <2> SUFFICES ASSUME IInv, [Next]_vars PROVE IInv'
    OBVIOUS
  <2>1. CASE Next
    BY <2>1, ReadStepIInv, WriteStepIInv DEF Next
  <2>2. CASE UNCHANGED vars
    BY <2>2 DEF vars, IInv, TypeOK, ReaderInv, WriterInv, TokensConserved,
                Outstanding, TokensOf
  <2> QED
    BY <2>1, <2>2
<1> QED
  BY <1>1, <1>2, PTL DEF Spec

\* Type correctness.
THEOREM TypeCorrect == Spec => []TypeOK
<1>1. IInv => TypeOK
  BY DEF IInv
<1> QED
  BY <1>1, Inductive, PTL

(***************************************************************************)
(* The channel never gains or loses a token (governor.go:36-79), for any   *)
(* number of readers and writers and any Max.                              *)
(***************************************************************************)
THEOREM Conservation == Spec => []TokensConserved
<1>1. IInv => TokensConserved
  BY DEF IInv
<1> QED
  BY <1>1, Inductive, PTL

(***************************************************************************)
(* WriteUnLock never returns its error (governor.go:71-73), for any number *)
(* of competing writers.                                                   *)
(***************************************************************************)
THEOREM UnLockNeverFails == Spec => []UnLockSucceeds
<1>1. IInv => UnLockSucceeds
  BY DrainedTokens DEF UnLockSucceeds, UnLockFails
<1> QED
  BY <1>1, Inductive, PTL

(***************************************************************************)
(* The drained channel alone keeps everybody else out: nobody waits for    *)
(* the RWMutex when Max is not 0.                                          *)
(***************************************************************************)
THEOREM TokensExclude == Spec => []DrainedAlone
<1>1. ASSUME IInv PROVE DrainedAlone
  <2> SUFFICES ASSUME Limited,
                      NEW w \in Writers, pc[w] \in {"lock", "wait", "writing", "check"},
                      NEW p \in Procs \ {w}
               PROVE  Draining(p) /\ held[p] = 0
    BY DEF DrainedAlone
  <2>1. held[p] = 0
    BY <1>1, DrainedTokens
  <2>2. CASE p \in Readers
    BY <1>1, <2>1, <2>2 DEF IInv, ReaderInv, Draining
  <2>3. CASE p \in Writers
    BY <1>1, <2>1, <2>3, MaxAssumption DEF IInv, WriterInv, Draining, Limited
  <2> QED
    BY <2>1, <2>2, <2>3 DEF Procs
<1> QED
  BY <1>1, Inductive, PTL

\* With everybody outside the channel is full and the RWMutex free.
THEOREM IdleGovernor == Spec => []IdleMeansFull
<1>1. ASSUME IInv PROVE IdleMeansFull
  <2> SUFFICES ASSUME \A p \in Procs : pc[p] = "idle"
               PROVE  reqs = Max /\ rWriter = None
    BY DEF IdleMeansFull
  <2>1. \A p \in Procs : held[p] = 0
    BY <1>1 DEF IInv, ReaderInv, WriterInv, Procs
  <2>2. Cardinality(Outstanding) = 0
    BY <1>1, <2>1, NoTokens DEF IInv, TypeOK, Outstanding
  <2>3. reqs = Max
    BY <1>1, <2>2, MaxAssumption DEF IInv, TypeOK, TokensConserved
  <2>4. rWriter = None
    BY <1>1 DEF IInv, TypeOK, WriterInv, Procs
  <2> QED
    BY <2>3, <2>4
<1> QED
  BY <1>1, Inductive, PTL

------------------------------------------------------------------------------
(***************************************************************************)
(* The Governor implements BoundedRW: entering the critical section is     *)
(* EnterReader or EnterWriter, leaving it is Leave, and every other step   *)
(* of the Governor leaves Inside alone.                                    *)
(***************************************************************************)

\* Each reader inside, and the one entering, holds a token of its own.
LEMMA RoomForReader ==
  ASSUME IInv, Limited, NEW r \in Readers, pc[r] = "rlock", rWriter = None
  PROVE  Cardinality(Inside) < Max
<1> DEFINE S == Inside \cup {r}
           T == {<<p, 1>> : p \in S}
           f == [p \in S |-> <<p, 1>>]
<1> USE MaxAssumption
<1>1. /\ held \in [Procs -> 0..Max] /\ reqs \in 0..Max /\ 1 \in 1..Max
      /\ reqs + Cardinality(Outstanding) = Max
  BY DEF IInv, TypeOK, TokensConserved, Limited
<1>2. \A p \in S : p \in Procs /\ held[p] = 1
  <2>1. \A w \in Writers : pc[w] # "writing"
    BY NoneAssumption DEF IInv, WriterInv
  <2>2. \A p \in Readers : pc[p] \in {"reading", "rlock"} => held[p] = 1
    BY DEF IInv, ReaderInv
  <2>3. \A w \in Readers : pc[w] # "writing"
    BY DEF IInv, ReaderInv
  <2>4. \A w \in Writers : pc[w] # "reading"
    BY DEF IInv, WriterInv
  <2> QED
    BY <2>1, <2>2, <2>3, <2>4 DEF Inside, Procs
<1>3. T \in SUBSET Outstanding
  BY <1>1, <1>2 DEF Outstanding, TokensOf
<1>4. IsFiniteSet(Outstanding) /\ Cardinality(Outstanding) \in Nat
  BY <1>1, TokensFinite DEF Outstanding
<1>5. IsFiniteSet(T) /\ Cardinality(T) <= Cardinality(Outstanding)
  BY <1>3, <1>4, FS_Subset
<1>6. f \in Injection(S, T)
  <2>1. f \in [S -> T]
    OBVIOUS
  <2>2. \A p, q \in S : f[p] = f[q] => p = q
    OBVIOUS
  <2> HIDE DEF f, S, T
  <2> QED
    BY <2>1, <2>2 DEF Injection, IsInjective
<1>7. IsFiniteSet(S) /\ Cardinality(S) <= Cardinality(T)
  BY <1>5, <1>6, FS_Injection
<1>8. Inside \in SUBSET S /\ r \notin Inside
  BY DEF Inside
<1>9. IsFiniteSet(Inside) /\ Cardinality(S) = Cardinality(Inside) + 1
  <2>1. IsFiniteSet(Inside)
    BY <1>7, <1>8, FS_Subset
  <2> QED
    BY <1>8, <2>1, FS_AddElement
<1>10. Cardinality(T) \in Nat /\ Cardinality(S) \in Nat /\ Cardinality(Inside) \in Nat
  BY <1>5, <1>7, <1>9, FS_CardinalityType
<1> QED
  BY <1>1, <1>4, <1>5, <1>7, <1>9, <1>10

LEMMA ReadStepRefines ==
  ASSUME IInv, NEW r \in Readers, ReadStep(r)
  PROVE  RW!Next \/ UNCHANGED Inside
<1> USE DEF Goto, Procs
<1>0. /\ pc \in [Procs -> PCs] /\ r \in Procs
      /\ \A w \in Writers : rWriter = w <=> pc[w] \in {"wait", "writing"}
  BY DEF IInv, TypeOK, WriterInv
<1>1. CASE RLock(r)
  <2>1. pc[r] = "rlock" /\ rWriter = None /\ Inside' = Inside \cup {r}
    BY <1>0, <1>1 DEF RLock, Inside
  <2>2. r \in Readers \ Inside
    BY <2>1 DEF Inside
  <2>3. Inside \cap Writers = {}
    <3>1. \A w \in Writers : pc[w] # "writing"
      BY <1>0, <2>1, NoneAssumption
    <3>2. \A w \in Writers : pc[w] # "reading"
      BY DEF IInv, WriterInv
    <3> QED
      BY <3>1, <3>2 DEF Inside
  <2>4. Max # 0 => Cardinality(Inside) < Max
    BY <2>1, RoomForReader DEF Limited
  <2> QED
    BY <2>1, <2>2, <2>3, <2>4, Zenon DEF RW!Next, RW!EnterReader, Cardinality, RW!Cardinality
<1>2. CASE ReadUnLock(r)
  <2>1. r \in Inside /\ Inside' = Inside \ {r}
    BY <1>0, <1>2 DEF ReadUnLock, Inside
  <2> QED
    BY <1>0, <2>1 DEF RW!Next, RW!Leave
<1>3. CASE ReadLock(r) \/ ReadTake(r) \/ ReadPut(r)
  BY <1>0, <1>3 DEF ReadLock, ReadTake, ReadPut, Inside
<1> QED
  BY <1>1, <1>2, <1>3 DEF ReadStep

LEMMA WriteStepRefines ==
  ASSUME IInv, NEW w \in Writers, WriteStep(w)
  PROVE  RW!Next \/ UNCHANGED Inside
<1> USE DEF Goto, Procs
<1>0. pc \in [Procs -> PCs] /\ w \in Procs
  BY DEF IInv, TypeOK
<1>1. CASE LockAcquire(w)
  <2>1. pc[w] = "wait" /\ rReaders = {} /\ Inside' = Inside \cup {w}
    BY <1>0, <1>1 DEF LockAcquire, Inside
  <2>2. \A p \in Readers : p \notin Inside
    BY <2>1 DEF IInv, ReaderInv, Inside
  <2>3. \A v \in Writers : v \notin Inside
    BY <2>1 DEF IInv, WriterInv, Inside
  <2>4. Inside = {} /\ Inside' = {w}
    BY <2>1, <2>2, <2>3 DEF Inside
  <2> QED
    BY <2>4 DEF RW!Next, RW!EnterWriter
<1>2. CASE WriteUnLock(w)
  <2>1. w \in Inside /\ Inside' = Inside \ {w}
    BY <1>0, <1>2 DEF WriteUnLock, Inside
  <2> QED
    BY <1>0, <2>1 DEF RW!Next, RW!Leave
<1>3. CASE \/ WriteLock(w) \/ WriteDrain(w) \/ LockRequest(w)
           \/ WriteCheck(w) \/ WriteRefill(w)
  BY <1>0, <1>3 DEF WriteLock, WriteDrain, LockRequest, WriteCheck, WriteRefill, Inside
<1> QED
  BY <1>1, <1>2, <1>3 DEF WriteStep

THEOREM Implements == Spec => Refines
<1>1. Init => RW!Init
  BY DEF Init, RW!Init, Inside
<1>2. IInv /\ [Next]_vars => [RW!Next]_Inside
  <2> SUFFICES ASSUME IInv, [Next]_vars PROVE RW!Next \/ UNCHANGED Inside
    OBVIOUS
  <2>1. CASE Next
    BY <2>1, ReadStepRefines, WriteStepRefines DEF Next
  <2>2. CASE UNCHANGED vars
    BY <2>2 DEF vars, Inside
  <2> QED
    BY <2>1, <2>2
<1> QED
  BY <1>1, <1>2, Inductive, PTL DEF Spec, Refines, RW!Spec

(***************************************************************************)
(* A regeneration is atomic for every request: a writer in the repository  *)
(* is alone there (server.go:27), with or without a request limit.         *)
(***************************************************************************)
THEOREM MutualExclusion == Spec => []WriterAlone
<1>1. ASSUME IInv PROVE WriterAlone
  <2> SUFFICES ASSUME NEW w \in Inside \cap Writers PROVE Inside = {w}
    BY DEF WriterAlone, RW!WriterAlone
  <2>1. pc[w] = "writing" /\ rReaders = {} /\ rWriter = w
    BY <1>1, WritersAssumption DEF IInv, WriterInv, Inside
  <2>2. \A p \in Readers : p \notin Inside
    BY <1>1, <2>1 DEF IInv, ReaderInv, Inside
  <2>3. \A v \in Writers : v \in Inside => v = w
    BY <1>1, <2>1 DEF IInv, WriterInv, Inside
  <2> QED
    BY <2>2, <2>3 DEF Inside, Procs
<1> QED
  BY <1>1, Inductive, PTL

===============================================================================
