-------------------------- MODULE UploadSessionProofs --------------------------
(***************************************************************************)
(* What holds of upload sessions for any sets of requests, sessions and    *)
(* files: what is merged is whole, AddUpload is called once for an upload  *)
(* with a changes file, and nobody is shown a complete upload before       *)
(* AddUpload has returned.  And what a client can rely on: a refused file  *)
(* is reported, the outcome that the client tells is true but for a failed *)
(* AddUpload, and an upload with nothing wrong succeeds.                   *)
(***************************************************************************)
EXTENDS UploadClient, MCUploadShared, FiniteSetTheorems, TLAPS

\* Requests of a client arrive with what is on its disk, which Uploads does not list.
Arrival(r) ==
  \/ NewSessionRefused(r)
  \/ \E s \in Sessions : Get(r, s) \/ \E u : Put(r, s, u) \/ NewSession(r, s, u)

ServerStep ==
  \/ \E r \in Requests : Arrival(r) \/ RequestStep(r)
  \/ \E s \in Sessions : SessionStep(s)

LEMMA InitInv == Init => UploadInv
<1> SUFFICES ASSUME Init PROVE UploadInv
  OBVIOUS
<1> USE LoneAssumption, NoneAssumption
<1>1. TypeOK
  BY DEF Init, TypeOK, PCs, Idle
<1>2. Shape /\ RequestInv /\ MergingInv /\ UpdaterInv
  BY DEF Init, Shape, RequestInv, MergingInv, UpdaterInv, Answers
<1>3. CompleteInv
  BY DEF Init, CompleteInv
<1>4. ShownInv
  BY DEF Init, ShownInv, Answers
<1> QED
  BY <1>1, <1>2, <1>3, <1>4 DEF UploadInv

(***************************************************************************)
(* A request that is refused a session has none.                           *)
(***************************************************************************)
LEMMA NoSessionInv ==
  ASSUME UploadInv, NEW r \in Requests, NewSessionRefused(r)
  PROVE  UploadInv'
<1> USE LoneAssumption, NoneAssumption DEF UploadInv
<1>1. /\ pc[r] = "new" /\ pc' = [pc EXCEPT ![r] = "answered"]
      /\ \E a \in {"notfound", "refused"} : answer' = [answer EXCEPT ![r] = a]
      /\ UNCHANGED <<sessionVars, updaterVars, target, parts, next, seen, rejected>>
  BY DEF NewSessionRefused, Answer, Goto
<1>2. /\ \A q \in Requests : q # r => pc'[q] = pc[q] /\ answer'[q] = answer[q]
      /\ pc'[r] = "answered" /\ answer'[r] # "ok"
  BY <1>1 DEF TypeOK
<1>3. TypeOK' /\ Shape'
  BY <1>1 DEF TypeOK, Shape, PCs, sessionVars, updaterVars, Answers
<1>4. RequestInv'
  BY <1>1, <1>2 DEF RequestInv
<1>5. MergingInv' /\ UpdaterInv' /\ CompleteInv'
  BY <1>1, <1>2 DEF MergingInv, UpdaterInv, CompleteInv, sessionVars, updaterVars
<1>6. ShownInv'
  BY <1>1, <1>2 DEF ShownInv, sessionVars, updaterVars
<1> QED
  BY <1>3, <1>4, <1>5, <1>6

(***************************************************************************)
(* A request arrives: it is given a session and a place, and maybe told    *)
(* that there is none.                                                     *)
(***************************************************************************)
LEMMA ArrivalInv ==
  ASSUME UploadInv, NEW r \in Requests, Arrival(r)
  PROVE  UploadInv'
<1> USE LoneAssumption, NoneAssumption DEF UploadInv
<1> SUFFICES ASSUME NEW s \in Sessions,
                    Get(r, s) \/ \E u : Put(r, s, u) \/ NewSession(r, s, u)
             PROVE  UploadInv'
  BY NoSessionInv DEF Arrival
<1>1. Get(r, s) \/ \E u : Put(r, s, u) \/ NewSession(r, s, u)
  OBVIOUS
<1>2. pc[r] = "new" /\ target' = [target EXCEPT ![r] = s]
  BY <1>1 DEF Get, Put, NewSession, Arrives
<1>3. /\ \E l \in {"lookup", "send", "final", "status", "answered"} : pc' = [pc EXCEPT ![r] = l]
      /\ answer' = answer \/ (answer' = [answer EXCEPT ![r] = "notfound"] /\ pc'[r] = "answered")
  BY <1>1 DEF Get, Put, NewSession, Continue, Goto, Answer, TypeOK
<1>4. /\ UNCHANGED <<expecting, received, err, complete, expired, serving, updater, attempts,
                     published, failed, next, seen, rejected>>
      /\ \/ UNCHANGED <<handler, inMap, maker>>
         \/ /\ handler[s] = "none"
            /\ handler' = [handler EXCEPT ![s] = "loop"]
            /\ inMap' = [inMap EXCEPT ![s] = TRUE]
            /\ maker' = [maker EXCEPT ![s] = r]
  BY <1>1 DEF Get, Put, NewSession, sessionVars, updaterVars
<1>5. TypeOK'
  <2>1. /\ pc' \in [Requests -> PCs] /\ target' \in [Requests -> Sessions \cup {None}]
        /\ answer' \in [Requests -> Answers \cup {None}]
    BY <1>2, <1>3 DEF TypeOK, PCs, Answers
  <2>2. /\ handler' \in [Sessions -> {"none", "loop", "merging", "over"}]
        /\ maker' \in [Sessions -> Requests \cup {None}]
    BY <1>4 DEF TypeOK
  <2>3. inMap' \in [Sessions -> BOOLEAN]
    <3> DEFINE yes == TRUE
    <3>1. inMap' = inMap \/ inMap' = [inMap EXCEPT ![s] = yes]
      BY <1>4
    <3>2. yes \in BOOLEAN
      OBVIOUS
    <3> HIDE DEF yes
    <3> QED
      BY <3>1, <3>2 DEF TypeOK
  <2> QED
    BY <1>4, <2>1, <2>2, <2>3 DEF TypeOK
<1>6. /\ \A q \in Requests : q # r => pc'[q] = pc[q] /\ target'[q] = target[q] /\ answer'[q] = answer[q]
      /\ pc'[r] \notin {"new", "merging", "reply"} /\ target'[r] = s
      /\ answer'[r] = "ok" => answer[r] = "ok"
  BY <1>2, <1>3 DEF TypeOK
<1>7. answer[r] # "ok"
  BY <1>2 DEF RequestInv
<1>8. \A t \in Sessions : (handler'[t] = "merging") <=> (handler[t] = "merging")
  BY <1>4 DEF TypeOK
<1>9. Shape' /\ RequestInv'
  BY <1>4, <1>6, <1>7 DEF Shape, RequestInv
<1>10. MergingInv'
  BY <1>2, <1>4, <1>6, <1>8 DEF MergingInv
<1>11. UpdaterInv' /\ CompleteInv'
  BY <1>4, <1>8 DEF UpdaterInv, CompleteInv
<1>12. ShownInv'
  BY <1>4, <1>6, <1>7 DEF ShownInv
<1> QED
  BY <1>5, <1>9, <1>10, <1>11, <1>12

(***************************************************************************)
(* AddFile is the step that can complete an upload.                        *)
(***************************************************************************)
LEMMA AddFileInv ==
  ASSUME UploadInv, NEW r \in Requests, AddFile(r)
  PROVE  UploadInv'
<1> USE LoneAssumption, NoneAssumption DEF UploadInv
<1> DEFINE s == target[r]
           p == Part(r)
           exp == Expected(s, p)
           rec == Received(s, p)
<1>1. /\ pc[r] = "send" /\ handler[s] = "loop" /\ s \in Sessions
  BY DEF AddFile, Exchange, RequestInv
<1>2. /\ expecting' = [expecting EXCEPT ![s] = exp]
      /\ received' = [received EXCEPT ![s] = rec]
      /\ err' = [err EXCEPT ![s] = ErrAfter(s, p)]
      /\ rejected' = IF Refused(s, p) THEN rejected \cup {r} ELSE rejected
      /\ next' = [next EXCEPT ![r] = @ + 1]
      /\ UNCHANGED <<expired, inMap, maker, updater, attempts, published, failed, target, parts, answer, seen>>
      /\ \/ /\ pc' = [pc EXCEPT ![r] = "check"]
            /\ UNCHANGED <<handler, complete, serving>>
         \/ /\ ~Refused(s, p) /\ exp \subseteq rec
            /\ complete' = [complete EXCEPT ![s] = TRUE]
            /\ handler' = [handler EXCEPT ![s] = "merging"]
            /\ serving' = [serving EXCEPT ![s] = r]
            /\ pc' = [pc EXCEPT ![r] = "merging"]
  BY DEF AddFile, Goto, CompleteWith, updaterVars
<1>3. /\ rec \subseteq exp
      /\ s \notin Lone => exp = Files /\ received[s] \subseteq rec
      /\ s \notin Lone /\ ~Refused(s, p) => ~(Files \subseteq received[s])
  BY <1>1 DEF Expected, Received, Withdrawn, Refused, TypeOK
<1>4. /\ expecting'[s] = exp /\ received'[s] = rec
      /\ \A t \in Sessions : t # s =>
           expecting'[t] = expecting[t] /\ received'[t] = received[t]
      /\ Shape'
  BY <1>1, <1>2 DEF Shape
<1>5. ErrAfter(s, p) \in BOOLEAN
  BY DEF ErrAfter, Refused
<1>6. TypeOK'
  <2>1. /\ handler' \in [Sessions -> {"none", "loop", "merging", "over"}]
        /\ serving' \in [Sessions -> Requests \cup {None}]
        /\ pc' \in [Requests -> PCs]
    BY <1>1, <1>2 DEF TypeOK, PCs
  <2>0. complete' \in [Sessions -> BOOLEAN]
    <3> DEFINE yes == TRUE
    <3>1. complete' = complete \/ complete' = [complete EXCEPT ![s] = yes]
      BY <1>2
    <3>2. yes \in BOOLEAN
      OBVIOUS
    <3> HIDE DEF yes
    <3> QED
      BY <1>1, <3>1, <3>2 DEF TypeOK
  <2>2. /\ \A t \in Sessions : received'[t] \subseteq expecting'[t]
        /\ \A t \in Sessions \ Lone : expecting'[t] = Files
    BY <1>3, <1>4 DEF TypeOK
  <2>3. err' \in [Sessions -> BOOLEAN] /\ rejected' \subseteq Requests /\ next' \in [Requests -> Nat]
    BY <1>1, <1>2, <1>5 DEF TypeOK
  <2> QED
    BY <1>2, <2>0, <2>1, <2>2, <2>3 DEF TypeOK
<1>7. /\ \A q \in Requests : q # r => pc'[q] = pc[q]
      /\ pc'[r] \in {"check", "merging"} /\ answer[r] # "ok"
      /\ \A t \in Sessions : t # s => /\ handler'[t] = handler[t] /\ complete'[t] = complete[t]
                                      /\ serving'[t] = serving[t]
      /\ \/ handler'[s] = "loop" /\ complete'[s] = complete[s]
         \/ /\ handler'[s] = "merging" /\ serving'[s] = r /\ pc'[r] = "merging" /\ exp \subseteq rec
            /\ ~Refused(s, p)
  BY <1>1, <1>2 DEF TypeOK, RequestInv
<1>8. RequestInv'
  BY <1>1, <1>2, <1>7 DEF RequestInv
<1>9. MergingInv'
  <2> SUFFICES ASSUME NEW t \in Sessions, handler'[t] = "merging"
               PROVE  /\ serving'[t] \in Requests /\ pc'[serving'[t]] = "merging"
                      /\ target[serving'[t]] = t
                      /\ expecting'[t] \subseteq received'[t]
                      /\ t \notin Lone => attempts[t] = 0 \/ updater = [session |-> t, done |-> TRUE]
    BY <1>2 DEF MergingInv
  <2>1. CASE t = s
    <3>1. s \notin Lone => attempts[s] = 0
      BY <1>1, <1>3, <1>7, <2>1 DEF CompleteInv, TypeOK
    <3> QED
      BY <1>1, <1>4, <1>7, <2>1, <3>1
  <2>2. CASE t # s
    BY <1>1, <1>2, <1>4, <1>7, <2>2 DEF MergingInv
  <2> QED
    BY <2>1, <2>2
<1>10. UpdaterInv'
  BY <1>1, <1>2, <1>7 DEF UpdaterInv
<1>11. CompleteInv'
  BY <1>1, <1>2, <1>3, <1>4, <1>7 DEF CompleteInv
<1>12. ShownInv'
  <2> SUFFICES ASSUME NEW q \in Requests, pc'[q] = "reply" \/ answer[q] = "ok", seen[q].complete
               PROVE  /\ attempts[target[q]] > 0
                      /\ target[q] \notin Lone => /\ Files \subseteq received'[target[q]]
                                                  /\ answer[q] = "ok" => seen[q].received = Files
    BY <1>2 DEF ShownInv
  <2>1. q # r /\ pc[q] = pc'[q] /\ target[q] \in Sessions
    BY <1>7 DEF RequestInv
  <2> QED
    BY <1>3, <1>4, <2>1 DEF ShownInv
<1> QED
  BY <1>4, <1>6, <1>8, <1>9, <1>10, <1>11, <1>12

(***************************************************************************)
(* The other exchanges change a request only; what Status shows is the     *)
(* state of a session that is not being merged.                            *)
(***************************************************************************)
LEMMA ExchangeInv ==
  ASSUME UploadInv, NEW r \in Requests,
         GetSession(r) \/ Check(r) \/ Refuse(r) \/ CheckLast(r) \/ Status(r) \/ Reply(r)
  PROVE  UploadInv'
<1> USE LoneAssumption, NoneAssumption DEF UploadInv
<1>1. /\ UNCHANGED <<sessionVars, updaterVars, target, next, rejected>>
      /\ pc[r] \in {"lookup", "check", "refusing", "final", "status", "reply"}
      /\ target[r] \in Sessions
  BY DEF GetSession, Check, Refuse, CheckLast, Status, Reply, Exchange, RequestInv
<1>2. \/ /\ \E l \in {"send", "refusing", "final", "status", "answered"} : pc' = [pc EXCEPT ![r] = l]
         /\ answer' = answer \/ (\E a \in {"refused", "notfound", "panic"} :
                                   answer' = [answer EXCEPT ![r] = a] /\ pc'[r] = "answered")
         /\ UNCHANGED seen
      \/ /\ pc' = [pc EXCEPT ![r] = "reply"] /\ UNCHANGED answer
         /\ seen' = [seen EXCEPT ![r] = [complete |-> complete[target[r]], expecting |-> {}, received |-> {}]]
         /\ handler[target[r]] = "loop"
      \/ /\ pc[r] = "reply"
         /\ pc' = [pc EXCEPT ![r] = "answered"] /\ answer' = [answer EXCEPT ![r] = "ok"]
         /\ seen' = [seen EXCEPT ![r] = 
              [complete |-> @.complete, expecting |-> expecting[target[r]],
               received |-> received[target[r]]]]
  <2>1. CASE GetSession(r) \/ Check(r) \/ Refuse(r) \/ CheckLast(r)
    BY <2>1 DEF GetSession, Check, Refuse, CheckLast, Continue, Goto, Answer, TypeOK
  <2>2. CASE Status(r)
    BY <2>2 DEF Status, Exchange, Goto
  <2>3. CASE Reply(r)
    BY <2>3 DEF Reply, Answer, Goto
  <2> QED
    BY <2>1, <2>2, <2>3
<1>3. TypeOK'
  BY <1>1, <1>2 DEF TypeOK, PCs, sessionVars, updaterVars, Answers
<1>4. Shape'
  BY <1>1, <1>2 DEF Shape, sessionVars
<1>5. \A q \in Requests : q # r => pc'[q] = pc[q] /\ answer'[q] = answer[q] /\ seen'[q] = seen[q]
  BY <1>2 DEF TypeOK, Shape
<1>6. /\ pc'[r] \notin {"new", "merging"} /\ answer[r] # "ok"
      /\ answer'[r] = "ok" => pc'[r] = "answered"
  BY <1>1, <1>2 DEF TypeOK, RequestInv
<1>7. RequestInv'
  BY <1>1, <1>5, <1>6 DEF RequestInv
<1>8. MergingInv' /\ UpdaterInv' /\ CompleteInv'
  <2>1. \A s \in Sessions : serving[s] \in Requests /\ pc[serving[s]] = "merging" => pc'[serving[s]] = "merging"
    BY <1>1, <1>5
  <2> QED
    BY <1>1, <2>1 DEF MergingInv, UpdaterInv, CompleteInv, sessionVars, updaterVars
<1>9. ShownInv'
  <2> SUFFICES ASSUME NEW q \in Requests, pc'[q] = "reply" \/ answer'[q] = "ok", seen'[q].complete
               PROVE  /\ attempts[target[q]] > 0
                      /\ target[q] \notin Lone => /\ Files \subseteq received[target[q]]
                                                  /\ answer'[q] = "ok" => seen'[q].received = Files
    BY <1>1 DEF ShownInv, sessionVars, updaterVars
  <2>1. CASE q # r
    BY <1>5, <2>1 DEF ShownInv
  <2>2. CASE q = r
    <3>1. CASE pc' = [pc EXCEPT ![r] = "reply"] /\ answer' = answer
               /\ seen' = [seen EXCEPT ![r] = [complete |-> complete[target[r]], expecting |-> {}, received |-> {}]]
               /\ handler[target[r]] = "loop"
      <4>1. seen'[r].complete = complete[target[r]]
        BY <3>1 DEF Shape
      <4> QED
        BY <1>1, <1>6, <2>2, <3>1, <4>1 DEF CompleteInv
    <3>2. CASE pc[r] = "reply"
               /\ seen' = [seen EXCEPT ![r] = 
                    [complete |-> @.complete, expecting |-> expecting[target[r]],
                     received |-> received[target[r]]]]
      <4>1. seen'[r].complete = seen[r].complete /\ seen'[r].received = received[target[r]]
        BY <3>2 DEF Shape
      <4>2. /\ attempts[target[r]] > 0
            /\ target[r] \notin Lone => Files \subseteq received[target[r]]
        BY <2>2, <3>2, <4>1 DEF ShownInv
      <4>3. target[r] \notin Lone => received[target[r]] \subseteq Files
        BY <1>1 DEF TypeOK
      <4> QED
        BY <2>2, <4>1, <4>2, <4>3
    <3>3. CASE UNCHANGED seen /\ pc'[r] # "reply" /\ answer'[r] # "ok"
      BY <2>2, <3>3
    <3> QED
      BY <1>2, <1>6, <2>2, <3>1, <3>2, <3>3 DEF TypeOK
  <2> QED
    BY <2>1, <2>2
<1> QED
  BY <1>3, <1>4, <1>7, <1>8, <1>9

(***************************************************************************)
(* The updater.                                                            *)
(***************************************************************************)
LEMMA TakeUpdateInv ==
  ASSUME UploadInv, NEW s \in Sessions, TakeUpdate(s)
  PROVE  UploadInv'
<1> USE LoneAssumption, NoneAssumption DEF UploadInv
<1>1. /\ updater = Idle /\ handler[s] = "merging"
      /\ updater' = [session |-> s, done |-> FALSE]
      /\ UNCHANGED <<sessionVars, attempts, published, failed, requestVars>>
  BY DEF TakeUpdate
<1>2. TypeOK' /\ Shape' /\ RequestInv'
  BY <1>1 DEF TypeOK, Shape, RequestInv, sessionVars, requestVars
<1>3. MergingInv'
  BY <1>1 DEF MergingInv, Idle, sessionVars, requestVars
<1>4. UpdaterInv' /\ CompleteInv' /\ ShownInv'
  BY <1>1 DEF UpdaterInv, CompleteInv, ShownInv, sessionVars, requestVars
<1> QED
  BY <1>2, <1>3, <1>4

LEMMA AddUploadInv ==
  ASSUME UploadInv, NEW s \in Sessions, AddUpload(s)
  PROVE  UploadInv'
<1> USE LoneAssumption, NoneAssumption DEF UploadInv
<1>1. /\ updater = [session |-> s, done |-> FALSE]
      /\ updater' = [session |-> s, done |-> TRUE]
      /\ attempts' = [attempts EXCEPT ![s] = @ + 1]
      /\ published' \in {published, published \cup {s}} /\ failed' \in {failed, failed \cup {s}}
      /\ UNCHANGED <<sessionVars, requestVars>>
  BY DEF AddUpload
<1>2. /\ handler[s] = "merging" /\ updater # Idle
      /\ updater # [session |-> s, done |-> TRUE]
  BY <1>1 DEF UpdaterInv, Idle
<1>3. /\ attempts'[s] = attempts[s] + 1 /\ attempts[s] \in Nat
      /\ \A t \in Sessions : t # s => attempts'[t] = attempts[t]
      /\ \A t \in Sessions : attempts[t] \in Nat /\ attempts'[t] \in Nat
  BY <1>1 DEF TypeOK
<1>4. TypeOK' /\ Shape' /\ RequestInv'
  BY <1>1 DEF TypeOK, Shape, RequestInv, sessionVars, requestVars
<1>5. s \notin Lone => attempts[s] = 0 /\ Files \subseteq received[s]
  BY <1>2 DEF MergingInv, TypeOK
<1>6. MergingInv'
  <2>1. \A t \in Sessions : updater # [session |-> t, done |-> TRUE]
    BY <1>1
  <2> QED
    BY <1>1, <1>3, <2>1 DEF MergingInv, sessionVars, requestVars
<1>7. UpdaterInv'
  BY <1>1, <1>2, <1>3 DEF UpdaterInv, sessionVars
<1>8. CompleteInv'
  BY <1>1, <1>3, <1>5 DEF CompleteInv, sessionVars
<1>9. ShownInv'
  <2>1. \A r \in Requests : pc[r] = "reply" \/ answer[r] = "ok" => target[r] \in Sessions
    BY DEF RequestInv
  <2>2. \A t \in Sessions : attempts[t] > 0 => attempts'[t] > 0
    BY <1>3
  <2> QED
    BY <1>1, <2>1, <2>2 DEF ShownInv, sessionVars, requestVars
<1> QED
  BY <1>4, <1>6, <1>7, <1>8, <1>9

LEMMA RespondInv ==
  ASSUME UploadInv, NEW s \in Sessions, Respond(s)
  PROVE  UploadInv'
<1> USE LoneAssumption, NoneAssumption DEF UploadInv
<1> DEFINE r == serving[s]
<1>1. /\ updater = [session |-> s, done |-> TRUE]
      /\ updater' = Idle
      /\ handler' = [handler EXCEPT ![s] = "loop"]
      /\ serving' = [serving EXCEPT ![s] = None]
      /\ pc' = [pc EXCEPT ![r] = "check"]
      /\ UNCHANGED <<expecting, received, err, complete, expired, inMap, maker, attempts,
                     published, failed, target, parts, next, answer, seen, rejected>>
  BY DEF Respond, Goto
<1>2. /\ handler[s] = "merging" /\ attempts[s] > 0
      /\ r \in Requests /\ pc[r] = "merging" /\ target[r] = s /\ answer[r] # "ok"
  <2>1. updater # Idle
    BY <1>1 DEF Idle
  <2> QED
    BY <1>1, <2>1 DEF UpdaterInv, MergingInv, RequestInv
<1>3. /\ handler'[s] = "loop" /\ pc'[r] = "check"
      /\ \A t \in Sessions : t # s => handler'[t] = handler[t] /\ serving'[t] = serving[t]
      /\ \A q \in Requests : q # r => pc'[q] = pc[q]
  BY <1>1, <1>2 DEF TypeOK
<1>4. TypeOK' /\ Shape' /\ RequestInv'
  BY <1>1, <1>2, <1>3 DEF TypeOK, PCs, Idle, Shape, RequestInv
<1>5. MergingInv'
  <2> SUFFICES ASSUME NEW t \in Sessions, handler'[t] = "merging"
               PROVE  /\ serving'[t] \in Requests /\ pc'[serving'[t]] = "merging"
                      /\ target[serving'[t]] = t
                      /\ expecting[t] \subseteq received[t]
                      /\ t \notin Lone => attempts[t] = 0
    BY <1>1 DEF MergingInv
  <2>1. t # s /\ handler[t] = "merging" /\ serving'[t] = serving[t]
    BY <1>3
  <2>2. serving[t] # r /\ updater # [session |-> t, done |-> TRUE]
    BY <1>1, <1>2, <2>1 DEF MergingInv
  <2> QED
    BY <1>3, <2>1, <2>2 DEF MergingInv
<1>6. UpdaterInv'
  BY <1>1 DEF UpdaterInv, Idle
<1>7. CompleteInv'
  BY <1>1, <1>2, <1>3 DEF CompleteInv
<1>8. ShownInv'
  BY <1>1, <1>2, <1>3 DEF ShownInv
<1> QED
  BY <1>4, <1>5, <1>6, <1>7, <1>8

(***************************************************************************)
(* The time to live ends a session only between two messages.              *)
(***************************************************************************)
LEMMA ExpiryInv ==
  ASSUME UploadInv, NEW s \in Sessions, Expire(s) \/ Forget(s) \/ End(s)
  PROVE  UploadInv'
<1> USE LoneAssumption, NoneAssumption DEF UploadInv
<1>1. /\ UNCHANGED <<expecting, received, err, complete, maker, serving, updaterVars, requestVars>>
      /\ \/ UNCHANGED handler
         \/ handler[s] = "loop" /\ handler' = [handler EXCEPT ![s] = "over"]
  BY DEF Expire, Forget, End
<1>2. \A t \in Sessions : (handler'[t] = "merging") <=> (handler[t] = "merging")
  BY <1>1 DEF TypeOK
<1>3. expired' \in [Sessions -> BOOLEAN]
  <2> DEFINE yes == TRUE
  <2>1. expired' = expired \/ expired' = [expired EXCEPT ![s] = yes]
    BY DEF Expire, Forget, End
  <2>2. yes \in BOOLEAN
    OBVIOUS
  <2> HIDE DEF yes
  <2> QED
    BY <2>1, <2>2 DEF TypeOK
<1>4. inMap' \in [Sessions -> BOOLEAN]
  <2> DEFINE no == FALSE
  <2>1. inMap' = inMap \/ inMap' = [inMap EXCEPT ![s] = no]
    BY DEF Expire, Forget, End
  <2>2. no \in BOOLEAN
    OBVIOUS
  <2> HIDE DEF no
  <2> QED
    BY <2>1, <2>2 DEF TypeOK
<1>5. TypeOK'
  BY <1>1, <1>3, <1>4 DEF TypeOK, updaterVars, requestVars
<1>6. Shape' /\ RequestInv' /\ ShownInv'
  BY <1>1 DEF Shape, RequestInv, ShownInv, updaterVars, requestVars
<1>7. MergingInv' /\ UpdaterInv' /\ CompleteInv'
  BY <1>1, <1>2 DEF MergingInv, UpdaterInv, CompleteInv, updaterVars, requestVars
<1> QED
  BY <1>5, <1>6, <1>7

LEMMA ServerStepInv ==
  ASSUME UploadInv, ServerStep
  PROVE  UploadInv'
<1>1. CASE \E r \in Requests : Arrival(r)
  BY <1>1, ArrivalInv
<1>2. CASE \E r \in Requests : RequestStep(r)
  <2>1. PICK r \in Requests : RequestStep(r)
    BY <1>2
  <2> QED
    BY <2>1, AddFileInv, ExchangeInv DEF RequestStep
<1>3. CASE \E s \in Sessions : SessionStep(s)
  <2>1. PICK s \in Sessions : SessionStep(s)
    BY <1>3
  <2> QED
    BY <2>1, TakeUpdateInv, AddUploadInv, RespondInv, ExpiryInv DEF SessionStep
<1> QED
  BY <1>1, <1>2, <1>3 DEF ServerStep

LEMMA NextIsServerStep == Next => ServerStep
  BY DEF Next, ServerStep, RequestArrives, Arrival

(***************************************************************************)
(* The inductive invariant.                                                *)
(***************************************************************************)
THEOREM SessionsInvariant == Spec => []UploadInv
<1>1. Init => UploadInv
  BY InitInv
<1>2. UploadInv /\ [Next]_vars => UploadInv'
  <2> SUFFICES ASSUME UploadInv, [Next]_vars PROVE UploadInv'
    OBVIOUS
  <2>1. CASE Next
    BY <2>1, NextIsServerStep, ServerStepInv
  <2>2. CASE UNCHANGED vars
    BY <2>2 DEF vars, sessionVars, updaterVars, requestVars, UploadInv, TypeOK, Shape, RequestInv,
                MergingInv, UpdaterInv, CompleteInv, ShownInv
  <2> QED
    BY <2>1, <2>2
<1> QED
  BY <1>1, <1>2, PTL DEF Spec

(***************************************************************************)
(* No session is merged with a file missing (upload_session.go:175).       *)
(***************************************************************************)
THEOREM WholeMerges == Spec => []MergesWhole
<1>1. UploadInv => MergesWhole
  BY DEF UploadInv, MergingInv, MergesWhole
<1> QED
  BY <1>1, SessionsInvariant, PTL

(***************************************************************************)
(* AddUpload is called at most once for an upload with a changes file,     *)
(* however often its files are sent (upload_session.go:229).               *)
(***************************************************************************)
THEOREM SingleMerge == Spec => []MergedOnce
<1>1. UploadInv => MergedOnce
  BY DEF UploadInv, CompleteInv, MergedOnce
<1> QED
  BY <1>1, SessionsInvariant, PTL

(***************************************************************************)
(* Nobody is shown a complete upload before AddUpload has returned         *)
(* (upload_session.go:189).                                                *)
(***************************************************************************)
THEOREM SynchronousConfirmation == Spec => []ConfirmedAfterMerge
<1>1. UploadInv => ConfirmedAfterMerge
  BY DEF UploadInv, ShownInv, ConfirmedAfterMerge, Shown
<1> QED
  BY <1>1, SessionsInvariant, PTL

(***************************************************************************)
(* A status that says complete lists every file as received, although the  *)
(* files are read after the flag (upload_session.go:202).                  *)
(***************************************************************************)
THEOREM ConsistentStatus == Spec => []StatusConsistent
<1>1. UploadInv => StatusConsistent
  BY DEF UploadInv, RequestInv, ShownInv, StatusConsistent, Shown
<1> QED
  BY <1>1, SessionsInvariant, PTL

------------------------------------------------------------------------------
(***************************************************************************)
(* Each call of AddUpload has succeeded or failed.                         *)
(***************************************************************************)
LEMMA AddUploadResult ==
  ASSUME UploadInv, ResultInv, NEW s \in Sessions, AddUpload(s)
  PROVE  ResultInv'
<1>1. /\ attempts' = [attempts EXCEPT ![s] = @ + 1]
      /\ \/ published' = published \cup {s} /\ failed' = failed
         \/ failed' = failed \cup {s} /\ published' = published
  BY DEF AddUpload
<1>2. attempts[s] \in Nat /\ attempts'[s] = attempts[s] + 1
  BY <1>1 DEF UploadInv, TypeOK
<1>3. \A t \in Sessions : t # s => attempts'[t] = attempts[t]
  BY <1>1 DEF UploadInv, TypeOK
<1> QED
  BY <1>1, <1>2, <1>3 DEF ResultInv

LEMMA ResultKept ==
  ASSUME UploadInv, ResultInv, ServerStep \/ UNCHANGED vars
  PROVE  ResultInv'
<1>1. CASE \E s \in Sessions : AddUpload(s)
  BY <1>1, AddUploadResult
<1>2. CASE ~ \E s \in Sessions : AddUpload(s)
  <2>1. UNCHANGED <<attempts, published, failed>>
    <3>1. CASE UNCHANGED vars
      BY <3>1 DEF vars, updaterVars
    <3>2. CASE \E r \in Requests : Arrival(r)
      BY <3>2 DEF Arrival, NewSessionRefused, Get, Put, NewSession, updaterVars
    <3>3. CASE \E r \in Requests : RequestStep(r)
      BY <3>3 DEF RequestStep, GetSession, AddFile, Check, Refuse, CheckLast, Status, Reply, updaterVars
    <3>4. CASE \E s \in Sessions : SessionStep(s)
      BY <1>2, <3>4 DEF SessionStep, TakeUpdate, Respond, Expire, Forget, End, updaterVars
    <3> QED
      BY <3>1, <3>2, <3>3, <3>4 DEF ServerStep
  <2> QED
    BY <2>1 DEF ResultInv
<1> QED
  BY <1>1, <1>2

(***************************************************************************)
(* What a client can rely on is kept by every step of the server.          *)
(***************************************************************************)
LEMMA ArrivalService ==
  ASSUME UploadInv, ServiceInv, NEW r \in Requests, Arrival(r)
  PROVE  ServiceInv'
<1> USE LoneAssumption, NoneAssumption
<1>0. CASE NewSessionRefused(r)
  <2>1. /\ pc[r] = "new" /\ pc' = [pc EXCEPT ![r] = "answered"]
        /\ \E a \in {"notfound", "refused"} : answer' = [answer EXCEPT ![r] = a]
        /\ UNCHANGED <<sessionVars, target, parts, next, attempts>>
    BY <1>0 DEF NewSessionRefused, Answer, Goto, updaterVars
  <2>2. /\ \A q \in Requests : q # r => pc'[q] = pc[q] /\ answer'[q] = answer[q]
        /\ pc'[r] = "answered" /\ answer'[r] # None
    BY <2>1 DEF UploadInv, TypeOK, Answers
  <2>3. NewInv' /\ SendingInv'
    BY <2>1, <2>2 DEF ServiceInv, NewInv, SendingInv, sessionVars
  <2>4. OpenInv' /\ WholeInv'
    BY <2>1 DEF ServiceInv, OpenInv, WholeInv, sessionVars
  <2> QED
    BY <2>3, <2>4 DEF ServiceInv
<1>1. CASE \E s \in Sessions : Get(r, s) \/ \E u : Put(r, s, u) \/ NewSession(r, s, u)
  <2>1. PICK s, u :
          /\ s \in Sessions
          /\ pc[r] = "new" /\ target' = [target EXCEPT ![r] = s]
          /\ parts' = [parts EXCEPT ![r] = u]
          /\ \/ /\ \/ pc' = [pc EXCEPT ![r] = IF 0 < Len(u) THEN "send" ELSE "final"]
                   \/ pc' = [pc EXCEPT ![r] = "status"]
                /\ answer' = answer
                /\ Known(s) /\ UNCHANGED sessionVars
             \/ /\ pc' = [pc EXCEPT ![r] = "answered"] /\ answer' = [answer EXCEPT ![r] = "notfound"]
                /\ Known(s) /\ UNCHANGED sessionVars
             \/ /\ pc' = [pc EXCEPT ![r] = "lookup"] /\ answer' = answer
                /\ handler[s] = "none" /\ handler' = [handler EXCEPT ![s] = "loop"]
                /\ inMap' = [inMap EXCEPT ![s] = TRUE] /\ maker' = [maker EXCEPT ![s] = r]
                /\ UNCHANGED <<expecting, received, err, complete, expired, serving>>
          /\ UNCHANGED <<next, attempts>>
    <3>1. PICK s \in Sessions : Get(r, s) \/ \E u : Put(r, s, u) \/ NewSession(r, s, u)
      BY <1>1
    <3>2. CASE Get(r, s)
      BY <3>2 DEF Get, Arrives, Goto, Answer, updaterVars
    <3>3. CASE \E u : Put(r, s, u)
      BY <3>3 DEF Put, Arrives, Continue, Goto, Answer, updaterVars
    <3>4. CASE \E u : NewSession(r, s, u)
      BY <3>4 DEF NewSession, Arrives, Goto, updaterVars
    <3> QED
      BY <3>1, <3>2, <3>3, <3>4
  <2>2. /\ \A q \in Requests : q # r => /\ pc'[q] = pc[q] /\ answer'[q] = answer[q]
                                        /\ target'[q] = target[q] /\ parts'[q] = parts[q]
        /\ pc'[r] \in {"lookup", "send", "final", "status", "answered"}
        /\ pc'[r] = "answered" => answer'[r] # None
        /\ target'[r] = s /\ parts'[r] = u
        /\ pc'[r] = "send" => 0 < Len(u)
    BY <2>1 DEF UploadInv, TypeOK, ServiceInv, NewInv, Answers
  <2>3. next[r] = 0
    BY <2>1 DEF ServiceInv, NewInv
  <2>4. maker[s] # None => handler[s] # "none"
    BY <2>1 DEF ServiceInv, NewInv
  <2>5. /\ \A t \in Sessions : t # s => /\ handler'[t] = handler[t] /\ inMap'[t] = inMap[t]
                                        /\ maker'[t] = maker[t]
        /\ handler'[s] # "none"
        /\ handler[s] # "none" => handler'[s] = handler[s]
        /\ handler[s] = "none" => handler'[s] = "loop" /\ inMap'[s]
        /\ inMap[s] => inMap'[s]
    BY <2>1, <2>4 DEF Known, sessionVars, UploadInv, TypeOK
  <2>6. UNCHANGED <<expecting, received, err, complete, expired, serving, next, attempts>>
    BY <2>1 DEF sessionVars
  <2>7. parts' = [q \in Requests |-> parts'[q]]
    BY <2>1 DEF ServiceInv, NewInv
  <2>8. NewInv'
    BY <2>2, <2>5, <2>6, <2>7 DEF ServiceInv, NewInv
  <2>9. SendingInv'
    <3> SUFFICES ASSUME NEW q \in Requests
                 PROVE  /\ pc'[q] = "lookup" => next[q] = 0
                        /\ pc'[q] = "send" => next[q] < Len(parts'[q])
                        /\ pc'[q] \in {"send", "merging"} => parts'[q] # <<>>
                        /\ pc'[q] = "merging" => handler'[target'[q]] = "merging" /\ serving[target'[q]] = q
      BY <2>6 DEF SendingInv
    <3>1. CASE q = r
      <4>1. u = <<>> => ~(0 < Len(u))
        OBVIOUS
      <4> QED
        BY <2>2, <2>3, <3>1, <4>1
    <3>2. CASE q # r
      <4>1. pc[q] = "merging" => target[q] \in Sessions /\ handler[target[q]] = "merging"
        BY DEF UploadInv, RequestInv, ServiceInv, SendingInv
      <4> QED
        BY <2>2, <2>5, <3>2, <4>1 DEF ServiceInv, SendingInv
    <3> QED
      BY <3>1, <3>2
  <2>10. OpenInv' /\ WholeInv'
    BY <2>5, <2>6 DEF ServiceInv, OpenInv, WholeInv
  <2> QED
    BY <2>8, <2>9, <2>10 DEF ServiceInv
<1> QED
  BY <1>0, <1>1 DEF Arrival

LEMMA AddFileService ==
  ASSUME UploadInv, ServiceInv, NEW r \in Requests, AddFile(r)
  PROVE  ServiceInv'
<1> USE LoneAssumption, NoneAssumption
<1> DEFINE s == target[r]
           p == Part(r)
           exp == Expected(s, p)
           rec == Received(s, p)
<1>1. /\ pc[r] = "send" /\ handler[s] = "loop" /\ s \in Sessions
  BY DEF AddFile, Exchange, UploadInv, RequestInv
<1>2. /\ expecting' = [expecting EXCEPT ![s] = exp]
      /\ received' = [received EXCEPT ![s] = rec]
      /\ err' = [err EXCEPT ![s] = ErrAfter(s, p)]
      /\ next' = [next EXCEPT ![r] = @ + 1]
      /\ UNCHANGED <<expired, inMap, maker, attempts, target, parts, answer>>
      /\ \/ /\ pc' = [pc EXCEPT ![r] = "check"]
            /\ Refused(s, p) \/ ~(exp \subseteq rec)
            /\ UNCHANGED <<handler, complete, serving>>
         \/ /\ complete' = [complete EXCEPT ![s] = TRUE]
            /\ handler' = [handler EXCEPT ![s] = "merging"]
            /\ serving' = [serving EXCEPT ![s] = r]
            /\ pc' = [pc EXCEPT ![r] = "merging"]
  BY DEF AddFile, Goto, CompleteWith, updaterVars
<1>3. /\ \A q \in Requests : q # r => pc'[q] = pc[q] /\ next'[q] = next[q]
      /\ pc'[r] \in {"check", "merging"}
      /\ \A t \in Sessions : t # s =>
           /\ handler'[t] = handler[t] /\ serving'[t] = serving[t] /\ complete'[t] = complete[t]
           /\ received'[t] = received[t] /\ expecting'[t] = expecting[t] /\ err'[t] = err[t]
      /\ handler'[s] \in {"loop", "merging"}
      /\ pc'[r] = "merging" => handler'[s] = "merging" /\ serving'[s] = r
      /\ complete[s] \/ pc'[r] = "merging" => complete'[s]
      /\ received'[s] = rec
  BY <1>1, <1>2 DEF UploadInv, TypeOK, Shape
<1>4. NewInv'
  BY <1>1, <1>2, <1>3 DEF ServiceInv, NewInv
<1>5. SendingInv'
  <2> SUFFICES ASSUME NEW q \in Requests
               PROVE  /\ pc'[q] = "lookup" => next'[q] = 0
                      /\ pc'[q] = "send" => next'[q] < Len(parts[q])
                      /\ pc'[q] \in {"send", "merging"} => parts[q] # <<>>
                      /\ pc'[q] = "merging" => handler'[target[q]] = "merging" /\ serving'[target[q]] = q
    BY <1>2 DEF SendingInv
  <2>1. CASE q = r
    BY <1>1, <1>3, <2>1 DEF ServiceInv, SendingInv
  <2>2. CASE q # r
    <3>1. pc[q] = "merging" => target[q] \in Sessions /\ handler[target[q]] = "merging"
      BY DEF UploadInv, RequestInv, ServiceInv, SendingInv
    <3> QED
      BY <1>1, <1>3, <2>2, <3>1 DEF ServiceInv, SendingInv
  <2> QED
    BY <2>1, <2>2
<1>6. OpenInv'
  BY <1>1, <1>2, <1>3 DEF ServiceInv, OpenInv
<1>7. WholeInv'
  <2>1. s \notin Lone /\ Files \subseteq rec => complete'[s] \/ Files \subseteq received[s]
    <3>1. s \notin Lone => exp = Files
      BY <1>1 DEF Expected, UploadInv, TypeOK
    <3>2. s \notin Lone /\ Refused(s, p) => rec = received[s]
      BY <1>1 DEF Received, Withdrawn
    <3> QED
      BY <1>1, <1>2, <1>3, <3>1, <3>2 DEF UploadInv, TypeOK
  <2> QED
    BY <1>1, <1>3, <2>1 DEF ServiceInv, WholeInv
<1> QED
  BY <1>4, <1>5, <1>6, <1>7 DEF ServiceInv

LEMMA ExchangeService ==
  ASSUME UploadInv, ServiceInv, NEW r \in Requests,
         GetSession(r) \/ Check(r) \/ Refuse(r) \/ CheckLast(r) \/ Status(r) \/ Reply(r)
  PROVE  ServiceInv'
<1> USE NoneAssumption
<1>1. /\ UNCHANGED <<sessionVars, attempts, target, parts, next>>
      /\ pc[r] \notin {"new", "answered"} /\ next[r] \in Nat
      /\ pc[r] = "lookup" => next[r] = 0
      /\ \/ /\ \E l \in {"send", "refusing", "final", "status", "reply", "answered"} : pc' = [pc EXCEPT ![r] = l]
            /\ pc'[r] = "send" => next[r] < Len(parts[r])
            /\ pc'[r] # "answered" /\ UNCHANGED answer
         \/ /\ pc' = [pc EXCEPT ![r] = "answered"]
            /\ \E a \in {"ok", "refused", "notfound", "panic"} : answer' = [answer EXCEPT ![r] = a]
  <2>0. next[r] \in Nat
    BY DEF UploadInv, TypeOK
  <2>1. CASE GetSession(r)
    BY <2>0, <2>1 DEF GetSession, Continue, Goto, Answer, updaterVars, UploadInv, TypeOK, ServiceInv, SendingInv
  <2>2. CASE Check(r) \/ Refuse(r) \/ CheckLast(r)
    BY <2>0, <2>2 DEF Check, Refuse, CheckLast, Exchange, Continue, Goto, Answer, updaterVars, UploadInv, TypeOK
  <2>3. CASE Status(r) \/ Reply(r)
    BY <2>0, <2>3 DEF Status, Reply, Exchange, Goto, Answer, updaterVars, UploadInv, TypeOK
  <2> QED
    BY <2>1, <2>2, <2>3
<1>2. /\ \A q \in Requests : q # r => pc'[q] = pc[q] /\ answer'[q] = answer[q]
      /\ pc'[r] \notin {"new", "lookup", "merging"} /\ (pc'[r] = "answered" => answer'[r] # None)
      /\ pc'[r] = "send" => next[r] < Len(parts[r])
  BY <1>1 DEF UploadInv, TypeOK, Answers
<1>3. NewInv'
  BY <1>1, <1>2 DEF ServiceInv, NewInv, sessionVars
<1>4. SendingInv'
  <2>1. parts[r] = <<>> => ~(next[r] < Len(parts[r]))
    BY <1>1
  <2> QED
    BY <1>1, <1>2, <2>1 DEF ServiceInv, SendingInv, sessionVars
<1>5. OpenInv' /\ WholeInv'
  BY <1>1 DEF ServiceInv, OpenInv, WholeInv, sessionVars
<1> QED
  BY <1>3, <1>4, <1>5 DEF ServiceInv

LEMMA SessionStepService ==
  ASSUME UploadInv, ServiceInv, NEW s \in Sessions, SessionStep(s)
  PROVE  ServiceInv'
<1> USE LoneAssumption, NoneAssumption
<1>1. CASE TakeUpdate(s)
  BY <1>1 DEF TakeUpdate, ServiceInv, NewInv, SendingInv, OpenInv, WholeInv, sessionVars, requestVars
<1>2. CASE AddUpload(s)
  <2>1. /\ handler[s] = "merging" /\ attempts' = [attempts EXCEPT ![s] = @ + 1]
        /\ UNCHANGED <<sessionVars, requestVars>>
    BY <1>2 DEF AddUpload, UploadInv, UpdaterInv, Idle
  <2>2. \A t \in Sessions : t # s => attempts'[t] = attempts[t]
    BY <2>1 DEF UploadInv, TypeOK
  <2>3. NewInv'
    BY <2>1, <2>2 DEF ServiceInv, NewInv, sessionVars, requestVars
  <2>4. SendingInv' /\ OpenInv' /\ WholeInv'
    BY <2>1 DEF ServiceInv, SendingInv, OpenInv, WholeInv, sessionVars, requestVars
  <2> QED
    BY <2>3, <2>4 DEF ServiceInv
<1>3. CASE Respond(s)
  <2>1. /\ handler[s] = "merging" /\ serving[s] \in Requests /\ pc[serving[s]] = "merging"
        /\ target[serving[s]] = s
    BY <1>3 DEF Respond, UploadInv, UpdaterInv, MergingInv, Idle
  <2>2. /\ handler' = [handler EXCEPT ![s] = "loop"]
        /\ serving' = [serving EXCEPT ![s] = None]
        /\ pc' = [pc EXCEPT ![serving[s]] = "check"]
        /\ UNCHANGED <<expecting, received, err, complete, expired, inMap, maker, attempts,
                       target, parts, next, answer>>
    BY <1>3 DEF Respond, Goto
  <2>3. /\ \A t \in Sessions : t # s => handler'[t] = handler[t] /\ serving'[t] = serving[t]
        /\ \A q \in Requests : q # serving[s] => pc'[q] = pc[q]
        /\ handler'[s] = "loop" /\ pc'[serving[s]] = "check"
    BY <2>1, <2>2 DEF UploadInv, TypeOK
  <2>4. NewInv'
    BY <2>1, <2>2, <2>3 DEF ServiceInv, NewInv
  <2>5. SendingInv'
    <3>1. \A q \in Requests : pc[q] = "merging" /\ q # serving[s] => target[q] \in Sessions /\ target[q] # s
      BY DEF ServiceInv, SendingInv, UploadInv, RequestInv
    <3> QED
      BY <2>1, <2>2, <2>3, <3>1 DEF ServiceInv, SendingInv
  <2>6. OpenInv' /\ WholeInv'
    BY <2>1, <2>2, <2>3 DEF ServiceInv, OpenInv, WholeInv
  <2> QED
    BY <2>4, <2>5, <2>6 DEF ServiceInv
<1>4. CASE Expire(s) \/ Forget(s) \/ End(s)
  <2>1. /\ UNCHANGED <<expecting, received, err, complete, maker, serving, attempts, target, parts,
                       next, answer, pc>>
        /\ handler[s] # "none" /\ handler[s] = handler[s]
        /\ \A t \in Sessions : t # s => /\ handler'[t] = handler[t] /\ expired'[t] = expired[t]
                                        /\ inMap'[t] = inMap[t]
        /\ \/ handler' = handler
           \/ handler[s] = "loop" /\ handler' = [handler EXCEPT ![s] = "over"]
        /\ expired'[s]
    <3>1. expired[s] => handler[s] # "none"
      BY DEF ServiceInv, NewInv
    <3> QED
      BY <1>4, <3>1 DEF Expire, Forget, End, updaterVars, requestVars, UploadInv, TypeOK
  <2>2. /\ handler'[s] # "none"
        /\ \A t \in Sessions : handler'[t] = "merging" <=> handler[t] = "merging"
    BY <2>1 DEF UploadInv, TypeOK
  <2>3. NewInv'
    BY <2>1, <2>2 DEF ServiceInv, NewInv
  <2>4. SendingInv'
    BY <2>1, <2>2 DEF ServiceInv, SendingInv, UploadInv, RequestInv
  <2>5. OpenInv' /\ WholeInv'
    BY <2>1 DEF ServiceInv, OpenInv, WholeInv
  <2> QED
    BY <2>3, <2>4, <2>5 DEF ServiceInv
<1> QED
  BY <1>1, <1>2, <1>3, <1>4 DEF SessionStep

LEMMA ServerStepService ==
  ASSUME UploadInv, ServiceInv, ServerStep
  PROVE  ServiceInv'
<1>1. CASE \E r \in Requests : Arrival(r)
  BY <1>1, ArrivalService
<1>2. CASE \E r \in Requests : RequestStep(r)
  <2>1. PICK r \in Requests : RequestStep(r)
    BY <1>2
  <2> QED
    BY <2>1, AddFileService, ExchangeService DEF RequestStep
<1>3. CASE \E s \in Sessions : SessionStep(s)
  BY <1>3, SessionStepService
<1> QED
  BY <1>1, <1>2, <1>3 DEF ServerStep

LEMMA InitService == Init => ServiceInv
  BY LoneAssumption, NoneAssumption DEF Init, ServiceInv, NewInv, SendingInv, OpenInv, WholeInv

LEMMA StutterKeeps ==
  ASSUME UploadInv, ServiceInv, UNCHANGED vars
  PROVE  UploadInv' /\ ServiceInv'
<1>1. UploadInv'
  BY DEF vars, sessionVars, updaterVars, requestVars, UploadInv, TypeOK, Shape, RequestInv,
         MergingInv, UpdaterInv, CompleteInv, ShownInv
<1>2. ServiceInv'
  BY DEF vars, sessionVars, updaterVars, requestVars, ServiceInv, NewInv, SendingInv, OpenInv,
         WholeInv
<1> QED
  BY <1>1, <1>2

(***************************************************************************)
(* A refused request that meets no other in its session is told so.        *)
(***************************************************************************)
Told(r) ==
  \/ pc[r] \in {"check", "refusing"} /\ err[target[r]]
  \/ pc[r] = "answered" /\ answer[r] # "ok"

LEMMA ToldKept ==
  ASSUME UploadInv, RefusalInv, Next, NEW r \in rejected' \ shared
  PROVE  Told(r)'
<1> USE NoneAssumption
<1>0. r \in rejected => Told(r)
  BY DEF RefusalInv, ToldInv, Told
<1>1. CASE \E q \in Requests : RequestArrives(q)
  <2>1. PICK q \in Requests : RequestArrives(q)
    BY <1>1
  <2>2. /\ pc[q] = "new" /\ UNCHANGED <<err, rejected>>
        /\ \A x \in Requests : x # q => pc'[x] = pc[x] /\ answer'[x] = answer[x] /\ target'[x] = target[x]
    <3>1. CASE NewSessionRefused(q)
      BY <3>1 DEF NewSessionRefused, Answer, Goto, sessionVars, UploadInv, TypeOK
    <3>2. CASE \E s \in Sessions : Get(q, s)
      BY <3>2 DEF Get, Arrives, Answer, Goto, sessionVars, UploadInv, TypeOK
    <3>3. CASE \E s \in Sessions, u \in Uploads : Put(q, s, u)
      BY <3>3 DEF Put, Arrives, Continue, Answer, Goto, sessionVars, UploadInv, TypeOK
    <3>4. CASE \E s \in Sessions, u \in Uploads : NewSession(q, s, u)
      BY <3>4 DEF NewSession, Arrives, Goto, UploadInv, TypeOK
    <3> QED
      BY <2>1, <3>1, <3>2, <3>3, <3>4 DEF RequestArrives
  <2> QED
    BY <1>0, <2>2 DEF Told, UploadInv, TypeOK
<1>2. CASE \E q \in Requests : AddFile(q)
  <2>1. PICK q \in Requests : AddFile(q)
    BY <1>2
  <2>2. /\ pc[q] = "send" /\ target[q] \in Sessions
        /\ rejected' = IF Refused(target[q], Part(q)) THEN rejected \cup {q} ELSE rejected
        /\ err' = [err EXCEPT ![target[q]] = ErrAfter(target[q], Part(q))]
        /\ Refused(target[q], Part(q)) => pc' = [pc EXCEPT ![q] = "check"]
        /\ \A x \in Requests : x # q => pc'[x] = pc[x]
        /\ UNCHANGED <<answer, target>>
    BY <2>1 DEF AddFile, Exchange, Goto, UploadInv, RequestInv, TypeOK
  <2>3. CASE r = q
    BY <1>0, <2>2, <2>3 DEF Told, ErrAfter, UploadInv, TypeOK
  <2>4. CASE r # q
    <3>1. r \in rejected /\ r \in Requests
      BY <2>2, <2>4 DEF UploadInv, TypeOK
    <3>2. CASE pc[r] \in {"check", "refusing"} /\ err[target[r]]
      <4>1. target[r] \in Sessions /\ r \in Talking(target[r])
        BY <3>1, <3>2 DEF Talking, UploadInv, RequestInv
      <4>2. q \in Talking(target[q])
        BY <2>2 DEF Talking
      <4>3. target[q] # target[r]
        BY <2>4, <3>1, <4>1, <4>2 DEF RefusalInv, SharedInv
      <4> QED
        BY <2>2, <2>4, <3>1, <3>2, <4>1, <4>3 DEF Told, UploadInv, TypeOK
    <3>3. CASE pc[r] = "answered" /\ answer[r] # "ok"
      BY <2>2, <2>4, <3>1, <3>3 DEF Told
    <3> QED
      BY <1>0, <3>1, <3>2, <3>3 DEF Told
  <2> QED
    BY <2>3, <2>4
<1>3. CASE \E q \in Requests : GetSession(q) \/ Check(q) \/ Refuse(q) \/ CheckLast(q) \/ Status(q) \/ Reply(q)
  <2>1. PICK q \in Requests : GetSession(q) \/ Check(q) \/ Refuse(q) \/ CheckLast(q) \/ Status(q) \/ Reply(q)
    BY <1>3
  <2>2. /\ UNCHANGED <<err, target, rejected>>
        /\ pc[q] # "answered"
        /\ pc[q] = "check" => Check(q)
        /\ pc[q] = "refusing" => Refuse(q)
        /\ \A x \in Requests : x # q => pc'[x] = pc[x] /\ answer'[x] = answer[x]
    BY <2>1 DEF GetSession, Check, Refuse, CheckLast, Status, Reply, Exchange, Continue, Answer, Goto, sessionVars,
                UploadInv, TypeOK
  <2>3. r \in rejected /\ r \in Requests
    BY <2>2 DEF UploadInv, TypeOK
  <2>4. /\ Check(q) /\ err[target[q]] => pc'[q] = "refusing"
        /\ Refuse(q) /\ err[target[q]] => pc'[q] = "answered" /\ answer'[q] = "refused"
    BY DEF Check, Refuse, Answer, Goto, UploadInv, TypeOK
  <2> QED
    BY <1>0, <2>2, <2>3, <2>4 DEF Told
<1>4. CASE \E s \in Sessions : SessionStep(s)
  <2>1. PICK s \in Sessions : SessionStep(s)
    BY <1>4
  <2>2. /\ UNCHANGED <<err, target, answer, rejected>>
        /\ \A x \in Requests : pc[x] # "merging" => pc'[x] = pc[x]
    <3>1. CASE Respond(s)
      <4>1. pc[serving[s]] = "merging" /\ serving[s] \in Requests
        BY <3>1 DEF Respond, UploadInv, UpdaterInv, MergingInv, Idle
      <4> QED
        BY <3>1, <4>1 DEF Respond, Goto, UploadInv, TypeOK
    <3>2. CASE ~Respond(s)
      BY <2>1, <3>2 DEF SessionStep, TakeUpdate, AddUpload, Expire, Forget, End, sessionVars, requestVars
    <3> QED
      BY <3>1, <3>2
  <2> QED
    BY <1>0, <2>2 DEF Told, UploadInv, TypeOK
<1> QED
  BY <1>1, <1>2, <1>3, <1>4 DEF Next, RequestStep

(***************************************************************************)
(* A refused file is not followed by good news, unless another client has  *)
(* used the session at the same time (README.md:12, upload_session.go:170).*)
(***************************************************************************)
THEOREM RefusalsReported == MCSpec => []RefusalReported
<1> DEFINE Inv == UploadInv /\ RefusalInv
<1>1. MCInit => Inv
  <2>1. MCInit => RefusalInv
    BY NoneAssumption DEF MCInit, Init, RefusalInv, SharedInv, ToldInv, Talking
  <2> QED
    BY <2>1, InitInv DEF MCInit
<1>2. Inv /\ [MCNext]_<<vars, shared>> => Inv'
  <2> SUFFICES ASSUME UploadInv, RefusalInv, [MCNext]_<<vars, shared>>
               PROVE  UploadInv' /\ RefusalInv'
    OBVIOUS
  <2>1. CASE MCNext
    <3>1. /\ Next
          /\ shared' = shared \cup UNION {Talking(s)' : s \in {t \in Sessions : \E q, r \in Talking(t)' : q # r}}
      BY <2>1 DEF MCNext
    <3>2. UploadInv'
      BY <3>1, NextIsServerStep, ServerStepInv
    <3>3. SharedInv'
      BY <3>1 DEF SharedInv
    <3>4. ToldInv'
      <4> SUFFICES ASSUME NEW r \in rejected', r \notin shared'
                   PROVE  Told(r)'
        BY DEF ToldInv, Told
      <4>1. r \notin shared
        BY <3>1
      <4> QED
        BY <3>1, <4>1, ToldKept
    <3> QED
      BY <3>2, <3>3, <3>4 DEF RefusalInv
  <2>2. CASE UNCHANGED <<vars, shared>>
    <3>1. UploadInv'
      BY <2>2 DEF vars, sessionVars, updaterVars, requestVars, UploadInv, TypeOK, Shape, RequestInv,
                  MergingInv, UpdaterInv, CompleteInv, ShownInv
    <3>2. RefusalInv'
      BY <2>2 DEF vars, sessionVars, requestVars, RefusalInv, SharedInv, ToldInv, Talking
    <3> QED
      BY <3>1, <3>2
  <2> QED
    BY <2>1, <2>2
<1>3. Inv => RefusalReported
  BY DEF UploadInv, RequestInv, TypeOK, RefusalInv, ToldInv, RefusalReported
<1> QED
  BY <1>1, <1>2, <1>3, PTL DEF MCSpec

(***************************************************************************)
(* What a step of the server can do to a request that has arrived.         *)
(***************************************************************************)
Frame(q) ==
  /\ pc[q] # "new" => pc'[q] # "new" /\ target'[q] = target[q] /\ parts'[q] = parts[q]
  /\ pc[q] = "answered" => pc'[q] = "answered" /\ answer'[q] = answer[q] /\ seen'[q] = seen[q]
  /\ pc'[q] \in {"merging", "check"} =>
       \/ pc[q] \in {"merging", "check"} /\ next'[q] = next[q]
       \/ next'[q] >= 1

LEMMA ArrivalFrame ==
  ASSUME UploadInv, ServiceInv, NEW r \in Requests, Arrival(r)
  PROVE  /\ \A q \in Requests : Frame(q)
         /\ \A q \in Requests : q # r =>
              /\ pc'[q] = pc[q] /\ target'[q] = target[q] /\ parts'[q] = parts[q]
              /\ next'[q] = next[q] /\ answer'[q] = answer[q] /\ seen'[q] = seen[q]
         /\ \A s \in Sessions : handler[s] # "none" =>
              /\ handler'[s] = handler[s] /\ inMap'[s] = inMap[s]
         /\ UNCHANGED <<expecting, received, err, complete, expired, attempts>>
<1>1. /\ pc[r] = "new" /\ pc'[r] \notin {"merging", "check"}
      /\ \A q \in Requests : q # r =>
              /\ pc'[q] = pc[q] /\ target'[q] = target[q] /\ parts'[q] = parts[q]
              /\ answer'[q] = answer[q]
      /\ UNCHANGED <<next, seen, expecting, received, err, complete, expired, attempts>>
      /\ \/ UNCHANGED <<handler, inMap>>
         \/ \E s \in Sessions : /\ handler[s] = "none"
                                /\ handler' = [handler EXCEPT ![s] = "loop"]
                                /\ inMap' = [inMap EXCEPT ![s] = TRUE]
  <2>1. CASE NewSessionRefused(r)
    BY <2>1 DEF NewSessionRefused, Answer, Goto, sessionVars, updaterVars, UploadInv, TypeOK
  <2>2. CASE \E s \in Sessions : Get(r, s)
    BY <2>2 DEF Get, Arrives, Answer, Goto, sessionVars, updaterVars, UploadInv, TypeOK, ServiceInv, NewInv
  <2>3. CASE \E s \in Sessions : \E u : Put(r, s, u)
    BY <2>3 DEF Put, Arrives, Continue, Answer, Goto, sessionVars, updaterVars, UploadInv, TypeOK, ServiceInv, NewInv
  <2>4. CASE \E s \in Sessions : \E u : NewSession(r, s, u)
    <3> PICK s \in Sessions : \E u : NewSession(r, s, u)
      BY <2>4
    <3> PICK u : NewSession(r, s, u)
      OBVIOUS
    <3>1. /\ pc[r] = "new" /\ pc' = [pc EXCEPT ![r] = "lookup"]
          /\ target' = [target EXCEPT ![r] = s] /\ parts' = [parts EXCEPT ![r] = u]
          /\ handler[s] = "none" /\ handler' = [handler EXCEPT ![s] = "loop"]
          /\ inMap' = [inMap EXCEPT ![s] = TRUE]
          /\ UNCHANGED <<next, answer, seen, expecting, received, err, complete, expired, attempts>>
      BY DEF NewSession, Arrives, Goto, updaterVars
    <3>2. /\ DOMAIN pc = Requests /\ pc = [q \in Requests |-> pc[q]]
          /\ target = [q \in Requests |-> target[q]] /\ parts = [q \in Requests |-> parts[q]]
      BY DEF UploadInv, TypeOK, ServiceInv, NewInv
    <3>3. pc'[r] = "lookup"
      BY <3>1, <3>2
    <3>4. \A q \in Requests : q # r =>
            /\ pc'[q] = pc[q] /\ target'[q] = target[q] /\ parts'[q] = parts[q]
            /\ answer'[q] = answer[q]
      BY <3>1, <3>2
    <3> QED
      BY <3>1, <3>3, <3>4
  <2> QED
    BY <2>1, <2>2, <2>3, <2>4 DEF Arrival
<1>2. \A s \in Sessions : handler[s] # "none" => handler'[s] = handler[s] /\ inMap'[s] = inMap[s]
  BY <1>1 DEF UploadInv, TypeOK
<1>3. \A q \in Requests : Frame(q)
  BY <1>1 DEF Frame
<1> QED
  BY <1>1, <1>2, <1>3

LEMMA AddFileFrame ==
  ASSUME UploadInv, ServiceInv, NEW r \in Requests, AddFile(r)
  PROVE  /\ \A q \in Requests : Frame(q)
         /\ \A q \in Requests : pc[q] = "new" => pc'[q] = "new"
         /\ \A q \in Requests : q # r => pc'[q] = pc[q]
         /\ UNCHANGED <<expired, attempts, inMap, answer, seen, parts, target>>
<1>1. /\ pc[r] = "send" /\ \E l \in {"check", "merging"} : pc' = [pc EXCEPT ![r] = l]
      /\ next' = [next EXCEPT ![r] = @ + 1]
      /\ UNCHANGED <<target, parts, answer, seen, expired, attempts, inMap>>
  BY DEF AddFile, Exchange, Goto, updaterVars
<1>2. next[r] \in Nat
  BY DEF UploadInv, TypeOK
<1> QED
  BY <1>1, <1>2 DEF Frame, UploadInv, TypeOK

LEMMA ExchangeFrame ==
  ASSUME UploadInv, ServiceInv, NEW r \in Requests,
         GetSession(r) \/ Check(r) \/ Refuse(r) \/ CheckLast(r) \/ Status(r) \/ Reply(r)
  PROVE  /\ \A q \in Requests : Frame(q)
         /\ \A q \in Requests : pc[q] = "new" => pc'[q] = "new"
         /\ \A q \in Requests : q # r =>
              pc'[q] = pc[q] /\ answer'[q] = answer[q] /\ seen'[q] = seen[q]
         /\ UNCHANGED <<sessionVars, updaterVars, parts, target, next>>
<1>1. /\ pc[r] \notin {"new", "answered"} /\ pc'[r] \notin {"new", "merging", "check"}
      /\ \A q \in Requests : q # r =>
              pc'[q] = pc[q] /\ answer'[q] = answer[q] /\ seen'[q] = seen[q]
      /\ UNCHANGED <<sessionVars, updaterVars, parts, target, next>>
  <2>1. CASE GetSession(r) \/ Check(r) \/ Refuse(r) \/ CheckLast(r)
    BY <2>1 DEF GetSession, Check, Refuse, CheckLast, Exchange, Continue, Goto, Answer, UploadInv, TypeOK
  <2>2. CASE Status(r) \/ Reply(r)
    BY <2>2 DEF Status, Reply, Exchange, Goto, Answer, UploadInv, TypeOK, Shape
  <2> QED
    BY <2>1, <2>2
<1> QED
  BY <1>1 DEF Frame

LEMMA SessionStepFrame ==
  ASSUME UploadInv, ServiceInv, NEW s \in Sessions, SessionStep(s)
  PROVE  /\ \A q \in Requests : Frame(q)
         /\ \A q \in Requests : pc[q] = "new" => pc'[q] = "new"
         /\ \A q \in Requests : pc[q] # "merging" => pc'[q] = pc[q]
         /\ \A q \in Requests : pc'[q] = pc[q] \/ (pc[q] = "merging" /\ pc'[q] = "check")
         /\ \A t \in Sessions : expired[t] => expired'[t]
         /\ UNCHANGED <<expecting, received, err, complete, target, parts, next, answer, seen>>
<1>1. CASE Respond(s)
  <2>1. serving[s] \in Requests /\ pc[serving[s]] = "merging"
    BY <1>1 DEF Respond, UploadInv, UpdaterInv, MergingInv, Idle
  <2> QED
    BY <1>1, <2>1 DEF Respond, Goto, Frame, UploadInv, TypeOK
<1>2. CASE ~Respond(s)
  <2>1. UNCHANGED <<expecting, received, err, complete, pc, target, parts, next, answer, seen>>
    BY <1>2 DEF SessionStep, TakeUpdate, AddUpload, Expire, Forget, End, sessionVars, requestVars
  <2>2. \A t \in Sessions : expired[t] => expired'[t]
    BY <1>2 DEF SessionStep, TakeUpdate, AddUpload, Expire, Forget, End, sessionVars, UploadInv, TypeOK
  <2> QED
    BY <2>1, <2>2 DEF Frame
<1> QED
  BY <1>1, <1>2

-----------------------------------------------------------------------------
(***************************************************************************)
(* Clients.                                                                *)
(***************************************************************************)
SameClient(c) ==
  /\ place'[c] = place[c] /\ fns'[c] = fns[c] /\ sid'[c] = sid[c] /\ sent'[c] = sent[c]
  /\ disk'[c] = disk[c]

LEMMA TurnFacts ==
  ASSUME NEW c \in Clients
  PROVE  /\ Len(Turns[c]) \in Nat
         /\ \A i \in 1..Len(Turns[c]) : Turn(c, i) \in Requests /\ Turn(c, i) \in Own(c)
         /\ \A i, j \in 1..Len(Turns[c]) : Turn(c, i) = Turn(c, j) => i = j
         /\ \A q \in Own(c) : \E i \in 1..Len(Turns[c]) : q = Turn(c, i)
         /\ \A d \in Clients : d # c => \A i \in 1..Len(Turns[c]) : Turn(c, i) \notin Own(d)
<1>1. Turns[c] \in Seq(Requests)
  BY TurnsAssumption
<1>2. DOMAIN Turns[c] = 1..Len(Turns[c]) /\ Len(Turns[c]) \in Nat
  BY <1>1
<1>3. \A i \in 1..Len(Turns[c]) : Turn(c, i) \in Requests /\ Turn(c, i) \in Own(c)
  BY <1>1, <1>2 DEF Turn, Own
<1>4. \A i, j \in 1..Len(Turns[c]) : Turn(c, i) = Turn(c, j) => i = j
  BY <1>2, TurnsAssumption
<1>5. \A q \in Own(c) : \E i \in 1..Len(Turns[c]) : q = Turn(c, i)
  BY <1>2 DEF Own
<1>6. \A d \in Clients : d # c => \A i \in 1..Len(Turns[c]) : Turn(c, i) \notin Own(d)
  BY <1>2, TurnsAssumption DEF Own
<1> QED
  BY <1>2, <1>3, <1>4, <1>5, <1>6

(***************************************************************************)
(* Of a client's requests only the last can be in flight.                  *)
(***************************************************************************)
LEMMA InFlightIsLast ==
  ASSUME NEW c \in Clients, TurnInv(c), NEW q \in Own(c), pc[q] \notin {"new", "answered"}
  PROVE  q = Last(c) /\ sent[c] > 0 /\ place[c] \in {"waiting", "crashed"}
<1>1. PICK i \in 1..Len(Turns[c]) : q = Turn(c, i)
  BY TurnFacts
<1>2. sent[c] \in 0..Len(Turns[c]) /\ Len(Turns[c]) \in Nat
  BY TurnFacts DEF TurnInv
<1>3. i <= sent[c]
  BY <1>1, <1>2 DEF TurnInv
<1>4. ~(i < sent[c]) /\ place[c] \in {"waiting", "crashed"}
  BY <1>1, <1>2, <1>3 DEF TurnInv
<1> QED
  BY <1>1, <1>2, <1>3, <1>4 DEF Last

(***************************************************************************)
(* A client's session, and its last request.                               *)
(***************************************************************************)
LEMMA LastFacts ==
  ASSUME UploadInv, ServiceInv, NEW c \in Clients, TurnInv(c), SessionOf(c) # None
  PROVE  /\ sent[c] > 0 /\ sent[c] \in 1..Len(Turns[c])
         /\ Last(c) \in Requests /\ Last(c) \in Own(c)
         /\ pc[Last(c)] # "new" /\ target[Last(c)] = SessionOf(c)
         /\ SessionOf(c) \in Sessions /\ handler[SessionOf(c)] # "none"
<1>1. sent[c] # 0 /\ sent[c] \in 0..Len(Turns[c]) /\ Len(Turns[c]) \in Nat
  BY TurnFacts DEF TurnInv, SessionOf
<1>2. sent[c] \in 1..Len(Turns[c])
  BY <1>1
<1>3. Last(c) \in Requests /\ Last(c) \in Own(c)
  BY <1>2, TurnFacts DEF Last
<1>4. pc[Last(c)] # "new" /\ target[Last(c)] = SessionOf(c)
  BY <1>2 DEF TurnInv, Last
<1>5. SessionOf(c) \in Sessions
  BY <1>3, <1>4 DEF UploadInv, TypeOK
<1>6. handler[SessionOf(c)] # "none"
  BY <1>3, <1>4, <1>5 DEF ServiceInv, NewInv
<1> QED
  BY <1>1, <1>2, <1>3, <1>4, <1>5, <1>6

(***************************************************************************)
(* Steps that are not the client's own leave its requests where they were  *)
(* or take the last of them further.                                       *)
(***************************************************************************)
LEMMA TurnKept ==
  ASSUME UploadInv, ServiceInv, UploadInv', NEW c \in Clients, TurnInv(c), SameClient(c),
         \A q \in Requests : Frame(q),
         \A q \in Own(c) : pc[q] = "new" => pc'[q] = "new"
  PROVE  TurnInv(c)' /\ SessionOf(c)' = SessionOf(c) /\ Last(c)' = Last(c)
<1>1. sent[c] \in 0..Len(Turns[c]) /\ Len(Turns[c]) \in Nat
  BY TurnFacts DEF TurnInv
<1>2. \A i \in 1..Len(Turns[c]) : Turn(c, i) \in Requests /\ Turn(c, i) \in Own(c) /\ Frame(Turn(c, i))
  BY TurnFacts
<1>3. SessionOf(c)' = SessionOf(c)
  <2>1. CASE sent[c] = 0
    BY <2>1 DEF SessionOf, SameClient
  <2>2. CASE sent[c] # 0
    <3>1. 1 \in 1..Len(Turns[c]) /\ 1 <= sent[c]
      BY <1>1, <2>2
    <3>2. pc[Turn(c, 1)] # "new"
      BY <3>1 DEF TurnInv
    <3> QED
      BY <1>2, <2>2, <3>1, <3>2 DEF SessionOf, SameClient, Frame, Turn
  <2> QED
    BY <2>1, <2>2
<1>4. Last(c)' = Last(c)
  BY DEF Last, Turn, SameClient
<1>5. ASSUME NEW i \in 1..Len(Turns[c])
      PROVE  /\ i > sent[c] => pc'[Turn(c, i)] = "new"
             /\ i <= sent[c] =>
                  /\ pc'[Turn(c, i)] # "new" /\ target'[Turn(c, i)] = SessionOf(c)
                  /\ parts'[Turn(c, i)] = <<>> \/ parts'[Turn(c, i)] = <<parts'[Turn(c, i)][1]>>
                  /\ pc'[Turn(c, i)] \in {"merging", "check"} => ~(next'[Turn(c, i)] < Len(parts'[Turn(c, i)]))
             /\ i < sent[c] \/ (i = sent[c] /\ place[c] \notin {"waiting", "crashed"}) =>
                  pc'[Turn(c, i)] = "answered"
  <2>1. i > sent[c] => pc'[Turn(c, i)] = "new"
    BY <1>2, <1>5 DEF TurnInv
  <2>2. i < sent[c] \/ (i = sent[c] /\ place[c] \notin {"waiting", "crashed"}) =>
          pc'[Turn(c, i)] = "answered"
    BY <1>2, <1>5 DEF TurnInv, Frame
  <2>3. ASSUME i <= sent[c]
        PROVE  /\ pc'[Turn(c, i)] # "new" /\ target'[Turn(c, i)] = SessionOf(c)
               /\ parts'[Turn(c, i)] = <<>> \/ parts'[Turn(c, i)] = <<parts'[Turn(c, i)][1]>>
               /\ pc'[Turn(c, i)] \in {"merging", "check"} => ~(next'[Turn(c, i)] < Len(parts'[Turn(c, i)]))
    <3> DEFINE q == Turn(c, i)
    <3>1. /\ pc[q] # "new" /\ target[q] = SessionOf(c)
          /\ parts[q] = <<>> \/ parts[q] = <<parts[q][1]>>
          /\ pc[q] \in {"merging", "check"} => ~(next[q] < Len(parts[q]))
      BY <2>3, <1>5 DEF TurnInv
    <3>2. Frame(q)
      BY <1>2, <1>5
    <3> HIDE DEF q
    <3>3. pc'[q] # "new" /\ target'[q] = target[q] /\ parts'[q] = parts[q]
      BY <3>1, <3>2 DEF Frame
    <3>4. Len(parts[q]) <= 1 /\ Len(parts[q]) \in Nat
      <4>1. CASE parts[q] = <<>>
        BY <4>1
      <4>2. CASE parts[q] = <<parts[q][1]>>
        <5>1. PICK x : parts[q] = <<x>>
          BY <4>2
        <5> QED
          BY <5>1
      <4> QED
        BY <3>1, <4>1, <4>2
    <3>5. pc'[q] \in {"merging", "check"} => ~(next'[q] < Len(parts'[q]))
      <4> SUFFICES ASSUME pc'[q] \in {"merging", "check"}
                   PROVE  ~(next'[q] < Len(parts'[q]))
        OBVIOUS
      <4>1. CASE pc[q] \in {"merging", "check"} /\ next'[q] = next[q]
        BY <3>1, <3>3, <4>1
      <4>2. CASE next'[q] >= 1
        <5>1. next'[q] \in Nat
          BY <1>2, <1>5 DEF q, UploadInv, TypeOK
        <5> QED
          BY <3>3, <3>4, <4>2, <5>1
      <4> QED
        BY <3>2, <4>1, <4>2 DEF Frame
    <3>6. pc'[q] # "new" /\ target'[q] = SessionOf(c)
          /\ (parts'[q] = <<>> \/ parts'[q] = <<parts'[q][1]>>)
      BY <3>1, <3>3
    <3> QED
      BY <3>5, <3>6 DEF q
  <2> QED
    BY <2>1, <2>2, <2>3
<1>6. place[c] = "done" => Shown(Last(c))'
  <2> SUFFICES ASSUME place[c] = "done" PROVE Shown(Last(c))'
    OBVIOUS
  <2>1. sent[c] > 0 /\ Shown(Last(c))
    BY DEF TurnInv
  <2>2. sent[c] \in 1..Len(Turns[c])
    BY <1>1, <2>1
  <2>3. pc[Last(c)] = "answered"
    BY <2>2 DEF TurnInv, Last
  <2>4. Frame(Last(c))
    BY <1>2, <2>2 DEF Last
  <2>5. answer'[Last(c)] = answer[Last(c)] /\ seen'[Last(c)] = seen[Last(c)]
    BY <2>3, <2>4 DEF Frame
  <2> QED
    BY <1>4, <2>1, <2>5 DEF Shown
<1> QED
  <2>1. SameClient(c)
    OBVIOUS
  <2>2. /\ place'[c] \in {"ready", "waiting", "done", "failed", "crashed"}
        /\ sent'[c] \in 0..Len(Turns[c])
        /\ place'[c] \in {"waiting", "done", "crashed"} => sent'[c] > 0
        /\ sent'[c] = 0 => sid'[c] = None /\ \E f \in {Changes} \cup Debs : fns'[c] = <<f>>
        /\ sid'[c] # None => sid'[c] = SessionOf(c)'
        /\ place'[c] = "ready" /\ sent'[c] > 0 => sid'[c] # None
    BY <1>3 DEF SameClient, TurnInv
  <2>3. place'[c] = "done" => Shown(Last(c))'
    BY <1>6, <2>1 DEF SameClient
  <2>4. \A i \in 1..Len(Turns[c]) :
       /\ i > sent'[c] => pc'[Turn(c, i)] = "new"
       /\ i <= sent'[c] =>
            /\ pc'[Turn(c, i)] # "new" /\ target'[Turn(c, i)] = SessionOf(c)'
            /\ parts'[Turn(c, i)] = <<>> \/ parts'[Turn(c, i)] = <<parts'[Turn(c, i)][1]>>
            /\ pc'[Turn(c, i)] \in {"merging", "check"} => ~(next'[Turn(c, i)] < Len(parts'[Turn(c, i)]))
       /\ i < sent'[c] \/ (i = sent'[c] /\ place'[c] \notin {"waiting", "crashed"}) =>
            pc'[Turn(c, i)] = "answered"
    BY <1>3, <1>5, <2>1 DEF SameClient
  <2>5. TurnInv(c)'
    BY <2>2, <2>3, <2>4 DEF TurnInv
  <2> QED
    BY <1>3, <1>4, <2>5

Kept(c) == UploadInv /\ ServiceInv /\ TurnInv(c) /\ AloneInv(c) /\ GoodInv(c)

\* A session that has, or may have, been merged.
Merged(s) == handler[s] = "merging" \/ complete[s] \/ attempts[s] > 0

Hopeful(c) ==
  SessionOf(c) # None /\ Alone(c) /\ ~expired[SessionOf(c)] /\ ~Empty(SessionOf(c)) /\ NothingWrong(c)

(***************************************************************************)
(* A request that sends a file to a client's own session, or waits for its *)
(* merge, is the client's last.                                            *)
(***************************************************************************)
LEMMA SenderIsLast ==
  ASSUME ServiceInv, NEW c \in Clients, TurnInv(c), SessionOf(c) # None, Alone(c),
         NEW q \in Requests, pc[q] \in {"send", "merging"}, target[q] = SessionOf(c)
  PROVE  q = Last(c) /\ q \in Own(c) /\ place[c] \in {"waiting", "crashed"}
<1>1. parts[q] # <<>>
  BY DEF ServiceInv, SendingInv
<1>2. q \in Own(c)
  BY <1>1 DEF Alone
<1> QED
  BY <1>2, InFlightIsLast

(***************************************************************************)
(* What held of the client's session before a step, if it does after it.   *)
(***************************************************************************)
LEMMA StillAlone ==
  ASSUME UploadInv, ServiceInv, UploadInv', NEW c \in Clients, TurnInv(c), SameClient(c),
         \A q \in Requests : Frame(q),
         \A q \in Own(c) : pc[q] = "new" => pc'[q] = "new",
         SessionOf(c)' # None
  PROVE  /\ SessionOf(c) # None
         /\ Alone(c)' => Alone(c)
         /\ NothingWrong(c)' => NothingWrong(c)
<1>1. SessionOf(c)' = SessionOf(c)
  BY TurnKept
<1>2. \A q \in Requests : target[q] = SessionOf(c) => target'[q] = target[q] /\ parts'[q] = parts[q]
  BY <1>1 DEF Frame, ServiceInv, NewInv
<1>3. Alone(c)' => Alone(c)
  <2>1. Own(c)' = Own(c)
    BY DEF Own, Turn
  <2> QED
    BY <1>1, <1>2, <2>1 DEF Alone
<1>4. NothingWrong(c)' => NothingWrong(c)
  BY DEF NothingWrong, SameClient
<1> QED
  BY <1>1, <1>3, <1>4

LEMMA Unmoved ==
  ASSUME UploadInv', NEW c \in Clients, Kept(c), SameClient(c),
         \A q \in Requests : Frame(q),
         \A q \in Own(c) : pc[q] = "new" => pc'[q] = "new",
         SessionOf(c) # None =>
           /\ pc'[Last(c)] = pc[Last(c)] /\ answer'[Last(c)] = answer[Last(c)]
           /\ seen'[Last(c)] = seen[Last(c)]
           /\ expecting'[SessionOf(c)] = expecting[SessionOf(c)]
           /\ received'[SessionOf(c)] = received[SessionOf(c)]
           /\ err'[SessionOf(c)] = err[SessionOf(c)]
           /\ complete'[SessionOf(c)] = complete[SessionOf(c)]
           /\ Merged(SessionOf(c))' => Merged(SessionOf(c))
           /\ expired[SessionOf(c)] => expired'[SessionOf(c)]
  PROVE  TurnInv(c)' /\ AloneInv(c)' /\ GoodInv(c)'
<1>1. TurnInv(c)' /\ SessionOf(c)' = SessionOf(c) /\ Last(c)' = Last(c)
  BY TurnKept DEF Kept
<1> DEFINE s == SessionOf(c)
           r == Last(c)
<1>2. SUFFICES ASSUME SessionOf(c) # None
               PROVE  AloneInv(c)' /\ GoodInv(c)'
  BY <1>1 DEF AloneInv, GoodInv
<1>3. (Alone(c)' => Alone(c)) /\ (NothingWrong(c)' => NothingWrong(c))
  BY <1>1, <1>2, StillAlone DEF Kept
<1>4. r \in Requests /\ parts'[r] = parts[r]
  BY <1>2, LastFacts DEF Kept, Frame
<1>5. AloneInv(c)'
  <2>1. (handler[s] = "merging" \/ complete[s] \/ attempts[s] > 0)' => Merged(s)
    BY <1>1, <1>2 DEF Merged
  <2>2. Shown(r)' = Shown(r)
    BY <1>1, <1>2 DEF Shown
  <2> QED
    BY <1>1, <1>2, <1>3, <2>1, <2>2 DEF Kept, AloneInv, Merged, SameClient
<1>6. GoodInv(c)'
  <2>1. InFlight(r)' = InFlight(r)
    BY <1>1, <1>2, <1>4 DEF InFlight
  <2>2. Empty(s)' = Empty(s)
    BY <1>1 DEF Empty
  <2>3. Hopeful(c)' => Hopeful(c)
    BY <1>1, <1>2, <1>3, <2>2 DEF Hopeful
  <2>4. \A queue, M : Starts(queue, M)' = Starts(queue, M)
    BY DEF Starts
  <2> SUFFICES ASSUME Hopeful(c)' PROVE GoodInv(c)'
    BY DEF GoodInv, Hopeful
  <2>5. Hopeful(c)
    BY <2>3
  <2> HIDE DEF s, r
  <2> QED
    BY <1>1, <1>2, <1>4, <2>1, <2>4, <2>5 DEF Kept, GoodInv, Hopeful, SameClient, s, r
<1> QED
  BY <1>5, <1>6

(***************************************************************************)
(* Requests of others arrive.                                              *)
(***************************************************************************)
LEMMA ForeignArrival ==
  ASSUME UploadInv', NEW c \in Clients, Kept(c), SameClient(c),
         NEW r \in Requests \ Own(c), Arrival(r)
  PROVE  TurnInv(c)' /\ AloneInv(c)' /\ GoodInv(c)'
<1>1. /\ \A q \in Requests : Frame(q)
      /\ \A q \in Requests : q # r =>
              /\ pc'[q] = pc[q] /\ target'[q] = target[q] /\ parts'[q] = parts[q]
              /\ next'[q] = next[q] /\ answer'[q] = answer[q] /\ seen'[q] = seen[q]
      /\ \A s \in Sessions : handler[s] # "none" =>
              /\ handler'[s] = handler[s] /\ inMap'[s] = inMap[s]
      /\ UNCHANGED <<expecting, received, err, complete, expired, attempts>>
  BY ArrivalFrame DEF Kept
<1>2. \A q \in Own(c) : q \in Requests /\ q # r
  BY TurnFacts
<1>3. SessionOf(c) # None => /\ Last(c) \in Requests /\ Last(c) # r /\ SessionOf(c) \in Sessions
                             /\ handler[SessionOf(c)] # "none"
  BY <1>2, LastFacts DEF Kept
<1>4. SessionOf(c) # None =>
        /\ pc'[Last(c)] = pc[Last(c)] /\ answer'[Last(c)] = answer[Last(c)]
        /\ seen'[Last(c)] = seen[Last(c)]
        /\ expecting'[SessionOf(c)] = expecting[SessionOf(c)]
        /\ received'[SessionOf(c)] = received[SessionOf(c)]
        /\ err'[SessionOf(c)] = err[SessionOf(c)]
        /\ complete'[SessionOf(c)] = complete[SessionOf(c)]
        /\ expired[SessionOf(c)] => expired'[SessionOf(c)]
  BY <1>1, <1>3
<1>5. SessionOf(c) # None =>
        (handler'[SessionOf(c)] = "merging" \/ complete'[SessionOf(c)] \/ attempts'[SessionOf(c)] > 0
           => Merged(SessionOf(c)))
  BY <1>1, <1>3 DEF Merged
<1>6. SessionOf(c)' = SessionOf(c)
  BY <1>1, <1>2, TurnKept DEF Kept
<1>7. SessionOf(c) # None => (Merged(SessionOf(c))' => Merged(SessionOf(c)))
  BY <1>5, <1>6 DEF Merged
<1> QED
  BY <1>1, <1>2, <1>4, <1>7, Unmoved

(***************************************************************************)
(* AddFile: the client's own upload proceeds, or another's.                *)
(***************************************************************************)
LEMMA AddFileKeeps ==
  ASSUME UploadInv', NEW c \in Clients, Kept(c), SameClient(c), NEW q \in Requests, AddFile(q)
  PROVE  TurnInv(c)' /\ AloneInv(c)' /\ GoodInv(c)'
<1>1. /\ \A x \in Requests : Frame(x)
      /\ \A x \in Requests : pc[x] = "new" => pc'[x] = "new"
      /\ \A x \in Requests : x # q => pc'[x] = pc[x]
      /\ UNCHANGED <<expired, attempts, inMap, answer, seen, parts, target>>
  BY AddFileFrame DEF Kept
<1>2. \A x \in Own(c) : x \in Requests
  BY TurnFacts
<1> DEFINE s == SessionOf(c)
           r == Last(c)
           p == Part(q)
<1>3. TurnInv(c)' /\ SessionOf(c)' = SessionOf(c) /\ Last(c)' = Last(c)
  BY <1>1, <1>2, TurnKept DEF Kept
<1>4. SUFFICES ASSUME s # None
               PROVE  AloneInv(c)' /\ GoodInv(c)'
  BY <1>3 DEF AloneInv, GoodInv
<1>5. /\ r \in Requests /\ r \in Own(c) /\ target[r] = s /\ s \in Sessions /\ pc[r] # "new"
      /\ sent[c] > 0
  BY <1>4, LastFacts DEF Kept
<1>6. /\ pc[q] = "send" /\ handler[target[q]] = "loop" /\ target[q] \in Sessions
      /\ expecting' = [expecting EXCEPT ![target[q]] = Expected(target[q], p)]
      /\ received' = [received EXCEPT ![target[q]] = Received(target[q], p)]
      /\ err' = [err EXCEPT ![target[q]] = ErrAfter(target[q], p)]
      /\ next' = [next EXCEPT ![q] = @ + 1]
      /\ \/ /\ pc' = [pc EXCEPT ![q] = "check"]
            /\ Refused(target[q], p) \/ ~(Expected(target[q], p) \subseteq Received(target[q], p))
            /\ UNCHANGED <<handler, complete, serving>>
         \/ /\ ~Refused(target[q], p)
            /\ complete' = [complete EXCEPT ![target[q]] = TRUE]
            /\ handler' = [handler EXCEPT ![target[q]] = "merging"]
            /\ pc' = [pc EXCEPT ![q] = "merging"]
  BY DEF AddFile, Exchange, Goto, CompleteWith, Kept, UploadInv, RequestInv
<1>7. CASE target[q] # s
  <2>1. q # r
    BY <1>5, <1>7
  <2>2. /\ pc'[r] = pc[r] /\ answer'[r] = answer[r] /\ seen'[r] = seen[r]
        /\ expecting'[s] = expecting[s] /\ received'[s] = received[s] /\ err'[s] = err[s]
        /\ complete'[s] = complete[s] /\ (expired[s] => expired'[s])
        /\ handler'[s] = handler[s] /\ attempts'[s] = attempts[s]
    <3>1. pc'[r] = pc[r] /\ answer'[r] = answer[r] /\ seen'[r] = seen[r]
      BY <1>1, <1>5, <2>1
    <3>2. expecting'[s] = expecting[s] /\ received'[s] = received[s] /\ err'[s] = err[s]
      BY <1>5, <1>6, <1>7 DEF Kept, UploadInv, TypeOK, Shape
    <3>3. complete'[s] = complete[s] /\ handler'[s] = handler[s]
      BY <1>5, <1>6, <1>7 DEF Kept, UploadInv, TypeOK
    <3> QED
      BY <1>1, <3>1, <3>2, <3>3
  <2>3. Merged(s)' => Merged(s)
    BY <1>3, <2>2 DEF Merged
  <2> QED
    BY <1>1, <1>2, <2>2, <2>3, Unmoved
<1>8. CASE target[q] = s
  <2>1. (Alone(c)' => Alone(c)) /\ (NothingWrong(c)' => NothingWrong(c))
    BY <1>1, <1>2, <1>3, <1>4, StillAlone DEF Kept
  <2>2. SUFFICES ASSUME Alone(c) PROVE AloneInv(c)' /\ GoodInv(c)'
    BY <2>1 DEF AloneInv, GoodInv
  <2>3. q = r /\ place[c] \in {"waiting", "crashed"}
    BY <1>4, <1>6, <1>8, <2>2, SenderIsLast DEF Kept
  <2>4. ~Merged(s)
    <3>1. pc[r] = "send" /\ answer[r] # "ok"
      BY <1>5, <1>6, <2>3 DEF Kept, UploadInv, RequestInv
    <3> QED
      BY <1>4, <2>2, <3>1 DEF Kept, AloneInv, Merged, Shown
  <2>5. /\ expecting'[s] = Expected(s, p) /\ received'[s] = Received(s, p) /\ err'[s] = Refused(s, p)
        /\ \/ /\ pc'[r] = "check" /\ handler'[s] = "loop" /\ complete'[s] = complete[s]
              /\ Refused(s, p) \/ ~(Expected(s, p) \subseteq Received(s, p))
           \/ pc'[r] = "merging" /\ complete'[s] /\ ~Refused(s, p)
    BY <1>5, <1>6, <1>8, <2>3 DEF Kept, UploadInv, TypeOK, Shape, ErrAfter
  <2>6. AloneInv(c)'
    <3>1. (handler[s] = "merging" \/ complete[s] \/ attempts[s] > 0)' => pc'[r] = "merging" /\ complete'[s] /\ ~err'[s]
      BY <1>1, <1>3, <2>4, <2>5 DEF Merged
    <3> QED
      BY <1>3, <2>3, <3>1 DEF AloneInv, SameClient
  <2>7. GoodInv(c)'
    <3>1. SUFFICES ASSUME Hopeful(c)' PROVE GoodInv(c)'
      BY DEF GoodInv, Hopeful
    <3>2. Hopeful(c)
      BY <1>1, <1>3, <1>4, <2>1, <3>1 DEF Hopeful, Empty
    <3>3. /\ place[c] # "failed" /\ ~err[s] /\ answer[r] \in {None, "ok"}
          /\ parts[r] # <<>> /\ parts[r][1].what = "good"
          /\ s \in Lone => expecting[s] = {}
          /\ s \notin Lone => parts[r][1].name \in Files \ received[s]
          /\ s \notin Lone /\ place[c] = "waiting" => sent[c] # 1
          /\ s \notin Lone /\ place[c] = "waiting" =>
               Starts(fns[c], (Files \ received[s]) \ {parts[r][1].name})
      <4>1. parts[r] # <<>> /\ pc[r] = "send"
        BY <1>6, <2>3 DEF Kept, ServiceInv, SendingInv
      <4>2. sent[c] = 1 \/ sent[c] > 1
        BY <1>5 DEF Kept, TurnInv
      <4>3. InFlight(r) = {parts[r][1].name}
        BY <4>1 DEF InFlight
      <4>4. s # None /\ Alone(c) /\ ~expired[s] /\ ~Empty(s) /\ NothingWrong(c)
        BY <3>2 DEF Hopeful
      <4> HIDE DEF s, r
      <4> QED
        BY <4>1, <4>2, <4>3, <4>4 DEF Kept, GoodInv, s, r
    <3>4. next[r] = 0 /\ p = parts[r][1]
      <4>1. \E i \in 1..Len(Turns[c]) : i <= sent[c] /\ r = Turn(c, i)
        BY <1>4, LastFacts DEF Last, Kept
      <4>2. parts[r] = <<parts[r][1]>>
        BY <3>3, <4>1 DEF Kept, TurnInv
      <4>3. PICK x : parts[r] = <<x>>
        BY <4>2
      <4>4. next[r] < Len(parts[r]) /\ next[r] \in Nat
        BY <1>6, <2>3 DEF Kept, ServiceInv, SendingInv, UploadInv, TypeOK
      <4>5. next[r] = 0
        BY <4>3, <4>4
      <4> QED
        BY <2>3, <4>5 DEF Part
    <3>5. s \notin Lone => expecting[s] = Files
      BY <1>5 DEF Kept, UploadInv, TypeOK
    <3>6. ~Refused(s, p)
      BY <3>3, <3>4, <3>5 DEF Refused
    <3>7. Received(s, p) = received[s] \cup {p.name}
      BY <3>3, <3>4, <3>6 DEF Received, Withdrawn
    <3>8. s \in Lone => Expected(s, p) = {p.name}
      BY <3>3, <3>4 DEF Expected
    <3>9. s \in Lone => complete'[s]
      BY <2>5, <3>6, <3>7, <3>8
    <3>10. pc'[r] \in {"check", "merging"} /\ ~err'[s] /\ answer'[r] = answer[r] /\ parts'[r] = parts[r]
      BY <1>1, <2>5, <3>6
    <3>11. InFlight(r)' = {}
      BY <1>3, <3>10 DEF InFlight
    <3>12. (Files \ received'[s]) \ {} = (Files \ received[s]) \ {parts[r][1].name}
      BY <2>5, <3>4, <3>7
    <3> HIDE DEF s, r, p
    <3>13. \A queue, M : Starts(queue, M)' = Starts(queue, M)
      BY DEF Starts
    <3> QED
      BY <1>3, <1>5, <2>3, <3>3, <3>9, <3>10, <3>11, <3>12, <3>13 DEF GoodInv, SameClient, s, r
  <2> QED
    BY <2>6, <2>7
<1> QED
  BY <1>7, <1>8

(***************************************************************************)
(* The other exchanges: what is good stays so until the answer.            *)
(***************************************************************************)
LEMMA ExchangeKeeps ==
  ASSUME UploadInv', NEW c \in Clients, Kept(c), SameClient(c), NEW q \in Requests,
         GetSession(q) \/ Check(q) \/ Refuse(q) \/ CheckLast(q) \/ Status(q) \/ Reply(q)
  PROVE  TurnInv(c)' /\ AloneInv(c)' /\ GoodInv(c)'
<1> USE NoneAssumption
<1>1. /\ \A x \in Requests : Frame(x)
      /\ \A x \in Requests : pc[x] = "new" => pc'[x] = "new"
      /\ \A x \in Requests : x # q =>
              pc'[x] = pc[x] /\ answer'[x] = answer[x] /\ seen'[x] = seen[x]
      /\ UNCHANGED <<sessionVars, updaterVars, parts, target, next>>
  BY ExchangeFrame DEF Kept
<1>2. \A x \in Own(c) : x \in Requests
  BY TurnFacts
<1> DEFINE s == SessionOf(c)
           r == Last(c)
<1>3. TurnInv(c)' /\ SessionOf(c)' = SessionOf(c) /\ Last(c)' = Last(c)
  BY <1>1, <1>2, TurnKept DEF Kept
<1>4. SUFFICES ASSUME s # None
               PROVE  AloneInv(c)' /\ GoodInv(c)'
  BY <1>3 DEF AloneInv, GoodInv
<1>5. /\ r \in Requests /\ r \in Own(c) /\ target[r] = s /\ s \in Sessions /\ pc[r] # "new"
      /\ sent[c] > 0 /\ handler[s] # "none"
  BY <1>4, LastFacts DEF Kept
<1>6. CASE q # r
  <2>1. /\ pc'[r] = pc[r] /\ answer'[r] = answer[r] /\ seen'[r] = seen[r]
        /\ expecting'[s] = expecting[s] /\ received'[s] = received[s] /\ err'[s] = err[s]
        /\ complete'[s] = complete[s] /\ (expired[s] => expired'[s])
        /\ handler'[s] = handler[s] /\ attempts'[s] = attempts[s]
    BY <1>1, <1>5, <1>6 DEF sessionVars, updaterVars
  <2>2. Merged(s)' => Merged(s)
    BY <1>3, <2>1 DEF Merged
  <2> QED
    BY <1>1, <1>2, <2>1, <2>2, Unmoved
<1>7. CASE q = r
  <2>1. (Alone(c)' => Alone(c)) /\ (NothingWrong(c)' => NothingWrong(c))
    BY <1>1, <1>2, <1>3, <1>4, StillAlone DEF Kept
  <2>2. SUFFICES ASSUME Alone(c) PROVE AloneInv(c)' /\ GoodInv(c)'
    BY <2>1 DEF AloneInv, GoodInv
  <2>3. /\ pc[r] \in {"lookup", "check", "refusing", "final", "status", "reply"}
        /\ place[c] \in {"waiting", "crashed"}
    <3>1. pc[r] \in {"lookup", "check", "refusing", "final", "status", "reply"}
      BY <1>7 DEF GetSession, Check, Refuse, CheckLast, Status, Reply, Exchange
    <3> QED
      BY <1>5, <3>1, InFlightIsLast DEF Kept
  <2>4. pc[r] = "check" => ~(next[r] < Len(parts[r]))
    <3>1. \E i \in 1..Len(Turns[c]) : i <= sent[c] /\ r = Turn(c, i)
      BY <1>4, LastFacts DEF Last, Kept
    <3> QED
      BY <3>1 DEF Kept, TurnInv
  <2>5. /\ pc[r] = "lookup" /\ inMap[s] /\ parts[r] = <<>> => pc'[r] = "final"
        /\ pc[r] = "lookup" /\ inMap[s] /\ parts[r] # <<>> => pc'[r] \in {"send", "final"}
        /\ pc[r] = "lookup" /\ inMap[s] /\ pc'[r] = "final" /\ parts[r] = <<parts[r][1]>> => FALSE
        /\ pc[r] = "check" /\ ~err[s] => pc'[r] = "final"
        /\ pc[r] # "check" => pc'[r] # "refusing"
        /\ pc[r] = "final" /\ ~err[s] => pc'[r] = "status"
        /\ pc[r] = "status" => pc'[r] = "reply" /\ seen'[r].complete = complete[s]
        /\ pc[r] = "reply" => /\ pc'[r] = "answered" /\ answer'[r] = "ok"
                              /\ seen'[r].complete = seen[r].complete
                              /\ seen'[r].expecting = expecting[s] /\ seen'[r].received = received[s]
        /\ pc[r] \notin {"refusing", "reply"} /\ ~err[s] /\ (pc[r] = "lookup" => inMap[s]) => answer'[r] = answer[r]
    <3>0. /\ Len(<<>>) = 0
          /\ \A x : parts[r] = <<x>> => Len(parts[r]) = 1
      OBVIOUS
    <3>1. CASE GetSession(r)
      BY <1>5, <3>0, <3>1 DEF GetSession, Continue, Goto, Answer, Kept, UploadInv, TypeOK
    <3>2. CASE Check(r)
      BY <1>5, <2>4, <3>2 DEF Check, Exchange, Continue, Goto, Answer, Kept, UploadInv, TypeOK
    <3>2r. CASE Refuse(r)
      BY <1>5, <3>2r DEF Refuse, Exchange, Answer, Goto, Kept, UploadInv, TypeOK
    <3>3. CASE CheckLast(r)
      BY <1>5, <3>3 DEF CheckLast, Exchange, Goto, Answer, Kept, UploadInv, TypeOK
    <3>4. CASE Status(r)
      BY <1>5, <3>4 DEF Status, Exchange, Goto, Kept, UploadInv, TypeOK, Shape
    <3>5. CASE Reply(r)
      BY <1>5, <3>5 DEF Reply, Goto, Answer, Kept, UploadInv, TypeOK, Shape
    <3> QED
      BY <1>7, <3>1, <3>2, <3>2r, <3>3, <3>4, <3>5
  <2>6. AloneInv(c)'
    <3>1. SUFFICES ASSUME Merged(s)' PROVE AloneInv(c)'
      BY <1>3 DEF AloneInv, Merged
    <3>2. Merged(s)
      BY <1>1, <1>3, <3>1 DEF Merged, sessionVars, updaterVars
    <3>3. /\ complete[s] /\ ~err[s]
          /\ pc[r] \in {"check", "final", "status"} \/ (pc[r] = "reply" /\ seen[r].complete)
      <4>1. answer[r] # "ok"
        BY <1>5, <2>3 DEF Kept, UploadInv, RequestInv
      <4> QED
        BY <1>4, <2>2, <2>3, <3>2, <4>1 DEF Kept, AloneInv, Merged, Shown
    <3>4. \/ pc'[r] \in {"merging", "check", "final", "status"}
          \/ pc'[r] = "reply" /\ seen'[r].complete
          \/ answer'[r] = "ok" /\ seen'[r].complete
      BY <2>5, <3>3
    <3>5. place'[c] \in {"waiting", "crashed", "done"} /\ complete'[s] /\ ~err'[s]
      BY <1>1, <2>3, <3>3 DEF SameClient, sessionVars
    <3> HIDE DEF s, r
    <3> QED
      BY <1>3, <3>4, <3>5 DEF AloneInv, Shown, s, r
  <2>7. GoodInv(c)'
    <3>1. SUFFICES ASSUME Hopeful(c)' PROVE GoodInv(c)'
      BY DEF GoodInv, Hopeful
    <3>2. Hopeful(c)
      BY <1>1, <1>3, <1>4, <2>1, <3>1 DEF Hopeful, Empty, sessionVars
    <3>3. UNCHANGED <<expecting, received, err, complete, expired, inMap, parts>>
      BY <1>1 DEF sessionVars
    <3>4. inMap[s]
      BY <1>5, <3>2 DEF Hopeful, Kept, ServiceInv, OpenInv
    <3>5. ~err[s] /\ answer[r] \in {None, "ok"} /\ pc[r] # "refusing" /\ place[c] \notin {"failed", "ready"}
      BY <2>3, <3>2 DEF Hopeful, Kept, GoodInv
    <3>6. answer'[r] \in {None, "ok"} /\ pc'[r] # "refusing"
      BY <2>3, <2>5, <3>4, <3>5
    <3>7. /\ pc'[r] \in {"lookup", "send"} /\ parts[r] # <<>> => pc[r] = "lookup"
          /\ pc[r] = "lookup" /\ parts[r] # <<>> => pc'[r] = "send"
      <4>1. parts[r] # <<>> => parts[r] = <<parts[r][1]>>
        <5>1. \E i \in 1..Len(Turns[c]) : i <= sent[c] /\ r = Turn(c, i)
          BY <1>4, LastFacts DEF Last, Kept
        <5> QED
          BY <5>1 DEF Kept, TurnInv
      <4> QED
        BY <2>3, <2>5, <3>4, <3>5, <4>1
    <3>8. InFlight(r)' = InFlight(r)
      BY <1>3, <2>3, <3>3, <3>7 DEF InFlight
    <3>9. pc'[r] \notin {"lookup", "send"} /\ parts[r] # <<>> => pc[r] \notin {"lookup", "send"}
      BY <2>3, <3>7
    <3>10. s \notin Lone /\ pc'[r] = "answered" => seen'[r].expecting = Files /\ seen'[r].received = received[s]
      <4>1. s \notin Lone => expecting[s] = Files
        BY <1>5 DEF Kept, UploadInv, TypeOK
      <4> QED
        BY <2>3, <2>5, <3>4, <3>5, <4>1
    <3>11. /\ pc'[r] \in {"lookup", "send"} /\ parts[r] # <<>> =>
                /\ parts[r][1].what = "good"
                /\ s \in Lone => expecting[s] = {}
                /\ s \notin Lone => parts[r][1].name \in Files \ received[s]
           /\ s \in Lone => /\ parts[r] # <<>>
                            /\ pc'[r] \notin {"lookup", "send"} => complete[s]
           /\ s \notin Lone =>
                /\ place[c] = "waiting" /\ sent[c] = 1 => parts[r] = <<>> /\ received[s] = {} /\ fns[c] = <<>>
                /\ place[c] = "waiting" /\ sent[c] > 1 =>
                      Starts(fns[c], (Files \ received[s]) \ InFlight(r))
      <4>1. s # None /\ Alone(c) /\ ~expired[s] /\ ~Empty(s) /\ NothingWrong(c)
        BY <3>2 DEF Hopeful
      <4> HIDE DEF s, r
      <4> QED
        BY <3>7, <3>9, <4>1 DEF Kept, GoodInv, s, r
    <3> HIDE DEF s, r
    <3>13. \A queue, M : Starts(queue, M)' = Starts(queue, M)
      BY DEF Starts
    <3> QED
      BY <1>3, <3>3, <3>5, <3>6, <3>8, <3>10, <3>11, <3>13 DEF GoodInv, SameClient, s, r
  <2> QED
    BY <2>6, <2>7
<1> QED
  BY <1>6, <1>7

(***************************************************************************)
(* The updater and the time to live.                                       *)
(***************************************************************************)
LEMMA SessionStepKeeps ==
  ASSUME UploadInv', NEW c \in Clients, Kept(c), SameClient(c), NEW t \in Sessions, SessionStep(t)
  PROVE  TurnInv(c)' /\ AloneInv(c)' /\ GoodInv(c)'
<1> USE NoneAssumption
<1>1. /\ \A x \in Requests : Frame(x)
      /\ \A x \in Requests : pc[x] = "new" => pc'[x] = "new"
      /\ \A x \in Requests : pc[x] # "merging" => pc'[x] = pc[x]
      /\ \A x \in Requests : pc'[x] = pc[x] \/ (pc[x] = "merging" /\ pc'[x] = "check")
      /\ \A x \in Sessions : expired[x] => expired'[x]
      /\ UNCHANGED <<expecting, received, err, complete, target, parts, next, answer, seen>>
  BY SessionStepFrame DEF Kept
<1>2. \A x \in Own(c) : x \in Requests
  BY TurnFacts
<1> DEFINE s == SessionOf(c)
           r == Last(c)
<1>3. TurnInv(c)' /\ SessionOf(c)' = SessionOf(c) /\ Last(c)' = Last(c)
  BY <1>1, <1>2, TurnKept DEF Kept
<1>4. SUFFICES ASSUME s # None
               PROVE  AloneInv(c)' /\ GoodInv(c)'
  BY <1>3 DEF AloneInv, GoodInv
<1>5. /\ r \in Requests /\ r \in Own(c) /\ target[r] = s /\ s \in Sessions /\ pc[r] # "new"
      /\ sent[c] > 0 /\ handler[s] # "none"
  BY <1>4, LastFacts DEF Kept
<1>6. Merged(s)' => Merged(s)
  <2>1. handler'[s] = "merging" \/ complete'[s] \/ attempts'[s] > 0 => Merged(s)
    <3>1. CASE AddUpload(t)
      <4>1. handler[t] = "merging" /\ attempts' = [attempts EXCEPT ![t] = @ + 1] /\ UNCHANGED sessionVars
        BY <3>1 DEF AddUpload, Kept, UploadInv, UpdaterInv, Idle
      <4> QED
        BY <1>5, <4>1 DEF Merged, sessionVars, Kept, UploadInv, TypeOK
    <3>2. CASE ~AddUpload(t)
      <4>1. /\ UNCHANGED <<complete, attempts>>
            /\ \/ UNCHANGED handler
               \/ \E h \in {"loop", "over"} : handler' = [handler EXCEPT ![t] = h]
        BY <3>2 DEF SessionStep, TakeUpdate, Respond, Expire, Forget, End, sessionVars, updaterVars
      <4> QED
        BY <1>5, <4>1 DEF Merged, Kept, UploadInv, TypeOK
    <3> QED
      BY <3>1, <3>2
  <2> QED
    BY <1>3, <2>1 DEF Merged
<1>7. CASE pc'[r] = pc[r]
  <2>1. /\ pc'[r] = pc[r] /\ answer'[r] = answer[r] /\ seen'[r] = seen[r]
        /\ expecting'[s] = expecting[s] /\ received'[s] = received[s] /\ err'[s] = err[s]
        /\ complete'[s] = complete[s] /\ (expired[s] => expired'[s])
    BY <1>1, <1>5, <1>7
  <2> QED
    BY <1>1, <1>2, <1>6, <2>1, Unmoved
<1>8. CASE pc[r] = "merging" /\ pc'[r] = "check"
  <2>1. (Alone(c)' => Alone(c)) /\ (NothingWrong(c)' => NothingWrong(c))
    BY <1>1, <1>2, <1>3, <1>4, StillAlone DEF Kept
  <2>2. SUFFICES ASSUME Alone(c) PROVE AloneInv(c)' /\ GoodInv(c)'
    BY <2>1 DEF AloneInv, GoodInv
  <2>3. place[c] \in {"waiting", "crashed"}
    BY <1>5, <1>8, InFlightIsLast DEF Kept
  <2>4. handler[s] = "merging"
    BY <1>5, <1>8 DEF Kept, ServiceInv, SendingInv
  <2>5. complete[s] /\ ~err[s]
    BY <1>4, <2>2, <2>4 DEF Kept, AloneInv
  <2>6. AloneInv(c)'
    BY <1>1, <1>3, <1>8, <2>3, <2>5 DEF AloneInv, SameClient
  <2>7. GoodInv(c)'
    <3>1. SUFFICES ASSUME Hopeful(c)' PROVE GoodInv(c)'
      BY DEF GoodInv, Hopeful
    <3>2. Hopeful(c)
      BY <1>1, <1>3, <1>4, <1>5, <2>1, <3>1 DEF Hopeful, Empty
    <3>3. InFlight(r)' = {} /\ InFlight(r) = {}
      BY <1>3, <1>8 DEF InFlight
    <3>4. s # None /\ Alone(c) /\ ~expired[s] /\ ~Empty(s) /\ NothingWrong(c)
      BY <3>2 DEF Hopeful
    <3> HIDE DEF s, r
    <3>5. \A queue, M : Starts(queue, M)' = Starts(queue, M)
      BY DEF Starts
    <3> QED
      BY <1>1, <1>3, <1>8, <2>3, <2>5, <3>3, <3>4, <3>5 DEF Kept, GoodInv, SameClient, s, r
  <2> QED
    BY <2>6, <2>7
<1> QED
  BY <1>1, <1>5, <1>7, <1>8

(***************************************************************************)
(* Queues: all of the files missing, in any order, are there once; and     *)
(* what is appended to a queue does not change how it starts.              *)
(***************************************************************************)
LEMMA OrderingFacts ==
  ASSUME NEW M, IsFiniteSet(M), NEW more \in Orders(M)
  PROVE  /\ more \in Seq(M)
         /\ {more[i] : i \in 1..Len(more)} = M
         /\ \A i, j \in 1..Len(more) : more[i] = more[j] => i = j
<1> DEFINE D == 1..Cardinality(M)
<1>1. more \in [D -> M] /\ \A i, j \in D : i # j => more[i] # more[j]
  BY DEF Orders, Injection, IsInjective
<1>2. Cardinality(M) \in Nat
  BY FS_CardinalityType
<1>3. more \in Seq(M) /\ Len(more) = Cardinality(M)
  BY <1>1, <1>2
<1>4. IsFiniteSet(D) /\ Cardinality(D) = Cardinality(M)
  <2>1. /\ IsFiniteSet(1..Cardinality(M))
        /\ Cardinality(1..Cardinality(M)) = IF 1 > Cardinality(M) THEN 0 ELSE Cardinality(M) - 1 + 1
    BY <1>2, FS_Interval
  <2> QED
    BY <1>2, <2>1
<1>5. more \in Injection(D, M)
  BY DEF Orders
<1>6. more \in Surjection(D, M)
  BY <1>4, <1>5, FS_Injection
<1>7. \A m \in M : \E i \in D : more[i] = m
  BY <1>6 DEF Surjection
<1> QED
  BY <1>1, <1>3, <1>7

LEMMA StartsAll ==
  ASSUME NEW more \in Orders(Files)
  PROVE  Starts(<<>> \o more, Files)
<1>1. /\ more \in Seq(Files)
      /\ {more[i] : i \in 1..Len(more)} = Files
      /\ \A i, j \in 1..Len(more) : more[i] = more[j] => i = j
  BY FilesAssumption, OrderingFacts
<1>2. <<>> \o more = more /\ Len(more) \in 0..Len(more)
  BY <1>1
<1>3. {(<<>> \o more)[i] : i \in 1..Len(more)} = Files
  BY <1>1, <1>2
<1> QED
  BY <1>1, <1>2, <1>3 DEF Starts

LEMMA StartsStill ==
  ASSUME NEW queue, NEW M, Starts(queue, M), NEW more \in Seq(Files)
  PROVE  Starts(queue \o more, M)
<1>1. PICK n \in 0..Len(queue) : /\ {queue[i] : i \in 1..n} = M
                                 /\ \A i, j \in 1..n : queue[i] = queue[j] => i = j
  BY DEF Starts
<1>2. queue \in Seq(Files)
  BY DEF Starts
<1>3. /\ queue \o more \in Seq(Files) /\ n \in 0..Len(queue \o more)
      /\ \A i \in 1..n : (queue \o more)[i] = queue[i]
  BY <1>1, <1>2
<1>4. {(queue \o more)[i] : i \in 1..n} = M
  BY <1>1, <1>3
<1>5. \A i, j \in 1..n : (queue \o more)[i] = (queue \o more)[j] => i = j
  BY <1>1, <1>3
<1> QED
  BY <1>3, <1>4, <1>5 DEF Starts

LEMMA StartsHead ==
  ASSUME NEW queue, NEW M, Starts(queue, M), M # {}
  PROVE  /\ queue # <<>> /\ Head(queue) \in M /\ M \subseteq Files
         /\ Starts(Tail(queue), M \ {Head(queue)})
<1>1. PICK n \in 0..Len(queue) : /\ {queue[i] : i \in 1..n} = M
                                 /\ \A i, j \in 1..n : queue[i] = queue[j] => i = j
  BY DEF Starts
<1>2. queue \in Seq(Files)
  BY DEF Starts
<1>3. n \in Nat /\ n # 0
  BY <1>1, <1>2
<1>4. queue # <<>> /\ Head(queue) = queue[1] /\ 1 \in 1..n
  BY <1>1, <1>2, <1>3
<1>5. /\ Tail(queue) \in Seq(Files) /\ n - 1 \in 0..Len(Tail(queue))
      /\ \A i \in 1..(n - 1) : Tail(queue)[i] = queue[i + 1] /\ i + 1 \in 1..n
  BY <1>1, <1>2, <1>3, <1>4
<1>6. {Tail(queue)[i] : i \in 1..(n - 1)} = M \ {Head(queue)}
  <2>1. ASSUME NEW i \in 1..(n - 1)
        PROVE  Tail(queue)[i] \in M /\ Tail(queue)[i] # Head(queue)
    <3>1. Tail(queue)[i] = queue[i + 1] /\ i + 1 \in 1..n /\ i + 1 # 1
      BY <1>3, <1>5
    <3> QED
      BY <1>1, <1>4, <3>1
  <2>2. ASSUME NEW m \in M, m # Head(queue)
        PROVE  \E i \in 1..(n - 1) : Tail(queue)[i] = m
    <3>1. PICK k \in 1..n : queue[k] = m
      BY <1>1
    <3>2. k - 1 \in 1..(n - 1) /\ (k - 1) + 1 = k
      BY <1>3, <1>4, <2>2, <3>1
    <3> QED
      BY <1>5, <3>1, <3>2
  <2> QED
    BY <2>1, <2>2
<1>7. \A i, j \in 1..(n - 1) : Tail(queue)[i] = Tail(queue)[j] => i = j
  <2> SUFFICES ASSUME NEW i \in 1..(n - 1), NEW j \in 1..(n - 1), Tail(queue)[i] = Tail(queue)[j]
               PROVE  i = j
    OBVIOUS
  <2>1. queue[i + 1] = queue[j + 1] /\ i + 1 \in 1..n /\ j + 1 \in 1..n
    BY <1>5
  <2>2. i + 1 = j + 1
    BY <1>1, <2>1
  <2> QED
    BY <2>2
<1>8. M \subseteq Files
  BY <1>1, <1>2
<1>9. Head(queue) \in M
  BY <1>1, <1>4
<1> QED
  BY <1>4, <1>5, <1>6, <1>7, <1>8, <1>9 DEF Starts

(***************************************************************************)
(* A hopeful client that can go on has files left to send.                 *)
(***************************************************************************)
LEMMA FilesLeft ==
  ASSUME NEW c \in Clients, Kept(c), Hopeful(c),
         place[c] = "ready" \/ (pc[Last(c)] = "answered" /\ ~Shown(Last(c)))
  PROVE  /\ SessionOf(c) \notin Lone
         /\ Files \ received[SessionOf(c)] # {}
<1> DEFINE s == SessionOf(c)
           r == Last(c)
<1>1. s # None /\ Alone(c) /\ ~expired[s] /\ ~Empty(s) /\ NothingWrong(c) /\ s \in Sessions
  BY LastFacts DEF Hopeful, Kept
<1>2. ~complete[s]
  <2> SUFFICES ASSUME complete[s] PROVE FALSE
    OBVIOUS
  <2>1. /\ place[c] \in {"waiting", "crashed", "done"}
        /\ \/ pc[r] \in {"merging", "check", "final", "status"}
           \/ pc[r] = "reply" /\ seen[r].complete
           \/ Shown(r)
    BY <1>1 DEF Kept, AloneInv
  <2> QED
    BY <2>1
<1>3. s \notin Lone
  <2> SUFFICES ASSUME s \in Lone PROVE FALSE
    OBVIOUS
  <2>1. place[c] # "ready" /\ (pc[r] \notin {"lookup", "send"} => complete[s])
    BY <1>1 DEF Kept, GoodInv
  <2> QED
    BY <1>2, <2>1
<1>4. ~(Files \subseteq received[s])
  BY <1>1, <1>2, <1>3 DEF Kept, ServiceInv, WholeInv, Empty
<1> QED
  BY <1>3, <1>4

LEMMA LostKeeps ==
  ASSUME NEW c \in Clients, Kept(c), ClientShape,
         CannotOpen(c) \/ ConnectionLost(c) \/ NoAnswer(c) \/ Refusal(c) \/ Completed(c)
  PROVE  TurnInv(c)' /\ AloneInv(c)' /\ GoodInv(c)'
<1> USE NoneAssumption
<1> DEFINE s == SessionOf(c)
           r == Last(c)
<1>1. UNCHANGED <<vars, fns, sid, sent, disk>>
  BY DEF CannotOpen, ConnectionLost, NoAnswer, Refusal, Completed
<1>2. UNCHANGED <<handler, expecting, received, err, complete, expired, attempts,
                  pc, target, parts, next, answer, seen>>
  BY <1>1 DEF vars, sessionVars, updaterVars, requestVars
<1>3. /\ SessionOf(c)' = s /\ Last(c)' = r /\ Alone(c)' = Alone(c) /\ NothingWrong(c)' = NothingWrong(c)
      /\ Shown(r)' = Shown(r) /\ InFlight(r)' = InFlight(r)
  BY <1>1, <1>2 DEF SessionOf, Last, Turn, Alone, Own, NothingWrong, Shown, InFlight
<1>4. /\ sent[c] \in 0..Len(Turns[c]) /\ Len(Turns[c]) \in Nat
      /\ place[c] = "waiting" => sent[c] > 0
  BY TurnFacts DEF Kept, TurnInv
<1>5. \/ place[c] = "ready" /\ Missing(c) /\ place'[c] = "failed"
      \/ place[c] = "waiting" /\ place'[c] = "crashed"
      \/ place[c] = "waiting" /\ pc[r] = "answered" /\ answer[r] # "ok" /\ place'[c] = "failed"
      \/ place[c] = "waiting" /\ pc[r] = "answered" /\ Shown(r) /\ place'[c] = "done"
  BY DEF CannotOpen, ConnectionLost, NoAnswer, Refusal, Completed, Answered, Reported, Shown, Last, ClientShape
<1>6. TurnInv(c)'
  <2>1. \A i \in 1..Len(Turns[c]) :
       /\ i > sent[c] => pc[Turn(c, i)] = "new"
       /\ i <= sent[c] =>
            /\ pc[Turn(c, i)] # "new" /\ target[Turn(c, i)] = SessionOf(c)
            /\ parts[Turn(c, i)] = <<>> \/ parts[Turn(c, i)] = <<parts[Turn(c, i)][1]>>
            /\ pc[Turn(c, i)] \in {"merging", "check"} => ~(next[Turn(c, i)] < Len(parts[Turn(c, i)]))
       /\ i < sent[c] \/ (i = sent[c] /\ place'[c] \notin {"waiting", "crashed"}) =>
            pc[Turn(c, i)] = "answered"
    <3> HIDE DEF s
    <3> QED
      BY <1>5 DEF Kept, TurnInv, Last
  <2>2. /\ sent[c] = 0 => sid[c] = None /\ \E f \in {Changes} \cup Debs : fns[c] = <<f>>
        /\ sid[c] # None => sid[c] = SessionOf(c)
        /\ place'[c] \in {"waiting", "done", "crashed"} => sent[c] > 0
        /\ place'[c] = "done" => Shown(r)
    BY <1>4, <1>5 DEF Kept, TurnInv
  <2> HIDE DEF s, r
  <2> QED
    BY <1>1, <1>2, <1>3, <1>4, <1>5, <2>1, <2>2 DEF TurnInv, s, r
<1>7. AloneInv(c)'
  <2>1. SUFFICES ASSUME s # None, Alone(c), Merged(s)
                 PROVE  AloneInv(c)'
    BY <1>2, <1>3 DEF AloneInv, Merged
  <2>2. /\ place[c] \in {"waiting", "crashed", "done"}
        /\ complete[s] /\ ~err[s]
        /\ \/ pc[r] \in {"merging", "check", "final", "status"}
           \/ pc[r] = "reply" /\ seen[r].complete
           \/ Shown(r)
    BY <2>1 DEF Kept, AloneInv, Merged
  <2>3. place'[c] \in {"waiting", "crashed", "done"}
    BY <1>5, <2>2 DEF Shown
  <2> QED
    BY <1>2, <1>3, <2>2, <2>3 DEF AloneInv
<1>8. GoodInv(c)'
  <2>1. SUFFICES ASSUME Hopeful(c)' PROVE GoodInv(c)'
    BY DEF GoodInv, Hopeful
  <2>2. Hopeful(c)
    BY <1>2, <1>3, <2>1 DEF Hopeful, Empty
  <2>3. s # None /\ Alone(c) /\ ~expired[s] /\ ~Empty(s) /\ NothingWrong(c) /\ r \in Requests
    BY <2>2, LastFacts DEF Hopeful, Kept
  <2>4. ~(place[c] = "ready" /\ Missing(c))
    <3> SUFFICES ASSUME place[c] = "ready" PROVE ~Missing(c)
      OBVIOUS
    <3>1. s \notin Lone /\ Files \ received[s] # {}
      BY <2>2, FilesLeft
    <3>2. Starts(fns[c], Files \ received[s])
      BY <2>3, <3>1 DEF Kept, GoodInv
    <3>3. Head(fns[c]) \in Files
      BY <3>1, <3>2, StartsHead
    <3>4. disk[c][Head(fns[c])] = "good"
      BY <2>3, <3>3 DEF NothingWrong
    <3> QED
      BY <3>4 DEF Missing
  <2>5. ~(pc[r] = "answered" /\ answer[r] # "ok")
    <3>1. answer[r] \in {None, "ok"}
      BY <2>3 DEF Kept, GoodInv
    <3> QED
      BY <2>3, <3>1 DEF Kept, ServiceInv, NewInv
  <2>6. place'[c] \in {"crashed", "done"}
    BY <1>5, <2>4, <2>5
  <2> HIDE DEF s, r
  <2> QED
    BY <1>2, <1>3, <2>3, <2>6 DEF Kept, GoodInv, s, r
<1> QED
  BY <1>6, <1>7, <1>8

(***************************************************************************)
(* The answer says what is expected.                                       *)
(***************************************************************************)
LEMMA ExpectsKeeps ==
  ASSUME NEW c \in Clients, Kept(c), ClientShape, Expects(c)
  PROVE  TurnInv(c)' /\ AloneInv(c)' /\ GoodInv(c)'
<1> USE NoneAssumption
<1> DEFINE s == SessionOf(c)
           r == Last(c)
<1>1. PICK more \in Orders(seen[r].expecting \ seen[r].received) :
        /\ fns' = [fns EXCEPT ![c] = fns[c] \o more]
        /\ place' = [place EXCEPT ![c] = IF fns[c] \o more = <<>> THEN "failed" ELSE "ready"]
  BY DEF Expects, Reported, Last
<1>2. /\ place[c] = "waiting" /\ pc[r] = "answered" /\ answer[r] = "ok" /\ ~Shown(r)
      /\ sid' = [sid EXCEPT ![c] = target[r]] /\ UNCHANGED <<vars, sent, disk>>
  BY DEF Expects, Answered, Reported, Last, Shown
<1>3. UNCHANGED <<handler, expecting, received, err, complete, expired, attempts,
                  pc, target, parts, next, answer, seen, sent>>
  BY <1>2 DEF vars, sessionVars, updaterVars, requestVars
<1>4. /\ SessionOf(c)' = s /\ Last(c)' = r /\ Alone(c)' = Alone(c) /\ NothingWrong(c)' = NothingWrong(c)
      /\ InFlight(r)' = InFlight(r)
  BY <1>2, <1>3 DEF SessionOf, Last, Turn, Alone, Own, NothingWrong, InFlight
<1>5. /\ sent[c] \in 0..Len(Turns[c]) /\ Len(Turns[c]) \in Nat /\ sent[c] > 0 /\ sent[c] \in 1..Len(Turns[c])
  BY <1>2, TurnFacts DEF Kept, TurnInv
<1>6. r \in Requests /\ target[r] = s /\ s \in Sessions
  <2>1. r \in Requests
    BY <1>5, TurnFacts DEF Last
  <2>2. target[r] = s
    BY <1>5 DEF Kept, TurnInv, Last
  <2> QED
    BY <1>2, <2>1, <2>2 DEF Kept, UploadInv, RequestInv
<1>7. /\ sid'[c] = s /\ fns'[c] = fns[c] \o more
      /\ place'[c] = IF fns[c] \o more = <<>> THEN "failed" ELSE "ready"
  BY <1>1, <1>2, <1>6 DEF ClientShape
<1>8. TurnInv(c)'
  <2>1. \A i \in 1..Len(Turns[c]) :
       /\ i > sent[c] => pc[Turn(c, i)] = "new"
       /\ i <= sent[c] =>
            /\ pc[Turn(c, i)] # "new" /\ target[Turn(c, i)] = SessionOf(c)
            /\ parts[Turn(c, i)] = <<>> \/ parts[Turn(c, i)] = <<parts[Turn(c, i)][1]>>
            /\ pc[Turn(c, i)] \in {"merging", "check"} => ~(next[Turn(c, i)] < Len(parts[Turn(c, i)]))
       /\ i < sent[c] \/ (i = sent[c] /\ place'[c] \notin {"waiting", "crashed"}) =>
            pc[Turn(c, i)] = "answered"
    <3> HIDE DEF s
    <3> QED
      BY <1>2 DEF Kept, TurnInv, Last
  <2>2. place'[c] \in {"failed", "ready"} /\ sid'[c] # None
    BY <1>6, <1>7
  <2> HIDE DEF s, r
  <2> QED
    BY <1>3, <1>4, <1>5, <1>7, <2>1, <2>2 DEF TurnInv, s, r
<1>9. ~(s # None /\ Alone(c) /\ Merged(s))
  <2> SUFFICES ASSUME s # None, Alone(c), Merged(s) PROVE FALSE
    OBVIOUS
  <2>1. \/ pc[r] \in {"merging", "check", "final", "status"}
        \/ pc[r] = "reply" /\ seen[r].complete
        \/ Shown(r)
    BY DEF Kept, AloneInv, Merged
  <2> QED
    BY <1>2, <2>1
<1>10. AloneInv(c)'
  BY <1>3, <1>4, <1>9 DEF AloneInv, Merged
<1>11. GoodInv(c)'
  <2>1. SUFFICES ASSUME Hopeful(c)' PROVE GoodInv(c)'
    BY DEF GoodInv, Hopeful
  <2>2. Hopeful(c)
    BY <1>3, <1>4, <2>1 DEF Hopeful, Empty
  <2>3. s # None /\ Alone(c) /\ ~expired[s] /\ ~Empty(s) /\ NothingWrong(c)
    BY <2>2 DEF Hopeful
  <2>4. s \notin Lone /\ Files \ received[s] # {}
    BY <1>2, <2>2, FilesLeft
  <2>5. seen[r].expecting = Files /\ seen[r].received = received[s] /\ ~err[s] /\ answer[r] \in {None, "ok"}
    BY <1>2, <2>3, <2>4 DEF Kept, GoodInv
  <2>6. IsFiniteSet(Files \ received[s])
    BY FilesAssumption, FS_Subset
  <2>7. more \in Seq(Files)
    <3>1. more \in Orders(Files \ received[s])
      BY <1>1, <2>5
    <3>2. more \in Seq(Files \ received[s])
      BY <2>6, <3>1, OrderingFacts
    <3> QED
      BY <3>2
  <2>8. Starts(fns[c] \o more, Files \ received[s])
    <3>1. CASE sent[c] = 1
      <4>1. received[s] = {} /\ fns[c] = <<>>
        BY <1>2, <2>3, <2>4, <3>1 DEF Kept, GoodInv
      <4>2. more \in Orders(Files) /\ Files \ received[s] = Files
        BY <1>1, <2>5, <4>1
      <4> QED
        BY <4>1, <4>2, StartsAll
    <3>2. CASE sent[c] > 1
      <4>1. InFlight(r) = {}
        BY <1>2 DEF InFlight
      <4>2. Starts(fns[c], (Files \ received[s]) \ InFlight(r))
        BY <1>2, <2>3, <2>4, <3>2 DEF Kept, GoodInv
      <4>3. (Files \ received[s]) \ InFlight(r) = Files \ received[s]
        BY <4>1
      <4> QED
        BY <2>7, <4>2, <4>3, StartsStill
    <3> QED
      BY <1>5, <3>1, <3>2
  <2>9. fns[c] \o more # <<>>
    BY <2>4, <2>8, StartsHead
  <2>10. place'[c] = "ready"
    BY <1>7, <2>9
  <2>11. Starts(fns'[c], Files \ received'[s])
    BY <1>3, <1>7, <2>8
  <2> HIDE DEF s, r
  <2> QED
    BY <1>2, <1>3, <1>4, <1>7, <2>4, <2>5, <2>10, <2>11 DEF GoodInv, s, r
<1> QED
  BY <1>8, <1>10, <1>11

LEMMA SendIsArrival ==
  ASSUME NEW c \in Clients, Kept(c), Send(c)
  PROVE  Arrival(Turn(c, sent[c] + 1))
<1>1. sid[c] # None => sid[c] \in Sessions
  BY LastFacts DEF Kept, TurnInv
<1> QED
  BY <1>1 DEF Send, Arrival

(***************************************************************************)
(* The next file is sent.                                                  *)
(***************************************************************************)
LEMMA SendKeeps ==
  ASSUME UploadInv', NEW c \in Clients, Kept(c), ClientShape, Send(c)
  PROVE  TurnInv(c)' /\ AloneInv(c)' /\ GoodInv(c)'
<1> USE NoneAssumption
<1> DEFINE n == sent[c] + 1
           q == Turn(c, n)
           u == Carried(c)
<1>1. /\ place[c] = "ready" /\ ~Missing(c)
      /\ place'[c] = "waiting" /\ sent'[c] = n /\ fns'[c] = Tail(fns[c])
      /\ sid'[c] = sid[c] /\ disk' = disk
  BY DEF Send, ClientShape
<1>2. /\ Len(Turns[c]) \in Nat /\ sent[c] \in 0..Len(Turns[c]) /\ n \in 1..Len(Turns[c]) /\ n \in Nat
      /\ n > sent[c]
  BY TurnFacts DEF Send, Kept, TurnInv
<1>3. q \in Requests /\ q \in Own(c) /\ \A i \in 1..Len(Turns[c]) : Turn(c, i) = q => i = n
  BY <1>2, TurnFacts
<1>4. pc[q] = "new" /\ target[q] = None /\ parts[q] = <<>> /\ next[q] = 0 /\ answer[q] = None
  BY <1>2, <1>3 DEF Kept, TurnInv, ServiceInv, NewInv
<1>5. /\ \A x \in Requests : Frame(x)
      /\ \A x \in Requests : x # q =>
           /\ pc'[x] = pc[x] /\ target'[x] = target[x] /\ parts'[x] = parts[x]
           /\ next'[x] = next[x] /\ answer'[x] = answer[x] /\ seen'[x] = seen[x]
      /\ \A s \in Sessions : handler[s] # "none" =>
              /\ handler'[s] = handler[s] /\ inMap'[s] = inMap[s]
      /\ UNCHANGED <<expecting, received, err, complete, expired, attempts>>
  BY <1>3, SendIsArrival, ArrivalFrame DEF Kept
<1>6. \/ /\ sid[c] = None /\ pc'[q] = "answered" /\ target'[q] = None /\ parts'[q] = <<>>
      \/ /\ sid[c] = None /\ parts'[q] = u /\ pc'[q] = "lookup" /\ answer'[q] = None
         /\ \E s \in Sessions : /\ target'[q] = s /\ handler[s] = "none" /\ handler'[s] = "loop"
                                /\ s \in Lone <=> Head(fns[c]) # Changes
      \/ /\ sid[c] # None /\ parts'[q] = u /\ target'[q] = sid[c]
         /\ pc'[q] \in {"send", "final", "answered"}
         /\ inMap[sid[c]] => /\ pc'[q] = IF 0 < Len(u) THEN "send" ELSE "final"
                             /\ answer'[q] = None
  <2>1. CASE sid[c] = None /\ NewSessionRefused(q)
    BY <1>3, <1>4, <2>1 DEF NewSessionRefused, Goto, Answer, Kept, UploadInv, TypeOK
  <2>2. CASE sid[c] = None /\ \E s \in Sessions : /\ s \in Lone <=> Head(fns[c]) # Changes
                                                 /\ NewSession(q, s, u)
    BY <1>3, <1>4, <2>2 DEF NewSession, Arrives, Goto, Kept, UploadInv, TypeOK, ServiceInv, NewInv
  <2>3. CASE sid[c] # None /\ Put(q, sid[c], u)
    BY <1>3, <1>4, <2>3 DEF Put, Arrives, Continue, Goto, Answer, Kept, UploadInv, TypeOK, ServiceInv, NewInv
  <2> HIDE DEF u
  <2> QED
    BY <2>1, <2>2, <2>3 DEF Send, u
<1>7. u = <<>> \/ u = <<u[1]>>
  <2>1. \A x : <<x>> = <<(<<x>>)[1]>>
    OBVIOUS
  <2> QED
    BY <2>1 DEF Carried
<1>8. pc'[q] \notin {"new", "merging", "check"} /\ (parts'[q] = <<>> \/ parts'[q] = <<parts'[q][1]>>)
  <2> HIDE DEF u
  <2> QED
    BY <1>4, <1>6, <1>7
<1>9. /\ Last(c)' = q
      /\ sent[c] = 0 => SessionOf(c) = None /\ sid[c] = None /\ SessionOf(c)' = target'[q]
      /\ sent[c] # 0 => SessionOf(c)' = SessionOf(c) /\ sid[c] = SessionOf(c) /\ sid[c] # None
  <2>1. Last(c)' = q
    BY <1>1 DEF Last, Turn
  <2>2. sent[c] = 0 => SessionOf(c) = None /\ sid[c] = None /\ SessionOf(c)' = target'[q]
    BY <1>1 DEF SessionOf, Turn, Kept, TurnInv
  <2>3. ASSUME sent[c] # 0
        PROVE  SessionOf(c)' = SessionOf(c) /\ sid[c] = SessionOf(c) /\ sid[c] # None
    <3>1. sid[c] # None /\ sid[c] = SessionOf(c)
      BY <1>1, <1>2, <2>3 DEF Kept, TurnInv
    <3>2. 1 \in 1..Len(Turns[c]) /\ Turn(c, 1) # q /\ Turn(c, 1) \in Requests
      BY <1>2, <1>3, <2>3, TurnFacts
    <3>3. target'[Turn(c, 1)] = target[Turn(c, 1)]
      BY <1>5, <3>2
    <3> QED
      BY <1>1, <1>2, <2>3, <3>1, <3>3 DEF SessionOf, Turn
  <2> QED
    BY <2>1, <2>2, <2>3
<1>10. target'[q] = SessionOf(c)'
  BY <1>6, <1>9
<1>11. ASSUME NEW i \in 1..Len(Turns[c])
       PROVE  /\ i > n => pc'[Turn(c, i)] = "new"
              /\ i <= n =>
                   /\ pc'[Turn(c, i)] # "new" /\ target'[Turn(c, i)] = SessionOf(c)'
                   /\ parts'[Turn(c, i)] = <<>> \/ parts'[Turn(c, i)] = <<parts'[Turn(c, i)][1]>>
                   /\ pc'[Turn(c, i)] \in {"merging", "check"} => ~(next'[Turn(c, i)] < Len(parts'[Turn(c, i)]))
              /\ i < n => pc'[Turn(c, i)] = "answered"
  <2> DEFINE x == Turn(c, i)
  <2>1. CASE i = n
    BY <1>8, <1>10, <2>1
  <2>2. CASE i > n
    <3>1. x \in Requests /\ x # q
      BY <1>2, <1>3, <1>11, <2>2, TurnFacts
    <3>2. pc[x] = "new"
      BY <1>2, <1>11, <2>2 DEF Kept, TurnInv
    <3> QED
      BY <1>2, <1>5, <2>2, <3>1, <3>2
  <2>3. CASE i < n
    <3>1. x \in Requests /\ x # q /\ i <= sent[c] /\ sent[c] # 0
      BY <1>2, <1>3, <1>11, <2>3, TurnFacts
    <3>2. /\ target[x] = SessionOf(c) /\ pc[x] = "answered"
          /\ parts[x] = <<>> \/ parts[x] = <<parts[x][1]>>
      BY <1>1, <1>2, <1>11, <2>3, <3>1 DEF Kept, TurnInv
    <3>3. pc'[x] = pc[x] /\ target'[x] = target[x] /\ parts'[x] = parts[x]
      BY <1>5, <3>1
    <3> HIDE DEF x
    <3>4. /\ pc'[x] = "answered" /\ target'[x] = SessionOf(c)'
          /\ parts'[x] = <<>> \/ parts'[x] = <<parts'[x][1]>>
      BY <1>9, <3>1, <3>2, <3>3
    <3> QED
      BY <1>2, <2>3, <3>4 DEF x
  <2> QED
    BY <1>2, <2>1, <2>2, <2>3
<1>12. TurnInv(c)'
  <2>1. sid[c] # None => sid[c] = SessionOf(c)'
    BY <1>9
  <2>2. n > 0 /\ n # 0 /\ n \in 0..Len(Turns[c])
    BY <1>2
  <2> HIDE DEF n, q, u
  <2>3. \A i \in 1..Len(Turns[c]) :
       /\ i > sent'[c] => pc'[Turn(c, i)] = "new"
       /\ i <= sent'[c] =>
            /\ pc'[Turn(c, i)] # "new" /\ target'[Turn(c, i)] = SessionOf(c)'
            /\ parts'[Turn(c, i)] = <<>> \/ parts'[Turn(c, i)] = <<parts'[Turn(c, i)][1]>>
            /\ pc'[Turn(c, i)] \in {"merging", "check"} => ~(next'[Turn(c, i)] < Len(parts'[Turn(c, i)]))
       /\ i < sent'[c] \/ (i = sent'[c] /\ place'[c] \notin {"waiting", "crashed"}) =>
            pc'[Turn(c, i)] = "answered"
    BY <1>1, <1>11
  <2> QED
    BY <1>1, <2>1, <2>2, <2>3 DEF TurnInv
<1> DEFINE s == SessionOf(c)'
<1>13. sent[c] # 0 => (Alone(c)' => Alone(c))
  <2> SUFFICES ASSUME sent[c] # 0, Alone(c)', NEW x \in Requests \ Own(c), target[x] = SessionOf(c)
               PROVE  parts[x] = <<>>
    BY DEF Alone
  <2>1. x # q
    BY <1>3
  <2>2. target'[x] = SessionOf(c)' /\ parts'[x] = parts[x]
    BY <1>5, <1>9, <2>1
  <2>3. Own(c)' = Own(c)
    BY DEF Own, Turn
  <2> QED
    BY <2>2, <2>3 DEF Alone
<1>14. ASSUME s # None, Alone(c)'
       PROVE  ~(handler'[s] = "merging" \/ complete'[s] \/ attempts'[s] > 0)
  <2>1. CASE sent[c] = 0
    <3>1. s \in Sessions /\ handler[s] = "none" /\ handler'[s] = "loop"
      BY <1>6, <1>9, <1>14, <2>1
    <3> QED
      BY <1>5, <3>1 DEF Kept, ServiceInv, NewInv
  <2>2. CASE sent[c] # 0
    <3>1. SessionOf(c) = s /\ Alone(c) /\ SessionOf(c) # None
      BY <1>9, <1>13, <1>14, <2>2
    <3>2. ~Merged(s)
      BY <1>1, <3>1 DEF Kept, AloneInv, Merged
    <3>3. handler[s] # "none" /\ s \in Sessions
      BY <3>1, LastFacts DEF Kept
    <3> QED
      BY <1>5, <3>2, <3>3 DEF Merged
  <2> QED
    BY <2>1, <2>2
<1>15. AloneInv(c)'
  BY <1>14 DEF AloneInv
<1>16. GoodInv(c)'
  <2>1. SUFFICES ASSUME Hopeful(c)' PROVE GoodInv(c)'
    BY DEF GoodInv, Hopeful
  <2>2. s # None /\ Alone(c)' /\ ~expired'[s] /\ ~Empty(s) /\ NothingWrong(c)
    BY <1>1, <2>1 DEF Hopeful, Empty, NothingWrong
  <2>3. InFlight(Last(c))' = IF pc'[q] \in {"lookup", "send"} /\ parts'[q] # <<>> THEN {parts'[q][1].name} ELSE {}
    BY <1>9 DEF InFlight
  <2>4. CASE sent[c] = 0
    <3>1. /\ s \in Sessions /\ handler[s] = "none" /\ parts'[q] = u /\ pc'[q] = "lookup"
          /\ answer'[q] = None
          /\ s \in Lone <=> Head(fns[c]) # Changes
      BY <1>6, <1>9, <2>2, <2>4
    <3>2. received'[s] = {} /\ ~err'[s] /\ (s \in Lone => expecting'[s] = {})
      BY <1>5, <3>1 DEF Kept, ServiceInv, NewInv
    <3>3. PICK f \in {Changes} \cup Debs : fns[c] = <<f>>
      BY <2>4 DEF Kept, TurnInv
    <3>4. Head(fns[c]) = f /\ Tail(fns[c]) = <<>>
      BY <3>3
    <3>5. s \notin Lone => u = <<>>
      BY <3>1 DEF Carried
    <3>6. s \in Lone => u = <<[name |-> f, what |-> "good"]>>
      <4>1. s \in Lone => f # Changes /\ f \in Debs
        BY <3>1, <3>3, <3>4
      <4>2. s \in Lone => disk[c][f] = "good"
        BY <2>2, <4>1 DEF NothingWrong
      <4> QED
        BY <3>4, <4>1, <4>2 DEF Carried
    <3>7. s \in Lone => parts'[q] # <<>> /\ parts'[q][1].what = "good"
      BY <3>1, <3>6
    <3>8. sent'[c] = 1
      BY <1>1, <2>4
    <3>9. s \notin Lone => parts'[q] = <<>>
      BY <3>1, <3>5
    <3> HIDE DEF s, q, u, n
    <3> QED
      BY <1>1, <1>9, <2>2, <3>1, <3>2, <3>4, <3>7, <3>8, <3>9 DEF GoodInv, s
  <2>5. CASE sent[c] # 0
    <3>1. SessionOf(c) = s /\ Alone(c) /\ s # None /\ sid[c] = s
      BY <1>9, <1>13, <2>2, <2>5
    <3>2. Hopeful(c)
      BY <1>5, <2>2, <3>1 DEF Hopeful
    <3>3. s \notin Lone /\ Files \ received[s] # {}
      BY <1>1, <3>1, <3>2, FilesLeft
    <3>4. Starts(fns[c], Files \ received[s]) /\ ~err[s]
      BY <1>1, <2>2, <3>1, <3>2, <3>3 DEF Kept, GoodInv, Hopeful
    <3> DEFINE f == Head(fns[c])
    <3>5. /\ f \in Files \ received[s]
          /\ Starts(Tail(fns[c]), (Files \ received[s]) \ {f})
      BY <3>3, <3>4, StartsHead
    <3>6. u = <<[name |-> f, what |-> "good"]>>
      <4>1. f # Changes
        BY <3>5, NamesAssumption
      <4>2. disk[c][f] = "good"
        BY <2>2, <3>5 DEF NothingWrong
      <4> QED
        BY <4>1, <4>2 DEF Carried
    <3>7. inMap[s]
      <4>1. s \in Sessions /\ handler[s] # "none"
        BY <3>1, LastFacts DEF Kept
      <4> QED
        BY <3>2, <3>1, <4>1 DEF Hopeful, Kept, ServiceInv, OpenInv
    <3>8. pc'[q] = "send" /\ answer'[q] = None /\ parts'[q] = u
      <4>1. 0 < Len(u)
        BY <3>6
      <4> HIDE DEF u
      <4> QED
        BY <1>6, <3>1, <3>7, <4>1
    <3>9. parts'[q] # <<>> /\ parts'[q][1].what = "good" /\ parts'[q][1].name = f
      BY <3>6, <3>8
    <3>10. InFlight(Last(c))' = {f}
      BY <2>3, <3>8, <3>9
    <3>11. sent'[c] > 1 /\ sent'[c] # 1
      BY <1>1, <1>2, <2>5
    <3>12. received'[s] = received[s] /\ ~err'[s]
      BY <1>5, <3>4
    <3>13. Starts(fns'[c], (Files \ received'[s]) \ InFlight(Last(c))')
      BY <1>1, <3>5, <3>10, <3>12
    <3> HIDE DEF s, q, u, n, f
    <3> QED
      BY <1>1, <1>9, <2>2, <3>3, <3>5, <3>8, <3>9, <3>11, <3>12, <3>13 DEF GoodInv, s
  <2> QED
    BY <2>4, <2>5
<1> QED
  BY <1>12, <1>15, <1>16

LEMMA NothingMoves ==
  ASSUME UploadInv', NEW c \in Clients, Kept(c), SameClient(c), UNCHANGED vars
  PROVE  TurnInv(c)' /\ AloneInv(c)' /\ GoodInv(c)'
<1>1. UNCHANGED <<handler, expecting, received, err, complete, expired, attempts,
                  pc, target, parts, next, answer, seen>>
  BY DEF vars, sessionVars, updaterVars, requestVars
<1>2. \A q \in Requests : Frame(q)
  BY <1>1 DEF Frame, Kept, UploadInv, TypeOK
<1>3. SessionOf(c)' = SessionOf(c)
  BY <1>1 DEF SessionOf, Turn, SameClient
<1>4. Merged(SessionOf(c))' => Merged(SessionOf(c))
  BY <1>1, <1>3 DEF Merged
<1> QED
  BY <1>1, <1>2, <1>4, Unmoved

(***************************************************************************)
(* A step of one client is, to another, an arrival or nothing.             *)
(***************************************************************************)
LEMMA OthersStep ==
  ASSUME UploadInv', ClientShape, NEW c \in Clients, Kept(c), NEW d \in Clients, d # c, Kept(d),
         Proceeds(d) \/ ConnectionLost(d)
  PROVE  TurnInv(c)' /\ AloneInv(c)' /\ GoodInv(c)'
<1>1. SameClient(c)
  BY DEF Proceeds, ConnectionLost, Send, CannotOpen, NoAnswer, Refusal, Completed, Expects, ClientShape, SameClient
<1>2. CASE Send(d)
  <2>1. Arrival(Turn(d, sent[d] + 1))
    BY <1>2, SendIsArrival
  <2>2. sent[d] + 1 \in 1..Len(Turns[d])
    BY <1>2, TurnFacts DEF Send, Kept, TurnInv
  <2>3. Turn(d, sent[d] + 1) \in Requests \ Own(c)
    BY <2>2, TurnFacts
  <2> QED
    BY <1>1, <2>1, <2>3, ForeignArrival
<1>3. CASE ~Send(d)
  <2>1. UNCHANGED vars
    BY <1>3 DEF Proceeds, ConnectionLost, CannotOpen, NoAnswer, Refusal, Completed, Expects
  <2> QED
    BY <1>1, <2>1, NothingMoves
<1> QED
  BY <1>2, <1>3

LEMMA ClientStepIsServerStep ==
  ASSUME UploadInv, ServiceInv, ClientInv, ClientNext
  PROVE  ServerStep \/ UNCHANGED vars
<1>1. CASE \E c \in Clients : Proceeds(c) \/ ConnectionLost(c)
  <2>1. PICK c \in Clients : Proceeds(c) \/ ConnectionLost(c)
    BY <1>1
  <2>2. CASE Send(c)
    <3>1. Kept(c)
      BY DEF ClientInv, Kept
    <3>2. sent[c] + 1 \in 1..Len(Turns[c])
      BY <2>2, <3>1, TurnFacts DEF Send, Kept, TurnInv
    <3> QED
      BY <2>2, <3>1, <3>2, SendIsArrival, TurnFacts DEF ServerStep
  <2>3. CASE ~Send(c)
    BY <2>1, <2>3 DEF Proceeds, ConnectionLost, CannotOpen, NoAnswer, Refusal, Completed, Expects
  <2> QED
    BY <2>2, <2>3
<1>2. CASE ~\E c \in Clients : Proceeds(c) \/ ConnectionLost(c)
  BY <1>2 DEF ClientNext, ServerStep, RequestArrives, Arrival, Others
<1> QED
  BY <1>1, <1>2

LEMMA ClientStepKeeps ==
  ASSUME UploadInv, ServiceInv, ClientInv, UploadInv', ClientNext
  PROVE  ClientInv'
<1>1. \A c \in Clients : Kept(c)
  BY DEF ClientInv, Kept
<1>2. ClientShape
  BY DEF ClientInv
<1>3. CASE \E c \in Clients : Proceeds(c) \/ ConnectionLost(c)
  <2>1. PICK d \in Clients : Proceeds(d) \/ ConnectionLost(d)
    BY <1>3
  <2>2. ClientShape'
    BY <1>2, <2>1 DEF Proceeds, ConnectionLost, Send, CannotOpen, NoAnswer, Refusal, Completed, Expects, ClientShape
  <2>3. TurnInv(d)' /\ AloneInv(d)' /\ GoodInv(d)'
    BY <1>1, <1>2, <2>1, SendKeeps, LostKeeps, ExpectsKeeps DEF Proceeds
  <2>4. \A c \in Clients : c # d => TurnInv(c)' /\ AloneInv(c)' /\ GoodInv(c)'
    BY <1>1, <1>2, <2>1, OthersStep
  <2> QED
    BY <2>2, <2>3, <2>4 DEF ClientInv
<1>4. CASE /\ \/ \E r \in Others : RequestArrives(r)
              \/ \E r \in Requests : RequestStep(r)
              \/ \E s \in Sessions : SessionStep(s)
           /\ UNCHANGED clientVars
  <2>1. ClientShape' /\ \A c \in Clients : SameClient(c)
    BY <1>2, <1>4 DEF ClientShape, SameClient, clientVars
  <2>2. ASSUME NEW c \in Clients
        PROVE  TurnInv(c)' /\ AloneInv(c)' /\ GoodInv(c)'
    <3>1. CASE \E r \in Others : RequestArrives(r)
      <4>1. PICK r \in Others : RequestArrives(r)
        BY <3>1
      <4>2. r \in Requests \ Own(c) /\ Arrival(r)
        BY <4>1 DEF Others, RequestArrives, Arrival
      <4> QED
        BY <1>1, <2>1, <4>2, ForeignArrival
    <3>2. CASE \E r \in Requests : RequestStep(r)
      BY <1>1, <2>1, <3>2, AddFileKeeps, ExchangeKeeps DEF RequestStep
    <3>3. CASE \E s \in Sessions : SessionStep(s)
      BY <1>1, <2>1, <3>3, SessionStepKeeps
    <3> QED
      BY <1>4, <3>1, <3>2, <3>3
  <2> QED
    BY <2>1, <2>2 DEF ClientInv
<1> QED
  BY <1>3, <1>4 DEF ClientNext

LEMMA InitClient == ClientInit => UploadInv /\ ServiceInv /\ ClientInv
<1> SUFFICES ASSUME ClientInit PROVE ClientInv
  BY InitInv, InitService DEF ClientInit
<1>1. ClientShape
  BY DEF ClientInit, ClientShape
<1>2. ASSUME NEW c \in Clients
      PROVE  TurnInv(c) /\ AloneInv(c) /\ GoodInv(c)
  <2>1. SessionOf(c) = None /\ sent[c] = 0 /\ place[c] = "ready" /\ sid[c] = None
    BY DEF ClientInit, SessionOf
  <2>2. \E f \in {Changes} \cup Debs : fns[c] = <<f>>
    BY DEF ClientInit
  <2>3. \A i \in 1..Len(Turns[c]) : pc[Turn(c, i)] = "new" /\ i > 0 /\ ~(i <= 0) /\ ~(i < 0) /\ i # 0
    BY TurnFacts DEF ClientInit, Init
  <2>4. 0 \in 0..Len(Turns[c])
    BY TurnFacts
  <2>5. TurnInv(c)
    BY <2>1, <2>2, <2>3, <2>4 DEF TurnInv
  <2> QED
    BY <2>1, <2>5 DEF AloneInv, GoodInv
<1> QED
  BY <1>1, <1>2 DEF ClientInv

(***************************************************************************)
(* What is invariant of clients and their sessions.                        *)
(***************************************************************************)
THEOREM ClientsInvariant == ClientSpec => [](UploadInv /\ ServiceInv /\ ClientInv)
<1> DEFINE Inv == UploadInv /\ ServiceInv /\ ClientInv
<1>1. ClientInit => Inv
  BY InitClient
<1>2. Inv /\ [ClientNext]_allVars => Inv'
  <2> SUFFICES ASSUME UploadInv, ServiceInv, ClientInv, [ClientNext]_allVars
               PROVE  UploadInv' /\ ServiceInv' /\ ClientInv'
    OBVIOUS
  <2>1. CASE ClientNext
    <3>1. UploadInv' /\ ServiceInv'
      BY <2>1, ClientStepIsServerStep, ServerStepInv, ServerStepService, StutterKeeps
    <3> QED
      BY <2>1, <3>1, ClientStepKeeps
  <2>2. CASE UNCHANGED allVars
    <3>1. UNCHANGED vars /\ UNCHANGED <<place, fns, sid, sent, disk>>
      BY <2>2 DEF allVars, clientVars
    <3>2. UploadInv' /\ ServiceInv'
      BY <3>1, StutterKeeps
    <3>3. \A c \in Clients : Kept(c) /\ SameClient(c)
      BY <3>1 DEF ClientInv, Kept, SameClient
    <3>4. \A c \in Clients : TurnInv(c)' /\ AloneInv(c)' /\ GoodInv(c)'
      BY <3>1, <3>2, <3>3, NothingMoves
    <3>5. ClientShape'
      BY <3>1 DEF ClientInv, ClientShape
    <3> QED
      BY <3>2, <3>4, <3>5 DEF ClientInv
  <2> QED
    BY <2>1, <2>2
<1> QED
  BY <1>1, <1>2, PTL DEF ClientSpec

(***************************************************************************)
(* A client's report is true (upload_cli.go:130-146), but for the error of *)
(* AddUpload, which nobody is told (upload_session.go:189).                *)
(***************************************************************************)
THEOREM TrueOutcome == ClientSpec => []OutcomeTrue
<1>1. ClientInit => ResultInv
  BY DEF ClientInit, Init, ResultInv
<1>2. UploadInv /\ ServiceInv /\ ClientInv /\ ResultInv /\ [ClientNext]_allVars => ResultInv'
  <2> SUFFICES ASSUME UploadInv, ServiceInv, ClientInv, ResultInv, [ClientNext]_allVars
               PROVE  ResultInv'
    OBVIOUS
  <2>1. ServerStep \/ UNCHANGED vars
    BY ClientStepIsServerStep DEF allVars
  <2> QED
    BY <2>1, ResultKept
<1>3. UploadInv /\ ServiceInv /\ ClientInv /\ ResultInv => OutcomeTrue
  <2> SUFFICES ASSUME UploadInv, ServiceInv, ClientInv, ResultInv, NEW c \in Clients, SessionOf(c) # None
               PROVE  LET s == SessionOf(c)
                      IN /\ place[c] = "done" => /\ s \in published \/ s \in failed
                                                 /\ s \notin Lone => received[s] = Files
                         /\ place[c] = "failed" /\ Alone(c) => s \notin published \cup failed
    BY DEF OutcomeTrue
  <2> DEFINE s == SessionOf(c)
             r == Last(c)
  <2>1. TurnInv(c) /\ AloneInv(c) /\ s \in Sessions /\ r \in Requests /\ target[r] = s
    BY LastFacts DEF ClientInv
  <2>2. attempts[s] > 0 <=> s \in published \cup failed
    BY <2>1 DEF ResultInv
  <2>3. ASSUME place[c] = "done"
        PROVE  attempts[s] > 0 /\ (s \notin Lone => received[s] = Files)
    <3>1. Shown(r)
      BY <2>1, <2>3 DEF TurnInv
    <3>2. s \notin Lone => received[s] \subseteq Files
      BY <2>1 DEF UploadInv, TypeOK
    <3> QED
      BY <2>1, <3>1, <3>2 DEF UploadInv, ShownInv, Shown
  <2>4. place[c] = "failed" /\ Alone(c) => ~(attempts[s] > 0)
    BY <2>1 DEF AloneInv
  <2> QED
    BY <2>2, <2>3, <2>4
<1> QED
  BY <1>1, <1>2, <1>3, ClientsInvariant, PTL DEF ClientSpec

(***************************************************************************)
(* An upload with nothing wrong about it does not fail                     *)
(* (upload_cli.go:155-159).                                                *)
(***************************************************************************)
THEOREM GoodUploads == ClientSpec => []GoodUploadSucceeds
<1>1. UploadInv /\ ServiceInv /\ ClientInv => GoodUploadSucceeds
  BY DEF ClientInv, GoodInv, GoodUploadSucceeds
<1> QED
  BY <1>1, ClientsInvariant, PTL

===============================================================================
