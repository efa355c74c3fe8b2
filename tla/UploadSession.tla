----------------------------- MODULE UploadSession -----------------------------
(***************************************************************************)
(* upload_handlers.go, upload_session.go and upload_manager.go: HTTP       *)
(* requests, the sessions they talk to and the updater.                    *)
(*                                                                         *)
(* Every request runs in a goroutine of its own.  A session is a goroutine *)
(* too, its handler, which serves one message at a time until its context  *)
(* expires; a request that wants something of a session sends a message    *)
(* and waits for the answer, so an exchange is one step here.  A session   *)
(* that has received its last file asks the updater to merge it and waits. *)
(* There is one updater, and it merges one session at a time.              *)
(*                                                                         *)
(* The updater's write lock is module Governor; the hold that a session    *)
(* has on the collector is module GarbageCollector.                        *)
(***************************************************************************)
EXTENDS Integers, Sequences

CONSTANTS
  Requests,   \* HTTP requests, each served once
  Sessions,   \* upload sessions, each created once
  Lone,       \* the sessions opened by a lone deb, without a changes file
  Files,      \* the files a changes file lists
  Uploads,    \* what a request may carry: sequences of [name, what] parts
  None

\* What a request may be answered; "panic" is no answer at all.
Answers == {"ok", "refused", "notfound", "panic"}

ASSUME LoneAssumption == Lone \subseteq Sessions

ASSUME NoneAssumption == None \notin Sessions \cup Requests \cup Answers

(***************************************************************************)
(* A part is what its sender knows it to be: "good"; "corrupt", refused by *)
(* its hashes or its format; or "unverified", refused by its signature.    *)
(***************************************************************************)
Kinds == {"good", "corrupt", "unverified"}
ASSUME UploadsAssumption == \A u \in Uploads : u \in Seq([name : STRING, what : Kinds])

VARIABLES
  handler,    \* per session: "none", "loop" (in its select), "merging", "over"
  expecting,  \* the names in Expecting
  received,   \* those marked Received
  err,        \* s.err # nil
  complete,   \* s.Complete
  expired,    \* the session's context is done
  inMap,      \* GetSession finds it
  maker,      \* the request that made the session
  serving,    \* the request whose file the handler is merging
  updater,    \* the session the updater works for, and whether it is done
  attempts,   \* per session: the calls of AddUpload that have returned
  published,  \* the sessions with one that has succeeded
  failed,     \* the sessions with one that has failed
  pc,         \* where each request is
  target,     \* the session it talks to
  parts,      \* the parts it carries
  next,       \* the number of parts sent
  answer,     \* what the client is told
  seen,       \* the status the client is shown
  rejected    \* history: the requests one of whose parts was refused

sessionVars == <<handler, expecting, received, err, complete, expired, inMap, maker, serving>>
updaterVars == <<updater, attempts, published, failed>>
requestVars == <<pc, target, parts, next, answer, seen, rejected>>
vars == <<sessionVars, updaterVars, requestVars>>

Idle == [session |-> None, done |-> FALSE]

Part(r) == parts[r][next[r] + 1]

Goto(r, l) == pc' = [pc EXCEPT ![r] = l]

Answer(r, a) ==
  /\ Goto(r, "answered")
  /\ answer' = [answer EXCEPT ![r] = a]

------------------------------------------------------------------------------
(***************************************************************************)
(* Requests arrive.                                                        *)
(***************************************************************************)
Arrives(r, s, u) ==
  /\ pc[r] = "new"
  /\ target' = [target EXCEPT ![r] = s]
  /\ parts' = [parts EXCEPT ![r] = u]

\* What is left of the request after its last part, or when it has none.
Continue(r, n, u) == Goto(r, IF n < Len(u) THEN "send" ELSE "final")

\* A session's name is in the answer to the request that made it, whatever that
\* answer is, and nowhere before.
Known(s) == maker[s] # None /\ pc[maker[s]] = "answered"

\* GET: a session that is not in the map is a 404.
Get(r, s) ==
  /\ Known(s)
  /\ Arrives(r, s, <<>>)
  /\ IF inMap[s] THEN Goto(r, "status") /\ UNCHANGED answer ELSE Answer(r, "notfound")
  /\ UNCHANGED <<sessionVars, updaterVars, next, seen, rejected>>

\* PUT or POST of files to a session.
Put(r, s, u) ==
  /\ Known(s)
  /\ Arrives(r, s, u)
  /\ IF inMap[s] THEN Continue(r, 0, u) /\ UNCHANGED answer ELSE Answer(r, "notfound")
  /\ UNCHANGED <<sessionVars, updaterVars, next, seen, rejected>>

\* PUT or POST without a session: the changes file or a lone deb makes one.
NewSession(r, s, u) ==
  /\ handler[s] = "none"
  /\ s \in Lone => Len(u) = 1
  /\ Arrives(r, s, u)
  /\ Goto(r, "lookup")
  /\ handler' = [handler EXCEPT ![s] = "loop"]
  /\ inMap' = [inMap EXCEPT ![s] = TRUE]
  /\ maker' = [maker EXCEPT ![s] = r]
  /\ UNCHANGED <<expecting, received, err, complete, expired, serving, updaterVars,
                 next, answer, seen, rejected>>

\* There is no such distribution, it takes no lone debs, or the changes file is not
\* one, lists a file without all of its hashes, or is not signed as it should be.
NewSessionRefused(r) ==
  /\ pc[r] = "new"
  /\ \E a \in {"notfound", "refused"} : Answer(r, a)
  /\ UNCHANGED <<sessionVars, updaterVars, target, parts, next, seen, rejected>>

\* The request that made the session looks it up like any other.
GetSession(r) ==
  /\ pc[r] = "lookup"
  /\ IF inMap[target[r]]
     THEN Continue(r, 0, parts[r]) /\ UNCHANGED answer
     ELSE Answer(r, "notfound")
  /\ UNCHANGED <<sessionVars, updaterVars, target, parts, next, seen, rejected>>

------------------------------------------------------------------------------
(***************************************************************************)
(* Exchanges of a request with its session's handler.                      *)
(***************************************************************************)
\* Mutant: the session is read without asking its handler.
ReadDirectly(r, l) == pc[r] = l /\ handler[target[r]] \in {"loop", "merging"}

Exchange(r, l) == pc[r] = l /\ handler[target[r]] = "loop"

\* Mutant: a file that has been received is taken again.
TakesAgain(s, p) ==
  \/ s \notin Lone /\ p.name \notin expecting[s]
  \/ p.what \in {"corrupt", "unverified"}

\* doAddFile refuses a file not listed, one it has, and one that fails its checks.
\* The error of the upload hook is dropped: the file counts as received whatever
\* the hook says, so the hook is not modelled.
Refused(s, p) ==
  \/ s \notin Lone /\ (p.name \notin expecting[s] \/ p.name \in received[s])
  \/ p.what \in {"corrupt", "unverified"}

\* A lone deb is expected, anew, as soon as its control file can be read.
Expected(s, p) ==
  IF s \in Lone /\ p.what # "corrupt" THEN expecting[s] \cup {p.name} ELSE expecting[s]

Withdrawn(s, p) == IF s \in Lone /\ p.what = "unverified" THEN {p.name} ELSE {}

Received(s, p) ==
  (IF Refused(s, p) THEN received[s] ELSE received[s] \cup {p.name}) \ Withdrawn(s, p)

\* Mutant: the first file completes the upload.
CompleteEarly(exp, rec) == rec # {}

CompleteWith(exp, rec) == exp \subseteq rec

\* Mutant: the error of doAddFile is lost (shadowed).
ErrLost(s, p) == FALSE

ErrAfter(s, p) == Refused(s, p)

(***************************************************************************)
(* AddFile: the file is added, or s.err says why not.  The file that       *)
(* completes the upload is not answered before the merge is over.          *)
(***************************************************************************)
AddFile(r) ==
  LET s   == target[r]
      p   == Part(r)
      exp == Expected(s, p)
      rec == Received(s, p)
  IN /\ Exchange(r, "send")
     /\ expecting' = [expecting EXCEPT ![s] = exp]
     /\ received' = [received EXCEPT ![s] = rec]
     /\ err' = [err EXCEPT ![s] = ErrAfter(s, p)]
     /\ rejected' = IF Refused(s, p) THEN rejected \cup {r} ELSE rejected
     /\ IF Refused(s, p) \/ ~CompleteWith(exp, rec)
        THEN Goto(r, "check") /\ UNCHANGED <<handler, complete, serving>>
        ELSE /\ complete' = [complete EXCEPT ![s] = TRUE]
             /\ handler' = [handler EXCEPT ![s] = "merging"]
             /\ serving' = [serving EXCEPT ![s] = r]
             /\ Goto(r, "merging")
     /\ next' = [next EXCEPT ![r] = @ + 1]
     /\ UNCHANGED <<expired, inMap, maker, updaterVars, target, parts, answer, seen>>

\* sess.Err(), a message of its own, after each file: what it returns is the
\* session's last error, whoever's file that was.
Check(r) ==
  /\ Exchange(r, "check")
  /\ IF err[target[r]] THEN Goto(r, "refusing") ELSE Continue(r, next[r], parts[r])
  /\ UNCHANGED <<sessionVars, updaterVars, target, parts, next, answer, seen, rejected>>

\* The answer to a refused file asks for the error again.  Another request's file may
\* have cleared it: a nil error's text is asked for, the request's goroutine panics,
\* and the connection is closed without an answer.
Refuse(r) ==
  /\ Exchange(r, "refusing")
  /\ Answer(r, IF err[target[r]] THEN "refused" ELSE "panic")
  /\ UNCHANGED <<sessionVars, updaterVars, target, parts, next, seen, rejected>>

\* sess.Err() once more, after the last file.
CheckLast(r) ==
  /\ Exchange(r, "final")
  /\ IF err[target[r]] THEN Answer(r, "refused") ELSE Goto(r, "status") /\ UNCHANGED answer
  /\ UNCHANGED <<sessionVars, updaterVars, target, parts, next, seen, rejected>>

\* sess.Status(): the request gets a copy of the session.
Status(r) ==
  /\ Exchange(r, "status")
  /\ Goto(r, "reply")
  /\ seen' = [seen EXCEPT ![r] =
                [complete |-> complete[target[r]], expecting |-> {}, received |-> {}]]
  /\ UNCHANGED <<sessionVars, updaterVars, target, parts, next, answer, rejected>>

\* The copy shares the Expecting map with the handler, so the answer shows the
\* files expected and received by the time it is written.
Reply(r) ==
  /\ pc[r] = "reply"
  /\ Answer(r, "ok")
  /\ seen' = [seen EXCEPT ![r] = [complete |-> @.complete,
                                  expecting |-> expecting[target[r]],
                                  received |-> received[target[r]]]]
  /\ UNCHANGED <<sessionVars, updaterVars, target, parts, next, rejected>>

------------------------------------------------------------------------------
(***************************************************************************)
(* The updater, and the session waiting for it.                            *)
(***************************************************************************)
TakeUpdate(s) ==
  /\ updater = Idle /\ handler[s] = "merging" /\ serving[s] # None
  /\ updater' = [session |-> s, done |-> FALSE]
  /\ UNCHANGED <<sessionVars, attempts, published, failed, requestVars>>

\* AddUpload succeeds, or fails.
AddUpload(s) ==
  /\ updater = [session |-> s, done |-> FALSE]
  /\ updater' = [session |-> s, done |-> TRUE]
  /\ attempts' = [attempts EXCEPT ![s] = @ + 1]
  /\ \/ published' = published \cup {s} /\ UNCHANGED failed
     \/ failed' = failed \cup {s} /\ UNCHANGED published
  /\ UNCHANGED <<sessionVars, requestVars>>

\* Mutant: a merge that fails is not responded to.
RespondIfPublished(s) ==
  /\ updater = [session |-> s, done |-> TRUE] /\ s \in published
  /\ updater' = Idle
  /\ handler' = [handler EXCEPT ![s] = "loop"]
  /\ serving' = [serving EXCEPT ![s] = None]
  /\ Goto(serving[s], "check")
  /\ UNCHANGED <<expecting, received, err, complete, expired, inMap, maker, attempts,
                 published, failed, target, parts, next, answer, seen, rejected>>

\* The updater responds; mergeSession returns its error, the handler drops it and
\* answers the request.
Respond(s) ==
  /\ updater = [session |-> s, done |-> TRUE]
  /\ updater' = Idle
  /\ handler' = [handler EXCEPT ![s] = "loop"]
  /\ serving' = [serving EXCEPT ![s] = None]
  /\ Goto(serving[s], "check")
  /\ UNCHANGED <<expecting, received, err, complete, expired, inMap, maker, attempts,
                 published, failed, target, parts, next, answer, seen, rejected>>

------------------------------------------------------------------------------
(***************************************************************************)
(* The session's time to live.                                             *)
(***************************************************************************)
Expire(s) ==
  /\ handler[s] # "none" /\ ~expired[s]
  /\ expired' = [expired EXCEPT ![s] = TRUE]
  /\ UNCHANGED <<handler, expecting, received, err, complete, inMap, maker, serving,
                 updaterVars, requestVars>>

\* The goroutine that clears the map, and the handler: in either order.
Forget(s) ==
  /\ expired[s] /\ inMap[s]
  /\ inMap' = [inMap EXCEPT ![s] = FALSE]
  /\ UNCHANGED <<handler, expecting, received, err, complete, expired, maker, serving,
                 updaterVars, requestVars>>

\* Mutant: a session whose upload is complete is not ended by its context.
EndIfOpen(s) ==
  /\ handler[s] = "loop" /\ expired[s] /\ ~complete[s]
  /\ handler' = [handler EXCEPT ![s] = "over"]
  /\ UNCHANGED <<expecting, received, err, complete, expired, inMap, maker, serving,
                 updaterVars, requestVars>>

End(s) ==
  /\ handler[s] = "loop" /\ expired[s]
  /\ handler' = [handler EXCEPT ![s] = "over"]
  /\ UNCHANGED <<expecting, received, err, complete, expired, inMap, maker, serving,
                 updaterVars, requestVars>>

------------------------------------------------------------------------------
Init ==
  /\ handler = [s \in Sessions |-> "none"]
  /\ expecting = [s \in Sessions |-> IF s \in Lone THEN {} ELSE Files]
  /\ received = [s \in Sessions |-> {}]
  /\ err = [s \in Sessions |-> FALSE]
  /\ complete = [s \in Sessions |-> FALSE]
  /\ expired = [s \in Sessions |-> FALSE]
  /\ inMap = [s \in Sessions |-> FALSE]
  /\ maker = [s \in Sessions |-> None]
  /\ serving = [s \in Sessions |-> None]
  /\ updater = Idle
  /\ attempts = [s \in Sessions |-> 0]
  /\ published = {}
  /\ failed = {}
  /\ pc = [r \in Requests |-> "new"]
  /\ target = [r \in Requests |-> None]
  /\ parts = [r \in Requests |-> <<>>]
  /\ next = [r \in Requests |-> 0]
  /\ answer = [r \in Requests |-> None]
  /\ seen = [r \in Requests |-> None]
  /\ rejected = {}

RequestArrives(r) ==
  \/ NewSessionRefused(r)
  \/ \E s \in Sessions : Get(r, s) \/ \E u \in Uploads : Put(r, s, u) \/ NewSession(r, s, u)

RequestStep(r) ==
  \/ GetSession(r) \/ AddFile(r) \/ Check(r) \/ Refuse(r)
  \/ CheckLast(r) \/ Status(r) \/ Reply(r)

SessionStep(s) ==
  TakeUpdate(s) \/ AddUpload(s) \/ Respond(s) \/ Expire(s) \/ Forget(s) \/ End(s)

Next ==
  \/ \E r \in Requests : RequestArrives(r) \/ RequestStep(r)
  \/ \E s \in Sessions : SessionStep(s)

Spec == Init /\ [][Next]_vars

(***************************************************************************)
(* Goroutines that can run do, timers fire, hooks and AddUpload return.    *)
(* Nobody has to send a request.  There are finitely many requests, so a   *)
(* select that is ready again and again is in the end always ready.        *)
(***************************************************************************)
Fairness ==
  /\ \A r \in Requests : WF_vars(RequestStep(r))
  /\ \A s \in Sessions :
       /\ WF_vars(TakeUpdate(s)) /\ WF_vars(AddUpload(s)) /\ WF_vars(Respond(s))
       /\ WF_vars(Expire(s)) /\ WF_vars(Forget(s)) /\ WF_vars(End(s))

------------------------------------------------------------------------------
PCs == {"new", "lookup", "send", "merging", "check", "refusing", "final", "status", "reply",
        "answered"}

TypeOK ==
  /\ handler \in [Sessions -> {"none", "loop", "merging", "over"}]
  /\ \A s \in Sessions : received[s] \subseteq expecting[s]
  /\ \A s \in Sessions \ Lone : expecting[s] = Files
  /\ err \in [Sessions -> BOOLEAN] /\ complete \in [Sessions -> BOOLEAN]
  /\ expired \in [Sessions -> BOOLEAN] /\ inMap \in [Sessions -> BOOLEAN]
  /\ maker \in [Sessions -> Requests \cup {None}]
  /\ serving \in [Sessions -> Requests \cup {None}]
  /\ updater \in [session : Sessions \cup {None}, done : BOOLEAN]
  /\ attempts \in [Sessions -> Nat]
  /\ published \cup failed \subseteq Sessions
  /\ pc \in [Requests -> PCs]
  /\ target \in [Requests -> Sessions \cup {None}]
  /\ next \in [Requests -> Nat]
  /\ answer \in [Requests -> Answers \cup {None}]
  /\ rejected \subseteq Requests

(***************************************************************************)
(* What the updater merges is whole: every file expected by a session that *)
(* is being merged has been received, and stays so until the merge is over *)
(* (upload_session.go:175).                                                *)
(***************************************************************************)
MergesWhole == \A s \in Sessions : handler[s] = "merging" => expecting[s] \subseteq received[s]

(***************************************************************************)
(* AddUpload is called once for an upload made with a changes file,        *)
(* however many requests repeat its files (upload_session.go:229).         *)
(***************************************************************************)
MergedOnce == \A s \in Sessions \ Lone : attempts[s] <= 1

(***************************************************************************)
(* "Synchronous confirmation of repository regeneration" (README.md:11):   *)
(* a client that is shown a complete upload is shown it after AddUpload    *)
(* has returned.  (Whether AddUpload has succeeded it is not told.)        *)
(***************************************************************************)
Shown(r) == answer[r] = "ok" /\ seen[r].complete

ConfirmedAfterMerge == \A r \in Requests : Shown(r) => attempts[target[r]] > 0

(***************************************************************************)
(* A status never shows a complete upload with a file missing, although    *)
(* its flag and its files are read at different times.                     *)
(***************************************************************************)
StatusConsistent ==
  \A r \in Requests : Shown(r) /\ target[r] \notin Lone => seen[r].received = Files

(***************************************************************************)
(* The inductive invariant behind these.  A request talks to a session     *)
(* once it has arrived; a session being merged has a request waiting for   *)
(* it and, with a changes file, has not been merged before; the updater    *)
(* works for such a session; an upload that is complete is being merged or *)
(* AddUpload has returned, as it has for what is shown as complete.        *)
(***************************************************************************)
Shape ==
  /\ expecting = [s \in Sessions |-> expecting[s]]
  /\ received = [s \in Sessions |-> received[s]]
  /\ seen = [r \in Requests |-> seen[r]]

RequestInv ==
  \A r \in Requests :
    /\ pc[r] \notin {"new", "answered"} => target[r] \in Sessions
    /\ answer[r] = "ok" => pc[r] = "answered" /\ target[r] \in Sessions

MergingInv ==
  \A s \in Sessions : handler[s] = "merging" =>
    /\ serving[s] \in Requests /\ pc[serving[s]] = "merging" /\ target[serving[s]] = s
    /\ expecting[s] \subseteq received[s]
    /\ s \notin Lone => attempts[s] = 0 \/ updater = [session |-> s, done |-> TRUE]

UpdaterInv ==
  updater # Idle => /\ updater.session \in Sessions
                    /\ handler[updater.session] = "merging"
                    /\ updater.done => attempts[updater.session] > 0

CompleteInv ==
  \A s \in Sessions :
    /\ complete[s] => handler[s] = "merging" \/ attempts[s] > 0
    /\ s \notin Lone =>
         /\ attempts[s] <= 1
         /\ complete[s] \/ attempts[s] > 0 => Files \subseteq received[s]

ShownInv ==
  \A r \in Requests : (pc[r] = "reply" \/ answer[r] = "ok") /\ seen[r].complete =>
    /\ attempts[target[r]] > 0
    /\ target[r] \notin Lone =>
         /\ Files \subseteq received[target[r]]
         /\ answer[r] = "ok" => seen[r].received = Files

UploadInv ==
  TypeOK /\ Shape /\ RequestInv /\ MergingInv /\ UpdaterInv /\ CompleteInv /\ ShownInv

\* Each call of AddUpload has succeeded or failed.
ResultInv == \A s \in Sessions : attempts[s] > 0 <=> s \in published \cup failed

(***************************************************************************)
(* What a client can rely on.  A request and a session are untouched until *)
(* they start; a request that sends a file has one left, and one whose     *)
(* file is being merged is the one its session serves; a session is there  *)
(* until its context expires; and an upload is complete as soon as all of  *)
(* its files have been received.                                           *)
(***************************************************************************)
NewInv ==
  /\ parts = [r \in Requests |-> parts[r]]
  /\ \A r \in Requests : pc[r] = "new" =>
       target[r] = None /\ parts[r] = <<>> /\ next[r] = 0 /\ answer[r] = None
  /\ \A r \in Requests : pc[r] = "answered" => answer[r] # None
  /\ \A s \in Sessions : handler[s] = "none" =>
       /\ received[s] = {} /\ ~err[s] /\ ~complete[s] /\ ~expired[s]
       /\ attempts[s] = 0 /\ maker[s] = None
       /\ s \in Lone => expecting[s] = {}
       /\ \A r \in Requests : target[r] # s

SendingInv ==
  \A r \in Requests :
    /\ pc[r] = "lookup" => next[r] = 0
    /\ pc[r] = "send" => next[r] < Len(parts[r])
    /\ pc[r] \in {"send", "merging"} => parts[r] # <<>>
    /\ pc[r] = "merging" => handler[target[r]] = "merging" /\ serving[target[r]] = r

OpenInv ==
  \A s \in Sessions : handler[s] # "none" /\ ~expired[s] => inMap[s] /\ handler[s] # "over"

WholeInv ==
  \A s \in Sessions \ Lone : Files # {} /\ Files \subseteq received[s] => complete[s]

ServiceInv == NewInv /\ SendingInv /\ OpenInv /\ WholeInv

(***************************************************************************)
(* A session ends and is forgotten, whatever its requests are doing, and   *)
(* with it its hold on the collector (upload_session.go:152-163,           *)
(* upload_manager.go:97-100).                                              *)
(***************************************************************************)
SessionsEnd ==
  \A s \in Sessions : handler[s] # "none" ~> handler[s] = "over" /\ ~inMap[s]

===============================================================================
