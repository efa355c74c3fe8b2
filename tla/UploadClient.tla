----------------------------- MODULE UploadClient -----------------------------
(***************************************************************************)
(* upload_cli.go: the command "godinstall upload", as a client of upload   *)
(* sessions.                                                               *)
(*                                                                         *)
(* A client sends one file per request: a changes file (or a lone deb)     *)
(* first, then whatever the answer says is expected and not yet received.  *)
(* It sends the next request when it has the answer to the last one.  It   *)
(* appends all that is missing to its queue after every answer, so most    *)
(* files are in the queue several times.                                   *)
(*                                                                         *)
(* Requests and sessions are those of UploadSession.  Requests that are    *)
(* nobody's turn are sent by other programs, in the ways described there.  *)
(***************************************************************************)
EXTENDS UploadSession, FiniteSets, Functions

CONSTANTS
  Clients,
  Turns,    \* the requests of each client, in the order in which it sends them
  Changes,  \* the name of the changes file
  Debs,     \* the names of debs that are uploaded alone
  Disks     \* what a client may have on its disk: the kind of each file, or "missing"

Turn(c, i) == Turns[c][i]

Own(c) == {Turn(c, i) : i \in DOMAIN Turns[c]}

ASSUME TurnsAssumption ==
  /\ \A c \in Clients : Turns[c] \in Seq(Requests)
  /\ \A c, d \in Clients : \A i \in DOMAIN Turns[c], j \in DOMAIN Turns[d] :
       Turn(c, i) = Turn(d, j) => c = d /\ i = j

ASSUME FilesAssumption == IsFiniteSet(Files)

ASSUME NamesAssumption == Changes \notin Files \cup Debs

ASSUME DisksAssumption == \A d \in Disks : d \in [Files \cup Debs -> Kinds \cup {"missing"}]

VARIABLES
  place,  \* per client: "ready", "waiting", "done", "failed", or "crashed"
  fns,    \* the queue of names to send
  sid,    \* the session id, once it has been told
  sent,   \* the number of requests sent
  disk    \* what is on its disk

clientVars == <<place, fns, sid, sent, disk>>
allVars == <<vars, clientVars>>

Others == Requests \ UNION {Own(c) : c \in Clients}

------------------------------------------------------------------------------
Carried(c) ==
  LET fn == Head(fns[c])
  IN IF fn = Changes THEN <<>> ELSE <<[name |-> fn, what |-> disk[c][fn]]>>

Missing(c) == Head(fns[c]) # Changes /\ disk[c][Head(fns[c])] = "missing"

\* Mutant: the file that has been sent stays at the head of the queue.
SendAgain(c) ==
  /\ place[c] = "ready" /\ sent[c] < Len(Turns[c]) /\ ~Missing(c)
  /\ LET r == Turn(c, sent[c] + 1)
     IN \/ /\ sid[c] = None
           /\ \/ NewSessionRefused(r)
              \/ \E s \in Sessions : /\ s \in Lone <=> Head(fns[c]) # Changes
                                     /\ NewSession(r, s, Carried(c))
        \/ sid[c] # None /\ Put(r, sid[c], Carried(c))
  /\ sent' = [sent EXCEPT ![c] = @ + 1]
  /\ fns' = [fns EXCEPT ![c] = IF @ = <<Changes>> THEN Tail(@) ELSE @]
  /\ place' = [place EXCEPT ![c] = "waiting"]
  /\ UNCHANGED <<sid, disk>>

\* One turn of the loop up to the answer: without a session, the file makes one.
Send(c) ==
  /\ place[c] = "ready" /\ sent[c] < Len(Turns[c]) /\ ~Missing(c)
  /\ LET r == Turn(c, sent[c] + 1)
     IN \/ /\ sid[c] = None
           /\ \/ NewSessionRefused(r)
              \/ \E s \in Sessions : /\ s \in Lone <=> Head(fns[c]) # Changes
                                     /\ NewSession(r, s, Carried(c))
        \/ sid[c] # None /\ Put(r, sid[c], Carried(c))
  /\ sent' = [sent EXCEPT ![c] = @ + 1]
  /\ fns' = [fns EXCEPT ![c] = Tail(@)]
  /\ place' = [place EXCEPT ![c] = "waiting"]
  /\ UNCHANGED <<sid, disk>>

\* A file that cannot be opened ends the upload.
CannotOpen(c) ==
  /\ place[c] = "ready" /\ Missing(c)
  /\ place' = [place EXCEPT ![c] = "failed"]
  /\ UNCHANGED <<vars, fns, sid, sent, disk>>

\* The connection breaks: the body of a nil response is closed, before the error is
\* looked at.
ConnectionLost(c) ==
  /\ place[c] = "waiting"
  /\ place' = [place EXCEPT ![c] = "crashed"]
  /\ UNCHANGED <<vars, fns, sid, sent, disk>>

Answered(c) == place[c] = "waiting" /\ pc[Turn(c, sent[c])] = "answered"

Reported(c) == seen[Turn(c, sent[c])]

\* The server's goroutine has panicked: the connection is closed by the server.
NoAnswer(c) ==
  /\ Answered(c) /\ answer[Turn(c, sent[c])] = "panic"
  /\ place' = [place EXCEPT ![c] = "crashed"]
  /\ UNCHANGED <<vars, fns, sid, sent, disk>>

\* Any answer of 400 and above.
Refusal(c) ==
  /\ Answered(c) /\ answer[Turn(c, sent[c])] \notin {"ok", "panic"}
  /\ place' = [place EXCEPT ![c] = "failed"]
  /\ UNCHANGED <<vars, fns, sid, sent, disk>>

Completed(c) ==
  /\ Answered(c) /\ answer[Turn(c, sent[c])] = "ok" /\ Reported(c).complete
  /\ place' = [place EXCEPT ![c] = "done"]
  /\ UNCHANGED <<vars, fns, sid, sent, disk>>

\* What is missing is appended in the order of a Go map, which is any order.
Orders(names) == Injection(1..Cardinality(names), names)

Expects(c) ==
  /\ Answered(c) /\ answer[Turn(c, sent[c])] = "ok" /\ ~Reported(c).complete
  /\ sid' = [sid EXCEPT ![c] = target[Turn(c, sent[c])]]
  /\ \E more \in Orders(Reported(c).expecting \ Reported(c).received) :
       LET queue == fns[c] \o more
       IN /\ fns' = [fns EXCEPT ![c] = queue]
          /\ place' = [place EXCEPT ![c] = IF queue = <<>> THEN "failed" ELSE "ready"]
  /\ UNCHANGED <<vars, sent, disk>>

------------------------------------------------------------------------------
ClientInit ==
  /\ Init
  /\ place = [c \in Clients |-> "ready"]
  /\ fns \in [Clients -> {<<f>> : f \in {Changes} \cup Debs}]
  /\ sid = [c \in Clients |-> None]
  /\ sent = [c \in Clients |-> 0]
  /\ disk \in [Clients -> Disks]

Proceeds(c) ==
  Send(c) \/ CannotOpen(c) \/ NoAnswer(c) \/ Refusal(c) \/ Completed(c) \/ Expects(c)

ClientNext ==
  \/ \E c \in Clients : Proceeds(c) \/ ConnectionLost(c)
  \/ /\ \/ \E r \in Others : RequestArrives(r)
        \/ \E r \in Requests : RequestStep(r)
        \/ \E s \in Sessions : SessionStep(s)
     /\ UNCHANGED clientVars

ClientSpec == ClientInit /\ [][ClientNext]_allVars

\* The server's goroutines go on, and a client that can go on does.
FairClientSpec == ClientSpec /\ Fairness /\ \A c \in Clients : WF_allVars(Proceeds(c))

------------------------------------------------------------------------------
\* The session a client's first file made, if it did.
SessionOf(c) == IF sent[c] = 0 THEN None ELSE target[Turn(c, 1)]

\* Nobody else has sent files to it.
Alone(c) == \A r \in Requests \ Own(c) : target[r] = SessionOf(c) => parts[r] = <<>>

(***************************************************************************)
(* A client's report is true (upload_cli.go:130-146), as far as the server *)
(* can tell: "Completed" means that its session has received every file it *)
(* expected and that AddUpload has merged them, unless AddUpload failed,   *)
(* whose error nobody is told (upload_session.go:189).  A failure means    *)
(* that AddUpload has not been called, unless others have sent files to    *)
(* the same session.                                                       *)
(***************************************************************************)
OutcomeTrue ==
  \A c \in Clients :
    LET s == SessionOf(c)
    IN s # None =>
         /\ place[c] = "done" =>
              /\ s \in published \/ s \in failed
              /\ s \notin Lone => received[s] = Files
         /\ place[c] = "failed" /\ Alone(c) => s \notin published \cup failed

(***************************************************************************)
(* An upload with nothing wrong about it does not fail, although the       *)
(* client queues files it has sent or is about to send: before its session *)
(* ends, and with nobody else sending files to it, a client fails only for *)
(* a file that is bad or missing (upload_cli.go:155-159), or for a changes *)
(* file that lists none.                                                   *)
(***************************************************************************)
NothingWrong(c) == \A f \in Files \cup Debs : disk[c][f] = "good"

Empty(s) == s \notin Lone /\ Files = {}

GoodUploadSucceeds ==
  \A c \in Clients :
    LET s == SessionOf(c)
    IN place[c] = "failed" /\ s # None /\ Alone(c) => expired[s] \/ Empty(s) \/ ~NothingWrong(c)

(***************************************************************************)
(* The inductive invariant behind these two.  A client has one request in  *)
(* flight at most, and all of them talk to the session that its first made *)
(* (TurnInv).  In a session that is its own, the upload is complete only   *)
(* with the client's last request, which is then not refused (AloneInv).   *)
(* And if nothing is wrong, the files that are missing stand at the head   *)
(* of the queue, each once, whatever follows them (GoodInv).               *)
(***************************************************************************)
Last(c) == Turn(c, sent[c])

TurnInv(c) ==
  /\ place[c] \in {"ready", "waiting", "done", "failed", "crashed"}
  /\ sent[c] \in 0..Len(Turns[c])
  /\ place[c] \in {"waiting", "done", "crashed"} => sent[c] > 0
  /\ \A i \in 1..Len(Turns[c]) :
       /\ i > sent[c] => pc[Turn(c, i)] = "new"
       /\ i <= sent[c] =>
            /\ pc[Turn(c, i)] # "new" /\ target[Turn(c, i)] = SessionOf(c)
            /\ parts[Turn(c, i)] = <<>> \/ parts[Turn(c, i)] = <<parts[Turn(c, i)][1]>>
            /\ pc[Turn(c, i)] \in {"merging", "check"} => ~(next[Turn(c, i)] < Len(parts[Turn(c, i)]))
       /\ i < sent[c] \/ (i = sent[c] /\ place[c] \notin {"waiting", "crashed"}) =>
            pc[Turn(c, i)] = "answered"
  /\ sent[c] = 0 => sid[c] = None /\ \E f \in {Changes} \cup Debs : fns[c] = <<f>>
  /\ sid[c] # None => sid[c] = SessionOf(c)
  /\ place[c] = "ready" /\ sent[c] > 0 => sid[c] # None
  /\ place[c] = "done" => Shown(Last(c))

AloneInv(c) ==
  LET s == SessionOf(c)
      r == Last(c)
  IN s # None /\ Alone(c) /\ (handler[s] = "merging" \/ complete[s] \/ attempts[s] > 0) =>
       /\ place[c] \in {"waiting", "crashed", "done"}
       /\ complete[s] /\ ~err[s]
       /\ \/ pc[r] \in {"merging", "check", "final", "status"}
          \/ pc[r] = "reply" /\ seen[r].complete
          \/ Shown(r)

\* The queue starts with the names of M, in some order.
Starts(queue, M) ==
  /\ queue \in Seq(Files)
  /\ \E n \in 0..Len(queue) :
       /\ {queue[i] : i \in 1..n} = M
       /\ \A i, j \in 1..n : queue[i] = queue[j] => i = j

\* The name of a request's file, until the session has it.
InFlight(r) == IF pc[r] \in {"lookup", "send"} /\ parts[r] # <<>> THEN {parts[r][1].name} ELSE {}

GoodInv(c) ==
  LET s == SessionOf(c)
      r == Last(c)
  IN s # None /\ Alone(c) /\ ~expired[s] /\ ~Empty(s) /\ NothingWrong(c) =>
       /\ place[c] # "failed" /\ ~err[s] /\ answer[r] \in {None, "ok"} /\ pc[r] # "refusing"
       /\ pc[r] \in {"lookup", "send"} /\ parts[r] # <<>> =>
            /\ parts[r][1].what = "good"
            /\ s \in Lone => expecting[s] = {}
            /\ s \notin Lone => parts[r][1].name \in Files \ received[s]
       /\ s \in Lone =>
            /\ place[c] # "ready" /\ parts[r] # <<>>
            /\ pc[r] \notin {"lookup", "send"} => complete[s]
       /\ s \notin Lone =>
            /\ pc[r] = "answered" => seen[r].expecting = Files /\ seen[r].received = received[s]
            /\ place[c] = "ready" => Starts(fns[c], Files \ received[s])
            /\ place[c] = "waiting" /\ sent[c] = 1 => parts[r] = <<>> /\ received[s] = {} /\ fns[c] = <<>>
            /\ place[c] = "waiting" /\ sent[c] > 1 =>
                 Starts(fns[c], (Files \ received[s]) \ InFlight(r))

ClientShape ==
  /\ place = [c \in Clients |-> place[c]] /\ fns = [c \in Clients |-> fns[c]]
  /\ sid = [c \in Clients |-> sid[c]] /\ sent = [c \in Clients |-> sent[c]]

ClientInv == ClientShape /\ \A c \in Clients : TurnInv(c) /\ AloneInv(c) /\ GoodInv(c)

(***************************************************************************)
(* A client comes to an end, unless it is sending, or asking for its       *)
(* file's result, when its session ends: it then waits for ever, having no *)
(* timeout of its own, for the answer to a request whose message nobody    *)
(* will receive (upload_session.go:198-219, 393-400).                      *)
(***************************************************************************)
Hangs(c) ==
  /\ place[c] = "waiting" /\ SessionOf(c) # None /\ handler[SessionOf(c)] = "over"
  /\ pc[Last(c)] \in {"send", "check", "refusing", "final", "status"}

ClientEnds == \A c \in Clients : TRUE ~> place[c] \in {"done", "failed", "crashed"} \/ Hangs(c)

===============================================================================
