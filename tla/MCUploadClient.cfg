\* A client with a changes file of two files or a lone deb, and one request of
\* another program.  Nobody has to send a request.
SPECIFICATION FairClientSpec
CONSTANTS
  c1 = c1
  q1 = q1
  q2 = q2
  q3 = q3
  Clients = {c1}
  Turns <- MCTurns
  Changes = "changes"
  Debs = {"d"}
  Disks <- MCDisks
  Requests = {q1, q2, q3, x1}
  Sessions = {s1, s2}
  Lone = {s2}
  Files = {"a", "b"}
  Uploads <- MCUploads
  None = None
INVARIANTS OutcomeTrue GoodUploadSucceeds
PROPERTIES ClientEnds SessionsEnd
CHECK_DEADLOCK FALSE
