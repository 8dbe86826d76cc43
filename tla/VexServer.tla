----------------------------- MODULE VexServer ------------------------------
(***************************************************************************)
(* The HTTP server (vexserver.js).  A request is checked; a good one is    *)
(* answered 200 at once, a vex process is started for it, and what that    *)
(* process writes on its standard output becomes the body.  Nothing looks  *)
(* at how the process ends.  The process is main (vex.c:774-784) up to     *)
(* where it chooses what to do, with an extraction as one step:            *)
(* VexProcesses and VexDatabase have the rest.                             *)
(***************************************************************************)
EXTENDS Integers, Sequences

CONSTANTS
  Requests,
  Queries,  \* records [north, south, east, west] of numbers and NaN
  NaN,
  dbname,
  MAX_LAT, MAX_LON  \* 90 and 180

VARIABLES
  query,   \* what a request asks
  state,   \* "idle", "open" while its response is, "ended", or "cut"
  status,  \* of the response, 0 before writeHead
  argv,    \* the arguments its process was started with, <<>> without one
  proc,    \* "none", "started", or "exited"
  body,    \* what the response has of the extract: "nothing" or "extract"
  server   \* "up" or "down"

vars == <<query, state, status, argv, proc, body, server>>

Init ==
  /\ query \in [Requests -> Queries]
  /\ state = [r \in Requests |-> "idle"] /\ status = [r \in Requests |-> 0]
  /\ argv = [r \in Requests |-> <<>>] /\ proc = [r \in Requests |-> "none"]
  /\ body = [r \in Requests |-> "nothing"] /\ server = "up"

Sides(q) == {q.north, q.south, q.east, q.west}
Within(x, max) == -max =< x /\ x =< max

Accepted(q) ==
  /\ NaN \notin Sides(q)
  /\ q.north > q.south /\ q.east > q.west
  /\ Within(q.north, MAX_LAT) /\ Within(q.south, MAX_LAT)
  /\ Within(q.west, MAX_LON) /\ Within(q.east, MAX_LON)

Refuse(r) ==
  /\ server = "up" /\ state[r] = "idle" /\ ~Accepted(query[r])
  /\ status' = [status EXCEPT ![r] = 400]
  /\ state' = [state EXCEPT ![r] = "ended"]
  /\ UNCHANGED <<query, argv, proc, body, server>>

Spawn(r) ==
  /\ server = "up" /\ state[r] = "idle" /\ Accepted(query[r])
  /\ status' = [status EXCEPT ![r] = 200]
  /\ state' = [state EXCEPT ![r] = "open"]
  /\ argv' = [argv EXCEPT ![r] = LET q == query[r]
                IN  <<dbname, q.south, q.west, q.north, q.east, "-">>]
  /\ proc' = [proc EXCEPT ![r] = "started"]
  /\ UNCHANGED <<query, body, server>>

\* The error event of a process that cannot be started has no listener.
SpawnFails(r) ==
  /\ server = "up" /\ state[r] = "idle" /\ Accepted(query[r])
  /\ server' = "down"
  /\ status' = [status EXCEPT ![r] = 200]
  /\ state' = [s \in Requests |->
                 IF state[s] = "open" \/ s = r THEN "cut" ELSE state[s]]
  /\ UNCHANGED <<query, argv, proc, body>>

\* main counts the name of the program too.
argc(r)   == Len(argv[r]) + 1
action(r) == CASE argc(r) = 3 -> "load" [] argc(r) = 4 -> "extract" [] OTHER -> "usage"

\* usage() writes to stderr, which the server ignores, and exits with success.
RunUsage(r) ==
  /\ proc[r] = "started" /\ action(r) = "usage"
  /\ proc' = [proc EXCEPT ![r] = "exited"]
  /\ UNCHANGED <<query, state, status, argv, body, server>>

RunExtract(r) ==
  /\ proc[r] = "started" /\ action(r) = "extract"
  /\ proc' = [proc EXCEPT ![r] = "exited"]
  /\ body' = [body EXCEPT ![r] = IF state[r] = "open" THEN "extract" ELSE @]
  /\ UNCHANGED <<query, state, status, argv, server>>

\* pipe(res, {end: true})
EndResponse(r) ==
  /\ server = "up" /\ state[r] = "open" /\ proc[r] = "exited"
  /\ state' = [state EXCEPT ![r] = "ended"]
  /\ UNCHANGED <<query, status, argv, proc, body, server>>

Next ==
  \E r \in Requests :
    \/ Refuse(r) \/ Spawn(r) \/ SpawnFails(r)
    \/ RunUsage(r) \/ RunExtract(r) \/ EndResponse(r)

Spec == Init /\ [][Next]_vars

-----------------------------------------------------------------------------
(* "A node server to stream vex output" (vexserver.js:1): a response that  *)
(* says 200 and has ended has the extract.                                 *)
StreamsExtract ==
  \A r \in Requests :
    status[r] = 200 /\ state[r] = "ended" => body[r] = "extract"
=============================================================================
