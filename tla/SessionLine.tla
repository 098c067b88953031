---------------------------- MODULE SessionLine -----------------------------
(***************************************************************************)
(* What the per-session request queue promises, whatever objects, promises *)
(* and locks it is made of: each session has one line, requests join it at *)
(* its end and only the first one in it is ever served.  A line that was   *)
(* closed promises nothing any more, and closing it touches no other.      *)
(* SessionQueue is shown to implement it.                                  *)
(***************************************************************************)
EXTENDS Sequences

CONSTANTS Requests, Keys, KeyOf

VARIABLES
  line,     \* key -> its requests that wait or are served, oldest first
  serving,  \* the requests that are served
  closed    \* the keys whose line was closed

lineVars == <<line, serving, closed>>

Init ==
  /\ line = [k \in Keys |-> <<>>]
  /\ serving = {}
  /\ closed = {}

\* A request stands last in the line of its key, where it does not stand yet.
Join(r) ==
  /\ KeyOf[r] \notin closed
  /\ \A i \in DOMAIN line[KeyOf[r]] : line[KeyOf[r]][i] # r
  /\ line' = [line EXCEPT ![KeyOf[r]] = Append(@, r)]
  /\ UNCHANGED <<serving, closed>>

\* The first request of a line is served.
Serve(k) ==
  /\ line[k] # <<>>
  /\ Head(line[k]) \notin serving
  /\ serving' = serving \cup {Head(line[k])}
  /\ UNCHANGED <<line, closed>>

\* It leaves the line, served or turned away.
Leave(k) ==
  /\ line[k] # <<>>
  /\ line' = [line EXCEPT ![k] = Tail(@)]
  /\ serving' = serving \ {Head(line[k])}
  /\ UNCHANGED closed

Close(k) ==
  /\ k \notin closed
  /\ line' = [line EXCEPT ![k] = <<>>]
  /\ serving' = {r \in serving : KeyOf[r] # k}
  /\ closed' = closed \cup {k}

Next ==
  \/ \E r \in Requests : Join(r)
  \/ \E k \in Keys : Serve(k) \/ Leave(k) \/ Close(k)

Spec == Init /\ [][Next]_lineVars
=============================================================================
