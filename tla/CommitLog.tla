------------------------------ MODULE CommitLog ------------------------------
(***************************************************************************)
(* What a caller of commitFile may rely on, whatever the network does.     *)
(*                                                                         *)
(* The main branch of cdp-app-deployments is an append-only log.  A call   *)
(* appends its own commit, at most once per attempt and at most Retries+1  *)
(* times in all, between the moment it is opened and the moment it is      *)
(* closed.  A call that closed "ok" is in the log.  A call that "failed"   *)
(* may still appear in it, and even after it closed, but only as the very  *)
(* next commit on the head that stood when it closed: once anybody else    *)
(* has moved the head, a dead call can never come back.                    *)
(***************************************************************************)
EXTENDS Naturals, Sequences

CONSTANTS
  Writer,   \* the calls of commitFile, one per deployment
  Other,    \* everybody else who commits to the branch
  Retries   \* retries after the first attempt

VARIABLES
  log,      \* the branch, oldest commit first
  status,   \* what the caller of each commitFile knows
  closed    \* length of the log when each call closed

logVars == <<log, status, closed>>

LogInit ==
  /\ log = <<>>
  /\ status = [w \in Writer |-> "idle"]
  /\ closed = [w \in Writer |-> 0]

OtherAppends ==
  /\ log' = Append(log, [by |-> Other, attempt |-> 0])
  /\ UNCHANGED <<status, closed>>

Open(w) ==
  /\ status[w] = "idle"
  /\ status' = [status EXCEPT ![w] = "open"]
  /\ UNCHANGED <<log, closed>>

\* The commit of attempt n of w lands.
Lands(w, n) ==
  /\ \/ status[w] = "open"
     \/ status[w] = "failed" /\ Len(log) = closed[w]
  /\ \A i \in 1..Len(log) : log[i] # [by |-> w, attempt |-> n]
  /\ log' = Append(log, [by |-> w, attempt |-> n])
  /\ UNCHANGED <<status, closed>>

CloseOk(w) ==
  /\ status[w] = "open"
  /\ \E i \in 1..Len(log) : log[i].by = w
  /\ status' = [status EXCEPT ![w] = "ok"]
  /\ closed' = [closed EXCEPT ![w] = Len(log)]
  /\ UNCHANGED log

CloseFailed(w) ==
  /\ status[w] = "open"
  /\ status' = [status EXCEPT ![w] = "failed"]
  /\ closed' = [closed EXCEPT ![w] = Len(log)]
  /\ UNCHANGED log

LogNext ==
  \/ OtherAppends
  \/ \E w \in Writer :
       \/ Open(w)
       \/ \E n \in 0..Retries : Lands(w, n)
       \/ CloseOk(w)
       \/ CloseFailed(w)

LogSpec == LogInit /\ [][LogNext]_logVars
=============================================================================
