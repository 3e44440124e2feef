----------------------------- MODULE CommitFile -----------------------------
(***************************************************************************)
(* commitFile (helpers/github/commit-github-file.js): read the head of     *)
(* main, ask GitHub to commit one file on that head, retry the pair when   *)
(* anything fails.                                                         *)
(*                                                                         *)
(* The branch is external: createCommitOnBranch applies a mutation only    *)
(* when expectedHeadOid is still the head.  The network between the two is *)
(* modelled in full: a mutation may never arrive, may be applied without   *)
(* its answer ever reaching the caller, and may be applied after the       *)
(* caller has given up on it, retried, failed or died.                     *)
(*                                                                         *)
(* Commits only ever go on top, so the number of commits names the head.   *)
(***************************************************************************)
EXTENDS Naturals, Sequences, FiniteSets

CONSTANTS
  Writer,    \* the calls of commitFile; a call commits one file, its own
  Other,     \* everybody else who commits to the repository
  Retries,   \* retries after the first attempt: 3 in the code
  MaxOther   \* bound of the model: commits by Other

ASSUME WriterAssumption == Other \notin Writer
ASSUME RetriesAssumption == Retries \in Nat
ASSUME MaxOtherAssumption == MaxOther \in Nat

VARIABLES
  branch,   \* the commits on main, oldest first
  pc,       \* where each call of commitFile stands
  retries,  \* the retries each call has left
  wire,     \* mutations sent and not applied, each of which GitHub may yet receive
  opened,   \* history: the head when each call began
  closed,   \* history: the head when each call ended
  after,    \* history: the calls that had ended when each call began
  faulty    \* history: the calls that the network has failed

history == <<opened, closed, after, faulty>>
commitVars == <<branch, pc, retries, wire, opened, closed, after, faulty>>

Attempts == 0..Retries

\* A mutation on the wire: who sent it, in which attempt, on which head.
Mutation == [by : Writer, attempt : Attempts, base : Nat]

\* A commit on the branch. Its content is the file of the call that sent it.
Commit == [by : Writer \cup {Other}, attempt : Attempts]

CallState == {"idle", "reading", "awaiting", "delayed", "resolved", "threw", "killed"}

Tip == Len(branch)

Running(w) == pc[w] \in {"reading", "awaiting", "delayed"}
Ended(w) == pc[w] \in {"resolved", "threw", "killed"}

\* The attempt a call is in: retry counts down from Retries.
Attempt(w) == Retries - retries[w]

\* Slip: the mutation carries no expectedHeadOid, so any head will do.
NoExpectedHead(m) == TRUE

\* GitHub applies a mutation only if its expectedHeadOid is the head.
HeadMatches(m) == m.base = Tip

LandedAs(w, n) == \E i \in 1..Len(branch) : branch[i] = [by |-> w, attempt |-> n]
Landed(w) == \E i \in 1..Len(branch) : branch[i].by = w

CommitInit ==
  /\ branch = <<>>
  /\ pc = [w \in Writer |-> "idle"]
  /\ retries = [w \in Writer |-> Retries]
  /\ wire = {}
  /\ opened = [w \in Writer |-> 0]
  /\ closed = [w \in Writer |-> 0]
  /\ after = [w \in Writer |-> {}]
  /\ faulty = {}

-----------------------------------------------------------------------------
(* The caller. *)

Goto(w, label) == pc' = [pc EXCEPT ![w] = label]
CloseAt(w) == closed' = [closed EXCEPT ![w] = Tip]

\* commitFile is called; history notes which calls had already ended.
StartCommit(w) ==
  /\ pc[w] = "idle"
  /\ Goto(w, "reading")
  /\ opened' = [opened EXCEPT ![w] = Tip]
  /\ after' = [after EXCEPT ![w] = {v \in Writer : Ended(v)}]
  /\ UNCHANGED <<branch, retries, wire, closed, faulty>>

\* getLatestCommitSha answers and createNewCommit sends its mutation.
ReadHeadAndSend(w) ==
  /\ pc[w] = "reading"
  /\ Goto(w, "awaiting")
  /\ wire' = wire \cup {[by |-> w, attempt |-> Attempt(w), base |-> Tip]}
  /\ UNCHANGED <<branch, retries, history>>

\* Slip: the last retry is never used (retries <= 1).
CaughtOneShort(w) ==
  \/ /\ retries[w] <= 1
     /\ Goto(w, "threw")
     /\ CloseAt(w)
  \/ /\ retries[w] > 1
     /\ Goto(w, "delayed")
     /\ UNCHANGED closed

\* Slip: retry tests retries < 0, one attempt too many.
CaughtNoLimit(w) ==
  /\ Goto(w, "delayed")
  /\ UNCHANGED closed

\* The catch clause of retry: rethrow when no retry is left, else wait.
Caught(w) ==
  \/ /\ retries[w] = 0
     /\ Goto(w, "threw")
     /\ CloseAt(w)
  \/ /\ retries[w] > 0
     /\ Goto(w, "delayed")
     /\ UNCHANGED closed

\* Slip: the delay's promise is never resolved.
DelayNeverOver(w) ==
  /\ pc[w] = "delayed"
  /\ FALSE
  /\ UNCHANGED commitVars

\* Slip: the recursive call forgets to pass retries - 1.
DelayOverSameRetries(w) ==
  /\ pc[w] = "delayed"
  /\ Goto(w, "reading")
  /\ UNCHANGED <<branch, retries, wire, history>>

\* The delay is over: retry calls itself with one retry less.
DelayOver(w) ==
  /\ pc[w] = "delayed"
  /\ Goto(w, "reading")
  /\ retries' = [retries EXCEPT ![w] = @ - 1]
  /\ UNCHANGED <<branch, wire, history>>

\* Slip: an answer without a clientMutationId is taken for an error.
AnswerOkRetried(w) ==
  /\ pc[w] = "awaiting"
  /\ LandedAs(w, Attempt(w))
  /\ Caught(w)
  /\ UNCHANGED <<branch, retries, wire, opened, after, faulty>>

\* GitHub's answer arrives: the commit was made.
AnswerOk(w) ==
  /\ pc[w] = "awaiting"
  /\ LandedAs(w, Attempt(w))
  /\ Goto(w, "resolved")
  /\ CloseAt(w)
  /\ UNCHANGED <<branch, retries, wire, opened, after, faulty>>

\* Attempt n of w is on the wire and its head is gone: GitHub refuses it.
Refused(w, n) == \E m \in wire : m.by = w /\ m.attempt = n /\ ~HeadMatches(m)

\* Slip: createNewCommit logs the error and does not rethrow it.
AnswerRefusedSwallowed(w) ==
  /\ pc[w] = "awaiting"
  /\ Refused(w, Attempt(w))
  /\ Goto(w, "resolved")
  /\ CloseAt(w)
  /\ UNCHANGED <<branch, retries, wire, opened, after, faulty>>

\* GitHub's answer arrives: the head has moved and the mutation was refused.
AnswerRefused(w) ==
  /\ pc[w] = "awaiting"
  /\ Refused(w, Attempt(w))
  /\ Caught(w)
  /\ UNCHANGED <<branch, retries, wire, opened, after, faulty>>

\* Reading the head failed, or the mutation did, or its answer never arrived.
\* What became of the mutation is not known: it may be applied, now or later.
TransportError(w) ==
  /\ pc[w] \in {"reading", "awaiting"}
  /\ Caught(w)
  /\ faulty' = faulty \cup {w}
  /\ UNCHANGED <<branch, retries, wire, opened, after>>

\* The process is stopped (hapi-pulse gives up after 10 seconds, or a crash).
Killed(w) ==
  /\ Running(w)
  /\ Goto(w, "killed")
  /\ CloseAt(w)
  /\ UNCHANGED <<branch, retries, wire, opened, after, faulty>>

-----------------------------------------------------------------------------
(* GitHub and the other committers. *)

\* createCommitOnBranch.
GitHubCommits(m) ==
  /\ HeadMatches(m)
  /\ branch' = Append(branch, [by |-> m.by, attempt |-> m.attempt])
  /\ wire' = wire \ {m}
  /\ UNCHANGED <<pc, retries, history>>

OtherCommits ==
  /\ Cardinality({i \in 1..Len(branch) : branch[i].by = Other}) < MaxOther
  /\ branch' = Append(branch, [by |-> Other, attempt |-> 0])
  /\ UNCHANGED <<pc, retries, wire, history>>

CallerStep(w) ==
  \/ ReadHeadAndSend(w)
  \/ DelayOver(w)
  \/ AnswerOk(w)
  \/ AnswerRefused(w)
  \/ TransportError(w)

GitHub ==
  \/ \E m \in wire : GitHubCommits(m)
  \/ OtherCommits

\* Nothing is left to do: every call has ended.
Quiet ==
  /\ \A w \in Writer : Ended(w)
  /\ UNCHANGED commitVars

CommitNext ==
  \/ \E w \in Writer : StartCommit(w) \/ CallerStep(w) \/ Killed(w)
  \/ GitHub
  \/ Quiet

CommitSpec == CommitInit /\ [][CommitNext]_commitVars

\* An event loop resumes every continuation it has, and a call on the network
\* always settles: with an answer, or with the client's own timeout.
CommitFairness == \A w \in Writer : WF_commitVars(CallerStep(w))

FairCommitSpec == CommitSpec /\ CommitFairness

-----------------------------------------------------------------------------
(* What commitFile guarantees. *)

\* Every variable keeps its type, and a call waits only for a retry it has:
\* no call makes more than Retries + 1 attempts.
CommitTypeOK ==
  /\ branch \in Seq(Commit)
  /\ pc \in [Writer -> CallState]
  /\ retries \in [Writer -> Attempts]
  /\ \A w \in Writer : pc[w] = "delayed" => retries[w] > 0
  /\ wire \in SUBSET Mutation
  /\ opened \in [Writer -> Nat]
  /\ closed \in [Writer -> Nat]
  /\ after \in [Writer -> SUBSET Writer]
  /\ faulty \subseteq Writer

\* A call that resolves has its file on the branch, whatever was lost, late or
\* refused in between: commitFile never reports a commit that was not made.
ResolvedIsCommitted ==
  \A w \in Writer : pc[w] = "resolved" => Landed(w)

\* When one call of commitFile ends (in whatever way, a crash included) before
\* another begins, no commit of the first ever lands after one of the second,
\* not even a mutation still on the wire: reading the head and committing on
\* it are two requests, and expectedHeadOid makes them one.
RealTimeOrder ==
  \A w \in Writer : \A v \in after[w] :
    \A i, j \in 1..Len(branch) :
      branch[i].by = v /\ branch[j].by = w => i < j

\* The retry repeats a commit that was already made only when the network
\* hid the answer: contention alone never commits the same file twice.
TwiceOnlyIfFaulty ==
  \A w \in Writer : \A i, j \in 1..Len(branch) :
    branch[i].by = w /\ branch[j].by = w /\ i # j => w \in faulty

\* A call whose network never failed throws only when its file is not, and
\* will not be, on the branch.
ThrewMeansUncommitted ==
  \A w \in Writer :
    pc[w] = "threw" /\ w \notin faulty
      => ~Landed(w) /\ \A m \in wire : m.by = w => ~HeadMatches(m)

\* A call gives up under contention alone only after losing Retries + 1 races:
\* that many commits of others landed while it ran. (Four in the code.)
GivesUpOnlyWhenOutrun ==
  \A w \in Writer :
    pc[w] = "threw" /\ w \notin faulty
      => closed[w] >= opened[w] + Retries + 1

\* What the caller of each commitFile knows.
Status == [w \in Writer |->
             CASE pc[w] = "idle" -> "idle"
               [] Running(w) -> "open"
               [] pc[w] = "resolved" -> "ok"
               [] OTHER -> "failed"]

\* commitFile implements the log its callers rely on.
Promise == INSTANCE CommitLog WITH log <- branch, status <- Status

\* Every step of commitFile, of the network and of the other committers is a
\* step of CommitLog or leaves the log and the callers' knowledge unchanged.
ImplementsLog == Promise!LogSpec

\* Every call of commitFile settles: the retries are finite and no await hangs.
EveryCallEnds ==
  \A w \in Writer : Running(w) ~> Ended(w)
=============================================================================
