-------------------------- MODULE DeploymentProofs --------------------------
(***************************************************************************)
(* What commitFile and the deployments that call it guarantee, for every   *)
(* number of calls, retries, other committers, deployments, environments   *)
(* and versions, on fifo and on standard topics.                           *)
(*                                                                         *)
(* Part I is commitFile by itself (CommitSpec).  Its inductive invariant   *)
(* is layered: each layer is proved inductive with the help of the ones    *)
(* before it.                                                              *)
(*                                                                         *)
(*   CommitTypeOK   every variable has its type                            *)
(*   OrderInv       where, on the branch, each call's commits can be       *)
(*   AttemptInv     an attempt is made once and lands at most once         *)
(*   ResolvedInv    a resolved call has nothing alive left on the wire     *)
(*   CleanInv       without a network failure: races lost, and no commit   *)
(*                  but the last attempt's                                 *)
(*                                                                         *)
(* Part II is Deployment (DeploySpec).  Every step of it is a step of      *)
(* CommitFile or leaves it alone, so CommitInv and all that part I derives *)
(* from it holds there too.  On top of it come:                            *)
(*                                                                         *)
(*   DeployTypeOK   every variable has its type                            *)
(*   HandlerInv     where commitFile stands in each stage of a handler     *)
(*   RecordsInv     each record is there once its stage has been passed    *)
(*   BeforeInv      a deployment over before another was asked for left    *)
(*                  its traces below the other's                           *)
(*   ZeroInv        what a deploy to zero saw still runs, unless a message *)
(*                  came                                                   *)
(***************************************************************************)
EXTENDS Deployment, Integers, FiniteSetTheorems, TLAPS

-----------------------------------------------------------------------------
(* Part I: commitFile. *)

-----------------------------------------------------------------------------
(* The layers of the inductive invariant. *)

\* A call that has ended by the time another starts ended on an older head.
SpanInv ==
  \A w \in Writer :
    /\ opened[w] <= Tip
    /\ closed[w] <= Tip
    /\ Ended(w) => opened[w] <= closed[w]
    /\ w \notin after[w]
    /\ \A v \in after[w] : Ended(v) /\ closed[v] <= opened[w]

\* A mutation was made on a head its call saw while it ran.
WireInv ==
  \A m \in wire :
    /\ pc[m.by] # "idle"
    /\ opened[m.by] <= m.base
    /\ m.base <= Tip
    /\ Ended(m.by) => m.base <= closed[m.by]

\* A commit lies above the head its call started on, and at most one above
\* the head its call ended on.
BranchInv ==
  \A i \in 1..Len(branch) : \A w \in Writer :
    branch[i].by = w =>
      /\ pc[w] # "idle"
      /\ opened[w] < i
      /\ Ended(w) => i <= closed[w] + 1

OrderInv == SpanInv /\ WireInv /\ BranchInv

\* Attempt n of w has already been made.
Made(w, n) == n <= Attempt(w) /\ (pc[w] = "reading" => n < Attempt(w))

AttemptInv ==
  /\ \A w \in Writer : pc[w] = "idle" => retries[w] = Retries
  /\ \A m \in wire : Made(m.by, m.attempt)
  /\ \A i \in 1..Len(branch) :
       branch[i].by \in Writer => Made(branch[i].by, branch[i].attempt)
  /\ \A m \in wire : \A i \in 1..Len(branch) :
       branch[i].by = m.by => branch[i].attempt # m.attempt
  /\ \A m, n \in wire : m.by = n.by /\ m.attempt = n.attempt => m = n
  /\ \A i, j \in 1..Len(branch) :
       branch[i].by \in Writer /\ branch[i] = branch[j] => i = j

\* Nothing w has on the wire can be applied any more.
DeadOnWire(w) == \A m \in wire : m.by = w => m.base < Tip

ResolvedInv ==
  \A w \in Writer :
    /\ pc[w] = "resolved" => LandedAs(w, Attempt(w))
    /\ pc[w] \in {"awaiting", "resolved"} /\ LandedAs(w, Attempt(w)) => DeadOnWire(w)

CleanInv ==
  \A w \in Writer : w \notin faulty =>
    /\ pc[w] = "reading" => opened[w] + Attempt(w) <= Tip
    /\ pc[w] = "delayed" => opened[w] + Attempt(w) + 1 <= Tip
    /\ pc[w] = "threw" => opened[w] + Retries + 1 <= closed[w]
    /\ pc[w] \in {"reading", "delayed", "threw"} => ~Landed(w) /\ DeadOnWire(w)
    /\ \A i \in 1..Len(branch) : branch[i].by = w => branch[i].attempt = Attempt(w)
    /\ \A m \in wire : m.by = w =>
         \/ m.base < Tip
         \/ m.attempt = Attempt(w)
    /\ \A m \in wire : m.by = w /\ m.attempt = Attempt(w) /\ pc[w] = "awaiting" =>
         opened[w] + Attempt(w) <= m.base

-----------------------------------------------------------------------------
(* Types. *)

\* Appending one commit leaves the others where they are.
LEMMA Appended ==
  ASSUME NEW c \in Commit, branch \in Seq(Commit), branch' = Append(branch, c)
  PROVE  /\ branch' \in Seq(Commit)
         /\ Len(branch) \in Nat
         /\ Len(branch') = Len(branch) + 1
         /\ \A i \in 1..Len(branch) : branch'[i] = branch[i]
         /\ branch'[Len(branch) + 1] = c
  OBVIOUS

\* A mutation on the wire becomes a commit of its sender's.
LEMMA MutationIsCommit ==
  ASSUME NEW m \in Mutation
  PROVE  [by |-> m.by, attempt |-> m.attempt] \in Commit
  BY DEF Mutation, Commit

\* The other committers' commits are commits too.
LEMMA OtherIsCommit == [by |-> Other, attempt |-> 0] \in Commit
  BY RetriesAssumption DEF Commit, Attempts

\* Every variable keeps its type, for any number of calls and of retries.
LEMMA TypeInit == CommitInit => CommitTypeOK
  BY RetriesAssumption DEF CommitInit, CommitTypeOK, Attempts, CallState

LEMMA TypeStep == CommitTypeOK /\ [CommitNext]_commitVars => CommitTypeOK'
  <1> SUFFICES ASSUME CommitTypeOK, [CommitNext]_commitVars
               PROVE  CommitTypeOK'
    OBVIOUS
  <1> USE RetriesAssumption DEF CommitTypeOK, Attempts, CallState, history
  <1>1. Tip \in Nat
    BY DEF Tip
  <1>2. ASSUME NEW w \in Writer, StartCommit(w)
        PROVE  CommitTypeOK'
    BY <1>1, <1>2 DEF StartCommit, Goto
  <1>3. ASSUME NEW w \in Writer, ReadHeadAndSend(w)
        PROVE  CommitTypeOK'
    <2>1. [by |-> w, attempt |-> Attempt(w), base |-> Tip] \in Mutation
      BY <1>1 DEF Mutation, Attempt
    <2> QED
      BY <1>3, <2>1 DEF ReadHeadAndSend, Goto
  <1>4. ASSUME NEW w \in Writer, DelayOver(w)
        PROVE  CommitTypeOK'
    BY <1>4 DEF DelayOver, Goto
  <1>5. ASSUME NEW w \in Writer, Caught(w), UNCHANGED <<branch, retries, wire, opened, after>>,
               faulty' \in {faulty, faulty \cup {w}}
        PROVE  CommitTypeOK'
    BY <1>1, <1>5 DEF Caught, Goto, CloseAt
  <1>6. ASSUME NEW w \in Writer, NEW label \in {"resolved", "killed"}, Goto(w, label), CloseAt(w),
               UNCHANGED <<branch, retries, wire, opened, after, faulty>>
        PROVE  CommitTypeOK'
    BY <1>1, <1>6 DEF Goto, CloseAt
  <1>7. ASSUME NEW m \in wire, GitHubCommits(m)
        PROVE  CommitTypeOK'
    BY <1>7, MutationIsCommit, Appended DEF GitHubCommits
  <1>8. ASSUME OtherCommits
        PROVE  CommitTypeOK'
    BY <1>8, OtherIsCommit, Appended DEF OtherCommits
  <1>9. CASE UNCHANGED commitVars
    BY <1>9 DEF commitVars
  <1> QED
    BY <1>2, <1>3, <1>4, <1>5, <1>6, <1>7, <1>8, <1>9
       DEF CommitNext, CallerStep, GitHub, Quiet, AnswerOk, AnswerRefused,
           TransportError, Killed

\* Every reachable state of commitFile is well-typed: in particular the retry
\* counter never leaves 0..Retries, so no call makes more attempts than that.
THEOREM CommitTyping == CommitSpec => []CommitTypeOK
  BY TypeInit, TypeStep, PTL DEF CommitSpec

-----------------------------------------------------------------------------
(* Where the commits of a call can be. *)

LEMMA OrderInit == CommitInit => OrderInv
  BY DEF CommitInit, OrderInv, SpanInv, WireInv, BranchInv, Tip, Ended

LEMMA OrderStep ==
  CommitTypeOK /\ OrderInv /\ [CommitNext]_commitVars => OrderInv'
  <1> SUFFICES ASSUME CommitTypeOK, OrderInv, [CommitNext]_commitVars
               PROVE  OrderInv'
    OBVIOUS
  <1> USE DEF OrderInv, history
  <1>1. Tip \in Nat /\ wire \subseteq Mutation
    BY DEF Tip, CommitTypeOK
  <1>2. ASSUME NEW w \in Writer, StartCommit(w)
        PROVE  OrderInv'
    <2> USE <1>1, <1>2 DEF StartCommit, Goto, CommitTypeOK, Ended, Tip
    <2>1. SpanInv'
      BY DEF SpanInv
    <2>2. WireInv'
      BY DEF WireInv, Mutation
    <2>3. BranchInv'
      BY DEF BranchInv
    <2> QED
      BY <2>1, <2>2, <2>3
  <1>3. ASSUME NEW w \in Writer, ReadHeadAndSend(w)
        PROVE  OrderInv'
    <2> USE <1>1, <1>3 DEF ReadHeadAndSend, Goto, CommitTypeOK, Ended, Tip
    <2>1. SpanInv'
      BY DEF SpanInv
    <2>2. WireInv'
      BY DEF WireInv, SpanInv, Mutation
    <2>3. BranchInv'
      BY DEF BranchInv
    <2> QED
      BY <2>1, <2>2, <2>3
  <1>4. ASSUME NEW w \in Writer, DelayOver(w)
        PROVE  OrderInv'
    <2> USE <1>1, <1>4 DEF DelayOver, Goto, CommitTypeOK, Ended, Tip
    <2>1. SpanInv'
      BY DEF SpanInv
    <2>2. WireInv'
      BY DEF WireInv, Mutation
    <2>3. BranchInv'
      BY DEF BranchInv
    <2> QED
      BY <2>1, <2>2, <2>3
  <1>5. ASSUME NEW w \in Writer, NEW label \in {"resolved", "threw", "killed"},
               Running(w), Goto(w, label), CloseAt(w),
               UNCHANGED <<branch, wire, opened, after>>
        PROVE  OrderInv'
    <2> USE <1>1, <1>5 DEF Running, Goto, CloseAt, CommitTypeOK, Ended, Tip
    <2>1. SpanInv'
      BY DEF SpanInv
    <2>2. WireInv'
      BY DEF WireInv, Mutation
    <2>3. BranchInv'
      <3> SUFFICES ASSUME NEW i \in 1..Len(branch'), NEW v \in Writer, branch'[i].by = v
                   PROVE  pc'[v] # "idle" /\ opened'[v] < i /\ (Ended(v)' => i <= closed'[v] + 1)
        BY DEF BranchInv
      <3>1. i \in 1..Len(branch) /\ branch[i].by = v
        OBVIOUS
      <3>2. pc[v] # "idle" /\ opened[v] < i /\ (Ended(v) => i <= closed[v] + 1)
        BY <3>1 DEF BranchInv
      <3>3. CASE v = w
        BY <3>1, <3>2, <3>3
      <3>4. CASE v # w
        BY <3>2, <3>4
      <3> QED
        BY <3>3, <3>4
    <2> QED
      BY <2>1, <2>2, <2>3
  <1>6. ASSUME NEW w \in Writer, Running(w), Goto(w, "delayed"),
               UNCHANGED <<branch, wire, opened, closed, after>>
        PROVE  OrderInv'
    <2> USE <1>1, <1>6 DEF Running, Goto, CommitTypeOK, Ended, Tip
    <2>1. SpanInv'
      BY DEF SpanInv
    <2>2. WireInv'
      BY DEF WireInv, Mutation
    <2>3. BranchInv'
      BY DEF BranchInv
    <2> QED
      BY <2>1, <2>2, <2>3
  <1>7. ASSUME NEW m \in wire, GitHubCommits(m)
        PROVE  OrderInv'
    <2>1. m \in Mutation /\ m.by \in Writer /\ m.base = Tip
      BY <1>1, <1>7 DEF Mutation, GitHubCommits, HeadMatches
    <2> DEFINE c == [by |-> m.by, attempt |-> m.attempt]
    <2>2. c \in Commit /\ c.by = m.by
      BY <2>1, MutationIsCommit
    <2>3. Len(branch') = Len(branch) + 1 /\ branch'[Len(branch) + 1] = c
          /\ \A i \in 1..Len(branch) : branch'[i] = branch[i]
      BY <1>7, <2>2, Appended DEF GitHubCommits, CommitTypeOK
    <2> HIDE DEF c
    <2> USE <1>1, <1>7, <2>1, <2>2, <2>3 DEF GitHubCommits, CommitTypeOK, Ended, Tip
    <2>4. SpanInv'
      BY DEF SpanInv
    <2>5. WireInv'
      BY DEF WireInv, Mutation
    <2>6. BranchInv'
      <3> SUFFICES ASSUME NEW i \in 1..Len(branch'), NEW v \in Writer, branch'[i].by = v
                   PROVE  pc'[v] # "idle" /\ opened'[v] < i /\ (Ended(v)' => i <= closed'[v] + 1)
        BY DEF BranchInv
      <3>1. CASE i \in 1..Len(branch)
        BY <3>1 DEF BranchInv
      <3>2. CASE i = Len(branch) + 1
        BY <3>2 DEF WireInv
      <3> QED
        BY <3>1, <3>2
    <2> QED
      BY <2>4, <2>5, <2>6
  <1>8. ASSUME OtherCommits
        PROVE  OrderInv'
    <2>1. Len(branch') = Len(branch) + 1 /\ branch'[Len(branch) + 1].by = Other
          /\ \A i \in 1..Len(branch) : branch'[i] = branch[i]
      BY <1>8, OtherIsCommit, Appended DEF OtherCommits, CommitTypeOK
    <2> USE <1>1, <1>8, <2>1, WriterAssumption DEF OtherCommits, CommitTypeOK, Ended, Tip
    <2>2. SpanInv'
      BY DEF SpanInv
    <2>3. WireInv'
      BY DEF WireInv, Mutation
    <2>4. BranchInv'
      <3> SUFFICES ASSUME NEW i \in 1..Len(branch'), NEW v \in Writer, branch'[i].by = v
                   PROVE  pc'[v] # "idle" /\ opened'[v] < i /\ (Ended(v)' => i <= closed'[v] + 1)
        BY DEF BranchInv
      <3>1. i \in 1..Len(branch)
        OBVIOUS
      <3> QED
        BY <3>1 DEF BranchInv
    <2> QED
      BY <2>2, <2>3, <2>4
  <1>9. CASE UNCHANGED commitVars
    BY <1>9 DEF commitVars, SpanInv, WireInv, BranchInv, Tip, Ended
  <1> QED
    BY <1>2, <1>3, <1>4, <1>5, <1>6, <1>7, <1>8, <1>9
       DEF CommitNext, CallerStep, GitHub, Quiet, AnswerOk, AnswerRefused,
           TransportError, Killed, Caught, Running

LEMMA Ordering == CommitSpec => [](CommitTypeOK /\ OrderInv)
  BY TypeInit, TypeStep, OrderInit, OrderStep, PTL DEF CommitSpec

\* Commits of calls that did not overlap are on main in the order of the calls,
\* for any number of calls, retries, lost answers, late mutations and crashes.
THEOREM CommitOrder == CommitSpec => []RealTimeOrder
  <1>1. CommitTypeOK /\ OrderInv => RealTimeOrder
    <2> SUFFICES ASSUME CommitTypeOK, OrderInv, NEW w \in Writer, NEW v \in after[w],
                        NEW i \in 1..Len(branch), NEW j \in 1..Len(branch),
                        branch[i].by = v, branch[j].by = w
                 PROVE  i < j
      BY DEF RealTimeOrder
    <2>1. v \in Writer /\ v # w /\ Ended(v) /\ closed[v] <= opened[w]
      BY DEF CommitTypeOK, OrderInv, SpanInv
    <2>2. i <= closed[v] + 1 /\ opened[w] < j
      BY <2>1 DEF OrderInv, BranchInv
    <2>3. i # j
      BY <2>1
    <2> QED
      BY <2>1, <2>2, <2>3 DEF CommitTypeOK
  <1> QED
    BY <1>1, Ordering, PTL

-----------------------------------------------------------------------------
(* An attempt is made once, and lands at most once. *)

LEMMA AttemptInit == CommitInit => AttemptInv
  BY DEF CommitInit, AttemptInv

LEMMA AttemptStep ==
  CommitTypeOK /\ OrderInv /\ AttemptInv /\ [CommitNext]_commitVars => AttemptInv'
  <1> SUFFICES ASSUME CommitTypeOK, OrderInv, AttemptInv, [CommitNext]_commitVars
               PROVE  AttemptInv'
    OBVIOUS
  <1> USE RetriesAssumption DEF history
  <1>1. Tip \in Nat /\ wire \subseteq Mutation /\ Attempts \subseteq Nat
    BY DEF Tip, CommitTypeOK, Attempts
  <1>a. \A m \in wire : m.by \in Writer /\ m.attempt \in Nat
    BY <1>1 DEF Mutation
  <1>b. \A i \in 1..Len(branch) : branch[i].attempt \in Nat
    <2>1. \A i \in 1..Len(branch) : branch[i] \in Commit
      BY DEF CommitTypeOK
    <2> QED
      BY <1>1, <2>1 DEF Commit
  <1>c. ASSUME \A v \in Writer : \A n \in Nat : Made(v, n) => Made(v, n)',
               \A v \in Writer : pc'[v] = "idle" => retries'[v] = Retries,
               wire' = wire, branch' = branch
        PROVE  AttemptInv'
    <2>1. (\A m \in wire : Made(m.by, m.attempt))'
      BY <1>a, <1>c DEF AttemptInv
    <2>2. (\A i \in 1..Len(branch) : branch[i].by \in Writer => Made(branch[i].by, branch[i].attempt))'
      BY <1>b, <1>c DEF AttemptInv
    <2> QED
      BY <1>c, <2>1, <2>2 DEF AttemptInv
  <1>2. ASSUME NEW w \in Writer, StartCommit(w)
        PROVE  AttemptInv'
    <2>1. \A m \in wire : m.by # w
      BY <1>2 DEF StartCommit, OrderInv, WireInv
    <2>2. \A i \in 1..Len(branch) : branch[i].by # w
      BY <1>2 DEF StartCommit, OrderInv, BranchInv
    <2> QED
      BY <1>1, <1>2, <2>1, <2>2
         DEF StartCommit, Goto, AttemptInv, Made, Attempt, CommitTypeOK, Mutation
  <1>3. ASSUME NEW w \in Writer, ReadHeadAndSend(w)
        PROVE  AttemptInv'
    <2> DEFINE new == [by |-> w, attempt |-> Attempt(w), base |-> Tip]
    <2>1. new.by = w /\ new.attempt = Attempt(w) /\ wire' = wire \cup {new}
      BY <1>3 DEF ReadHeadAndSend
    <2>2. \A m \in wire : m.by = w => m.attempt # Attempt(w)
      BY <1>1, <1>3 DEF ReadHeadAndSend, AttemptInv, Made, Attempt, CommitTypeOK, Attempts, Mutation
    <2>3. \A i \in 1..Len(branch) : branch[i].by = w => branch[i].attempt # Attempt(w)
      BY <1>1, <1>3 DEF ReadHeadAndSend, AttemptInv, Made, Attempt, CommitTypeOK, Attempts, Commit
    <2>4. /\ branch' = branch /\ retries' = retries
          /\ pc' = [pc EXCEPT ![w] = "awaiting"] /\ pc[w] = "reading" /\ pc \in [Writer -> CallState]
          /\ retries \in [Writer -> Attempts]
      BY <1>3 DEF ReadHeadAndSend, Goto, CommitTypeOK
    <2>5. \A v \in Writer : \A n \in Nat : Made(v, n) => Made(v, n)'
      BY <2>4 DEF Made, Attempt
    <2> HIDE DEF new
    <2>7. \A m \in wire' : Made(m.by, m.attempt)'
      <3> SUFFICES ASSUME NEW m \in wire' PROVE Made(m.by, m.attempt)'
        OBVIOUS
      <3>1. CASE m \in wire
        BY <1>a, <2>5, <3>1 DEF AttemptInv
      <3>2. CASE m = new
        <4>1. retries[w] \in Nat /\ Retries - retries[w] <= Retries - retries[w]
          BY DEF CommitTypeOK, Attempts
        <4>2. m.by = w /\ m.attempt = Retries - retries[w]
          BY <2>1, <3>2 DEF Attempt
        <4>3. pc'[w] = "awaiting" /\ retries'[w] = retries[w]
          BY <2>4
        <4> QED
          BY <4>1, <4>2, <4>3 DEF Made, Attempt
      <3> QED
        BY <2>1, <3>1, <3>2
    <2>8. (\A i \in 1..Len(branch) : branch[i].by \in Writer => Made(branch[i].by, branch[i].attempt))'
      BY <1>b, <2>4, <2>5 DEF AttemptInv
    <2>9. \A m \in wire' : \A i \in 1..Len(branch') :
             branch'[i].by = m.by => branch'[i].attempt # m.attempt
      BY <2>1, <2>3, <2>4 DEF AttemptInv
    <2>10. \A m, n \in wire' : m.by = n.by /\ m.attempt = n.attempt => m = n
      BY <2>1, <2>2 DEF AttemptInv
    <2> QED
      BY <2>4, <2>7, <2>8, <2>9, <2>10 DEF AttemptInv
  <1>4. ASSUME NEW w \in Writer, DelayOver(w)
        PROVE  AttemptInv'
    <2>1. /\ retries \in [Writer -> Nat] /\ pc \in [Writer -> CallState]
          /\ retries' = [retries EXCEPT ![w] = @ - 1] /\ pc[w] = "delayed"
          /\ pc' = [pc EXCEPT ![w] = "reading"]
      BY <1>1, <1>4 DEF DelayOver, Goto, CommitTypeOK
    <2>2. \A v \in Writer : \A n \in Nat : Made(v, n) => Made(v, n)'
      BY <2>1 DEF Made, Attempt
    <2>3. \A v \in Writer : pc'[v] = "idle" => retries'[v] = Retries
      BY <2>1 DEF AttemptInv
    <2> QED
      BY <1>4, <1>c, <2>2, <2>3 DEF DelayOver
  <1>5. ASSUME NEW w \in Writer, NEW label \in {"resolved", "threw", "killed", "delayed"},
               Running(w), Goto(w, label), UNCHANGED <<branch, retries, wire>>
        PROVE  AttemptInv'
    <2>1. \A v \in Writer : \A n \in Nat : Made(v, n) => Made(v, n)'
      BY <1>5 DEF Goto, Made, Attempt, CommitTypeOK
    <2>2. \A v \in Writer : pc'[v] = "idle" => retries'[v] = Retries
      BY <1>5 DEF Goto, AttemptInv, CommitTypeOK
    <2> QED
      BY <1>5, <1>c, <2>1, <2>2
  <1>6. ASSUME NEW m \in wire, GitHubCommits(m)
        PROVE  AttemptInv'
    <2> DEFINE c == [by |-> m.by, attempt |-> m.attempt]
    <2>1. m \in Mutation /\ c \in Commit /\ c.by = m.by /\ c.attempt = m.attempt
      BY <1>1, MutationIsCommit
    <2>2. Len(branch') = Len(branch) + 1 /\ branch'[Len(branch) + 1] = c /\ Len(branch) \in Nat
          /\ \A i \in 1..Len(branch) : branch'[i] = branch[i]
      BY <1>6, <2>1, Appended DEF GitHubCommits, CommitTypeOK
    <2>3. \A v \in Writer : \A n \in Nat : Made(v, n) => Made(v, n)'
      BY <1>6 DEF GitHubCommits, Made, Attempt
    <2>4. wire' = wire \ {m} /\ pc' = pc /\ retries' = retries
      BY <1>6 DEF GitHubCommits
    <2>5. \A i \in 1..Len(branch) : branch[i].by = m.by => branch[i].attempt # m.attempt
      BY DEF AttemptInv
    <2>11. \A i \in 1..Len(branch) : branch[i] \in Commit
      BY DEF CommitTypeOK
    <2> HIDE DEF c
    <2>6. \A n \in wire' : Made(n.by, n.attempt)'
      BY <1>1, <2>3, <2>4 DEF AttemptInv, Mutation
    <2>7. (\A i \in 1..Len(branch) : branch[i].by \in Writer => Made(branch[i].by, branch[i].attempt))'
      <3> SUFFICES ASSUME NEW i \in 1..Len(branch'), branch'[i].by \in Writer
                   PROVE  Made(branch[i].by, branch[i].attempt)'
        OBVIOUS
      <3>1. CASE i \in 1..Len(branch)
        <4>1. Made(branch[i].by, branch[i].attempt)
          BY <2>2, <3>1 DEF AttemptInv
        <4> QED
          BY <1>1, <2>2, <2>3, <2>4, <2>11, <3>1, <4>1 DEF Commit, Made, Attempt
      <3>2. CASE i = Len(branch) + 1
        <4>1. Made(m.by, m.attempt)
          BY DEF AttemptInv
        <4> QED
          BY <2>1, <2>2, <2>4, <3>2, <4>1 DEF Made, Attempt
      <3> QED
        BY <2>2, <3>1, <3>2
    <2>8. \A n \in wire' : \A i \in 1..Len(branch') :
             branch'[i].by = n.by => branch'[i].attempt # n.attempt
      <3> SUFFICES ASSUME NEW n \in wire', NEW i \in 1..Len(branch'), branch'[i].by = n.by
                   PROVE  branch'[i].attempt # n.attempt
        OBVIOUS
      <3>1. CASE i \in 1..Len(branch)
        BY <2>2, <2>4, <3>1 DEF AttemptInv
      <3>2. CASE i = Len(branch) + 1
        BY <2>1, <2>2, <2>4, <3>2 DEF AttemptInv
      <3> QED
        BY <2>2, <3>1, <3>2
    <2>9. \A n, k \in wire' : n.by = k.by /\ n.attempt = k.attempt => n = k
      BY <2>4 DEF AttemptInv
    <2>10. \A i, j \in 1..Len(branch') :
              branch'[i].by \in Writer /\ branch'[i] = branch'[j] => i = j
      <3> SUFFICES ASSUME NEW i \in 1..Len(branch'), NEW j \in 1..Len(branch'),
                          branch'[i].by \in Writer, branch'[i] = branch'[j]
                   PROVE  i = j
        OBVIOUS
      <3>1. CASE i \in 1..Len(branch) /\ j \in 1..Len(branch)
        BY <2>2, <3>1 DEF AttemptInv
      <3>2. CASE i \in 1..Len(branch) /\ j = Len(branch) + 1
        BY <2>1, <2>2, <2>5, <3>2
      <3>3. CASE i = Len(branch) + 1 /\ j \in 1..Len(branch)
        BY <2>1, <2>2, <2>5, <3>3
      <3>4. CASE i = Len(branch) + 1 /\ j = Len(branch) + 1
        BY <3>4
      <3>5. (i \in 1..Len(branch) \/ i = Len(branch) + 1) /\ (j \in 1..Len(branch) \/ j = Len(branch) + 1)
        BY <2>2
      <3> QED
        BY <3>1, <3>2, <3>3, <3>4, <3>5
    <2> QED
      BY <2>4, <2>6, <2>7, <2>8, <2>9, <2>10 DEF AttemptInv
  <1>7. ASSUME OtherCommits
        PROVE  AttemptInv'
    <2>1. Len(branch') = Len(branch) + 1 /\ branch'[Len(branch) + 1].by \notin Writer
          /\ Len(branch) \in Nat /\ \A i \in 1..Len(branch) : branch'[i] = branch[i]
      BY <1>7, OtherIsCommit, Appended, WriterAssumption DEF OtherCommits, CommitTypeOK
    <2>2. wire' = wire /\ pc' = pc /\ retries' = retries
      BY <1>7 DEF OtherCommits
    <2>3. \A i \in 1..Len(branch') : branch'[i].by \in Writer => i \in 1..Len(branch)
      BY <2>1
    <2> QED
      BY <1>1, <2>1, <2>2, <2>3 DEF AttemptInv, Made, Attempt, Mutation
  <1>8. CASE UNCHANGED commitVars
    BY <1>8 DEF commitVars, AttemptInv, Made, Attempt
  <1> QED
    BY <1>2, <1>3, <1>4, <1>5, <1>6, <1>7, <1>8
       DEF CommitNext, CallerStep, GitHub, Quiet, AnswerOk, AnswerRefused,
           TransportError, Killed, Caught, Running

-----------------------------------------------------------------------------
(* What is on the wire when a call resolves. *)

\* A new commit leaves everything on the wire behind, and is either somebody
\* else's or that of a mutation made on the head.
LEMMA Growth ==
  ASSUME CommitTypeOK, OrderInv, GitHub
  PROVE  /\ UNCHANGED <<pc, retries, opened, closed, after, faulty>>
         /\ Tip \in Nat /\ Tip' = Tip + 1
         /\ \A i \in 1..Tip : branch'[i] = branch[i]
         /\ wire' \subseteq wire
         /\ \A w \in Writer : DeadOnWire(w)'
         /\ branch'[Tip + 1].by \in Writer =>
              \E m \in wire : /\ m.by = branch'[Tip + 1].by
                             /\ m.attempt = branch'[Tip + 1].attempt
                             /\ m.base = Tip
  <1>1. \A m \in wire : m.base \in Nat /\ m.base <= Tip
    BY DEF CommitTypeOK, OrderInv, WireInv, Mutation
  <1>2. Tip \in Nat
    BY DEF Tip, CommitTypeOK
  <1>3. ASSUME NEW m \in wire, GitHubCommits(m)
        PROVE  /\ UNCHANGED <<pc, retries, opened, closed, after, faulty>>
               /\ Tip' = Tip + 1
               /\ \A i \in 1..Tip : branch'[i] = branch[i]
               /\ wire' \subseteq wire
               /\ branch'[Tip + 1].by = m.by
               /\ branch'[Tip + 1].attempt = m.attempt
               /\ m.base = Tip
    <2>1. m \in Mutation
      BY DEF CommitTypeOK
    <2>2. [by |-> m.by, attempt |-> m.attempt] \in Commit
      BY <2>1, MutationIsCommit
    <2> QED
      BY <1>3, <2>2, Appended DEF GitHubCommits, HeadMatches, history, Tip, CommitTypeOK
  <1>4. ASSUME OtherCommits
        PROVE  /\ UNCHANGED <<pc, retries, opened, closed, after, faulty>>
               /\ Tip' = Tip + 1
               /\ \A i \in 1..Tip : branch'[i] = branch[i]
               /\ wire' \subseteq wire
               /\ branch'[Tip + 1].by \notin Writer
    BY <1>4, OtherIsCommit, Appended, WriterAssumption
       DEF OtherCommits, history, Tip, CommitTypeOK
  <1>5. Tip' = Tip + 1 /\ wire' \subseteq wire => \A w \in Writer : DeadOnWire(w)'
    BY <1>1, <1>2 DEF DeadOnWire
  <1> QED
    BY <1>2, <1>3, <1>4, <1>5 DEF GitHub

\* A commit that is on the branch stays there.
LEMMA LandedStays ==
  ASSUME CommitTypeOK, OrderInv, GitHub, NEW w \in Writer, NEW n
  PROVE  LandedAs(w, n) => LandedAs(w, n)'
  <1>1. Tip \in Nat /\ Tip' = Tip + 1 /\ \A i \in 1..Tip : branch'[i] = branch[i]
    BY Growth
  <1> QED
    BY <1>1 DEF LandedAs, Tip

LEMMA ResolvedInit == CommitInit => ResolvedInv
  BY DEF CommitInit, ResolvedInv, LandedAs

LEMMA ResolvedStep ==
  CommitTypeOK /\ OrderInv /\ AttemptInv /\ ResolvedInv /\ [CommitNext]_commitVars
    => ResolvedInv'
  <1> SUFFICES ASSUME CommitTypeOK, OrderInv, AttemptInv, ResolvedInv, [CommitNext]_commitVars
               PROVE  ResolvedInv'
    OBVIOUS
  <1> USE DEF history
  <1>1. pc \in [Writer -> CallState]
    BY DEF CommitTypeOK
  <1>2. ASSUME NEW w \in Writer, NEW label \in {"reading", "threw", "killed", "delayed"},
               Goto(w, label), UNCHANGED <<branch, wire>>,
               \A v \in Writer \ {w} : retries'[v] = retries[v]
        PROVE  ResolvedInv'
    BY <1>1, <1>2 DEF Goto, ResolvedInv, LandedAs, Attempt, DeadOnWire, Tip
  <1>3. ASSUME NEW w \in Writer, ReadHeadAndSend(w)
        PROVE  ResolvedInv'
    <2> DEFINE new == [by |-> w, attempt |-> Attempt(w), base |-> Tip]
    <2>1. ~LandedAs(w, Attempt(w))
      <3> SUFFICES ASSUME NEW i \in 1..Len(branch), branch[i].by = w,
                          branch[i].attempt = Attempt(w)
                   PROVE  FALSE
        BY DEF LandedAs
      <3>1. Made(w, Attempt(w))
        BY DEF AttemptInv
      <3>2. retries[w] \in Nat
        BY RetriesAssumption DEF CommitTypeOK, Attempts
      <3> QED
        BY <1>3, <3>1, <3>2, RetriesAssumption DEF Made, Attempt, ReadHeadAndSend
    <2>2. /\ branch' = branch /\ retries' = retries
          /\ pc' = [pc EXCEPT ![w] = "awaiting"] /\ wire' = wire \cup {new} /\ new.by = w
      BY <1>3 DEF ReadHeadAndSend, Goto
    <2> HIDE DEF new
    <2> QED
      BY <1>1, <2>1, <2>2 DEF ResolvedInv, LandedAs, Attempt, DeadOnWire, Tip
  <1>4. ASSUME NEW w \in Writer, AnswerOk(w)
        PROVE  ResolvedInv'
    BY <1>1, <1>4 DEF AnswerOk, Goto, ResolvedInv, LandedAs, Attempt, DeadOnWire, Tip
  <1>5. ASSUME GitHub
        PROVE  ResolvedInv'
    <2>1. pc' = pc /\ retries' = retries /\ \A w \in Writer : DeadOnWire(w)'
      BY <1>5, Growth
    <2>2. \A w \in Writer : LandedAs(w, Attempt(w)) => LandedAs(w, Attempt(w))'
      BY <1>5, <2>1, LandedStays DEF Attempt
    <2> QED
      BY <2>1, <2>2 DEF ResolvedInv
  <1>6. CASE UNCHANGED commitVars
    BY <1>6 DEF commitVars, ResolvedInv, LandedAs, Attempt, DeadOnWire, Tip
  <1>7. ASSUME NEW w \in Writer, DelayOver(w)
        PROVE  \A v \in Writer \ {w} : retries'[v] = retries[v]
    BY <1>7 DEF DelayOver, CommitTypeOK
  <1> QED
    BY <1>2, <1>3, <1>4, <1>5, <1>6, <1>7
       DEF CommitNext, CallerStep, Quiet, StartCommit, DelayOver, AnswerRefused,
           TransportError, Killed, Caught

-----------------------------------------------------------------------------
(* Calls whose network never failed. *)

\* A race lost: the current attempt was refused, so the head has moved since it
\* was read, the attempt is not on the branch and nothing else can get there.
LEMMA RaceLost ==
  ASSUME CommitTypeOK, OrderInv, AttemptInv, CleanInv,
         NEW w \in Writer, w \notin faulty, AnswerRefused(w)
  PROVE  /\ opened[w] + Attempt(w) + 1 <= Tip
         /\ ~Landed(w)
         /\ DeadOnWire(w)
  <1>1. PICK m \in wire : m.by = w /\ m.attempt = Attempt(w) /\ m.base # Tip
    BY DEF AnswerRefused, Refused, HeadMatches
  <1>2. pc[w] = "awaiting"
    BY DEF AnswerRefused
  <1>3. \A n \in wire : n.base \in Nat /\ n.base <= Tip
    BY DEF CommitTypeOK, OrderInv, WireInv, Mutation
  <1>4. Tip \in Nat /\ opened[w] \in Nat /\ retries[w] \in Nat
    BY RetriesAssumption DEF Tip, CommitTypeOK, Attempts
  <1>5. opened[w] + Attempt(w) <= m.base
    BY <1>1, <1>2 DEF CleanInv
  <1>6. opened[w] + Attempt(w) + 1 <= Tip
    BY <1>1, <1>3, <1>4, <1>5, RetriesAssumption DEF Attempt
  <1>7. ~Landed(w)
    BY <1>1 DEF Landed, CleanInv, AttemptInv
  <1>8. DeadOnWire(w)
    <2> SUFFICES ASSUME NEW n \in wire, n.by = w, ~(n.base < Tip)
                 PROVE  FALSE
      BY DEF DeadOnWire
    <2>1. n.attempt = Attempt(w)
      BY DEF CleanInv
    <2>2. n = m
      BY <1>1, <2>1 DEF AttemptInv
    <2> QED
      BY <1>1, <1>3, <1>4, <2>2
  <1> QED
    BY <1>6, <1>7, <1>8

LEMMA CleanInit == CommitInit => CleanInv
  BY DEF CommitInit, CleanInv

LEMMA CleanStep ==
  CommitTypeOK /\ OrderInv /\ AttemptInv /\ CleanInv /\ [CommitNext]_commitVars => CleanInv'
  <1> SUFFICES ASSUME CommitTypeOK, OrderInv, AttemptInv, CleanInv, [CommitNext]_commitVars
               PROVE  CleanInv'
    OBVIOUS
  <1> USE RetriesAssumption DEF history
  <1>1. /\ Tip \in Nat
        /\ pc \in [Writer -> CallState]
        /\ retries \in [Writer -> Nat]
        /\ opened \in [Writer -> Nat]
        /\ closed \in [Writer -> Nat]
    BY DEF CommitTypeOK, Tip, Attempts
  <1>2. ASSUME NEW w \in Writer, StartCommit(w)
        PROVE  CleanInv'
    <2>1. retries[w] = Retries
      BY <1>2 DEF StartCommit, AttemptInv
    <2>2. ~Landed(w) /\ DeadOnWire(w)
      BY <1>2 DEF StartCommit, OrderInv, WireInv, BranchInv, Landed, DeadOnWire
    <2> QED
      BY <1>1, <1>2, <2>1, <2>2
         DEF StartCommit, Goto, CleanInv, Landed, DeadOnWire, Attempt, Tip
  <1>3. ASSUME NEW w \in Writer, ReadHeadAndSend(w)
        PROVE  CleanInv'
    <2> DEFINE new == [by |-> w, attempt |-> Attempt(w), base |-> Tip]
    <2>1. /\ new.by = w /\ new.attempt = Attempt(w) /\ new.base = Tip
          /\ wire' = wire \cup {new} /\ pc[w] = "reading"
          /\ pc' = [pc EXCEPT ![w] = "awaiting"]
          /\ UNCHANGED <<branch, retries, opened, closed, after, faulty>>
      BY <1>3 DEF ReadHeadAndSend, Goto
    <2>2. \A m \in wire : m.by = w => m.attempt # Attempt(w)
      <3> SUFFICES ASSUME NEW m \in wire, m.by = w PROVE m.attempt # Attempt(w)
        OBVIOUS
      <3>1. Made(w, m.attempt) /\ m.attempt \in Nat
        BY DEF AttemptInv, CommitTypeOK, Mutation, Attempts
      <3> QED
        BY <1>1, <2>1, <3>1 DEF Made, Attempt
    <2> HIDE DEF new
    <2> QED
      BY <1>1, <2>1, <2>2 DEF CleanInv, Landed, DeadOnWire, Attempt, Tip
  <1>4. ASSUME NEW w \in Writer, DelayOver(w)
        PROVE  CleanInv'
    <2>1. /\ pc[w] = "delayed" /\ pc' = [pc EXCEPT ![w] = "reading"]
          /\ retries' = [retries EXCEPT ![w] = @ - 1]
          /\ UNCHANGED <<branch, wire, opened, closed, after, faulty>>
      BY <1>4 DEF DelayOver, Goto
    <2> DEFINE Clean(v) ==
          /\ pc[v] = "reading" => opened[v] + Attempt(v) <= Tip
          /\ pc[v] = "delayed" => opened[v] + Attempt(v) + 1 <= Tip
          /\ pc[v] = "threw" => opened[v] + Retries + 1 <= closed[v]
          /\ pc[v] \in {"reading", "delayed", "threw"} => ~Landed(v) /\ DeadOnWire(v)
          /\ \A i \in 1..Len(branch) : branch[i].by = v => branch[i].attempt = Attempt(v)
          /\ \A m \in wire : m.by = v =>
               \/ m.base < Tip
               \/ m.attempt = Attempt(v)
          /\ \A m \in wire : m.by = v /\ m.attempt = Attempt(v) /\ pc[v] = "awaiting" =>
               opened[v] + Attempt(v) <= m.base
    <2>2. \A v \in Writer : v \notin faulty => Clean(v)
      BY DEF CleanInv
    <2>3. ASSUME NEW v \in Writer, v \notin faulty, v # w
          PROVE  Clean(v)'
      BY <1>1, <2>1, <2>2, <2>3 DEF Landed, DeadOnWire, Attempt, Tip
    <2>4. ASSUME w \notin faulty
          PROVE  Clean(w)'
      <3>1. opened[w] + Attempt(w) + 1 <= Tip /\ ~Landed(w) /\ DeadOnWire(w)
        BY <2>1, <2>2, <2>4
      <3>2. Attempt(w)' = Attempt(w) + 1 /\ Attempt(w) \in Int
        BY <1>1, <2>1 DEF Attempt
      <3>3. /\ Tip' = Tip /\ opened' = opened /\ pc'[w] = "reading"
            /\ branch' = branch /\ wire' = wire
        BY <1>1, <2>1 DEF Tip
      <3>4. Landed(w)' <=> Landed(w)
        BY <3>3 DEF Landed
      <3>5. DeadOnWire(w)' <=> DeadOnWire(w)
        BY <3>3 DEF DeadOnWire
      <3>6. \A i \in 1..Len(branch) : branch[i].by # w
        BY <3>1 DEF Landed
      <3>7. \A m \in wire : m.by = w => m.base < Tip
        BY <3>1 DEF DeadOnWire
      <3>8. opened[w] + (Attempt(w) + 1) <= Tip
        BY <1>1, <3>1, <3>2
      <3> QED
        BY <3>1, <3>2, <3>3, <3>4, <3>5, <3>6, <3>7, <3>8
    <2> QED
      BY <2>1, <2>3, <2>4 DEF CleanInv
  <1>5. ASSUME NEW w \in Writer, AnswerRefused(w)
        PROVE  CleanInv'
    <2>1. w \notin faulty => /\ opened[w] + Attempt(w) + 1 <= Tip
                            /\ ~Landed(w) /\ DeadOnWire(w)
      BY <1>5, RaceLost
    <2>2. /\ pc[w] = "awaiting"
          /\ UNCHANGED <<branch, retries, wire, opened, after, faulty>>
      BY <1>5 DEF AnswerRefused
    <2>3. CASE retries[w] = 0 /\ Goto(w, "threw") /\ CloseAt(w)
      BY <1>1, <2>1, <2>2, <2>3 DEF Goto, CloseAt, CleanInv, Landed, DeadOnWire, Attempt, Tip
    <2>4. CASE Goto(w, "delayed") /\ UNCHANGED closed
      BY <1>1, <2>1, <2>2, <2>4 DEF Goto, CleanInv, Landed, DeadOnWire, Attempt, Tip
    <2> QED
      BY <1>5, <2>3, <2>4 DEF AnswerRefused, Caught
  <1>6. ASSUME NEW w \in Writer, NEW label \in {"resolved", "killed"},
               Goto(w, label), CloseAt(w), UNCHANGED <<branch, retries, wire, opened, after, faulty>>
        PROVE  CleanInv'
    BY <1>1, <1>6 DEF Goto, CloseAt, CleanInv, Landed, DeadOnWire, Attempt, Tip
  <1>7. ASSUME NEW w \in Writer, NEW label \in {"threw", "delayed"},
               Goto(w, label), \A v \in Writer \ {w} : closed'[v] = closed[v],
               faulty' = faulty \cup {w}, UNCHANGED <<branch, retries, wire, opened, after>>
        PROVE  CleanInv'
    BY <1>1, <1>7 DEF Goto, CleanInv, Landed, DeadOnWire, Attempt, Tip
  <1>8. ASSUME GitHub
        PROVE  CleanInv'
    <2>1. /\ UNCHANGED <<pc, retries, opened, closed, after, faulty>>
          /\ Tip' = Tip + 1 /\ Len(branch) = Tip /\ Len(branch') = Tip'
          /\ \A i \in 1..Tip : branch'[i] = branch[i]
          /\ wire' \subseteq wire
          /\ \A w \in Writer : DeadOnWire(w)'
      BY <1>8, Growth DEF Tip
    <2>2. \A w \in Writer : branch'[Tip + 1].by = w /\ w \notin faulty =>
            /\ branch'[Tip + 1].attempt = Attempt(w)
            /\ pc[w] \notin {"reading", "delayed", "threw"}
      <3> SUFFICES ASSUME NEW w \in Writer, branch'[Tip + 1].by = w, w \notin faulty
                   PROVE  /\ branch'[Tip + 1].attempt = Attempt(w)
                          /\ pc[w] \notin {"reading", "delayed", "threw"}
        OBVIOUS
      <3>1. PICK m \in wire : m.by = w /\ m.attempt = branch'[Tip + 1].attempt /\ m.base = Tip
        BY <1>8, Growth
      <3>2. m.attempt = Attempt(w)
        BY <1>1, <3>1 DEF CleanInv
      <3>3. ~DeadOnWire(w)
        BY <1>1, <3>1 DEF DeadOnWire
      <3> QED
        BY <3>1, <3>2, <3>3 DEF CleanInv
    <2>3. \A w \in Writer : w \notin faulty /\ pc[w] \in {"reading", "delayed", "threw"} => ~Landed(w)'
      BY <1>1, <2>1, <2>2 DEF Landed, CleanInv
    <2>4. \A w \in Writer : w \notin faulty =>
            \A i \in 1..Len(branch') : branch'[i].by = w => branch'[i].attempt = Attempt(w)
      <3> SUFFICES ASSUME NEW w \in Writer, w \notin faulty,
                          NEW i \in 1..Len(branch'), branch'[i].by = w
                   PROVE  branch'[i].attempt = Attempt(w)
        OBVIOUS
      <3>1. CASE i \in 1..Tip
        BY <2>1, <3>1 DEF CleanInv
      <3>2. CASE i = Tip + 1
        BY <2>2, <3>2
      <3> QED
        BY <1>1, <2>1, <3>1, <3>2
    <2>5. \A w \in Writer : Attempt(w)' = Attempt(w)
      BY <2>1 DEF Attempt
    <2>6. \A w \in Writer : \A m \in wire' : m.by = w => m.base < Tip'
      BY <2>1 DEF DeadOnWire
    <2> QED
      BY <1>1, <2>1, <2>3, <2>4, <2>5, <2>6 DEF CleanInv, Attempt
  <1>9. CASE UNCHANGED commitVars
    BY <1>9 DEF commitVars, CleanInv, Landed, DeadOnWire, Attempt, Tip
  <1>10. ASSUME NEW w \in Writer, CloseAt(w)
         PROVE  \A v \in Writer \ {w} : closed'[v] = closed[v]
    BY <1>1, <1>10 DEF CloseAt
  <1> QED
    BY <1>2, <1>3, <1>4, <1>5, <1>6, <1>7, <1>8, <1>9, <1>10
       DEF CommitNext, CallerStep, Quiet, AnswerOk, TransportError, Killed, Caught

-----------------------------------------------------------------------------
(* The theorems. *)

CommitInv == CommitTypeOK /\ OrderInv /\ AttemptInv /\ ResolvedInv /\ CleanInv

LEMMA Invariance == CommitSpec => []CommitInv
  <1>1. CommitInit => CommitInv
    BY TypeInit, OrderInit, AttemptInit, ResolvedInit, CleanInit DEF CommitInv
  <1>2. CommitInv /\ [CommitNext]_commitVars => CommitInv'
    BY TypeStep, OrderStep, AttemptStep, ResolvedStep, CleanStep DEF CommitInv
  <1> QED
    BY <1>1, <1>2, PTL DEF CommitSpec

\* A call that resolves has its file on main, for any number of calls, retries,
\* refusals, lost answers and late mutations.
THEOREM CommitResolved == CommitSpec => []ResolvedIsCommitted
  <1>1. CommitInv => ResolvedIsCommitted
    <2> SUFFICES ASSUME CommitInv, NEW w \in Writer, pc[w] = "resolved"
                 PROVE  Landed(w)
      BY DEF ResolvedIsCommitted
    <2>1. LandedAs(w, Attempt(w))
      BY DEF CommitInv, ResolvedInv
    <2> QED
      BY <2>1 DEF LandedAs, Landed
  <1> QED
    BY <1>1, Invariance, PTL

\* Losing races never makes the retry commit the same file twice.
THEOREM CommitOnce == CommitSpec => []TwiceOnlyIfFaulty
  <1>1. CommitInv => TwiceOnlyIfFaulty
    <2> SUFFICES ASSUME CommitInv, NEW w \in Writer,
                        NEW i \in 1..Len(branch), NEW j \in 1..Len(branch),
                        branch[i].by = w, branch[j].by = w, i # j, w \notin faulty
                 PROVE  FALSE
      BY DEF TwiceOnlyIfFaulty
    <2>1. branch[i].attempt = branch[j].attempt
      BY DEF CommitInv, CleanInv
    <2>2. branch[i] \in Commit /\ branch[j] \in Commit
      BY DEF CommitInv, CommitTypeOK
    <2>3. branch[i] = branch[j]
      BY <2>1, <2>2 DEF Commit
    <2> QED
      BY <2>3 DEF CommitInv, AttemptInv
  <1> QED
    BY <1>1, Invariance, PTL

\* When a call whose network never failed throws, its file is not on main and
\* nothing of it can get there any more.
THEOREM CommitThrew == CommitSpec => []ThrewMeansUncommitted
  <1>1. CommitInv => ThrewMeansUncommitted
    <2> SUFFICES ASSUME CommitInv, NEW w \in Writer, pc[w] = "threw", w \notin faulty
                 PROVE  ~Landed(w) /\ \A m \in wire : m.by = w => ~HeadMatches(m)
      BY DEF ThrewMeansUncommitted
    <2>1. ~Landed(w) /\ DeadOnWire(w)
      BY DEF CommitInv, CleanInv
    <2>2. Tip \in Nat
      BY DEF CommitInv, CommitTypeOK, Tip
    <2> QED
      BY <2>1, <2>2 DEF DeadOnWire, HeadMatches
  <1> QED
    BY <1>1, Invariance, PTL

\* Under contention alone a call gives up only after Retries + 1 commits of
\* others landed while it ran.
THEOREM CommitOutrun == CommitSpec => []GivesUpOnlyWhenOutrun
  <1>1. CommitInv => GivesUpOnlyWhenOutrun
    BY RetriesAssumption DEF CommitInv, CleanInv, CommitTypeOK, GivesUpOnlyWhenOutrun
  <1> QED
    BY <1>1, Invariance, PTL

-----------------------------------------------------------------------------
(* commitFile implements CommitLog. *)

\* What the caller of a call knows, place by place.
LEMMA KnownAt ==
  ASSUME NEW w \in Writer
  PROVE  /\ pc[w] = "idle" => Status[w] = "idle"
         /\ Running(w) => Status[w] = "open"
         /\ pc[w] \in {"threw", "killed"} => Status[w] = "failed"
  <1>1. ASSUME pc[w] = "idle"
        PROVE  Status[w] = "idle"
    BY <1>1 DEF Status, Running
  <1>2. ASSUME Running(w)
        PROVE  Status[w] = "open"
    BY <1>2 DEF Status, Running
  <1>3. ASSUME pc[w] = "threw"
        PROVE  Status[w] = "failed"
    BY <1>3 DEF Status, Running
  <1>4. ASSUME pc[w] = "killed"
        PROVE  Status[w] = "failed"
    BY <1>4 DEF Status, Running
  <1> QED
    BY <1>1, <1>2, <1>3, <1>4

\* A step of a call leaves what the callers of the others know alone, and gives
\* its own caller the knowledge that goes with its new place.
LEMMA Known ==
  ASSUME pc \in [Writer -> CallState], NEW w \in Writer, NEW label \in CallState,
         Goto(w, label)
  PROVE  Status' = [Status EXCEPT ![w] =
                      CASE label = "idle" -> "idle"
                        [] label \in {"reading", "awaiting", "delayed"} -> "open"
                        [] label = "resolved" -> "ok"
                        [] OTHER -> "failed"]
  BY DEF Status, Running, Goto

\* A step that does not close a running call is invisible to its caller.
LEMMA Unnoticed ==
  ASSUME pc \in [Writer -> CallState], NEW w \in Writer, Running(w),
         NEW label \in {"reading", "awaiting", "delayed"}, Goto(w, label)
  PROVE  Status' = Status
  <1>1. Status' = [Status EXCEPT ![w] = "open"]
    BY Known DEF CallState
  <1>2. Status[w] = "open" /\ Status = [v \in Writer |-> Status[v]]
    BY DEF Status, Running
  <1> QED
    BY <1>1, <1>2

\* A running call that ends is closed, with what it reports.
LEMMA Closed ==
  ASSUME CommitTypeOK, NEW w \in Writer, Running(w),
         NEW label \in {"resolved", "threw", "killed"},
         Goto(w, label), CloseAt(w), UNCHANGED branch,
         label = "resolved" => LandedAs(w, Attempt(w))
  PROVE  Promise!LogNext
  <1>1. Status[w] = "open"
    BY KnownAt
  <1>2. pc \in [Writer -> CallState]
    BY DEF CommitTypeOK
  <1>3. CASE label = "resolved"
    <2>1. Status' = [Status EXCEPT ![w] = "ok"]
      BY <1>2, <1>3, Known DEF CallState
    <2>2. \E i \in 1..Len(branch) : branch[i].by = w
      BY <1>3 DEF LandedAs
    <2>3. Promise!CloseOk(w)
      BY <1>1, <2>1, <2>2 DEF Promise!CloseOk, CloseAt, Tip
    <2> QED
      BY <2>3 DEF Promise!LogNext
  <1>4. CASE label # "resolved"
    <2>1. Status' = [Status EXCEPT ![w] = "failed"]
      BY <1>2, <1>4, Known DEF CallState
    <2>2. Promise!CloseFailed(w)
      BY <1>1, <2>1 DEF Promise!CloseFailed, CloseAt, Tip
    <2> QED
      BY <2>2 DEF Promise!LogNext
  <1> QED
    BY <1>3, <1>4

\* The catch clause of retry either closes the call or goes unnoticed.
LEMMA CaughtClosesOrNot ==
  ASSUME CommitTypeOK, NEW w \in Writer, Running(w), Caught(w), UNCHANGED branch
  PROVE  [Promise!LogNext]_(Promise!logVars)
  <1>1. CASE Goto(w, "threw") /\ CloseAt(w)
    BY <1>1, Closed
  <1>2. CASE Goto(w, "delayed") /\ UNCHANGED closed
    BY <1>2, Unnoticed DEF CommitTypeOK, Promise!logVars
  <1> QED
    BY <1>1, <1>2 DEF Caught

\* What GitHub commits is a commit the log lets its sender make: the call is
\* open, or it failed and nobody has moved the head since.
LEMMA GitHubLands ==
  ASSUME CommitInv, NEW m \in wire, GitHubCommits(m)
  PROVE  Promise!Lands(m.by, m.attempt) /\ m.by \in Writer /\ m.attempt \in 0..Retries
  <1>1. /\ m.by \in Writer /\ m.attempt \in 0..Retries
        /\ m.base = Tip /\ m.base \in Nat
    BY DEF CommitInv, CommitTypeOK, Mutation, Attempts, GitHubCommits, HeadMatches
  <1>2. pc[m.by] # "idle" /\ (Ended(m.by) => m.base <= closed[m.by] /\ closed[m.by] <= Tip)
    BY <1>1 DEF CommitInv, OrderInv, WireInv, SpanInv
  <1>3. pc[m.by] # "resolved"
    BY <1>1 DEF CommitInv, ResolvedInv, DeadOnWire
  <1>4. pc[m.by] \in CallState /\ closed[m.by] \in Nat /\ Tip \in Nat
    BY <1>1 DEF CommitInv, CommitTypeOK, Tip
  <1>5. Status[m.by] = "open" \/ (Status[m.by] = "failed" /\ Len(branch) = closed[m.by])
    <2>1. CASE Running(m.by)
      BY <1>1, <2>1, KnownAt
    <2>2. CASE pc[m.by] \in {"threw", "killed"}
      <3>1. Status[m.by] = "failed"
        BY <1>1, <2>2, KnownAt
      <3>2. Len(branch) = closed[m.by]
        BY <1>1, <1>2, <1>4, <2>2 DEF Ended, Tip
      <3> QED
        BY <3>1, <3>2
    <2> QED
      BY <1>2, <1>3, <1>4, <2>1, <2>2 DEF CallState, Running
  <1>6. \A i \in 1..Len(branch) : branch[i] # [by |-> m.by, attempt |-> m.attempt]
    BY DEF CommitInv, AttemptInv
  <1>7. Status' = Status /\ UNCHANGED closed
    BY DEF GitHubCommits, history, Status, Running
  <1> QED
    BY <1>1, <1>5, <1>6, <1>7 DEF Promise!Lands, GitHubCommits

\* The initial states of commitFile are those of the log.
LEMMA LogInitially == CommitInit => Promise!LogInit
  <1> SUFFICES ASSUME CommitInit
               PROVE  Promise!LogInit
    OBVIOUS
  <1>1. \A w \in Writer : pc[w] = "idle"
    BY DEF CommitInit
  <1>2. Status = [w \in Writer |-> "idle"]
    <2>1. Status = [w \in Writer |-> Status[w]]
      BY DEF Status
    <2> QED
      BY <1>1, <2>1, KnownAt
  <1> QED
    BY <1>2 DEF CommitInit, Promise!LogInit

\* Every step of commitFile is a step of the log, or is not seen there.
LEMMA LogStep ==
  CommitInv /\ [CommitNext]_commitVars => [Promise!LogNext]_(Promise!logVars)
  <1> SUFFICES ASSUME CommitInv, [CommitNext]_commitVars
               PROVE  [Promise!LogNext]_(Promise!logVars)
    OBVIOUS
  <1>1. CommitTypeOK /\ pc \in [Writer -> CallState]
    BY DEF CommitInv, CommitTypeOK
  <1>2. ASSUME NEW w \in Writer, StartCommit(w)
        PROVE  Promise!Open(w)
    <2>1. Status' = [Status EXCEPT ![w] = "open"]
      BY <1>1, <1>2, Known DEF StartCommit, CallState
    <2> QED
      BY <1>2, <2>1, KnownAt DEF StartCommit, Promise!Open
  <1>3. ASSUME NEW w \in Writer, ReadHeadAndSend(w) \/ DelayOver(w)
        PROVE  UNCHANGED Promise!logVars
    BY <1>1, <1>3, Unnoticed
       DEF ReadHeadAndSend, DelayOver, Running, history, Promise!logVars
  <1>4. ASSUME NEW w \in Writer, AnswerOk(w)
        PROVE  Promise!LogNext
    BY <1>1, <1>4, Closed DEF AnswerOk, Running
  <1>5. ASSUME NEW w \in Writer, AnswerRefused(w) \/ TransportError(w)
        PROVE  [Promise!LogNext]_(Promise!logVars)
    BY <1>1, <1>5, CaughtClosesOrNot DEF AnswerRefused, TransportError, Running
  <1>6. ASSUME NEW w \in Writer, Killed(w)
        PROVE  Promise!LogNext
    BY <1>1, <1>6, Closed DEF Killed
  <1>7. ASSUME NEW m \in wire, GitHubCommits(m)
        PROVE  Promise!LogNext
    BY <1>7, GitHubLands DEF Promise!LogNext
  <1>8. ASSUME OtherCommits
        PROVE  Promise!OtherAppends
    BY <1>8 DEF OtherCommits, history, Promise!OtherAppends, Status, Running
  <1>9. ASSUME UNCHANGED commitVars
        PROVE  UNCHANGED Promise!logVars
    BY <1>9 DEF commitVars, Promise!logVars, Status, Running
  <1> QED
    BY <1>2, <1>3, <1>4, <1>5, <1>6, <1>7, <1>8, <1>9
       DEF CommitNext, CallerStep, GitHub, Quiet, Promise!LogNext

\* commitFile implements the append-only log its callers rely on, for every
\* number of calls, retries and other committers.
THEOREM CommitImplementsLog == CommitSpec => ImplementsLog
  BY LogInitially, LogStep, Invariance, PTL DEF CommitSpec, ImplementsLog, Promise!LogSpec
-----------------------------------------------------------------------------
(* A call does a bounded amount of work. *)

\* The places of the commits of a call: each holds the call's file.
CommitsOf(w) == {i \in 1..Len(branch) : branch[i].by = w}

BoundedCommits == \A w \in Writer : Cardinality(CommitsOf(w)) <= Retries + 1

\* Every attempt lands at most once, so whatever answers are lost and however late
\* its mutations arrive, a call puts its file on main at most Retries + 1 times:
\* four in the code.
THEOREM CommitBounded == CommitSpec => []BoundedCommits
  <1>1. CommitInv => BoundedCommits
    <2> SUFFICES ASSUME CommitInv, NEW w \in Writer
                 PROVE  Cardinality(CommitsOf(w)) <= Retries + 1
      BY DEF BoundedCommits
    <2> DEFINE landed == [i \in CommitsOf(w) |-> branch[i].attempt]
    <2>1. \A i \in CommitsOf(w) :
            /\ i \in 1..Len(branch) /\ branch[i].attempt \in Attempts
            /\ branch[i] = [by |-> w, attempt |-> branch[i].attempt]
      <3> SUFFICES ASSUME NEW i \in CommitsOf(w)
                   PROVE  /\ i \in 1..Len(branch) /\ branch[i].attempt \in Attempts
                          /\ branch[i] = [by |-> w, attempt |-> branch[i].attempt]
        OBVIOUS
      <3>1. i \in 1..Len(branch) /\ branch[i].by = w /\ branch[i] \in Commit
        BY DEF CommitInv, CommitTypeOK, CommitsOf
      <3> QED
        BY <3>1 DEF Commit
    <2>2. \A i, k \in CommitsOf(w) : branch[i].attempt = branch[k].attempt => i = k
      <3> SUFFICES ASSUME NEW i \in CommitsOf(w), NEW k \in CommitsOf(w),
                          branch[i].attempt = branch[k].attempt
                   PROVE  i = k
        OBVIOUS
      <3>1. branch[i] = branch[k] /\ branch[i].by \in Writer
        BY <2>1 DEF CommitsOf
      <3> QED
        BY <2>1, <3>1 DEF CommitInv, AttemptInv
    <2>3. landed \in Injection(CommitsOf(w), Attempts)
      BY <2>1, <2>2 DEF Injection, IsInjective
    <2>4. IsFiniteSet(Attempts) /\ Cardinality(Attempts) = Retries + 1
      BY RetriesAssumption, FS_Interval DEF Attempts
    <2> HIDE DEF landed
    <2> QED
      BY <2>3, <2>4, FS_Injection
  <1> QED
    BY <1>1, Invariance, PTL

\* What is still to come of an attempt, and the steps a call has left, at most:
\* three for each attempt, and its beginning.
Ahead(place) == IF place = "reading" THEN 2 ELSE IF place = "awaiting" THEN 1 ELSE 0

StepsLeft(w) ==
  IF pc[w] = "idle" THEN 3 * Retries + 3
  ELSE IF Ended(w) THEN 0 ELSE 3 * retries[w] + Ahead(pc[w])

\* A call that has not ended has steps left.
StepsAreLeft ==
  \A w \in Writer :
    /\ StepsLeft(w) \in 0..(3 * Retries + 3)
    /\ StepsLeft(w) = 0 <=> Ended(w)

\* Each step of a call uses up one at least, and nobody else's gives it more.
StepsAreUsed ==
  \A w \in Writer :
    /\ StepsLeft(w)' <= StepsLeft(w)
    /\ StartCommit(w) \/ CallerStep(w) \/ Killed(w) => StepsLeft(w)' < StepsLeft(w)

\* What r more attempts of three steps and a begun one come to.
LEMMA AttemptsTake ==
  ASSUME NEW n \in Nat, NEW r \in Nat, r <= n, NEW a \in 0..2, r > 0 \/ a # 0
  PROVE  3 * r + a \in 0..(3 * n + 3) /\ 3 * r + a # 0
  OBVIOUS

LEMMA StepsLeftBounds == CommitTypeOK => StepsAreLeft
  <1> SUFFICES ASSUME CommitTypeOK, NEW w \in Writer
               PROVE  StepsLeft(w) \in 0..(3 * Retries + 3) /\ (StepsLeft(w) = 0 <=> Ended(w))
    BY DEF StepsAreLeft
  <1>1. /\ pc[w] \in CallState /\ (pc[w] = "delayed" => retries[w] > 0)
        /\ retries[w] \in Nat /\ retries[w] <= Retries /\ Retries \in Nat
    BY RetriesAssumption DEF CommitTypeOK, Attempts
  <1>2. CASE pc[w] = "idle"
    BY <1>1, <1>2 DEF StepsLeft, Ended
  <1>3. CASE pc[w] \in {"reading", "awaiting", "delayed"}
    <2>1. StepsLeft(w) = 3 * retries[w] + Ahead(pc[w]) /\ ~Ended(w)
      BY <1>3 DEF StepsLeft, Ended
    <2>2. Ahead(pc[w]) \in 0..2 /\ (pc[w] # "delayed" => Ahead(pc[w]) # 0)
      BY <1>3 DEF Ahead
    <2>3. retries[w] > 0 \/ Ahead(pc[w]) # 0
      BY <1>1, <1>3, <2>2
    <2> QED
      BY <1>1, <2>1, <2>2, <2>3, AttemptsTake
  <1>4. CASE Ended(w)
    BY <1>1, <1>4 DEF StepsLeft, Ended
  <1> QED
    BY <1>1, <1>2, <1>3, <1>4 DEF CallState, Ended

LEMMA OwnStepUses ==
  ASSUME CommitTypeOK, NEW w \in Writer, StartCommit(w) \/ CallerStep(w) \/ Killed(w)
  PROVE  StepsLeft(w)' < StepsLeft(w)
  <1>0. /\ retries[w] \in Nat /\ retries[w] <= Retries /\ Retries \in Nat
        /\ pc \in [Writer -> CallState] /\ retries \in [Writer -> Attempts]
        /\ pc[w] = "delayed" => retries[w] > 0
    BY RetriesAssumption DEF CommitTypeOK, Attempts
  <1>1. CASE StartCommit(w)
    BY <1>0, <1>1 DEF StartCommit, Goto, StepsLeft, Ahead, Ended
  <1>2. CASE ReadHeadAndSend(w)
    BY <1>0, <1>2 DEF ReadHeadAndSend, Goto, StepsLeft, Ahead, Ended
  <1>3. CASE DelayOver(w)
    <2>1. pc[w] = "delayed" /\ pc'[w] = "reading" /\ retries'[w] = retries[w] - 1
      BY <1>0, <1>3 DEF DelayOver, Goto
    <2> QED
      BY <1>0, <2>1 DEF StepsLeft, Ahead, Ended
  <1>4. CASE AnswerOk(w) \/ Killed(w)
    <2>1. pc[w] \in {"reading", "awaiting", "delayed"} /\ Ended(w)'
      BY <1>0, <1>4 DEF AnswerOk, Killed, Goto, Running, Ended
    <2>2. StepsLeft(w)' = 0
      BY <2>1 DEF StepsLeft, Ended
    <2> QED
      BY <1>0, <2>1, <2>2 DEF StepsLeft, Ahead, Ended
  <1>5. CASE AnswerRefused(w) \/ TransportError(w)
    <2>1. /\ pc[w] \in {"reading", "awaiting"} /\ pc'[w] \in {"threw", "delayed"}
          /\ retries' = retries
      BY <1>0, <1>5 DEF AnswerRefused, TransportError, Caught, Goto
    <2> QED
      BY <1>0, <2>1 DEF StepsLeft, Ahead, Ended
  <1> QED
    BY <1>1, <1>2, <1>3, <1>4, <1>5 DEF CallerStep

\* A step of one call leaves the steps of the others as they are.
LEMMA OthersUseNone ==
  ASSUME NEW w \in Writer, pc'[w] = pc[w], retries'[w] = retries[w]
  PROVE  StepsLeft(w)' = StepsLeft(w)
  BY DEF StepsLeft, Ended

\* Before and after every step, the steps left are a number.
LEMMA StepsUsedType ==
  CommitTypeOK /\ [CommitNext]_commitVars =>
    \A w \in Writer : StepsLeft(w) \in Int /\ StepsLeft(w)' \in Int
  <1> SUFFICES ASSUME CommitTypeOK, [CommitNext]_commitVars, NEW w \in Writer
               PROVE  StepsLeft(w) \in Int /\ StepsLeft(w)' \in Int
    OBVIOUS
  <1>1. retries[w] \in Nat /\ retries'[w] \in Nat /\ Retries \in Nat
    BY TypeStep, RetriesAssumption DEF CommitTypeOK, Attempts
  <1> QED
    BY <1>1 DEF StepsLeft, Ahead

LEMMA StepsUsed ==
  CommitTypeOK /\ [CommitNext]_commitVars => StepsAreUsed
  <1> SUFFICES ASSUME CommitTypeOK, [CommitNext]_commitVars, NEW w \in Writer
               PROVE  /\ StepsLeft(w)' <= StepsLeft(w)
                      /\ StartCommit(w) \/ CallerStep(w) \/ Killed(w)
                           => StepsLeft(w)' < StepsLeft(w)
    BY DEF StepsAreUsed
  <1>1. StepsLeft(w) \in Int /\ StepsLeft(w)' \in Int
    BY StepsUsedType
  <1>2. CASE StartCommit(w) \/ CallerStep(w) \/ Killed(w)
    BY <1>1, <1>2, OwnStepUses
  <1>3. CASE ~(StartCommit(w) \/ CallerStep(w) \/ Killed(w))
    <2>1. pc'[w] = pc[w] /\ retries'[w] = retries[w]
      <3>1. ASSUME NEW v \in Writer \ {w}, StartCommit(v) \/ CallerStep(v) \/ Killed(v)
            PROVE  pc'[w] = pc[w] /\ retries'[w] = retries[w]
        BY <3>1 DEF CommitTypeOK, StartCommit, CallerStep, Killed, ReadHeadAndSend, DelayOver,
                    AnswerOk, AnswerRefused, TransportError, Caught, Goto
      <3>2. ASSUME GitHub \/ Quiet \/ UNCHANGED commitVars
            PROVE  pc'[w] = pc[w] /\ retries'[w] = retries[w]
        BY <3>2 DEF GitHub, GitHubCommits, OtherCommits, Quiet, commitVars
      <3> QED
        BY <1>3, <3>1, <3>2 DEF CommitNext
    <2> QED
      BY <1>1, <1>3, <2>1, OthersUseNone
  <1> QED
    BY <1>2, <1>3

\* Every call of commitFile ends after at most 3 Retries + 3 steps of its own,
\* whatever the others, the network and GitHub do: what remains for it to settle
\* is that each of its awaits does. (Three retries: twelve steps.)
THEOREM CommitEnds == CommitSpec => []StepsAreLeft /\ [][StepsAreUsed]_commitVars
  <1>1. CommitTypeOK /\ [CommitNext]_commitVars => [StepsAreUsed]_commitVars
    BY StepsUsed
  <1> QED
    BY <1>1, StepsLeftBounds, CommitTyping, PTL DEF CommitSpec

-----------------------------------------------------------------------------
(* Part II: the deployments. *)

-----------------------------------------------------------------------------
(* The layers of the inductive invariant. *)

\* Nothing of d is recorded anywhere, or on its way.
Blank(d) ==
  /\ pc[d] = "idle"
  /\ ~Published(d)
  /\ \A c \in late : c.by # d

InPlace(d) ==
  /\ stage[d] \in {"none", "admit", "look", "refused"} => Blank(d)
  /\ stage[d] \in {"register", "entity", "publish"} => pc[d] = "idle"
  /\ stage[d] = "commit" => pc[d] \notin {"idle", "killed"}
  /\ stage[d] = "ok" => pc[d] = "resolved"
  /\ Over(d) => ~Running(d)
  /\ stage[d] \in {"none", "admit", "look", "register", "entity"} => d \notin complete
  /\ stage[d] = "failed" /\ d \in complete => pc[d] = "threw" \/ d \in failing

HandlerInv == \A d \in Writer : InPlace(d)

RecordsInv ==
  /\ \A d \in Writer :
       /\ stage[d] \in {"entity", "publish", "commit"} => d \in registered
       /\ Published(d) => d \in registered
       /\ pc[d] # "idle" => Published(d)
  /\ \A c \in late : c.call = "publish" => c.by \in registered

BeforeInv ==
  \A d \in Writer :
    /\ stage[d] = "none" => before[d] = {}
    /\ \A r \in before[d] :
         /\ r # d
         /\ r \in Settled
         /\ pc[d] # "idle" /\ pc[r] # "idle" => r \in after[d]
         /\ \A i, j \in 1..Len(topic) : topic[i] = r /\ topic[j] = d => i < j

\* A message of d is on the topic or may yet come.
Sends(d) ==
  \/ stage[d] \in {"register", "entity", "publish", "commit"}
  \/ Published(d)
  \/ \E c \in late : c.by = d

\* What d saw running when it looked still runs, or a message has come since.
SeesRight(d) ==
  LET e == request[d].env IN
  request[d].kind = "zero" /\ Sends(d) =>
    /\ details[d].count = 0
    /\ looked[d] <= delivered[e]
    /\ looked[d] = delivered[e] => details[d].version = running[e].version

ZeroInv ==
  Fifo => /\ \A e \in Env : delivered[e] \in Messages(e) \cup {0}
          /\ \A d \in Writer : SeesRight(d)

-----------------------------------------------------------------------------
(* The commits of a deployment are those of CommitFile. *)

LEMMA DeployStepCommits == [DeployNext]_vars => [CommitNext]_commitVars
  <1> SUFFICES ASSUME [DeployNext]_vars
               PROVE  [CommitNext]_commitVars
    OBVIOUS
  <1>1. ASSUME NEW d \in Writer, Publish(d)
        PROVE  StartCommit(d) \/ UNCHANGED commitVars
    BY <1>1 DEF Publish
  <1>2. ASSUME NEW d \in Writer, Dies(d)
        PROVE  Killed(d) \/ UNCHANGED commitVars
    BY <1>2 DEF Dies
  <1>3. ASSUME NEW d \in Writer, HandlerStep(d), ~CommitStep(d), ~Publish(d)
        PROVE  UNCHANGED commitVars
    BY <1>3 DEF HandlerStep, Admitted, Refuse, LookAtRunning, Register, ReadEntity,
                Answer, CallFails
  <1>4. ASSUME NEW d \in Writer, Requested(d)
        PROVE  UNCHANGED commitVars
    BY <1>4 DEF Requested
  <1>5. ASSUME (\E c \in late : ArrivesLate(c)) \/ Deliver \/ AllOver \/ UNCHANGED vars
        PROVE  UNCHANGED commitVars
    BY <1>5 DEF ArrivesLate, Deliver, AllOver, vars
  <1> QED
    BY <1>1, <1>2, <1>3, <1>4, <1>5 DEF DeployNext, CommitStep, GitHubStep, CommitNext

\* A deployment uses commitFile as CommitFile describes it: every theorem
\* about CommitSpec holds of the deployments.
LEMMA DeployCommits == DeploySpec => CommitSpec
  <1>1. DeployInit => CommitInit
    BY DEF DeployInit
  <1> QED
    BY <1>1, DeployStepCommits, PTL DEF DeploySpec, CommitSpec

-----------------------------------------------------------------------------
(* Types. *)

LEMMA DeployTypeInit == DeployInit => DeployTypeOK
  <1> SUFFICES ASSUME DeployInit
               PROVE  DeployTypeOK
    OBVIOUS
  <1>1. CommitTypeOK
    BY TypeInit DEF DeployInit
  <1>2. running \in [Env -> Details \cup {NotRunning}]
    BY DEF DeployInit, Details
  <1> QED
    BY <1>1, <1>2 DEF DeployInit, DeployTypeOK, Stage

LEMMA DeployTypeStep == DeployTypeOK /\ [DeployNext]_vars => DeployTypeOK'
  <1> SUFFICES ASSUME DeployTypeOK, [DeployNext]_vars
               PROVE  DeployTypeOK'
    OBVIOUS
  <1>0. CommitTypeOK'
    BY TypeStep, DeployStepCommits DEF DeployTypeOK
  <1> USE DEF DeployTypeOK, Stage, Step, deployVars, handlerVars, outsideVars
  <1>1. ASSUME NEW d \in Writer, Requested(d)
        PROVE  DeployTypeOK'
    <2>1. Settled \in SUBSET Writer
      BY DEF Settled
    <2>2. PICK r \in Request :
            /\ request' = [request EXCEPT ![d] = r]
            /\ details' = [details EXCEPT ![d] =
                 IF r.kind = "zero" THEN NotRunning ELSE [version |-> r.version, count |-> 1]]
      BY <1>1 DEF Requested
    <2>3. r.kind # "zero" => r.version \in Version
      BY DEF Request
    <2>4. details' \in [Writer -> Details \cup {NotRunning}]
      BY <2>2, <2>3 DEF Details
    <2>5. request' \in [Writer -> Request \cup {NoRequest}] /\ request'[d] \in Request
      BY <2>2
    <2>6. \A v \in Writer \ {d} : stage'[v] = stage[v] /\ request'[v] = request[v]
      BY <1>1, <2>2 DEF Requested
    <2> QED
      BY <1>0, <1>1, <2>1, <2>4, <2>5, <2>6 DEF Requested
  <1>2. ASSUME NEW d \in Writer, Admitted(d) \/ Refuse(d) \/ Answer(d)
        PROVE  DeployTypeOK'
    BY <1>0, <1>2 DEF Admitted, Refuse, Answer
  <1>3. ASSUME NEW d \in Writer, LookAtRunning(d)
        PROVE  DeployTypeOK'
    <2>1. request[d].env \in Env
      BY <1>3 DEF LookAtRunning, Request
    <2>2. details' \in [Writer -> Details \cup {NotRunning}]
      <3>1. CASE UNCHANGED details
        BY <3>1
      <3>2. CASE /\ running[request[d].env].count # 0
                 /\ details' = [details EXCEPT ![d] =
                      [version |-> running[request[d].env].version, count |-> 0]]
        <4>1. running[request[d].env] \in Details
          BY <2>1, <3>2 DEF NotRunning
        <4>2. [version |-> running[request[d].env].version, count |-> 0] \in Details
          BY <4>1 DEF Details
        <4> QED
          BY <3>2, <4>2
      <3> QED
        BY <1>3, <3>1, <3>2 DEF LookAtRunning
    <2>3. looked' \in [Writer -> Nat]
      <3>1. delivered[request[d].env] \in Nat
        BY <2>1
      <3> QED
        BY <1>3, <3>1 DEF LookAtRunning
    <2>4. stage' = [stage EXCEPT ![d] = "failed"] \/ stage' = [stage EXCEPT ![d] = "register"]
      BY <1>3 DEF LookAtRunning
    <2> QED
      BY <1>0, <1>3, <2>2, <2>3, <2>4 DEF LookAtRunning
  <1>4. ASSUME NEW d \in Writer, Register(d)
        PROVE  DeployTypeOK'
    BY <1>0, <1>4 DEF Register
  <1>5. ASSUME NEW d \in Writer, ReadEntity(d)
        PROVE  DeployTypeOK'
    BY <1>0, <1>5 DEF ReadEntity
  <1>6. ASSUME NEW d \in Writer, topic' = Append(topic, d), UNCHANGED <<delivered, request>>
        PROVE  topic' \in Seq(Writer) /\ delivered' \in [Env -> 0..Len(topic')]
    BY <1>6
  <1>7. ASSUME NEW d \in Writer, Publish(d)
        PROVE  DeployTypeOK'
    BY <1>0, <1>6, <1>7 DEF Publish
  <1>8. ASSUME NEW d \in Writer, LeavesCall(d)
        PROVE  late' \in SUBSET Call
    BY <1>8 DEF LeavesCall, Call
  <1>9. ASSUME NEW d \in Writer, CallFails(d) \/ Dies(d)
        PROVE  DeployTypeOK'
    BY <1>0, <1>8, <1>9 DEF CallFails, Dies, Active
  <1>10. ASSUME Deliver
         PROVE  DeployTypeOK'
    <2>1. PICK e \in Env : \E i \in Messages(e) :
            /\ delivered' = [delivered EXCEPT ![e] = i] \/ UNCHANGED delivered
            /\ running' = [running EXCEPT ![e] = details[topic[i]]]
      BY <1>10 DEF Deliver
    <2>2. PICK i \in Messages(e) :
            /\ delivered' = [delivered EXCEPT ![e] = i] \/ UNCHANGED delivered
            /\ running' = [running EXCEPT ![e] = details[topic[i]]]
      BY <2>1
    <2>3. i \in 0..Len(topic) /\ topic[i] \in Writer
      BY DEF Messages
    <2>4. delivered' \in [Env -> 0..Len(topic)] /\ running' \in [Env -> Details \cup {NotRunning}]
      BY <2>2, <2>3
    <2> QED
      BY <1>0, <1>10, <2>4 DEF Deliver
  <1>11. ASSUME NEW c \in late, ArrivesLate(c)
         PROVE  DeployTypeOK'
    <2>1. c.by \in Writer
      BY DEF Call
    <2>2. topic' \in Seq(Writer) /\ delivered' \in [Env -> 0..Len(topic')]
      BY <1>6, <1>11, <2>1 DEF ArrivesLate
    <2> QED
      BY <1>0, <1>11, <2>1, <2>2 DEF ArrivesLate
  <1>12. ASSUME UNCHANGED deployVars
         PROVE  DeployTypeOK'
    BY <1>0, <1>12
  <1> QED
    BY <1>1, <1>2, <1>3, <1>4, <1>5, <1>7, <1>9, <1>10, <1>11, <1>12
       DEF DeployNext, HandlerStep, CommitStep, GitHubStep, AllOver, vars

\* Every reachable state of the deployments is well-typed.
THEOREM DeployTyping == DeploySpec => []DeployTypeOK
  BY DeployTypeInit, DeployTypeStep, PTL DEF DeploySpec

-----------------------------------------------------------------------------
(* The handlers. *)

\* A step of commitFile by one call moves that call and no other.
LEMMA CallerMoves ==
  ASSUME CommitTypeOK, NEW w \in Writer, CallerStep(w)
  PROVE  /\ Running(w)
         /\ pc'[w] \in {"reading", "awaiting", "delayed", "resolved", "threw"}
         /\ \A v \in Writer \ {w} : pc'[v] = pc[v]
         /\ UNCHANGED after
  BY DEF CallerStep, ReadHeadAndSend, DelayOver, AnswerOk, AnswerRefused, TransportError,
         Caught, Goto, Running, CommitTypeOK, history

\* So do its beginning and its end with the process.
LEMMA StartMoves ==
  ASSUME CommitTypeOK, NEW w \in Writer, StartCommit(w)
  PROVE  /\ pc[w] = "idle"
         /\ pc'[w] = "reading"
         /\ \A v \in Writer \ {w} : pc'[v] = pc[v]
         /\ after' = [after EXCEPT ![w] = {v \in Writer : Ended(v)}]
  BY DEF StartCommit, Goto, CommitTypeOK

LEMMA KilledMoves ==
  ASSUME CommitTypeOK, NEW w \in Writer, Killed(w)
  PROVE  /\ Running(w)
         /\ pc'[w] = "killed"
         /\ \A v \in Writer \ {w} : pc'[v] = pc[v]
         /\ UNCHANGED after
  BY DEF Killed, Goto, CommitTypeOK

\* GitHub moves no call.
LEMMA GitHubMoves == GitHub => UNCHANGED <<pc, after>>
  BY DEF GitHub, GitHubCommits, OtherCommits, history

\* What a publish adds to the topic.
LEMMA PublishedThen ==
  ASSUME topic \in Seq(Writer), NEW d \in Writer, topic' = Append(topic, d)
  PROVE  \A v \in Writer : Published(v)' <=> (Published(v) \/ v = d)
  <1>1. ASSUME NEW v \in Writer, Published(v)'
        PROVE  Published(v) \/ v = d
    BY <1>1 DEF Published
  <1>2. ASSUME NEW v \in Writer, Published(v)
        PROVE  Published(v)'
    BY <1>2 DEF Published
  <1>3. Published(d)'
    <2>1. topic'[Len(topic')] = d /\ Len(topic') \in 1..Len(topic')
      OBVIOUS
    <2> QED
      BY <2>1 DEF Published
  <1> QED
    BY <1>1, <1>2, <1>3

\* A step that another deployment takes leaves this one in place.
LEMMA OthersStayInPlace ==
  ASSUME NEW v \in Writer, InPlace(v),
         stage'[v] = stage[v], pc'[v] = pc[v],
         v \in complete' <=> v \in complete,
         v \in failing => v \in failing',
         Published(v)' => Published(v),
         \A c \in late' : c.by = v => c \in late
  PROVE  InPlace(v)'
  BY DEF InPlace, Blank, Over, Running

LEMMA HandlerInit == DeployInit => HandlerInv
  BY DEF DeployInit, CommitInit, HandlerInv, InPlace, Blank, Published, Over, Running

LEMMA HandlerInvStep == DeployTypeOK /\ HandlerInv /\ [DeployNext]_vars => HandlerInv'
  <1> SUFFICES ASSUME DeployTypeOK, HandlerInv, [DeployNext]_vars, NEW v \in Writer
               PROVE  InPlace(v)'
    BY DEF HandlerInv
  <1>0. CommitTypeOK /\ InPlace(v)
    BY DEF DeployTypeOK, HandlerInv
  <1> USE DEF Step, deployVars, handlerVars, outsideVars, commitVars
  <1>1. ASSUME NEW d \in Writer,
               Requested(d) \/ Admitted(d) \/ Refuse(d) \/ LookAtRunning(d) \/ Register(d)
                 \/ ReadEntity(d) \/ Answer(d)
        PROVE  InPlace(v)'
    <2>1. stage \in [Writer -> Stage] /\ UNCHANGED <<pc, topic, late, failing>>
      BY <1>1 DEF DeployTypeOK, Requested, Admitted, Refuse, LookAtRunning, Register,
                  ReadEntity, Answer
    <2>2. UNCHANGED complete \/ (ReadEntity(d) /\ complete' \in {complete, complete \cup {d}})
      BY <1>1 DEF Requested, Admitted, Refuse, LookAtRunning, Register, ReadEntity, Answer
    <2>3. CASE v # d
      <3>1. stage'[v] = stage[v]
        BY <1>1, <2>1, <2>3 DEF Requested, Admitted, Refuse, LookAtRunning, Register,
                                ReadEntity, Answer
      <3> QED
        BY <1>0, <2>1, <2>2, <2>3, <3>1, OthersStayInPlace DEF Published
    <2>4. CASE v = d
      BY <1>0, <1>1, <2>1, <2>2, <2>4
         DEF DeployTypeOK, InPlace, Blank, Published, Over, Running, Requested, Admitted,
             Refuse, LookAtRunning, Register, ReadEntity, Answer
    <2> QED
      BY <2>3, <2>4
  <1>2. ASSUME NEW d \in Writer, Publish(d)
        PROVE  InPlace(v)'
    <2>1. \A u \in Writer : Published(u)' <=> (Published(u) \/ u = d)
      BY <1>2, PublishedThen DEF DeployTypeOK, Publish
    <2>2. /\ UNCHANGED <<late, complete, failing>>
          /\ stage[d] = "publish"
          /\ stage \in [Writer -> Stage]
          /\ \A u \in Writer \ {d} : stage'[u] = stage[u]
      BY <1>2 DEF Publish, DeployTypeOK
    <2>3. CASE d \in complete /\ stage' = [stage EXCEPT ![d] = "commit"] /\ StartCommit(d)
      <3>1. pc'[d] = "reading" /\ \A u \in Writer \ {d} : pc'[u] = pc[u]
        BY <1>0, <2>3, StartMoves
      <3>2. CASE v # d
        BY <1>0, <2>1, <2>2, <3>1, <3>2, OthersStayInPlace
      <3>3. CASE v = d
        BY <2>2, <2>3, <3>1, <3>3 DEF InPlace, Over
      <3> QED
        BY <3>2, <3>3
    <2>4. CASE d \notin complete /\ stage' = [stage EXCEPT ![d] = "failed"] /\ UNCHANGED commitVars
      <3>1. CASE v # d
        BY <1>0, <2>1, <2>2, <2>4, <3>1, OthersStayInPlace
      <3>2. CASE v = d
        BY <1>0, <2>2, <2>4, <3>2 DEF InPlace, Over, Running
      <3> QED
        BY <3>1, <3>2
    <2> QED
      BY <1>2, <2>3, <2>4 DEF Publish
  <1>3. ASSUME NEW d \in Writer, CommitStep(d)
        PROVE  InPlace(v)'
    <2>1. stage[d] = "commit" /\ UNCHANGED <<stage, topic, late, complete, failing>>
      BY <1>3 DEF CommitStep
    <2>2. /\ pc'[d] \in {"reading", "awaiting", "delayed", "resolved", "threw"}
          /\ \A u \in Writer \ {d} : pc'[u] = pc[u]
      BY <1>0, <1>3, CallerMoves DEF CommitStep
    <2>3. CASE v # d
      BY <1>0, <2>1, <2>2, <2>3, OthersStayInPlace DEF Published
    <2>4. CASE v = d
      BY <2>1, <2>2, <2>4 DEF InPlace, Over
    <2> QED
      BY <2>3, <2>4
  <1>4. ASSUME NEW d \in Writer, LeavesCall(d), v # d
        PROVE  \A c \in late' : c.by = v => c \in late
    BY <1>4 DEF LeavesCall
  <1>5. ASSUME NEW d \in Writer, CallFails(d)
        PROVE  InPlace(v)'
    <2>1. /\ UNCHANGED <<pc, topic, complete>>
          /\ LeavesCall(d)
          /\ failing' = failing \cup {d}
          /\ stage[d] \in {"look", "register", "entity", "publish"}
          /\ stage' = [stage EXCEPT ![d] = "failed"]
          /\ stage \in [Writer -> Stage]
      BY <1>5 DEF CallFails, DeployTypeOK
    <2>2. CASE v # d
      BY <1>0, <1>4, <2>1, <2>2, OthersStayInPlace DEF Published
    <2>3. CASE v = d
      BY <1>0, <2>1, <2>3 DEF InPlace, Over, Running, Blank
    <2> QED
      BY <2>2, <2>3
  <1>6. ASSUME NEW d \in Writer, Dies(d)
        PROVE  InPlace(v)'
    <2>1. /\ UNCHANGED <<topic, complete, failing>>
          /\ LeavesCall(d)
          /\ Active(d)
          /\ stage' = [stage EXCEPT ![d] = "dead"]
          /\ stage \in [Writer -> Stage]
      BY <1>6 DEF Dies, DeployTypeOK
    <2>2. /\ \A u \in Writer \ {d} : pc'[u] = pc[u]
          /\ pc'[d] = "killed" \/ (pc'[d] = pc[d] /\ ~Running(d))
      BY <1>0, <1>6, KilledMoves DEF Dies
    <2>3. CASE v # d
      BY <1>0, <1>4, <2>1, <2>2, <2>3, OthersStayInPlace DEF Published
    <2>4. CASE v = d
      BY <2>1, <2>2, <2>4 DEF InPlace, Over, Running
    <2> QED
      BY <2>3, <2>4
  <1>7. ASSUME UNCHANGED <<stage, pc, topic, late, complete, failing>>
        PROVE  InPlace(v)'
    BY <1>0, <1>7, OthersStayInPlace DEF Published
  <1>8. ASSUME NEW c \in late, ArrivesLate(c)
        PROVE  InPlace(v)'
    <2>1. /\ UNCHANGED <<stage, pc, complete, failing>>
          /\ late' = late \ {c}
          /\ UNCHANGED topic \/ topic' = Append(topic, c.by)
          /\ c.by \in Writer /\ topic \in Seq(Writer)
      BY <1>8 DEF ArrivesLate, DeployTypeOK, Call
    <2>2. CASE v # c.by
      <3>1. Published(v)' => Published(v)
        BY <2>1, <2>2, PublishedThen DEF Published
      <3> QED
        BY <1>0, <2>1, <3>1, OthersStayInPlace
    <2>3. CASE v = c.by
      <3>1. ~Blank(v)
        BY <2>3 DEF Blank
      <3> QED
        BY <1>0, <2>1, <3>1 DEF InPlace, Over, Running
    <2> QED
      BY <2>2, <2>3
  <1>9. ASSUME GitHubStep \/ Deliver \/ AllOver \/ UNCHANGED vars
        PROVE  InPlace(v)'
    BY <1>7, <1>9, GitHubMoves DEF GitHubStep, Deliver, AllOver, vars
  <1> QED
    BY <1>1, <1>2, <1>3, <1>5, <1>6, <1>8, <1>9 DEF DeployNext, HandlerStep

-----------------------------------------------------------------------------
(* The three records. *)

\* A step that records nothing for anybody and starts no commit keeps RecordsInv,
\* when it lets nobody past the registration.
LEMMA NothingRecorded ==
  ASSUME RecordsInv, UNCHANGED <<topic, registered>>,
         \A v \in Writer : stage'[v] \in {"entity", "publish", "commit"} =>
           stage[v] \in {"entity", "publish", "commit"},
         \A v \in Writer : pc'[v] # "idle" => pc[v] # "idle",
         \A c \in late' : c.call = "publish" => c \in late \/ c.by \in registered
  PROVE  RecordsInv'
  BY DEF RecordsInv, Published

LEMMA RecordsInit == DeployInit => RecordsInv
  BY DEF DeployInit, CommitInit, RecordsInv, Published

LEMMA RecordsStep ==
  DeployTypeOK /\ HandlerInv /\ RecordsInv /\ [DeployNext]_vars => RecordsInv'
  <1> SUFFICES ASSUME DeployTypeOK, HandlerInv, RecordsInv, [DeployNext]_vars
               PROVE  RecordsInv'
    OBVIOUS
  <1>0. /\ CommitTypeOK
        /\ stage \in [Writer -> Stage] /\ topic \in Seq(Writer)
        /\ \A c \in late : c.by \in Writer
        /\ \A d \in Writer : InPlace(d)
    BY DEF DeployTypeOK, HandlerInv, Call
  <1> USE DEF Step, deployVars, handlerVars, outsideVars, commitVars
  <1>1. ASSUME NEW d \in Writer,
               Requested(d) \/ Admitted(d) \/ Refuse(d) \/ LookAtRunning(d) \/ Answer(d)
                 \/ ReadEntity(d)
        PROVE  RecordsInv'
    <2>1. UNCHANGED <<topic, registered, pc, late>>
      BY <1>1 DEF Requested, Admitted, Refuse, LookAtRunning, Answer, ReadEntity
    <2>2. \A v \in Writer : stage'[v] \in {"entity", "publish", "commit"} =>
            stage[v] \in {"entity", "publish", "commit"}
      BY <1>0, <1>1 DEF Requested, Admitted, Refuse, LookAtRunning, Answer, ReadEntity
    <2> QED
      BY <2>1, <2>2, NothingRecorded
  <1>2. ASSUME NEW d \in Writer, Register(d)
        PROVE  RecordsInv'
    BY <1>0, <1>2 DEF Register, RecordsInv, Published
  <1>3. ASSUME NEW d \in Writer, Publish(d)
        PROVE  RecordsInv'
    <2>1. \A v \in Writer : Published(v)' <=> (Published(v) \/ v = d)
      BY <1>0, <1>3, PublishedThen DEF Publish
    <2>2. UNCHANGED <<late, registered>> /\ d \in registered
      BY <1>3 DEF Publish, RecordsInv
    <2>3. \A v \in Writer \ {d} : pc'[v] = pc[v] /\ stage'[v] = stage[v]
      BY <1>0, <1>3, StartMoves DEF Publish
    <2> QED
      BY <2>1, <2>2, <2>3 DEF RecordsInv
  <1>4. ASSUME NEW d \in Writer, CommitStep(d)
        PROVE  RecordsInv'
    BY <1>0, <1>4, CallerMoves, NothingRecorded DEF CommitStep, Running
  <1>5. ASSUME NEW d \in Writer, CallFails(d) \/ Dies(d)
        PROVE  RecordsInv'
    <2>1. /\ UNCHANGED <<topic, registered>>
          /\ stage'[d] \in {"failed", "dead"}
          /\ \A v \in Writer \ {d} : stage'[v] = stage[v]
      BY <1>0, <1>5 DEF CallFails, Dies
    <2>2. \A v \in Writer : pc'[v] # "idle" => pc[v] # "idle"
      BY <1>0, <1>5, KilledMoves DEF CallFails, Dies, Running
    <2>3. \A c \in late' : c.call = "publish" => c \in late \/ c.by \in registered
      BY <1>0, <1>5 DEF CallFails, Dies, LeavesCall, RecordsInv
    <2> QED
      BY <2>1, <2>2, <2>3, NothingRecorded
  <1>6. ASSUME NEW c \in late, ArrivesLate(c)
        PROVE  RecordsInv'
    <2>1. UNCHANGED <<stage, pc>> /\ late' \subseteq late /\ c.by \in Writer
      BY <1>0, <1>6 DEF ArrivesLate
    <2>2. CASE c.call = "register" /\ registered' = registered \cup {c.by} /\ UNCHANGED topic
      BY <2>1, <2>2 DEF RecordsInv, Published
    <2>3. CASE c.call = "publish" /\ topic' = Append(topic, c.by) /\ UNCHANGED registered
      <3>1. \A v \in Writer : Published(v)' <=> (Published(v) \/ v = c.by)
        BY <1>0, <2>1, <2>3, PublishedThen
      <3>2. c.by \in registered
        BY <2>3 DEF RecordsInv
      <3> QED
        BY <2>1, <2>3, <3>1, <3>2 DEF RecordsInv
    <2> QED
      BY <1>6, <2>2, <2>3 DEF ArrivesLate
  <1>7. ASSUME GitHubStep \/ Deliver \/ AllOver \/ UNCHANGED vars
        PROVE  RecordsInv'
    <2>1. UNCHANGED <<topic, registered, stage, pc, late>>
      BY <1>7, GitHubMoves DEF GitHubStep, Deliver, AllOver, vars
    <2> QED
      BY <2>1, NothingRecorded
  <1> QED
    BY <1>1, <1>2, <1>3, <1>4, <1>5, <1>6, <1>7 DEF DeployNext, HandlerStep

-----------------------------------------------------------------------------
(* What was there before. *)

LEMMA BeforeInit == DeployInit => BeforeInv
  BY DEF DeployInit, BeforeInv

\* A deployment that is over, with no call late, is so for good.
LEMMA SettledStays == DeployTypeOK /\ [DeployNext]_vars => Settled \subseteq Settled'
  <1> SUFFICES ASSUME DeployTypeOK, [DeployNext]_vars, NEW r \in Settled
               PROVE  Over(r)' /\ \A c \in late' : c.by # r
    BY DEF Settled
  <1>0. r \in Writer /\ Over(r) /\ (\A c \in late : c.by # r) /\ stage \in [Writer -> Stage]
    BY DEF Settled, DeployTypeOK
  <1> USE DEF Step, deployVars, handlerVars, outsideVars, commitVars
  <1>1. ASSUME NEW d \in Writer, Requested(d) \/ HandlerStep(d) \/ Dies(d)
        PROVE  Over(r)' /\ \A c \in late' : c.by # r
    <2>1. CASE CommitStep(d)
      BY <1>0, <2>1 DEF CommitStep, Over
    <2>2. CASE ~CommitStep(d)
      <3>1. ~Over(d)
        BY <1>1, <2>2
           DEF Over, Active, Requested, HandlerStep, Admitted, Refuse, LookAtRunning, Register,
               ReadEntity, Publish, Answer, CallFails, Dies
      <3>2. /\ \A v \in Writer \ {d} : stage'[v] = stage[v]
            /\ UNCHANGED late \/ LeavesCall(d)
        BY <1>0, <1>1, <2>2
           DEF Requested, HandlerStep, Admitted, Refuse, LookAtRunning, Register,
               ReadEntity, Publish, Answer, CallFails, Dies
      <3>3. r # d
        BY <1>0, <3>1
      <3> QED
        BY <1>0, <3>2, <3>3 DEF Over, LeavesCall
    <2> QED
      BY <2>1, <2>2
  <1>2. ASSUME GitHubStep \/ (\E c \in late : ArrivesLate(c)) \/ Deliver \/ AllOver
                 \/ UNCHANGED vars
        PROVE  UNCHANGED stage /\ late' \subseteq late
    BY <1>2 DEF GitHubStep, ArrivesLate, Deliver, AllOver, vars
  <1> QED
    BY <1>0, <1>1, <1>2 DEF DeployNext, Over

\* What is published now comes after everything that has been.
LEMMA PublishedLast ==
  ASSUME topic \in Seq(Writer), NEW u \in Writer, topic' = Append(topic, u),
         NEW r \in Writer, NEW d \in Writer, r # u,
         \A i, j \in 1..Len(topic) : topic[i] = r /\ topic[j] = d => i < j
  PROVE  \A i, j \in 1..Len(topic') : topic'[i] = r /\ topic'[j] = d => i < j
  OBVIOUS

\* A step by which nothing is published and no commit begins keeps BeforeInv.
LEMMA NothingNew ==
  ASSUME BeforeInv, UNCHANGED <<before, topic, after>>, Settled \subseteq Settled',
         \A v \in Writer : stage'[v] = "none" => stage[v] = "none",
         \A v \in Writer : pc'[v] # "idle" => pc[v] # "idle",
         before \in [Writer -> SUBSET Writer]
  PROVE  BeforeInv'
  BY DEF BeforeInv

LEMMA BeforeStep ==
  DeployTypeOK /\ HandlerInv /\ BeforeInv /\ [DeployNext]_vars => BeforeInv'
  <1> SUFFICES ASSUME DeployTypeOK, HandlerInv, BeforeInv, [DeployNext]_vars
               PROVE  BeforeInv'
    OBVIOUS
  <1>0. /\ CommitTypeOK /\ pc \in [Writer -> CallState] /\ after \in [Writer -> SUBSET Writer]
        /\ stage \in [Writer -> Stage] /\ topic \in Seq(Writer)
        /\ before \in [Writer -> SUBSET Writer]
        /\ \A c \in late : c.by \in Writer
        /\ \A d \in Writer : InPlace(d)
        /\ Settled \subseteq Settled'
    BY SettledStays DEF DeployTypeOK, CommitTypeOK, HandlerInv, Call
  <1> USE DEF Step, deployVars, handlerVars, outsideVars, commitVars
  <1>1. ASSUME NEW d \in Writer, Requested(d)
        PROVE  BeforeInv'
    <2>1. /\ stage[d] = "none" /\ stage' = [stage EXCEPT ![d] = "admit"]
          /\ before' = [before EXCEPT ![d] = Settled]
          /\ UNCHANGED <<pc, topic, after, late>>
      BY <1>1 DEF Requested
    <2>2. d \notin Settled /\ pc[d] = "idle" /\ ~Published(d)
      BY <1>0, <2>1 DEF Settled, Over, InPlace, Blank
    <2>3. \A r \in Settled : \A i, j \in 1..Len(topic') : topic'[i] = r /\ topic'[j] = d => i < j
      BY <2>1, <2>2 DEF Published
    <2> QED
      BY <1>0, <2>1, <2>2, <2>3 DEF BeforeInv
  <1>2. ASSUME NEW d \in Writer,
               Admitted(d) \/ Refuse(d) \/ LookAtRunning(d) \/ Register(d) \/ ReadEntity(d)
                 \/ Answer(d) \/ CallFails(d)
        PROVE  BeforeInv'
    <2>1. UNCHANGED <<before, topic, after, pc>>
      BY <1>2 DEF Admitted, Refuse, LookAtRunning, Register, ReadEntity, Answer, CallFails
    <2>2. \A v \in Writer : stage'[v] = "none" => stage[v] = "none"
      BY <1>0, <1>2 DEF Admitted, Refuse, LookAtRunning, Register, ReadEntity, Answer, CallFails
    <2> QED
      BY <1>0, <2>1, <2>2, NothingNew
  <1>3. ASSUME NEW d \in Writer, Publish(d)
        PROVE  BeforeInv'
    <2>1. /\ stage[d] = "publish" /\ UNCHANGED before
          /\ topic' = Append(topic, d)
          /\ \A v \in Writer : stage'[v] = "none" => stage[v] = "none"
      BY <1>0, <1>3 DEF Publish
    <2>2. d \notin Settled
      BY <2>1 DEF Settled, Over
    <2>3. SUFFICES ASSUME NEW v \in Writer, NEW r \in before[v]
                   PROVE  /\ pc'[v] # "idle" /\ pc'[r] # "idle" => r \in after'[v]
                          /\ \A i, j \in 1..Len(topic') : topic'[i] = r /\ topic'[j] = v => i < j
      BY <1>0, <2>1 DEF BeforeInv
    <2>4. r \in Writer /\ r \in Settled /\ r # d /\ ~Running(r)
      BY <1>0, <2>2 DEF BeforeInv, Settled, InPlace
    <2>5. \A i, j \in 1..Len(topic') : topic'[i] = r /\ topic'[j] = v => i < j
      BY <1>0, <2>1, <2>4, PublishedLast DEF BeforeInv
    <2>6. CASE StartCommit(d)
      <3>1. /\ \A u \in Writer \ {d} : pc'[u] = pc[u]
            /\ after' = [after EXCEPT ![d] = {u \in Writer : Ended(u)}]
        BY <1>0, <2>6, StartMoves
      <3>2. pc'[r] # "idle" => Ended(r)
        BY <1>0, <2>4, <3>1 DEF Running, Ended, CallState
      <3> QED
        BY <1>0, <2>4, <2>5, <3>1, <3>2 DEF BeforeInv
    <2>7. CASE UNCHANGED commitVars
      BY <2>5, <2>7 DEF BeforeInv
    <2> QED
      BY <1>3, <2>6, <2>7 DEF Publish
  <1>4. ASSUME NEW d \in Writer, CommitStep(d)
        PROVE  BeforeInv'
    <2>1. UNCHANGED <<before, topic, stage, after>>
      BY <1>0, <1>4, CallerMoves DEF CommitStep
    <2>2. \A v \in Writer : pc'[v] # "idle" => pc[v] # "idle"
      BY <1>0, <1>4, CallerMoves DEF CommitStep, Running
    <2> QED
      BY <1>0, <2>1, <2>2, NothingNew
  <1>5. ASSUME NEW d \in Writer, Dies(d)
        PROVE  BeforeInv'
    <2>1. /\ UNCHANGED <<before, topic, after>>
          /\ \A v \in Writer : pc'[v] # "idle" => pc[v] # "idle"
      BY <1>0, <1>5, KilledMoves DEF Dies, Running
    <2>2. \A v \in Writer : stage'[v] = "none" => stage[v] = "none"
      BY <1>0, <1>5 DEF Dies
    <2> QED
      BY <1>0, <2>1, <2>2, NothingNew
  <1>6. ASSUME NEW c \in late, ArrivesLate(c)
        PROVE  BeforeInv'
    <2>1. /\ UNCHANGED <<before, pc, after, stage>>
          /\ UNCHANGED topic \/ topic' = Append(topic, c.by)
          /\ c.by \in Writer /\ c.by \notin Settled
      BY <1>0, <1>6 DEF ArrivesLate, Settled
    <2>2. CASE UNCHANGED topic
      BY <1>0, <2>1, <2>2, NothingNew
    <2>3. CASE topic' = Append(topic, c.by)
      <3>1. ASSUME NEW v \in Writer, NEW r \in before[v]
            PROVE  \A i, j \in 1..Len(topic') : topic'[i] = r /\ topic'[j] = v => i < j
        <4>1. r \in Writer /\ r # c.by
          BY <1>0, <2>1 DEF BeforeInv, Settled
        <4> QED
          BY <1>0, <2>1, <2>3, <4>1, PublishedLast DEF BeforeInv
      <3> QED
        BY <1>0, <2>1, <3>1 DEF BeforeInv
    <2> QED
      BY <2>1, <2>2, <2>3
  <1>7. ASSUME GitHubStep \/ Deliver \/ AllOver \/ UNCHANGED vars
        PROVE  BeforeInv'
    <2>1. UNCHANGED <<before, topic, stage, pc, after>>
      BY <1>7, GitHubMoves DEF GitHubStep, Deliver, AllOver, vars
    <2> QED
      BY <1>0, <2>1, NothingNew
  <1> QED
    BY <1>1, <1>2, <1>3, <1>4, <1>5, <1>6, <1>7 DEF DeployNext, HandlerStep

-----------------------------------------------------------------------------
(* What a deploy to zero saw. *)

LEMMA ZeroInit == DeployInit => ZeroInv
  BY DEF DeployInit, ZeroInv, SeesRight, NoRequest

\* A message on the topic stays where it is, and what it asks for does not change.
LEMMA MessagesStay ==
  DeployTypeOK /\ HandlerInv /\ [DeployNext]_vars => \A e \in Env : Messages(e) \subseteq Messages(e)'
  <1> SUFFICES ASSUME DeployTypeOK, HandlerInv, [DeployNext]_vars,
                      NEW e \in Env, NEW i \in Messages(e)
               PROVE  i \in Messages(e)'
    OBVIOUS
  <1>1. /\ i \in 1..Len(topic) /\ request[topic[i]].env = e /\ topic[i] \in Writer
        /\ topic \in Seq(Writer) /\ Published(topic[i])
    BY DEF Messages, DeployTypeOK, Published
  <1> USE DEF deployVars, handlerVars, outsideVars
  <1>2. UNCHANGED topic \/ \E d \in Writer : topic' = Append(topic, d)
    BY DEF DeployNext, HandlerStep, Requested, Admitted, Refuse, LookAtRunning, Register, ReadEntity,
           Publish, CommitStep, Answer, CallFails, Dies, GitHubStep, ArrivesLate, Deliver, AllOver,
           vars, DeployTypeOK, Call
  <1>3. i \in 1..Len(topic') /\ topic'[i] = topic[i]
    BY <1>1, <1>2
  <1>4. request'[topic[i]] = request[topic[i]]
    <2>1. ASSUME NEW d \in Writer, Requested(d)
          PROVE  request'[topic[i]] = request[topic[i]]
      <3>1. Blank(d)
        BY <2>1 DEF Requested, HandlerInv, InPlace
      <3>2. d # topic[i]
        BY <1>1, <3>1 DEF Blank
      <3> QED
        BY <1>1, <2>1, <3>2 DEF Requested
    <2>2. CASE ~\E d \in Writer : Requested(d)
      BY <2>2
         DEF DeployNext, HandlerStep, Admitted, Refuse, LookAtRunning, Register, ReadEntity,
             Publish, CommitStep, Answer, CallFails, Dies, GitHubStep, ArrivesLate, Deliver,
             AllOver, vars
    <2> QED
      BY <2>1, <2>2
  <1> QED
    BY <1>1, <1>3, <1>4 DEF Messages

\* A step that neither delivers nor gives v anything new to send keeps SeesRight.
LEMMA NothingSeen ==
  ASSUME NEW v \in Writer, SeesRight(v), UNCHANGED <<delivered, running>>,
         request'[v] = request[v], details'[v] = details[v], looked'[v] = looked[v],
         Sends(v)' => Sends(v)
  PROVE  SeesRight(v)'
  BY DEF SeesRight

LEMMA SeesRightStep ==
  ASSUME DeployTypeOK, HandlerInv, ZeroInv, [DeployNext]_vars, Fifo, NEW v \in Writer
  PROVE  SeesRight(v)'
  <1>0. /\ stage \in [Writer -> Stage] /\ topic \in Seq(Writer)
        /\ \A c \in late : c.by \in Writer
        /\ InPlace(v) /\ SeesRight(v)
    BY DEF DeployTypeOK, HandlerInv, ZeroInv, Call
  <1> USE DEF Step, deployVars, handlerVars, outsideVars
  <1>1. ASSUME NEW d \in Writer, Requested(d) \/ Admitted(d) \/ LookAtRunning(d)
        PROVE  SeesRight(v)'
    <2>1. /\ UNCHANGED <<topic, late, delivered, running>>
          /\ stage[d] \in {"none", "admit", "look"}
          /\ \A u \in Writer \ {d} : stage'[u] = stage[u]
      BY <1>0, <1>1 DEF Requested, Admitted, LookAtRunning
    <2>2. CASE v # d
      <3>1. request'[v] = request[v] /\ details'[v] = details[v] /\ looked'[v] = looked[v]
        BY <1>1, <2>2 DEF Requested, Admitted, LookAtRunning, DeployTypeOK
      <3> QED
        BY <1>0, <2>1, <2>2, <3>1, NothingSeen DEF Sends, Published
    <2>3. CASE v = d
      <3>1. Sends(v)' => stage'[v] \in {"register", "entity", "publish", "commit"}
        BY <1>0, <2>1, <2>3 DEF InPlace, Blank, Sends, Published
      <3>2. CASE Requested(d)
        BY <1>0, <2>3, <3>1, <3>2 DEF Requested, SeesRight
      <3>3. CASE Admitted(d)
        BY <1>0, <2>3, <3>1, <3>3 DEF Admitted, SeesRight
      <3>4. CASE LookAtRunning(d) /\ stage' = [stage EXCEPT ![d] = "failed"]
        BY <1>0, <2>3, <3>1, <3>4 DEF SeesRight
      <3>5. CASE LookAtRunning(d) /\ stage' # [stage EXCEPT ![d] = "failed"]
        <4>1. /\ UNCHANGED request
              /\ details' = [details EXCEPT ![d] =
                   [version |-> running[request[d].env].version, count |-> 0]]
              /\ looked' = [looked EXCEPT ![d] = delivered[request[d].env]]
          BY <3>5 DEF LookAtRunning
        <4>2. request[d].env \in Env
          BY <2>1, <3>5 DEF LookAtRunning, DeployTypeOK, Request
        <4>3. delivered[request[d].env] \in Nat
          BY <4>2 DEF DeployTypeOK
        <4>4. details'[d].count = 0 /\ details'[d].version = running[request[d].env].version
          BY <4>1 DEF DeployTypeOK
        <4>5. looked'[d] = delivered[request[d].env]
          BY <4>1 DEF DeployTypeOK
        <4> QED
          BY <2>1, <2>3, <4>1, <4>3, <4>4, <4>5 DEF SeesRight
      <3> QED
        BY <1>1, <3>2, <3>3, <3>4, <3>5
    <2> QED
      BY <2>2, <2>3
  <1>2. ASSUME NEW d \in Writer,
               Refuse(d) \/ Register(d) \/ ReadEntity(d) \/ Publish(d) \/ CommitStep(d)
                 \/ Answer(d) \/ CallFails(d) \/ Dies(d)
        PROVE  SeesRight(v)'
    <2>1. UNCHANGED <<request, details, looked, delivered, running>>
      BY <1>2 DEF Refuse, Register, ReadEntity, Publish, CommitStep, Answer, CallFails, Dies
    <2>2. Sends(v)' => Sends(v)
      <3>1. CASE Publish(d)
        <4>1. Published(v)' <=> (Published(v) \/ v = d)
          BY <1>0, <3>1, PublishedThen DEF Publish
        <4> QED
          BY <1>0, <3>1, <4>1 DEF Publish, Sends
      <3>2. CASE CallFails(d) \/ Dies(d)
        BY <1>0, <3>2 DEF CallFails, Dies, LeavesCall, Sends, Published
      <3>3. CASE Refuse(d) \/ Register(d) \/ ReadEntity(d) \/ CommitStep(d) \/ Answer(d)
        BY <1>0, <3>3 DEF Refuse, Register, ReadEntity, CommitStep, Answer, Sends, Published
      <3> QED
        BY <1>2, <3>1, <3>2, <3>3
    <2> QED
      BY <1>0, <2>1, <2>2, NothingSeen
  <1>3. ASSUME Deliver
        PROVE  SeesRight(v)'
    <2>1. PICK e \in Env : \E i \in Messages(e) :
            /\ NextInGroup(i, e) /\ delivered' = [delivered EXCEPT ![e] = i]
            /\ running' = [running EXCEPT ![e] = details[topic[i]]]
      BY <1>3 DEF Deliver
    <2>2. PICK i \in Messages(e) :
            /\ NextInGroup(i, e) /\ delivered' = [delivered EXCEPT ![e] = i]
            /\ running' = [running EXCEPT ![e] = details[topic[i]]]
      BY <2>1
    <2>3. /\ UNCHANGED <<request, details, looked, stage, topic, late>>
          /\ looked[v] \in Nat /\ i \in Nat /\ i > delivered[e] /\ delivered[e] \in Nat
      BY <1>3, <2>2 DEF Deliver, NextInGroup, Messages, DeployTypeOK
    <2>4. Sends(v)' => Sends(v)
      BY <2>3 DEF Sends, Published
    <2>5. CASE request[v].env = e
      <3>1. delivered'[request[v].env] = i
        BY <2>2, <2>5 DEF DeployTypeOK
      <3> QED
        BY <1>0, <2>3, <2>4, <2>5, <3>1 DEF SeesRight
    <2>6. CASE request[v].env # e /\ request[v].env \in Env
      <3>1. /\ delivered'[request[v].env] = delivered[request[v].env]
            /\ running'[request[v].env] = running[request[v].env]
        BY <2>2, <2>6 DEF DeployTypeOK
      <3> QED
        BY <1>0, <2>3, <2>4, <3>1 DEF SeesRight
    <2>7. CASE request[v].env \notin Env
      BY <2>3, <2>7 DEF SeesRight, DeployTypeOK, Request, NoRequest
    <2> QED
      BY <2>5, <2>6, <2>7
  <1>4. ASSUME NEW c \in late, ArrivesLate(c)
        PROVE  SeesRight(v)'
    <2>1. Published(v)' => Published(v) \/ v = c.by
      BY <1>0, <1>4, PublishedThen DEF ArrivesLate, Published
    <2> QED
      BY <1>0, <1>4, <2>1, NothingSeen DEF ArrivesLate, Sends
  <1>5. ASSUME GitHubStep \/ AllOver \/ UNCHANGED vars
        PROVE  SeesRight(v)'
    BY <1>0, <1>5, NothingSeen DEF GitHubStep, AllOver, vars, Sends, Published
  <1> QED
    BY <1>1, <1>2, <1>3, <1>4, <1>5 DEF DeployNext, HandlerStep

LEMMA ZeroStep == DeployTypeOK /\ HandlerInv /\ ZeroInv /\ [DeployNext]_vars => ZeroInv'
  <1> SUFFICES ASSUME DeployTypeOK, HandlerInv, ZeroInv, [DeployNext]_vars, Fifo
               PROVE  ZeroInv'
    BY DEF ZeroInv
  <1>1. \A v \in Writer : SeesRight(v)'
    BY SeesRightStep
  <1>2. ASSUME NEW e \in Env
        PROVE  delivered'[e] \in Messages(e)' \cup {0}
    <2>1. Messages(e) \subseteq Messages(e)'
      BY MessagesStay
    <2>2. delivered[e] \in Messages(e) \cup {0}
      BY DEF ZeroInv
    <2>3. delivered'[e] = delivered[e] \/ delivered'[e] \in Messages(e)
      <3>1. CASE Deliver
        BY <3>1 DEF Deliver, DeployTypeOK
      <3>2. CASE ~Deliver
        BY <3>2
           DEF DeployNext, HandlerStep, Requested, Admitted, Refuse, LookAtRunning, Register,
               ReadEntity, Publish, CommitStep, Answer, CallFails, Dies, GitHubStep, ArrivesLate,
               AllOver, vars, deployVars, outsideVars
      <3> QED
        BY <3>1, <3>2
    <2> QED
      BY <2>1, <2>2, <2>3
  <1> QED
    BY <1>1, <1>2 DEF ZeroInv

-----------------------------------------------------------------------------
(* The theorems. *)

DeployInv ==
  CommitInv /\ DeployTypeOK /\ HandlerInv /\ RecordsInv /\ BeforeInv /\ ZeroInv

LEMMA DeployInvariance == DeploySpec => []DeployInv
  <1>1. DeployInit => DeployTypeOK /\ HandlerInv /\ RecordsInv /\ BeforeInv /\ ZeroInv
    BY DeployTypeInit, HandlerInit, RecordsInit, BeforeInit, ZeroInit
  <1>2. DeployTypeOK /\ HandlerInv /\ RecordsInv /\ BeforeInv /\ ZeroInv /\ [DeployNext]_vars
          => (DeployTypeOK /\ HandlerInv /\ RecordsInv /\ BeforeInv /\ ZeroInv)'
    BY DeployTypeStep, HandlerInvStep, RecordsStep, BeforeStep, ZeroStep
  <1>3. DeploySpec => []CommitInv
    BY DeployCommits, Invariance, PTL
  <1>4. DeployInv <=> CommitInv /\ DeployTypeOK /\ HandlerInv /\ RecordsInv /\ BeforeInv /\ ZeroInv
    BY DEF DeployInv
  <1> QED
    BY <1>1, <1>2, <1>3, <1>4, PTL DEF DeploySpec

\* What is asked for is not nothing.
LEMMA RequestIsSome == \A r \in Request : r # NoRequest
  BY DEF Request, NoRequest

\* A call of commitFile that has landed a commit has begun.
LEMMA LandedBegan ==
  ASSUME CommitInv, NEW d \in Writer, Landed(d)
  PROVE  pc[d] # "idle"
  BY DEF CommitInv, OrderInv, BranchInv, Landed

\* A file on main has its message on the topic, and a message on the topic has
\* its deployment in the portal, whatever fails, is lost, late or dies.
THEOREM DeployInOrder == DeploySpec => []RecordsInOrder
  <1>1. DeployInv => RecordsInOrder
    BY LandedBegan DEF DeployInv, RecordsInv, RecordsInOrder
  <1> QED
    BY <1>1, DeployInvariance, PTL

\* A deployment answered 200 has all three records.
THEOREM DeployOk == DeploySpec => []OkMeansAllRecorded
  <1>1. DeployInv => OkMeansAllRecorded
    <2> SUFFICES ASSUME DeployInv, NEW d \in Writer, stage[d] = "ok"
                 PROVE  d \in registered /\ Published(d) /\ Landed(d)
      BY DEF OkMeansAllRecorded
    <2>1. pc[d] = "resolved"
      BY DEF DeployInv, HandlerInv, InPlace
    <2>2. LandedAs(d, Attempt(d))
      BY <2>1 DEF DeployInv, CommitInv, ResolvedInv
    <2> QED
      BY <2>1, <2>2 DEF DeployInv, RecordsInv, LandedAs, Landed
  <1> QED
    BY <1>1, DeployInvariance, PTL

\* A deployment that stops between its message and its file has one of three
\* reasons, for every number of retries.
THEOREM DeployHalfDone == DeploySpec => []HalfDoneIsExplained
  <1>1. DeployInv => HalfDoneIsExplained
    <2> SUFFICES ASSUME DeployInv, NEW d \in Writer, stage[d] = "failed", d \in complete,
                        d \notin failing, d \notin faulty
                 PROVE  closed[d] >= opened[d] + Retries + 1
      BY DEF HalfDoneIsExplained
    <2>1. pc[d] = "threw"
      BY DEF DeployInv, HandlerInv, InPlace
    <2> QED
      BY <2>1, RetriesAssumption DEF DeployInv, CommitInv, CommitTypeOK, CleanInv
  <1> QED
    BY <1>1, DeployInvariance, PTL

\* A deployment answered 200 that ran alone in its environment is the last one
\* both on the topic and in the file on main, whatever the ones before it left.
THEOREM DeployAlone == DeploySpec => []AloneIsLastEverywhere
  <1>1. DeployInv /\ RealTimeOrder /\ OkMeansAllRecorded => AloneIsLastEverywhere
    <2> SUFFICES ASSUME DeployInv, RealTimeOrder, OkMeansAllRecorded,
                        NEW d \in Writer, stage[d] = "ok", Rivals(d) \subseteq before[d]
                 PROVE  /\ \A i \in FileHistory(request[d].env) :
                             \E j \in FileHistory(request[d].env) : branch[j].by = d /\ i <= j
                        /\ \A i \in 1..Len(topic) : topic[i] \in Rivals(d) =>
                             \E j \in 1..Len(topic) : topic[j] = d /\ i < j
      BY DEF AloneIsLastEverywhere
    <2>1. Published(d) /\ Landed(d) /\ pc[d] # "idle"
      BY LandedBegan DEF OkMeansAllRecorded, DeployInv
    <2>2. PICK k \in 1..Len(branch) : branch[k].by = d
      BY <2>1 DEF Landed
    <2>3. k \in FileHistory(request[d].env)
      BY <2>2, WriterAssumption DEF FileHistory
    <2>4. ASSUME NEW i \in FileHistory(request[d].env), branch[i].by # d
          PROVE  i < k
      <3>1. i \in 1..Len(branch) /\ branch[i].by \in Writer
        <4>1. i \in 1..Len(branch) /\ branch[i].by # Other
          BY DEF FileHistory
        <4>2. branch[i] \in Commit
          BY <4>1 DEF DeployInv, CommitInv, CommitTypeOK
        <4> QED
          BY <4>1, <4>2 DEF Commit
      <3>2. Landed(branch[i].by)
        BY <3>1 DEF Landed
      <3>3. pc[branch[i].by] # "idle"
        BY <3>1, <3>2, LandedBegan DEF DeployInv
      <3>4. request[branch[i].by] # NoRequest
        <4>1. stage[branch[i].by] # "none"
          BY <3>1, <3>3 DEF DeployInv, HandlerInv, InPlace, Blank
        <4> QED
          BY <3>1, <4>1, RequestIsSome DEF DeployInv, DeployTypeOK
      <3>5. branch[i].by \in before[d]
        BY <2>4, <3>1, <3>4 DEF FileHistory, Rivals
      <3>6. branch[i].by \in after[d]
        BY <2>1, <3>3, <3>5 DEF DeployInv, BeforeInv
      <3> QED
        BY <2>2, <3>1, <3>6 DEF RealTimeOrder
    <2>5. \A i \in FileHistory(request[d].env) :
            \E j \in FileHistory(request[d].env) : branch[j].by = d /\ i <= j
      <3> TAKE i \in FileHistory(request[d].env)
      <3>1. i \in Nat /\ k \in Nat
        BY DEF FileHistory
      <3>2. CASE branch[i].by = d
        BY <3>1, <3>2
      <3>3. CASE branch[i].by # d
        BY <2>2, <2>3, <2>4, <3>1, <3>3
      <3> QED
        BY <3>2, <3>3
    <2>6. PICK n \in 1..Len(topic) : topic[n] = d
      BY <2>1 DEF Published
    <2>7. \A i \in 1..Len(topic) : topic[i] \in Rivals(d) =>
            \E j \in 1..Len(topic) : topic[j] = d /\ i < j
      BY <2>6 DEF DeployInv, BeforeInv
    <2> QED
      BY <2>5, <2>7
  <1> QED
    BY <1>1, DeployInvariance, DeployOk, DeployCommits, CommitOrder, PTL

\* On a fifo topic a deploy to zero takes the instances away and leaves the
\* version, unless another message came between its look and its own.
THEOREM DeployZero == DeploySpec => ZeroKeepsVersion
  <1>1. ASSUME DeployInv, [DeployNext]_vars, Fifo, NEW e \in Env, QuietZero(e)
        PROVE  running'[e].count = 0 /\ running'[e].version = running[e].version
    <2>1. delivered'[e] # delivered[e]
      BY <1>1 DEF QuietZero
    <2>2. Deliver
      BY <1>1, <2>1
         DEF DeployNext, HandlerStep, Requested, Admitted, Refuse, LookAtRunning, Register,
             ReadEntity, Publish, CommitStep, Answer, CallFails, Dies, GitHubStep, ArrivesLate,
             AllOver, vars, deployVars, outsideVars
    <2>3. PICK i \in Messages(e) :
            /\ NextInGroup(i, e) /\ delivered' = [delivered EXCEPT ![e] = i]
            /\ running' = [running EXCEPT ![e] = details[topic[i]]]
      BY <1>1, <2>1, <2>2 DEF Deliver, DeployInv, DeployTypeOK
    <2>4. delivered'[e] = i /\ running'[e] = details[topic[i]]
      BY <1>1, <2>3 DEF DeployInv, DeployTypeOK
    <2>5. /\ topic[i] \in Writer /\ Published(topic[i])
          /\ request[topic[i]].env = e /\ request[topic[i]].kind = "zero"
      BY <1>1, <2>4 DEF QuietZero, Messages, Published, DeployInv, DeployTypeOK
    <2>6. /\ details[topic[i]].count = 0
          /\ looked[topic[i]] <= delivered[e]
          /\ looked[topic[i]] = delivered[e] => details[topic[i]].version = running[e].version
      BY <1>1, <2>5 DEF DeployInv, ZeroInv, SeesRight, Sends
    <2>7. delivered[e] \in Nat /\ looked[topic[i]] \in Nat /\ i \in Nat /\ i > delivered[e]
      BY <1>1, <2>3, <2>5 DEF NextInGroup, Messages, DeployInv, DeployTypeOK
    <2>8. delivered[e] <= looked[topic[i]]
      <3>1. CASE delivered[e] = 0
        BY <2>7, <3>1
      <3>2. CASE delivered[e] \in Messages(e)
        BY <1>1, <2>4, <2>7, <3>2 DEF QuietZero
      <3> QED
        BY <1>1, <3>1, <3>2 DEF DeployInv, ZeroInv
    <2> QED
      BY <2>4, <2>6, <2>7, <2>8
  <1>2. DeployInv /\ [DeployNext]_vars =>
          [Fifo => \A e \in Env : QuietZero(e) =>
             running'[e].count = 0 /\ running'[e].version = running[e].version]_vars
    BY <1>1
  <1> QED
    BY <1>2, DeployInvariance, PTL DEF DeploySpec, ZeroKeepsVersion
-----------------------------------------------------------------------------
(* The log behind the deployments. *)

\* Deployments, too, see nothing of commitFile but the append-only log: whatever
\* stage the handlers are in, what they do to the file of an environment is what
\* CommitLog allows.
THEOREM DeployImplementsLog == DeploySpec => ImplementsLog
  BY DeployCommits, CommitImplementsLog, PTL

-----------------------------------------------------------------------------
(* A handler does a bounded amount of work. *)

\* The awaits a handler has before it calls commitFile.
StagesBefore == [none |-> 6, admit |-> 5, look |-> 4, register |-> 3, entity |-> 2, publish |-> 1]

\* The steps a handler has left, at most: its stages up to the publish, those of
\* commitFile, and its answer.
HandlerLeft(d) ==
  IF Over(d) THEN 0
  ELSE IF stage[d] = "commit" THEN StepsLeft(d) + 1
  ELSE StagesBefore[stage[d]] + 3 * Retries + 3

\* A handler that is not over has steps left.
HandlerIsLeft ==
  \A d \in Writer :
    /\ HandlerLeft(d) \in 0..(3 * Retries + 9)
    /\ HandlerLeft(d) = 0 <=> Over(d)

\* Each step of a handler uses up one at least, and nobody else's gives it more.
HandlerIsUsed ==
  \A d \in Writer :
    /\ HandlerLeft(d)' <= HandlerLeft(d)
    /\ Requested(d) \/ HandlerStep(d) \/ Dies(d) => HandlerLeft(d)' < HandlerLeft(d)

LEMMA StagesBeforeAre ==
  /\ StagesBefore["none"] = 6 /\ StagesBefore["admit"] = 5 /\ StagesBefore["look"] = 4
  /\ StagesBefore["register"] = 3 /\ StagesBefore["entity"] = 2 /\ StagesBefore["publish"] = 1
  BY DEF StagesBefore

\* The steps left, stage by stage.
LEMMA HandlerLeftAt ==
  ASSUME NEW d \in Writer
  PROVE  /\ Over(d) => HandlerLeft(d) = 0
         /\ stage[d] = "commit" => HandlerLeft(d) = StepsLeft(d) + 1
         /\ stage[d] \in {"none", "admit", "look", "register", "entity", "publish"} =>
              HandlerLeft(d) = StagesBefore[stage[d]] + 3 * Retries + 3
  BY DEF HandlerLeft, Over

LEMMA HandlerLeftThen ==
  ASSUME NEW d \in Writer
  PROVE  /\ Over(d)' => HandlerLeft(d)' = 0
         /\ stage'[d] = "commit" => HandlerLeft(d)' = StepsLeft(d)' + 1
         /\ stage'[d] \in {"none", "admit", "look", "register", "entity", "publish"} =>
              HandlerLeft(d)' = StagesBefore[stage'[d]] + 3 * Retries + 3
  BY DEF HandlerLeft, Over

LEMMA HandlerLeftBounds == DeployTypeOK => HandlerIsLeft
  <1> SUFFICES ASSUME DeployTypeOK, NEW d \in Writer
               PROVE  HandlerLeft(d) \in 0..(3 * Retries + 9) /\ (HandlerLeft(d) = 0 <=> Over(d))
    BY DEF HandlerIsLeft
  <1>1. Retries \in Nat /\ StepsLeft(d) \in 0..(3 * Retries + 3)
    BY RetriesAssumption, StepsLeftBounds DEF DeployTypeOK, StepsAreLeft
  <1>2. CASE Over(d)
    BY <1>1, <1>2, HandlerLeftAt
  <1>3. CASE stage[d] = "commit"
    BY <1>1, <1>3, HandlerLeftAt DEF Over
  <1>4. CASE stage[d] \in {"none", "admit", "look", "register", "entity", "publish"}
    <2>1. StagesBefore[stage[d]] \in 1..6
      BY <1>4, StagesBeforeAre
    <2> QED
      BY <1>1, <1>4, <2>1, HandlerLeftAt DEF Over
  <1>5. stage[d] \in Stage
    BY DEF DeployTypeOK
  <1> QED
    BY <1>2, <1>3, <1>4, <1>5 DEF Stage, Over

LEMMA OwnHandlerStepUses ==
  ASSUME DeployTypeOK, NEW d \in Writer, Requested(d) \/ HandlerStep(d) \/ Dies(d)
  PROVE  HandlerLeft(d)' < HandlerLeft(d)
  <1>0. /\ CommitTypeOK /\ stage \in [Writer -> Stage] /\ Retries \in Nat
        /\ StepsLeft(d) \in 0..(3 * Retries + 3)
        /\ HandlerLeft(d) \in Nat /\ (HandlerLeft(d) = 0 <=> Over(d))
    BY RetriesAssumption, StepsLeftBounds, HandlerLeftBounds
       DEF DeployTypeOK, StepsAreLeft, HandlerIsLeft
  <1>1. ASSUME ~Over(d), Over(d)'
        PROVE  HandlerLeft(d)' < HandlerLeft(d)
    BY <1>0, <1>1, HandlerLeftThen
  <1>2. ASSUME stage[d] \in {"none", "admit", "look", "register", "entity", "publish"},
               stage'[d] \in {"none", "admit", "look", "register", "entity", "publish"},
               StagesBefore[stage'[d]] < StagesBefore[stage[d]]
        PROVE  HandlerLeft(d)' < HandlerLeft(d)
    <2>1. StagesBefore[stage[d]] \in Nat /\ StagesBefore[stage'[d]] \in Nat
      BY <1>2, StagesBeforeAre
    <2> QED
      BY <1>0, <1>2, <2>1, HandlerLeftAt, HandlerLeftThen
  <1> USE DEF Step
  <1>3. CASE Requested(d)
    BY <1>0, <1>2, <1>3, StagesBeforeAre DEF Requested
  <1>4. CASE Admitted(d)
    BY <1>0, <1>2, <1>4, StagesBeforeAre DEF Admitted
  <1>5. CASE LookAtRunning(d)
    BY <1>0, <1>1, <1>2, <1>5, StagesBeforeAre DEF LookAtRunning, Over
  <1>6. CASE Register(d)
    BY <1>0, <1>2, <1>6, StagesBeforeAre DEF Register
  <1>7. CASE ReadEntity(d)
    BY <1>0, <1>1, <1>2, <1>7, StagesBeforeAre DEF ReadEntity, Over
  <1>8. CASE Publish(d)
    <2>1. CASE stage'[d] = "failed"
      BY <1>1, <1>8, <2>1 DEF Publish, Over
    <2>2. CASE stage'[d] = "commit" /\ StartCommit(d)
      <3>1. StepsLeft(d)' < StepsLeft(d)
        BY <1>0, <2>2, OwnStepUses
      <3>2. HandlerLeft(d) = 1 + 3 * Retries + 3
        BY <1>8, HandlerLeftAt, StagesBeforeAre DEF Publish
      <3>3. StepsLeft(d)' \in Int
        BY <1>0, <2>2, StepsUsedType DEF CommitNext
      <3> QED
        BY <1>0, <2>2, <3>1, <3>2, <3>3, HandlerLeftThen
    <2> QED
      BY <1>0, <1>8, <2>1, <2>2 DEF Publish
  <1>9. CASE CommitStep(d)
    <2>1. stage[d] = "commit" /\ stage'[d] = "commit"
      BY <1>9 DEF CommitStep, deployVars, handlerVars
    <2>2. StepsLeft(d)' < StepsLeft(d)
      BY <1>0, <1>9, OwnStepUses DEF CommitStep
    <2>3. StepsLeft(d)' \in Int
      BY <1>0, <1>9, StepsUsedType DEF CommitStep, CommitNext
    <2> QED
      BY <1>0, <2>1, <2>2, <2>3, HandlerLeftAt, HandlerLeftThen
  <1>10. CASE Refuse(d) \/ Answer(d) \/ CallFails(d) \/ Dies(d)
    <2>1. ~Over(d) /\ Over(d)'
      BY <1>0, <1>10 DEF Refuse, Answer, CallFails, Dies, Active, Over
    <2> QED
      BY <1>1, <2>1
  <1> QED
    BY <1>3, <1>4, <1>5, <1>6, <1>7, <1>8, <1>9, <1>10 DEF HandlerStep

LEMMA HandlerUsed == DeployTypeOK /\ [DeployNext]_vars => HandlerIsUsed
  <1> SUFFICES ASSUME DeployTypeOK, [DeployNext]_vars, NEW d \in Writer
               PROVE  /\ HandlerLeft(d)' <= HandlerLeft(d)
                      /\ Requested(d) \/ HandlerStep(d) \/ Dies(d)
                           => HandlerLeft(d)' < HandlerLeft(d)
    BY DEF HandlerIsUsed
  <1>1. CommitTypeOK /\ stage \in [Writer -> Stage] /\ Retries \in Nat
    BY RetriesAssumption DEF DeployTypeOK
  <1>2. StepsLeft(d)' <= StepsLeft(d) /\ StepsLeft(d) \in Int /\ StepsLeft(d)' \in Int
    BY <1>1, DeployStepCommits, StepsUsed, StepsUsedType DEF StepsAreUsed
  <1>3. HandlerLeft(d) \in Int
    BY HandlerLeftBounds DEF HandlerIsLeft
  <1>4. CASE Requested(d) \/ HandlerStep(d) \/ Dies(d)
    <2>1. HandlerLeft(d)' < HandlerLeft(d)
      BY <1>4, OwnHandlerStepUses
    <2>2. HandlerLeft(d)' \in Int
      <3>1. stage'[d] \in Stage
        BY DeployTypeStep DEF DeployTypeOK
      <3>2. CASE stage'[d] \in {"none", "admit", "look", "register", "entity", "publish"}
        <4>1. StagesBefore[stage'[d]] \in Int
          BY <3>2, StagesBeforeAre
        <4> QED
          BY <1>1, <3>2, <4>1, HandlerLeftThen
      <3>3. CASE stage'[d] = "commit" \/ Over(d)'
        BY <1>2, <3>3, HandlerLeftThen
      <3> QED
        BY <3>1, <3>2, <3>3 DEF Stage, Over
    <2> QED
      BY <1>3, <2>1, <2>2
  <1>5. CASE ~(Requested(d) \/ HandlerStep(d) \/ Dies(d))
    <2>1. stage'[d] = stage[d]
      <3>1. ASSUME NEW v \in Writer \ {d}, Requested(v) \/ HandlerStep(v) \/ Dies(v)
            PROVE  stage'[d] = stage[d]
        BY <1>1, <3>1
           DEF Requested, HandlerStep, Admitted, Refuse, LookAtRunning, Register, ReadEntity,
               Publish, CommitStep, Answer, CallFails, Dies, Step, deployVars, handlerVars
      <3>2. ASSUME GitHubStep \/ (\E c \in late : ArrivesLate(c)) \/ Deliver \/ AllOver
                     \/ UNCHANGED vars
            PROVE  stage'[d] = stage[d]
        BY <3>2 DEF GitHubStep, ArrivesLate, Deliver, AllOver, vars, deployVars, handlerVars
      <3> QED
        BY <1>5, <3>1, <3>2 DEF DeployNext
    <2> QED
      BY <1>2, <1>3, <1>5, <2>1 DEF HandlerLeft, Over
  <1> QED
    BY <1>4, <1>5

\* Every request is over after at most 3 Retries + 9 steps of its handler and of
\* the commitFile it waits for, whatever the other deployments, the network, GitHub
\* and the lambda do. (Three retries: eighteen steps.)
THEOREM DeployEnds == DeploySpec => []HandlerIsLeft /\ [][HandlerIsUsed]_vars
  <1>1. DeployTypeOK /\ [DeployNext]_vars => [HandlerIsUsed]_vars
    BY HandlerUsed
  <1> QED
    BY <1>1, HandlerLeftBounds, DeployTyping, PTL DEF DeploySpec
-----------------------------------------------------------------------------
(* A deployment is published once. *)

PublishedOnce == \A i, j \in 1..Len(topic) : topic[i] = topic[j] => i = j

\* Nothing is on the topic before its publish, and the message of a publish that is
\* not waited for any more has not come, and will not be sent again.
Unpublished ==
  /\ \A d \in Writer :
       stage[d] \in {"none", "admit", "look", "register", "entity", "publish"} => ~Published(d)
  /\ \A c \in late : c.call = "publish" => Over(c.by) /\ ~Published(c.by)

\* On a fifo topic what is delivered for an environment comes after all that was
\* delivered there before, and is none of it.
TakesEffectOnce ==
  [][Fifo => \A e \in Env : delivered'[e] # delivered[e] =>
       /\ delivered'[e] > delivered[e]
       /\ \A j \in 1..delivered[e] : topic[j] # topic[delivered'[e]]]_vars

LEMMA OnceInit == DeployInit => PublishedOnce /\ Unpublished
  BY DEF DeployInit, PublishedOnce, Unpublished, Published

\* A message that is not on the topic may be put there.
LEMMA OneMore ==
  ASSUME topic \in Seq(Writer), PublishedOnce, NEW d \in Writer, ~Published(d),
         topic' = Append(topic, d)
  PROVE  PublishedOnce'
  <1>1. /\ Len(topic') = Len(topic) + 1 /\ Len(topic) \in Nat
        /\ topic'[Len(topic) + 1] = d
        /\ \A i \in 1..Len(topic) : topic'[i] = topic[i] /\ topic[i] # d
    BY DEF Published
  <1>2. \A i \in 1..Len(topic') : i \in 1..Len(topic) \/ i = Len(topic) + 1
    BY <1>1
  <1>3. \A i, j \in 1..Len(topic') : topic'[i] = topic'[j] => i = j
    BY <1>1, <1>2 DEF PublishedOnce
  <1> QED
    BY <1>3 DEF PublishedOnce

\* A step that publishes nothing, leaves no call and takes no handler back.
LEMMA StaysUnpublished ==
  ASSUME DeployTypeOK, Unpublished, topic' = topic, late' \subseteq late,
         \A v \in Writer :
           /\ stage'[v] \in {"none", "admit", "look", "register", "entity", "publish"} =>
                stage[v] \in {"none", "admit", "look", "register", "entity", "publish"}
           /\ Over(v) => Over(v)'
  PROVE  Unpublished'
  <1>1. \A c \in late : c.by \in Writer
    BY DEF DeployTypeOK, Call
  <1> QED
    BY <1>1 DEF Unpublished, Published

LEMMA OnceStep ==
  DeployTypeOK /\ PublishedOnce /\ Unpublished /\ [DeployNext]_vars
    => PublishedOnce' /\ Unpublished'
  <1> SUFFICES ASSUME DeployTypeOK, PublishedOnce, Unpublished, [DeployNext]_vars
               PROVE  PublishedOnce' /\ Unpublished'
    OBVIOUS
  <1>0. /\ stage \in [Writer -> Stage] /\ topic \in Seq(Writer)
        /\ \A c \in late : c \in Call /\ c.by \in Writer
    BY DEF DeployTypeOK, Call
  <1> USE DEF Step, deployVars, handlerVars, outsideVars
  <1>1. ASSUME NEW d \in Writer,
               Requested(d) \/ Admitted(d) \/ Refuse(d) \/ LookAtRunning(d) \/ Register(d)
                 \/ ReadEntity(d) \/ CommitStep(d) \/ Answer(d)
        PROVE  PublishedOnce' /\ Unpublished'
    <2>1. UNCHANGED <<topic, late>>
      BY <1>1 DEF Requested, Admitted, Refuse, LookAtRunning, Register, ReadEntity,
                  CommitStep, Answer
    <2>2. \A v \in Writer :
            /\ stage'[v] \in {"none", "admit", "look", "register", "entity", "publish"} =>
                 stage[v] \in {"none", "admit", "look", "register", "entity", "publish"}
            /\ Over(v) => Over(v)'
      BY <1>0, <1>1 DEF Over, Requested, Admitted, Refuse, LookAtRunning, Register, ReadEntity,
                        CommitStep, Answer
    <2> QED
      BY <2>1, <2>2, StaysUnpublished DEF PublishedOnce
  <1>2. ASSUME NEW d \in Writer, Publish(d)
        PROVE  PublishedOnce' /\ Unpublished'
    <2>1. ~Published(d) /\ stage[d] = "publish" /\ topic' = Append(topic, d)
      BY <1>2 DEF Publish, Unpublished
    <2>2. \A v \in Writer : Published(v)' <=> (Published(v) \/ v = d)
      BY <1>0, <2>1, PublishedThen
    <2>3. /\ late' = late /\ stage'[d] \in {"commit", "failed"}
          /\ \A v \in Writer \ {d} : stage'[v] = stage[v]
      BY <1>0, <1>2 DEF Publish
    <2>4. \A c \in late : c.call = "publish" => c.by # d
      BY <2>1 DEF Unpublished, Over
    <2> QED
      BY <1>0, <2>1, <2>2, <2>3, <2>4, OneMore DEF Unpublished, Over
  <1>3. ASSUME NEW d \in Writer, CallFails(d) \/ Dies(d)
        PROVE  PublishedOnce' /\ Unpublished'
    <2>1. /\ topic' = topic /\ ~Over(d) /\ Over(d)'
          /\ \A v \in Writer \ {d} : stage'[v] = stage[v]
          /\ stage'[d] \in {"failed", "dead"}
      BY <1>0, <1>3 DEF CallFails, Dies, Active, Over
    <2>2. \A c \in late' : c \in late \/ (c.by = d /\ c.call = stage[d])
      BY <1>3 DEF CallFails, Dies, LeavesCall
    <2>3. \A v \in Writer : Published(v)' <=> Published(v)
      BY <2>1 DEF Published
    <2>4. \A v \in Writer : Over(v) => Over(v)'
      BY <2>1 DEF Over
    <2> QED
      BY <1>0, <2>1, <2>2, <2>3, <2>4 DEF PublishedOnce, Unpublished
  <1>4. ASSUME NEW c \in late, ArrivesLate(c)
        PROVE  PublishedOnce' /\ Unpublished'
    <2>1. late' = late \ {c} /\ stage' = stage
      BY <1>4 DEF ArrivesLate
    <2>2. CASE UNCHANGED topic
      BY <2>1, <2>2, StaysUnpublished DEF PublishedOnce, Over
    <2>3. CASE c.call = "publish" /\ topic' = Append(topic, c.by)
      <3>1. c.by \in Writer /\ ~Published(c.by) /\ Over(c.by)
        BY <1>0, <2>3 DEF Unpublished
      <3>2. \A v \in Writer : Published(v)' <=> (Published(v) \/ v = c.by)
        BY <1>0, <2>3, <3>1, PublishedThen
      <3>3. \A b \in late' : b.call = "publish" => b.by # c.by
        BY <1>0, <2>1, <2>3 DEF Call
      <3>4. PublishedOnce'
        BY <1>0, <2>3, <3>1, OneMore
      <3> QED
        BY <1>0, <2>1, <3>1, <3>2, <3>3, <3>4 DEF Unpublished, Over
    <2> QED
      BY <1>4, <2>2, <2>3 DEF ArrivesLate
  <1>5. ASSUME GitHubStep \/ Deliver \/ AllOver \/ UNCHANGED vars
        PROVE  PublishedOnce' /\ Unpublished'
    <2>1. UNCHANGED <<topic, late, stage>>
      BY <1>5 DEF GitHubStep, Deliver, AllOver, vars
    <2> QED
      BY <2>1, StaysUnpublished DEF PublishedOnce, Over
  <1> QED
    BY <1>1, <1>2, <1>3, <1>4, <1>5 DEF DeployNext, HandlerStep

\* A deployment is published at most once, be its publish answered, failed, late or
\* the last thing its process did; and on a fifo topic it takes effect at most once,
\* never again after a later one has. (What a standard topic repeats is in Deliver.)
THEOREM DeployOnce == DeploySpec => []PublishedOnce /\ TakesEffectOnce
  <1>1. DeployInit => DeployTypeOK /\ PublishedOnce /\ Unpublished
    BY DeployTypeInit, OnceInit
  <1>2. DeployTypeOK /\ PublishedOnce /\ Unpublished /\ [DeployNext]_vars
          => (DeployTypeOK /\ PublishedOnce /\ Unpublished)'
    BY DeployTypeStep, OnceStep
  <1>3. ASSUME DeployTypeOK, PublishedOnce, [DeployNext]_vars, Fifo,
               NEW e \in Env, delivered'[e] # delivered[e]
        PROVE  /\ delivered'[e] > delivered[e]
               /\ \A j \in 1..delivered[e] : topic[j] # topic[delivered'[e]]
    <2>1. Deliver
      BY <1>3
         DEF DeployNext, HandlerStep, Requested, Admitted, Refuse, LookAtRunning, Register,
             ReadEntity, Publish, CommitStep, Answer, CallFails, Dies, GitHubStep, ArrivesLate,
             AllOver, vars, deployVars, outsideVars
    <2>2. PICK i \in Messages(e) : NextInGroup(i, e) /\ delivered' = [delivered EXCEPT ![e] = i]
      BY <1>3, <2>1 DEF Deliver, DeployTypeOK
    <2>3. /\ delivered'[e] = i /\ i > delivered[e]
          /\ delivered[e] \in Nat /\ i \in 1..Len(topic) /\ Len(topic) \in Nat
      BY <1>3, <2>2 DEF NextInGroup, Messages, DeployTypeOK
    <2>4. \A j \in 1..delivered[e] : j \in 1..Len(topic) /\ j # i
      BY <2>3
    <2> QED
      BY <1>3, <2>3, <2>4 DEF PublishedOnce
  <1>4. DeployTypeOK /\ PublishedOnce /\ [DeployNext]_vars =>
          [Fifo => \A e \in Env : delivered'[e] # delivered[e] =>
             /\ delivered'[e] > delivered[e]
             /\ \A j \in 1..delivered[e] : topic[j] # topic[delivered'[e]]]_vars
    BY <1>3
  <1> QED
    BY <1>1, <1>2, <1>4, PTL DEF DeploySpec, TakesEffectOnce
=============================================================================
