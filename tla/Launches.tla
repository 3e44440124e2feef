------------------------------ MODULE Launches ------------------------------
(***************************************************************************)
(* What a user of the portal may rely on about jobs: runs of test suites,  *)
(* database migrations, database imports and terminals.                    *)
(*                                                                         *)
(* A job is launched at most once, with one content, and never again; the  *)
(* portal shows no job that was not launched, and shows it with the very   *)
(* content it was launched with; a job can be stopped only once it has     *)
(* started and is shown.  Not everything that is launched is shown.        *)
(***************************************************************************)
CONSTANTS
  Job,
  Content,   \* what a job runs
  Nothing    \* not one of them

VARIABLES
  launched,  \* what each job was launched with
  shown,     \* what the portal shows of it
  started,   \* the jobs that have started
  stopped    \* the jobs that are told to stop

launchVars == <<launched, shown, started, stopped>>

LaunchInit ==
  /\ launched = [j \in Job |-> Nothing]
  /\ shown = [j \in Job |-> Nothing]
  /\ started = {}
  /\ stopped = {}

Launch(j) ==
  /\ launched[j] = Nothing
  /\ \E c \in Content : launched' = [launched EXCEPT ![j] = c]
  /\ UNCHANGED <<shown, started, stopped>>

Show(j) ==
  /\ launched[j] # Nothing
  /\ shown[j] = Nothing
  /\ shown' = [shown EXCEPT ![j] = launched[j]]
  /\ UNCHANGED <<launched, started, stopped>>

Start(j) ==
  /\ launched[j] # Nothing
  /\ started' = started \cup {j}
  /\ UNCHANGED <<launched, shown, stopped>>

Stop(j) ==
  /\ j \in started
  /\ shown[j] # Nothing
  /\ stopped' = stopped \cup {j}
  /\ UNCHANGED <<launched, shown, started>>

LaunchNext == \E j \in Job : Launch(j) \/ Show(j) \/ Start(j) \/ Stop(j)

LaunchSpec == LaunchInit /\ [][LaunchNext]_launchVars
=============================================================================
