------------------------------- MODULE MCJobs -------------------------------
(* Two jobs and one request to stop, two environments. One job is of any    *)
(* kind; the other is a run in dev, there to be mixed up with the first.    *)
EXTENDS Jobs

CONSTANTS anyJob, devRun, dev, prod

OneOfAnyKind ==
  [j \in Job |->
     IF j = devRun THEN {[kind |-> "test", env |-> dev, valid |-> "yes"]}
     ELSE [kind : {"test"}, env : {dev, prod}, valid : {"yes"}]
            \cup [kind : {"migration"}, env : {prod}, valid : {"yes", "no"}]
            \cup [kind : {"import"}, env : {dev}, valid : {"yes"}]]

TwoInDev == [e \in EnvAsked |-> IF e = dev THEN 2 ELSE 1]
=============================================================================
