---------------------------- MODULE TaskLifecycle ----------------------------
(***************************************************************************)
(* What a durable task queue promises, without its table, clock, attempts  *)
(* or instances: the life of each task, and that nobody runs one that      *)
(* somebody else runs.  The status names are those of PipelineJob, so that *)
(* JobQueue implements this specification by hiding the rest of its rows.  *)
(*                                                                         *)
(* A step may move several tasks at once (a stopping instance drops all    *)
(* its jobs, a deleted document takes all its jobs along), so Next says of *)
(* every task that it takes a step of its life or stays as it is.          *)
(***************************************************************************)
CONSTANTS Tasks, Agents

VARIABLES
  state,     \* [Tasks -> TaskStates]
  runners    \* [Tasks -> SUBSET Agents], who runs a task

vars == <<state, runners>>

TaskStates == {"absent", "pending", "processing", "done", "failed", "removed"}

Init ==
  /\ state = [t \in Tasks |-> "absent"]
  /\ runners = [t \in Tasks |-> {}]

\* A new task waits.
Submit(t) ==
  /\ state[t] = "absent" /\ state'[t] = "pending"
  /\ runners'[t] = runners[t]

\* An agent that runs nothing takes a waiting task that nobody runs.
Begin(t) ==
  /\ state[t] = "pending" /\ state'[t] = "processing"
  /\ runners[t] = {}
  /\ \E a \in Agents : /\ runners'[t] = {a}
                       /\ \A u \in Tasks : a \notin runners[u]

\* The one agent that runs a task ends it, for good or for another try.
End(t) ==
  /\ state[t] = "processing" /\ state'[t] \in {"pending", "done", "failed"}
  /\ \E a \in Agents : runners[t] = {a}
  /\ runners'[t] = {}

\* The agents of a task leave it without a word: they died, or the task has
\* been removed under them.
Leave(t) ==
  /\ state[t] \in {"processing", "removed"} /\ state'[t] = state[t]
  /\ runners'[t] = {}

\* A task whose agent has died is given out again, but never one that has one.
Reissue(t) ==
  /\ state[t] = "processing" /\ state'[t] = "pending"
  /\ runners[t] = {} /\ runners'[t] = {}

\* A task is removed at any time, for good.
Remove(t) ==
  /\ state[t] \notin {"absent", "removed"} /\ state'[t] = "removed"
  /\ runners'[t] \subseteq runners[t]

Stay(t) == state'[t] = state[t] /\ runners'[t] = runners[t]

Live(t) == Submit(t) \/ Begin(t) \/ End(t) \/ Leave(t) \/ Reissue(t) \/ Remove(t) \/ Stay(t)

Next ==
  /\ state' \in [Tasks -> TaskStates]
  /\ runners' \in [Tasks -> SUBSET Agents]
  /\ \A t \in Tasks : Live(t)

Spec == Init /\ [][Next]_vars
=============================================================================
