----------------------------- MODULE TaskGraph -----------------------------
(* What the library promises of a graph of tasks, with no scheduler, queue,  *)
(* counter or handle in it: a task runs until it waits for other tasks or    *)
(* for the network, is woken only by the end of what it waits for, reads its *)
(* result, and never runs again after it is done or discarded.  One thread   *)
(* runs them: a step ends or suspends one task and wakes at most one other.  *)
CONSTANTS Task, Network

VARIABLES
  state,  \* of each task
  needs   \* any one of these wakes a waiting task; kept until it is read

graphVars == <<state, needs>>

GraphInit ==
  /\ state = [t \in Task |-> "none"]
  /\ needs = [t \in Task |-> {}]

Pending(t) == state[t] \in {"runnable", "waiting"}

Happened(N, states) == Network \in N \/ \E d \in N : states[d] = "done"

(* states and wants as this step leaves them, and then the tasks W woken:    *)
(* at most one, and only by something it waits for that has happened.        *)
Wake(W, states, wants) ==
  /\ \A t, u \in W : t = u
  /\ \A t \in W : states[t] = "waiting" /\ Happened(wants[t], states)
  /\ state' = [t \in Task |-> IF t \in W THEN "runnable" ELSE states[t]]
  /\ needs' = wants

Spawn(t) ==
  /\ state[t] = "none"
  /\ Wake({}, [state EXCEPT ![t] = "runnable"], needs)

(* A task in control of itself: it has read what it waited for.              *)
Runs(t) == state[t] = "runnable" /\ needs[t] = {}

Read(t) ==
  /\ state[t] = "runnable" /\ Happened(needs[t], state)
  /\ Wake({}, state, [needs EXCEPT ![t] = {}])

WaitFor(t, N, W) ==
  /\ Runs(t)
  /\ N # {} /\ \A d \in N \ {Network} : Pending(d)
  /\ Wake(W, [state EXCEPT ![t] = "waiting"], [needs EXCEPT ![t] = N])

(* The tasks D that only the finished one held are discarded with it.        *)
Finish(t, D, W) ==
  /\ Runs(t) /\ t \notin D
  /\ Wake(W, [x \in Task |-> IF x \in D THEN "none"
                             ELSE IF x = t THEN "done" ELSE state[x]],
             [x \in Task |-> IF x \in D THEN {} ELSE needs[x]])

Discard(D) ==
  Wake({}, [x \in Task |-> IF x \in D THEN "none" ELSE state[x]],
           [x \in Task |-> IF x \in D THEN {} ELSE needs[x]])

AtMostOne(S) == {{}} \cup {{t} : t \in S}
Waiting == {t \in Task : state[t] = "waiting"}

GraphNext ==
  \/ \E t \in Task : Spawn(t) \/ Read(t)
  \/ \E t \in Task, N \in SUBSET (Task \cup {Network}), W \in AtMostOne(Waiting) :
       WaitFor(t, N, W)
  \/ \E t \in Task, D \in SUBSET Task, W \in AtMostOne(Waiting) : Finish(t, D, W)
  \/ \E D \in SUBSET Task : Discard(D)
  \/ \E W \in AtMostOne(Waiting) : Wake(W, state, needs)

GraphSpec == GraphInit /\ [][GraphNext]_graphVars
=============================================================================
