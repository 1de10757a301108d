---------------------------- MODULE GraphProofs ----------------------------
(* The coroutines implement the task graph: under the discipline that        *)
(* WakeUpProofs needs, each step of the scheduler and of its coroutines is   *)
(* a step of TaskGraph, where there is no scheduler.                         *)
EXTENDS WakeUpProofs

(* The variables of the graph, as Coroutines!Graph instantiates them.        *)
Status(c) == CASE at[c] = "free" -> "none"
               [] at[c] = "final" -> "done"
               [] Suspended(c) -> "waiting"
               [] OTHER -> "runnable"
Wanted(c) == IF at[c] = "perform" THEN {Null} ELSE awaits[c]

GraphState == [c \in Coro |-> Status(c)]
GraphNeeds == [c \in Coro |-> Wanted(c)]

(* The coroutine in control runs, in the graph's sense.                      *)
LEMMA RunsInGraph ==
  ASSUME WInv, NEW p \in Coro, InControl(p)
  PROVE  Graph!Runs(p) /\ Status(p) = "runnable" /\ Wanted(p) = {} /\ awaits[p] = {}
  <1>1. at[p] = "running" /\ p \in OnStack /\ awaits[p] = {}
    BY InControlOnTop, TopOfStack DEF WInv, AwaitingInv, AwaitsInv
  <1> QED BY <1>1 DEF Graph!Runs, Status, Wanted, Suspended

(* What a step leaves alone keeps its status.                                *)
LEMMA StatusKept ==
  ASSUME NEW y \in Coro, at'[y] = at[y], y \in OnStack' <=> y \in OnStack
  PROVE  Status(y)' = Status(y)
  BY DEF Status, Suspended

LEMMA DoneInGraph ==
  ASSUME NEW y \in Coro PROVE Status(y) = "done" <=> Done(y)
  BY DEF Status, Done, Suspended, Awaiting

(* Whoever is in the ready queue waits, for things that have ended.          *)
LEMMA QueuedInGraph ==
  ASSUME WInv, NEW y \in Queued
  PROVE  /\ y \in Coro /\ y \notin OnStack /\ Status(y) = "waiting"
         /\ Wanted(y) = awaits[y] /\ \E d \in awaits[y] : d \in Coro /\ Done(d)
  <1>1. y \in Coro /\ awaits[y] \subseteq Coro
    BY DEF Queued, WInv, IInv, TypeOK, SchedulerType
  <1>2. /\ y \notin OnStack /\ at[y] \in {"promise", "select"} /\ awaits[y] # {}
        /\ \A d \in awaits[y] : Done(d)
    BY DEF WInv, HandlesInv, QueueInv
  <1> QED BY <1>1, <1>2 DEF Status, Wanted, Suspended, Awaiting

----------------------------------------------------------------------------
(* A call spawns a task.                                                     *)
LEMMA CallSpawns ==
  ASSUME WInv, NEW p \in Coro \cup {Main}, NEW c \in Coro, NEW M, NEW R, Call(p, c, M, R)
  PROVE  Graph!Spawn(c)
  <1>1. /\ at[c] = "free" /\ at' = [at EXCEPT ![c] = "running"]
        /\ stack' = <<c>> \o stack /\ awaits' = awaits
    BY DEF Call
  <1>2. /\ at \in [Coro -> States] /\ stack \in Seq(Coro)
        /\ IsInjective(stack) /\ c \notin Range(stack)
    BY <1>1 DEF WInv, IInv, TypeOK, SchedulerType, HandlesInv, StackInv, Pending, OnStack, Range
  <1>3. OnStack' = {c} \cup OnStack
    <2>1. Range(stack') = {c} \cup Range(stack)
      BY <1>1, <1>2, PushApart
    <2> QED BY <2>1 DEF OnStack, Range
  <1>4. ASSUME NEW y \in Coro PROVE Status(y)' = IF y = c THEN "runnable" ELSE Status(y)
    <2>1. CASE y = c
      BY <1>1, <1>2, <2>1 DEF Status, Suspended, Awaiting
    <2>2. CASE y # c
      BY <1>1, <1>2, <1>3, <2>2, StatusKept
    <2> QED BY <2>1, <2>2
  <1>5. GraphState' = [GraphState EXCEPT ![c] = "runnable"]
    BY <1>4 DEF GraphState
  <1>6. GraphNeeds' = GraphNeeds
    BY <1>1, <1>2 DEF GraphNeeds, Wanted
  <1>7. GraphState[c] = "none"
    BY <1>1 DEF GraphState, Status, Suspended, Awaiting
  <1> QED BY <1>5, <1>6, <1>7 DEF Graph!Spawn, Graph!Wake, GraphState, GraphNeeds, Status, Wanted, Suspended

(* What has been resumed reads the result it needs.                          *)
LEMMA AwaitResumeReads ==
  ASSUME WInv, NEW c \in Coro, AwaitResume(c)
  PROVE  Graph!Read(c)
  <1>1. /\ OnTop(c) /\ at[c] \in Awaiting /\ stack' = stack
        /\ at' = [at EXCEPT ![c] = "running"]
        /\ awaits' = [awaits EXCEPT ![c] = {}]
    BY DEF AwaitResume
  <1>2. /\ at \in [Coro -> States] /\ awaits \in [Coro -> SUBSET Coro] /\ OnStack' = OnStack
    BY <1>1 DEF WInv, IInv, TypeOK, OnStack
  <1>3. c \in OnStack
    <2>1. stack # <<>>
      BY <1>1 DEF OnTop, Executing
    <2> QED BY <1>1, <2>1, TopOfStack DEF OnTop
  <1>4. GraphState[c] = "runnable"
    BY <1>1, <1>3 DEF GraphState, Status, Suspended, Awaiting
  <1>5. Null \in GraphNeeds[c] \/ \E d \in GraphNeeds[c] : GraphState[d] = "done"
    <2>1. CASE at[c] = "perform"
      BY <2>1 DEF GraphNeeds, Wanted
    <2>2. CASE at[c] # "perform"
      <3>1. GraphNeeds[c] = awaits[c]
        BY <2>2 DEF GraphNeeds, Wanted
      <3>2. PICK d \in awaits[c] : Done(d)
        BY <1>1, <2>2 DEF OnTop, Awaiting, WInv, AwaitingInv, TopInv
      <3>3. GraphState[d] = "done"
        BY <1>2, <3>2, DoneInGraph DEF GraphState
      <3> QED BY <3>1, <3>2, <3>3
    <2> QED BY <2>1, <2>2
  <1>6. ASSUME NEW y \in Coro PROVE Status(y)' = GraphState[y]
    <2>1. CASE y = c
      BY <1>1, <1>2, <1>4, <2>1 DEF Status, Suspended, Awaiting
    <2>2. CASE y # c
      BY <1>1, <1>2, <2>2, StatusKept DEF GraphState
    <2> QED BY <2>1, <2>2
  <1>7. GraphState' = GraphState
    BY <1>6 DEF GraphState
  <1>8. GraphNeeds' = [GraphNeeds EXCEPT ![c] = {}]
    BY <1>1, <1>2 DEF GraphNeeds, Wanted
  <1> QED BY <1>4, <1>5, <1>7, <1>8
          DEF Graph!Read, Graph!Wake, Graph!Happened, GraphState, GraphNeeds, Status, Wanted, Suspended

(* Tasks that may be woken in one step: at most one, of those that wait.     *)
LEMMA WokenInGraph ==
  ASSUME NEW W \in SUBSET Coro, \A x, y \in W : x = y, \A y \in W : Status(y) = "waiting"
  PROVE  W \in Graph!AtMostOne(Graph!Waiting)
  <1>1. CASE W = {}
    BY <1>1 DEF Graph!AtMostOne
  <1>2. CASE W # {}
    <2>1. PICK y \in W : W = {y}
      BY <1>2
    <2>2. y \in Graph!Waiting
      BY <2>1 DEF Graph!Waiting, Status, Suspended
    <2> QED BY <2>1, <2>2 DEF Graph!AtMostOne
  <1> QED BY <1>1, <1>2

(* p, which is in control, suspends for N; the front of the ready queue, if  *)
(* any, is woken.                                                            *)
LEMMA SuspendWaits ==
  ASSUME WInv, NEW p \in Coro, InControl(p), suspend,
         NEW N \in SUBSET (Coro \cup {Null}), N # {},
         \A d \in N \ {Null} : at[d] \notin {"free", "final"},
         at'[p] \in Awaiting, Wanted(p)' = N,
         \A y \in Coro : y # p => at'[y] = at[y] /\ awaits'[y] = awaits[y]
  PROVE  \E W \in Graph!AtMostOne(Graph!Waiting) : Graph!WaitFor(p, N, W)
  <1>1. /\ p \in OnStack /\ p \notin OnStack' /\ p \notin Queued
        /\ \A y \in OnStack' : \/ y \in OnStack /\ y # p
                               \/ y \in Queued /\ y # p /\ Executing' = {y}
        /\ \A y \in Coro \ OnStack' : y # p => y \notin OnStack
    BY Suspends
  <1>0. PICK W : W = {y \in Queued : y \in OnStack'}
    OBVIOUS
  <1>2. W \subseteq Coro /\ \A x, y \in W : x = y
    <2>1. \A y \in W : y \in Coro /\ y \notin OnStack
      BY <1>0, QueuedInGraph
    <2> QED BY <1>0, <1>1, <2>1
  <1>3. ASSUME NEW y \in W
        PROVE  /\ GraphState[y] = "waiting" /\ y # p
               /\ \E d \in GraphNeeds[y] : d \in Coro /\ d # p /\ GraphState[d] = "done"
    <2>1. /\ y \in Coro /\ Status(y) = "waiting" /\ Wanted(y) = awaits[y]
          /\ \E d \in awaits[y] : d \in Coro /\ Done(d)
      BY <1>0, QueuedInGraph
    <2>2. PICK d \in awaits[y] : d \in Coro /\ Done(d)
      BY <2>1
    <2>3. Status(d) = "done" /\ d # p
      BY <2>2, DoneInGraph, RunsInGraph
    <2> QED BY <1>0, <1>1, <2>1, <2>2, <2>3 DEF GraphState, GraphNeeds
  <1>4. ASSUME NEW y \in Coro
        PROVE  Status(y)' = IF y \in W THEN "runnable"
                            ELSE IF y = p THEN "waiting" ELSE Status(y)
    <2>1. CASE y \in W
      <3>1. y \in Queued /\ Status(y) = "waiting" /\ y \in OnStack'
        BY <1>0, <2>1, QueuedInGraph
      <3>2. at'[y] = at[y] /\ at[y] \in Awaiting
        BY <1>1, <3>1 DEF Status, Suspended
      <3> QED BY <2>1, <3>1, <3>2 DEF Status, Suspended, Awaiting
    <2>2. CASE y = p
      BY <1>0, <1>1, <2>2 DEF Status, Suspended, Awaiting
    <2>3. CASE y \notin W /\ y # p
      <3>1. y \in OnStack' <=> y \in OnStack
        BY <1>0, <1>1, <2>3
      <3>2. at'[y] = at[y]
        BY <2>3
      <3> QED BY <2>3, <3>1, <3>2, StatusKept
    <2> QED BY <1>3, <2>1, <2>2, <2>3
  <1>5. GraphState' = [y \in Coro |-> IF y \in W THEN "runnable"
                                      ELSE [GraphState EXCEPT ![p] = "waiting"][y]]
    BY <1>4 DEF GraphState
  <1>6. GraphNeeds' = [GraphNeeds EXCEPT ![p] = N]
    <2>1. \A y \in Coro : Wanted(y)' = IF y = p THEN N ELSE Wanted(y)
      BY DEF Wanted
    <2> QED BY <2>1 DEF GraphNeeds
  <1>7. \A d \in N \ {Null} : GraphState[d] \in {"runnable", "waiting"}
    BY DEF GraphState, Status, Suspended, Awaiting
  <1>8. \A y \in W : \E d \in [GraphNeeds EXCEPT ![p] = N][y] :
          [GraphState EXCEPT ![p] = "waiting"][d] = "done"
    <2> SUFFICES ASSUME NEW y \in W
                 PROVE  \E d \in GraphNeeds[y] : [GraphState EXCEPT ![p] = "waiting"][d] = "done"
      BY <1>2, <1>3 DEF GraphNeeds
    <2> QED BY <1>3 DEF GraphState
  <1>9. \A y \in W : [GraphState EXCEPT ![p] = "waiting"][y] = "waiting"
    BY <1>2, <1>3 DEF GraphState
  <1>10. Graph!Wake(W, [GraphState EXCEPT ![p] = "waiting"], [GraphNeeds EXCEPT ![p] = N])
    BY <1>2, <1>5, <1>6, <1>8, <1>9
    DEF Graph!Wake, Graph!Happened, GraphState, GraphNeeds, Status, Wanted, Suspended
  <1>11. Graph!WaitFor(p, N, W)
    BY <1>7, <1>10, RunsInGraph
    DEF Graph!WaitFor, Graph!Pending, GraphState, GraphNeeds, Status, Wanted, Suspended
  <1>12. W \in Graph!AtMostOne(Graph!Waiting)
    <2>1. \A y \in W : Status(y) = "waiting"
      BY <1>2, <1>3 DEF GraphState
    <2> QED BY <1>2, <2>1, WokenInGraph
  <1> QED BY <1>11, <1>12

LEMMA AwaitWaits ==
  ASSUME WInv, NEW p \in Coro, NEW D \in SUBSET Coro, Await(p, D)
  PROVE  \E W \in Graph!AtMostOne(Graph!Waiting) : Graph!WaitFor(p, D, W)
  <1>1. /\ InControl(p) /\ D # {} /\ D \subseteq Visible(p) /\ ~await_ready(D) /\ suspend
        /\ at' = [at EXCEPT ![p] = Kind(D)] /\ awaits' = [awaits EXCEPT ![p] = D]
        /\ Kind(D) \in {"promise", "select"}
    BY DEF Await, Kind
  <1>2. at \in [Coro -> States] /\ awaits \in [Coro -> SUBSET Coro]
    BY DEF WInv, IInv, TypeOK
  <1>3. \A d \in D : at[d] \notin {"free", "final"}
    <2> SUFFICES ASSUME NEW d \in D PROVE at[d] # "free" /\ ~Done(d)
      BY DEF Done
    <2>1. owner[d] = p \/ d \in refs[p]
      BY <1>1 DEF Visible, Owned
    <2>2. at[d] # "free"
      BY <2>1, Names DEF WInv, HandlesInv, FreeInv, AwaitingInv, RefsInv
    <2> QED BY <1>1, <2>2 DEF await_ready
  <1>4. at'[p] \in Awaiting /\ Wanted(p)' = D
    BY <1>1, <1>2 DEF Awaiting, Wanted
  <1>5. \A y \in Coro : y # p => at'[y] = at[y] /\ awaits'[y] = awaits[y]
    BY <1>1, <1>2
  <1>6. D \in SUBSET (Coro \cup {Null}) /\ \A d \in D \ {Null} : at[d] \notin {"free", "final"}
    BY <1>3
  <1> QED BY <1>1, <1>4, <1>5, <1>6, SuspendWaits

LEMMA PerformWaits ==
  ASSUME WInv, NEW p \in Coro, Perform(p)
  PROVE  \E W \in Graph!AtMostOne(Graph!Waiting) : Graph!WaitFor(p, {Null}, W)
  <1>1. /\ InControl(p) /\ suspend /\ at' = [at EXCEPT ![p] = "perform"] /\ awaits' = awaits
    BY DEF Perform
  <1>2. at \in [Coro -> States]
    BY DEF WInv, IInv, TypeOK
  <1>3. at'[p] \in Awaiting /\ Wanted(p)' = {Null}
    BY <1>1, <1>2 DEF Awaiting, Wanted
  <1>4. \A y \in Coro : y # p => at'[y] = at[y] /\ awaits'[y] = awaits[y]
    BY <1>1, <1>2
  <1>5. PICK N \in SUBSET (Coro \cup {Null}) : N = {Null}
    OBVIOUS
  <1>6. N # {} /\ Wanted(p)' = N /\ \A d \in N \ {Null} : at[d] \notin {"free", "final"}
    BY <1>3, <1>5
  <1>7. \E W \in Graph!AtMostOne(Graph!Waiting) : Graph!WaitFor(p, N, W)
    BY <1>1, <1>3, <1>4, <1>6, SuspendWaits
  <1> QED BY <1>5, <1>7

----------------------------------------------------------------------------
(* Destroyed promises are tasks that are discarded.                          *)
LEMMA DropDiscards ==
  ASSUME Discipline, WInv, NEW p \in Coro \cup {Main}, NEW d \in Coro, Drop(p, d)
  PROVE  \E D \in SUBSET Coro : Graph!Discard(D)
  <1>1. PICK gone \in SUBSET Coro : gone = Frames({d})
    BY DEF Frames
  <1>2. /\ \A y \in Coro : /\ at'[y] = IF y \in gone THEN "free" ELSE at[y]
                           /\ awaits'[y] = IF y \in gone THEN {} ELSE awaits[y]
        /\ OnStack' = OnStack
    BY <1>1 DEF Drop, destroy, schedulerVars, OnStack
  <1>3. GraphState' = [y \in Coro |-> IF y \in gone THEN "none" ELSE GraphState[y]]
    <2> SUFFICES ASSUME NEW y \in Coro
                 PROVE  Status(y)' = IF y \in gone THEN "none" ELSE Status(y)
      BY DEF GraphState
    <2> QED BY <1>2, StatusKept DEF Status, Suspended, Awaiting
  <1>4. GraphNeeds' = [y \in Coro |-> IF y \in gone THEN {} ELSE GraphNeeds[y]]
    BY <1>2 DEF GraphNeeds, Wanted
  <1>5. Graph!Discard(gone)
    BY <1>3, <1>4
    DEF Graph!Discard, Graph!Wake, GraphState, GraphNeeds, Status, Wanted, Suspended
  <1> QED BY <1>5

(* A coroutine ends, the promises in its frame are discarded, and one that   *)
(* awaited it, or the front of the ready queue, is woken.                    *)
LEMMA ReturnFinishes ==
  ASSUME Discipline, WInv, NEW c \in Coro, NEW L \in SUBSET Owned(c), Return(c, L)
  PROVE  \E D \in SUBSET Coro, W \in Graph!AtMostOne(Graph!Waiting) : Graph!Finish(c, D, W)
  <1>1. PICK gone \in SUBSET Coro : gone = Frames(L)
    BY DEF Frames
  <1>2. InControl(c) /\ MayDestroy(L)
    BY DEF Return
  <1>3. gone \cap OnStack = {} /\ c \notin gone
    <2>1. c \in Coro \cup {Main}
      OBVIOUS
    <2> QED BY <1>1, <1>2, <2>1, GoneFacts
  <1>4. Returned(c, gone)
    BY <1>1, ReturnWakes
  <1>5. \A y \in Coro : awaits'[y] = IF y \in gone THEN {} ELSE awaits[y]
    BY <1>1 DEF Return, destroy
  <1>6. /\ OnStack \subseteq Coro /\ OnStack' \subseteq Coro
        /\ c \in OnStack /\ at \in [Coro -> States] /\ awaits \in [Coro -> SUBSET Coro]
    <2>1. OnStack \subseteq Coro /\ at \in [Coro -> States] /\ awaits \in [Coro -> SUBSET Coro]
      BY DEF WInv, IInv, TypeOK, SchedulerType, OnStack
    <2>2. c \in OnStack
      BY <1>2, InControlOnTop, TopOfStack
    <2>3. \A y \in OnStack' \ OnStack : y \in Coro
      BY <1>4 DEF Returned
    <2> QED BY <2>1, <2>2, <2>3
  <1>7. PICK W \in SUBSET Coro : W = OnStack' \ OnStack
    BY <1>6
  <1> DEFINE states == [y \in Coro |-> IF y \in gone THEN "none"
                                       ELSE IF y = c THEN "done" ELSE GraphState[y]]
             wants == [y \in Coro |-> IF y \in gone THEN {} ELSE GraphNeeds[y]]
  <1>8. /\ \A x, y \in W : x = y
        /\ \A y \in W : Status(y) = "waiting" /\ y \notin gone /\ y # c
    BY <1>4, <1>7 DEF Returned, Status, Suspended, Awaiting
  <1>9. ASSUME NEW y \in W PROVE states[y] = "waiting" /\ \E d \in wants[y] : states[d] = "done"
    <2>1. states[y] = "waiting"
      BY <1>8 DEF GraphState
    <2>2. wants[y] = awaits[y]
      BY <1>4, <1>7, <1>8 DEF Returned, GraphNeeds, Wanted
    <2>3. PICK d \in awaits[y] \ gone : d \in Coro /\ (Done(d) \/ d = c)
      BY <1>4, <1>7 DEF Returned
    <2>4. states[d] = "done"
      BY <2>3, DoneInGraph DEF GraphState
    <2> QED BY <2>1, <2>2, <2>3, <2>4
  <1>10. ASSUME NEW y \in Coro
         PROVE  Status(y)' = IF y \in W THEN "runnable" ELSE states[y]
    <2>1. CASE y \in W
      <3>1. at'[y] = at[y] /\ at[y] \in {"promise", "select"} /\ y \in OnStack'
        BY <1>4, <1>7, <2>1 DEF Returned
      <3> QED BY <2>1, <3>1 DEF Status, Suspended, Awaiting
    <2>2. CASE y \in gone
      <3>1. at'[y] = "free" /\ y \notin W
        BY <1>4, <1>8, <2>2 DEF Returned
      <3> QED BY <2>2, <3>1 DEF Status, Suspended, Awaiting
    <2>3. CASE y = c
      BY <1>3, <1>4, <1>8, <2>3 DEF Returned, Status, Suspended, Awaiting
    <2>4. CASE y \notin W /\ y \notin gone /\ y # c
      <3>1. (y \in OnStack' <=> y \in OnStack) /\ at'[y] = at[y]
        BY <1>4, <1>7, <2>4 DEF Returned
      <3> QED BY <2>4, <3>1, StatusKept DEF GraphState
    <2> QED BY <2>1, <2>2, <2>3, <2>4
  <1>11. GraphNeeds' = wants
    <2> SUFFICES ASSUME NEW y \in Coro PROVE Wanted(y)' = IF y \in gone THEN {} ELSE Wanted(y)
      BY DEF GraphNeeds
    <2>1. y \notin gone => (at'[y] = "perform" <=> at[y] = "perform")
      BY <1>2, <1>4, InControlOnTop DEF Returned
    <2> QED BY <1>4, <1>5, <2>1 DEF Wanted, Returned
  <1>12. GraphState' = [y \in Coro |-> IF y \in W THEN "runnable" ELSE states[y]]
    BY <1>10 DEF GraphState
  <1>13. Graph!Finish(c, gone, W)
    BY <1>2, <1>3, <1>8, <1>9, <1>11, <1>12, RunsInGraph
    DEF Graph!Finish, Graph!Wake, Graph!Happened, GraphState, GraphNeeds, Status, Wanted, Suspended
  <1>14. W \in Graph!AtMostOne(Graph!Waiting)
    BY <1>8, WokenInGraph
  <1> QED BY <1>13, <1>14

(* A message of curl wakes the task it names; the rest of the loop's turns   *)
(* are no steps of the graph.                                                *)
LEMMA CompleteSomethingWakes ==
  ASSUME WInv, NEW e \in Coro, CompleteSomething(e)
  PROVE  \E W \in Graph!AtMostOne(Graph!Waiting) : Graph!Wake(W, GraphState, GraphNeeds)
  <1>1. /\ e \in finished /\ stack = <<>> /\ stack' = <<e>> \o stack /\ UNCHANGED <<at, awaits>>
    BY DEF CompleteSomething, complete_something, coroutineVars, WInv, IInv, CounterIsStack
  <1>2. at[e] = "perform" /\ e \notin OnStack
    BY <1>1 DEF WInv, IInv, TypeOK, CurlType, HandlesInv, HandleInv
  <1>3. OnStack' = {e} \cup OnStack
    <2>1. stack \in Seq(Coro) /\ IsInjective(stack) /\ e \notin Range(stack)
      BY <1>2 DEF WInv, IInv, TypeOK, SchedulerType, HandlesInv, StackInv, OnStack, Range
    <2>2. Range(stack') = {e} \cup Range(stack)
      BY <1>1, <2>1, PushApart
    <2> QED BY <2>2 DEF OnStack, Range
  <1>4. PICK W \in SUBSET Coro : W = {e}
    OBVIOUS
  <1>5. Status(e) = "waiting" /\ Wanted(e) = {Null}
    BY <1>2 DEF Status, Wanted, Suspended, Awaiting
  <1>6. GraphState' = [y \in Coro |-> IF y \in W THEN "runnable" ELSE GraphState[y]]
    <2> SUFFICES ASSUME NEW y \in Coro
                 PROVE  Status(y)' = IF y = e THEN "runnable" ELSE Status(y)
      BY <1>4 DEF GraphState
    <2>1. CASE y = e
      BY <1>1, <1>2, <1>3, <2>1 DEF Status, Suspended, Awaiting
    <2>2. CASE y # e
      BY <1>1, <1>3, <2>2, StatusKept
    <2> QED BY <2>1, <2>2
  <1>7. GraphNeeds' = GraphNeeds
    BY <1>1 DEF GraphNeeds, Wanted
  <1>8. \A y \in W : GraphState[y] = "waiting" /\ Null \in GraphNeeds[y]
    BY <1>4, <1>5 DEF GraphState, GraphNeeds
  <1>9. Graph!Wake(W, GraphState, GraphNeeds)
    BY <1>4, <1>6, <1>7, <1>8
    DEF Graph!Wake, Graph!Happened, GraphState, GraphNeeds, Status, Wanted, Suspended
  <1>10. W \in Graph!AtMostOne(Graph!Waiting)
    BY <1>4, <1>5, WokenInGraph
  <1> QED BY <1>9, <1>10

LEMMA OthersStutter ==
  ASSUME UNCHANGED <<at, awaits, stack>>
  PROVE  UNCHANGED Graph!graphVars
  <1>1. OnStack' = OnStack
    BY DEF OnStack
  <1> QED BY <1>1 DEF Graph!graphVars, Suspended

LEMMA InitInGraph == Init => Graph!GraphInit
  <1> SUFFICES ASSUME Init PROVE Graph!GraphInit
    OBVIOUS
  <1>1. at = [c \in Coro |-> "free"] /\ awaits = [c \in Coro |-> {}]
    BY DEF Init
  <1> QED BY <1>1 DEF Graph!GraphInit, Suspended, Awaiting

LEMMA NextInGraph == Discipline /\ WInv /\ [Next]_vars => [Graph!GraphNext]_Graph!graphVars
  <1> SUFFICES ASSUME Discipline, WInv, [Next]_vars
               PROVE  Graph!GraphNext \/ UNCHANGED Graph!graphVars
    OBVIOUS
  <1>1. ASSUME NEW p \in Coro \cup {Main}, NEW c \in Coro, NEW M, NEW R, Call(p, c, M, R)
        PROVE  Graph!GraphNext
    BY <1>1, CallSpawns DEF Graph!GraphNext
  <1>2. ASSUME NEW p \in Coro \cup {Main}, NEW d \in Coro, Drop(p, d)
        PROVE  Graph!GraphNext
    BY <1>2, DropDiscards DEF Graph!GraphNext
  <1>3. ASSUME NEW p \in Coro, NEW D \in SUBSET Coro, Await(p, D)
        PROVE  Graph!GraphNext
    <2>1. D \in SUBSET (Coro \cup {Null})
      OBVIOUS
    <2> QED BY <1>3, <2>1, AwaitWaits DEF Graph!GraphNext
  <1>4. ASSUME NEW p \in Coro, Perform(p)
        PROVE  Graph!GraphNext
    <2>1. {Null} \in SUBSET (Coro \cup {Null})
      OBVIOUS
    <2> QED BY <1>4, <2>1, PerformWaits DEF Graph!GraphNext
  <1>5. ASSUME NEW p \in Coro, AwaitResume(p)
        PROVE  Graph!GraphNext
    BY <1>5, AwaitResumeReads DEF Graph!GraphNext
  <1>6. ASSUME NEW p \in Coro, NEW L \in SUBSET Owned(p), Return(p, L)
        PROVE  Graph!GraphNext
    BY <1>6, ReturnFinishes DEF Graph!GraphNext
  <1>7. CASE MainStep
    BY <1>1, <1>2, <1>7 DEF MainStep
  <1>8. CASE CoroutineStep
    <2>1. PICK p \in Coro :
            \/ \E c \in Coro, M \in SUBSET Owned(p), R \in SUBSET Borrowable : Call(p, c, M, R)
            \/ \E D \in SUBSET Coro : Await(p, D)
            \/ Perform(p)
            \/ AwaitResume(p)
            \/ \E L \in SUBSET Owned(p) : Return(p, L)
            \/ \E d \in Coro : Drop(p, d)
      BY <1>8, VisibleType, ExecutingType DEF CoroutineStep, WInv, IInv
    <2> QED BY <1>1, <1>2, <1>3, <1>4, <1>5, <1>6, <2>1
  <1>9. CASE CurlStep
    <2>1. CASE \E e \in Coro : CompleteSomething(e)
      BY <2>1, CompleteSomethingWakes
      DEF Graph!GraphNext, GraphState, GraphNeeds, Status, Wanted, Suspended
    <2>2. CASE ~ \E e \in Coro : CompleteSomething(e)
      <3>1. UNCHANGED <<at, awaits, stack>>
        BY <1>9, <2>2 DEF CurlStep, TransferEnds, NothingToComplete, PerformFails,
           nothing_to_complete, perform_fails, schedulerVars, coroutineVars
      <3> QED BY <3>1, OthersStutter
    <2> QED BY <2>1, <2>2
  <1>10. CASE UNCHANGED vars
    BY <1>10, OthersStutter DEF vars, schedulerVars, coroutineVars
  <1> QED BY <1>7, <1>8, <1>9, <1>10 DEF Next, Terminated

(* Everything coroutines do with the scheduler is what a graph of tasks does *)
(* without one: a coroutine is resumed only by the end of what it awaits or  *)
(* by its own transfer, reads that result before all else, and never runs    *)
(* again once it has ended or been destroyed.                                *)
THEOREM ImplementsTaskGraphCorrect == ASSUME Discipline PROVE Spec => ImplementsTaskGraph
  <1>1. Init => Graph!GraphInit
    BY InitInGraph
  <1>2. WInv /\ [Next]_vars => [Graph!GraphNext]_Graph!graphVars
    BY NextInGraph
  <1>3. Spec => []WInv
    BY WInvHolds
  <1> QED BY <1>1, <1>2, <1>3, PTL DEF Spec, ImplementsTaskGraph, Graph!GraphSpec

----------------------------------------------------------------------------
(* When control is back in main() nothing is left unfinished.  Whoever       *)
(* depends on a coroutine holds or was lent its promise, and such a          *)
(* dependence has no cycle, since it can only lead to what exists already or *)
(* to a coroutine one has just called.                                       *)
RunningInv == \A c \in Coro : at[c] = "running" => c \in OnStack
OwnersExist == \A c \in Coro : owner[c] \in Coro => at[owner[c]] # "free"
NoCycle == \A S \in SUBSET Coro : S # {} =>
             \E x \in S : \A y \in S : owner[y] # x /\ y \notin refs[x]

(* Nothing is kept for later while no coroutine is on the stack, and main()  *)
(* goes on only if curl has nothing left to do.                              *)
IdleInv ==
  /\ stack = <<>> => ready = <<>>
  /\ AtMain => running = {} /\ finished = {}

GraphInv == RunningInv /\ OwnersExist /\ NoCycle /\ IdleInv

LEMMA GraphInvInit == Init => GraphInv
  <1> SUFFICES ASSUME Init PROVE GraphInv
    OBVIOUS
  <1>1. /\ \A c \in Coro : at[c] = "free" /\ owner[c] = Null /\ refs[c] = {}
        /\ ready = <<>> /\ running = {} /\ finished = {}
    BY DEF Init, CurlInit, SchedulerInit
  <1> QED BY <1>1, Names DEF GraphInv, RunningInv, OwnersExist, NoCycle, IdleInv

(* A new coroutine comes between its caller and what it is given.            *)
LEMMA CallGraph ==
  ASSUME WInv, GraphInv, NEW p \in Coro \cup {Main}, NEW c \in Coro, NEW M, NEW R,
         Call(p, c, M, R)
  PROVE  GraphInv'
  <1> USE DEF GraphInv
  <1>1. /\ at[c] = "free" /\ at' = [at EXCEPT ![c] = "running"]
        /\ owner' = [x \in Coro |-> IF x = c THEN p ELSE IF x \in M THEN c ELSE owner[x]]
        /\ refs' = [refs EXCEPT ![c] = R]
        /\ R \subseteq Visible(p) \ M /\ M \subseteq Owned(p)
        /\ stack' = <<c>> \o stack /\ InControl(p)
    BY DEF Call
  <1>2. /\ at \in [Coro -> States] /\ refs \in [Coro -> SUBSET Coro] /\ stack \in Seq(Coro)
        /\ owner \in [Coro -> Coro \cup {Main, Null}]
        /\ IsInjective(stack) /\ c \notin Range(stack) /\ owner[c] = Null
        /\ \A x \in Coro : c \notin refs[x]
    BY <1>1 DEF WInv, IInv, TypeOK, SchedulerType, HandlesInv, StackInv, FreeInv, AwaitingInv,
                RefsInv, Pending, OnStack, Range
  <1>3. OnStack' = {c} \cup OnStack /\ stack' # <<>>
    <2>1. Range(stack') = {c} \cup Range(stack) /\ stack' # <<>>
      BY <1>1, <1>2, PushApart
    <2> QED BY <2>1 DEF OnStack, Range
  <1>4. p # c /\ (p \in Coro => at[p] = "running")
    BY <1>1, InControlOnTop, Names
  <1>5. RunningInv'
    BY <1>1, <1>2, <1>3 DEF RunningInv
  <1>6. OwnersExist'
    BY <1>1, <1>2, <1>4 DEF OwnersExist
  <1>7. NoCycle'
    <2> SUFFICES ASSUME NEW S \in SUBSET Coro, S # {}
                 PROVE  \E x \in S : \A y \in S : owner'[y] # x /\ y \notin refs'[x]
      BY DEF NoCycle
    <2> DEFINE Rest == S \ {c}
    <2>1. \A x \in Coro : owner[x] # c
      BY <1>1 DEF OwnersExist
    <2>2. ASSUME c \in S, \A y \in S : y \notin M /\ y \notin R
          PROVE  \A y \in S : owner'[y] # c /\ y \notin refs'[c]
      BY <1>1, <1>2, <1>4, <2>1, <2>2
    <2>3. CASE Rest = {}
      <3>1. S = {c} /\ c \notin M /\ c \notin R
        BY <1>1, <1>2, <1>4, <2>3, Names DEF Owned, Visible
      <3> QED BY <2>2, <3>1
    <2>4. CASE Rest # {}
      <3>1. PICK x \in Rest : \A y \in Rest : owner[y] # x /\ y \notin refs[x]
        BY <2>4 DEF NoCycle
      <3>2. CASE x = p /\ c \in S
        <4>1. \A y \in S : y \notin M /\ y \notin R
          BY <1>1, <1>2, <1>4, <3>1, <3>2, Names DEF Owned, Visible
        <4> QED BY <2>2, <3>2, <4>1
      <3>3. CASE x # p \/ c \notin S
        <4>1. \A y \in S : owner'[y] # x /\ y \notin refs'[x]
          BY <1>1, <1>2, <3>1, <3>3
        <4> QED BY <3>1, <4>1
      <3> QED BY <3>2, <3>3
    <2> QED BY <2>3, <2>4
  <1>8. IdleInv'
    BY <1>3 DEF IdleInv, AtMain
  <1> QED BY <1>5, <1>6, <1>7, <1>8

(* Whoever hands over never leaves the queue, or main(), behind.             *)
LEMMA HandOverIdle ==
  ASSUME CounterIsStack', NEW a, NEW queue, NEW n, stack \in Seq(Coro), stack # <<>>,
         a \in Coro \cup {Null}, queue \in Seq(Coro),
         select_next_coroutine(a, queue, n)
  PROVE  IdleInv'
  <1>1. Tail(stack) \in Seq(Coro)
    BY HeadTailProperties
  <1>2. ASSUME NEW x \in Coro, stack' = <<x>> \o Tail(stack) PROVE IdleInv'
    <2>1. Len(stack') = Len(Tail(stack)) + 1 /\ Len(Tail(stack)) \in Nat /\ stack' \in Seq(Coro)
      BY <1>1, <1>2, PushType, LenProperties
    <2>2. stack' # <<>>
      BY <2>1, EmptySeq
    <2> QED BY <2>2 DEF IdleInv, AtMain
  <1>3. CASE ready' = <<>> /\ blocked_balance' = n /\ polling' = (n = 0)
    <2>1. stack' = <<>> => Len(stack') = 0
      BY EmptySeq
    <2> QED BY <1>3, <2>1 DEF IdleInv, AtMain, CounterIsStack
  <1>4. queue # <<>> => Head(queue) \in Coro
    BY HeadTailProperties
  <1> QED BY <1>2, <1>3, <1>4 DEF select_next_coroutine, graph_blocked

LEMMA DestroyGraph ==
  ASSUME WInv, GraphInv, NEW D \in SUBSET Coro, NEW states, destroy(D, states),
         \A x \in Coro : states[x] = "free" => at[x] = "free"
  PROVE  OwnersExist' /\ NoCycle'
  <1> USE DEF GraphInv
  <1>1. /\ \A x \in Coro : owner[x] \in Frames(D) => x \in Frames(D)
        /\ owner \in [Coro -> Coro \cup {Main, Null}]
    BY FramesLeast DEF WInv, IInv, TypeOK
  <1>2. \A x \in Coro : /\ at'[x] = IF x \in Frames(D) THEN "free" ELSE states[x]
                        /\ owner'[x] = IF x \in Frames(D) THEN Null ELSE owner[x]
                        /\ refs'[x] \subseteq refs[x]
    BY DEF destroy
  <1>3. OwnersExist'
    BY <1>1, <1>2, Names DEF OwnersExist
  <1>4. NoCycle'
    <2> SUFFICES ASSUME NEW S \in SUBSET Coro, S # {}
                 PROVE  \E x \in S : \A y \in S : owner'[y] # x /\ y \notin refs'[x]
      BY DEF NoCycle
    <2>1. PICK x \in S : \A y \in S : owner[y] # x /\ y \notin refs[x]
      BY DEF NoCycle
    <2> QED BY <1>2, <2>1, Names
  <1> QED BY <1>3, <1>4

LEMMA ReturnGraph ==
  ASSUME Discipline, WInv, WInv', GraphInv, NEW c \in Coro, NEW L \in SUBSET Owned(c),
         Return(c, L)
  PROVE  GraphInv'
  <1> USE DEF GraphInv
  <1>1. Returned(c, Frames(L)) /\ InControl(c)
    BY ReturnWakes DEF Return
  <1>2. /\ at \in [Coro -> States] /\ stack \in Seq(Coro) /\ awaiter[c] \in Coro \cup {Null}
        /\ stack # <<>> /\ L \in SUBSET Coro
    BY <1>1, InControlOnTop DEF WInv, IInv, TypeOK, SchedulerType, Owned
  <1>3. OwnersExist' /\ NoCycle'
    <2> DEFINE states == [at EXCEPT ![c] = "final"]
    <2>1. destroy(L, states) /\ \A x \in Coro : states[x] = "free" => at[x] = "free"
      BY <1>2 DEF Return
    <2> HIDE DEF states
    <2> QED BY <1>2, <2>1, DestroyGraph
  <1>4. RunningInv'
    BY <1>1 DEF RunningInv, Returned
  <1>5. IdleInv'
    <2>1. PICK queue \in QueuedWith(c) :
            select_next_coroutine(awaiter[c], queue, finish(blocked_balance))
      BY DEF Return
    <2>2. queue \in Seq(Coro) /\ CounterIsStack'
      BY QueuedType DEF WInv, IInv
    <2> QED BY <1>2, <2>1, <2>2, HandOverIdle
  <1> QED BY <1>3, <1>4, <1>5

LEMMA SuspendGraph ==
  ASSUME WInv, WInv', GraphInv, NEW p \in Coro, InControl(p), suspend,
         at'[p] # "running", at'[p] # "free", \A y \in Coro : y # p => at'[y] = at[y],
         UNCHANGED <<owner, refs>>
  PROVE  GraphInv'
  <1> USE DEF GraphInv
  <1>1. \A y \in Coro \ OnStack' : y # p => y \notin OnStack
    BY Suspends
  <1>2. RunningInv'
    BY <1>1 DEF RunningInv
  <1>3. OwnersExist' /\ NoCycle'
    BY DEF OwnersExist, NoCycle
  <1>4. IdleInv'
    <2>1. /\ stack \in Seq(Coro) /\ stack # <<>> /\ ready \in Seq(Coro) /\ CounterIsStack'
      BY InControlOnTop DEF WInv, IInv, TypeOK, SchedulerType
    <2>2. PICK a \in Coro \cup {Null} : a = Null
      OBVIOUS
    <2>3. select_next_coroutine(a, ready, blocked(blocked_balance))
      BY <2>2 DEF suspend
    <2> QED BY <2>1, <2>3, HandOverIdle
  <1> QED BY <1>2, <1>3, <1>4

LEMMA DropGraph ==
  ASSUME Discipline, WInv, GraphInv, NEW p \in Coro \cup {Main}, NEW d \in Coro, Drop(p, d)
  PROVE  GraphInv'
  <1> USE DEF GraphInv
  <1>1. destroy({d}, at) /\ UNCHANGED <<stack, polling, ready>>
    BY DEF Drop, schedulerVars
  <1>2. OwnersExist' /\ NoCycle'
    <2>1. PICK D \in SUBSET Coro : D = {d}
      OBVIOUS
    <2> QED BY <1>1, <2>1, DestroyGraph
  <1>3. RunningInv'
    BY <1>1 DEF RunningInv, destroy, OnStack
  <1>4. IdleInv'
    BY <1>1 DEF IdleInv, AtMain, destroy, remove_handles
  <1> QED BY <1>2, <1>3, <1>4

LEMMA AwaitResumeGraph ==
  ASSUME WInv, GraphInv, NEW c \in Coro, AwaitResume(c)
  PROVE  GraphInv'
  <1> USE DEF GraphInv
  <1>1. /\ OnTop(c) /\ at' = [at EXCEPT ![c] = "running"] /\ at \in [Coro -> States]
        /\ UNCHANGED <<owner, refs, stack, polling, ready, running, finished>>
    BY DEF AwaitResume, curlVars, WInv, IInv, TypeOK
  <1>2. c \in OnStack /\ OnStack' = OnStack
    <2>1. stack # <<>>
      BY <1>1 DEF OnTop, Executing
    <2> QED BY <1>1, <2>1, TopOfStack DEF OnTop, OnStack
  <1>3. RunningInv'
    BY <1>1, <1>2 DEF RunningInv
  <1>4. OwnersExist' /\ NoCycle' /\ IdleInv'
    BY <1>1 DEF OwnersExist, NoCycle, IdleInv, AtMain
  <1> QED BY <1>3, <1>4

LEMMA CurlGraph ==
  ASSUME ~MultiFails, WInv, GraphInv, CurlStep
  PROVE  GraphInv'
  <1> USE DEF GraphInv
  <1>1. polling /\ stack = <<>> /\ UNCHANGED <<at, owner, refs, ready>>
    BY DEF CurlStep, TransferEnds, CompleteSomething, NothingToComplete, PerformFails,
           complete_something, nothing_to_complete, perform_fails, schedulerVars, coroutineVars,
           WInv, IInv, CounterIsStack
  <1>2. OwnersExist' /\ NoCycle'
    BY <1>1 DEF OwnersExist, NoCycle
  <1>3. \A c \in Coro : at[c] # "running"
    BY <1>1, EmptySeq DEF RunningInv, OnStack
  <1>4. RunningInv'
    BY <1>1, <1>3 DEF RunningInv
  <1>5. IdleInv'
    <2>1. CASE \E e \in Coro : CompleteSomething(e)
      <3>1. PICK e \in Coro : stack' = <<e>> \o stack
        BY <2>1 DEF CompleteSomething, complete_something
      <3>2. Len(stack') = Len(stack) + 1 /\ Len(stack) = 0
        BY <1>1, <3>1, PushType, EmptySeq DEF WInv, IInv, TypeOK, SchedulerType
      <3>3. stack' # <<>>
        BY <1>1, <3>2
      <3> QED BY <3>3 DEF IdleInv, AtMain
    <2>2. CASE \E e \in Coro, k \in Codes : TransferEnds(e, k)
      BY <1>1, <2>2 DEF TransferEnds, schedulerVars, IdleInv, AtMain
    <2>3. CASE NothingToComplete
      BY <1>1, <2>3 DEF NothingToComplete, nothing_to_complete, curlVars, IdleInv, AtMain
    <2> QED BY <2>1, <2>2, <2>3 DEF CurlStep, PerformFails
  <1> QED BY <1>2, <1>4, <1>5

LEMMA GraphInvNext ==
  Discipline /\ ~MultiFails /\ WInv /\ WInv' /\ GraphInv /\ [Next]_vars => GraphInv'
  <1> SUFFICES ASSUME Discipline, ~MultiFails, WInv, WInv', GraphInv, [Next]_vars
               PROVE  GraphInv'
    OBVIOUS
  <1>1. CASE MainStep
    BY <1>1, CallGraph, DropGraph DEF MainStep
  <1>2. CASE CoroutineStep
    <2>1. PICK p \in Coro :
            \/ \E c \in Coro, M \in SUBSET Owned(p), R \in SUBSET Borrowable : Call(p, c, M, R)
            \/ \E D \in SUBSET Coro : Await(p, D)
            \/ Perform(p)
            \/ AwaitResume(p)
            \/ \E L \in SUBSET Owned(p) : Return(p, L)
            \/ \E d \in Coro : Drop(p, d)
      BY <1>2, VisibleType, ExecutingType DEF CoroutineStep, WInv, IInv
    <2>2. at \in [Coro -> States]
      BY DEF WInv, IInv, TypeOK
    <2>3. CASE \E D \in SUBSET Coro : Await(p, D)
      <3>1. /\ InControl(p) /\ suspend /\ UNCHANGED <<owner, refs>>
            /\ \E k \in {"promise", "select"} : at' = [at EXCEPT ![p] = k]
        BY <2>3 DEF Await, Kind
      <3> QED BY <2>2, <3>1, SuspendGraph
    <2>4. CASE Perform(p)
      <3>1. /\ InControl(p) /\ suspend /\ UNCHANGED <<owner, refs>>
            /\ at' = [at EXCEPT ![p] = "perform"]
        BY <2>4 DEF Perform
      <3> QED BY <2>2, <3>1, SuspendGraph
    <2> QED BY <2>1, <2>3, <2>4, CallGraph, DropGraph, AwaitResumeGraph, ReturnGraph
  <1>3. CASE CurlStep
    BY <1>3, CurlGraph
  <1>4. CASE UNCHANGED vars
    BY <1>4 DEF vars, curlVars, schedulerVars, coroutineVars, GraphInv, RunningInv, OwnersExist,
                NoCycle, IdleInv, AtMain, OnStack
  <1> QED BY <1>1, <1>2, <1>3, <1>4 DEF Next, Terminated

(* Whoever is unfinished depends on somebody unfinished, or on curl.         *)
LEMMA IdleIsDone == ASSUME WInv, GraphInv PROVE AllDoneInMain
  <1> USE DEF WInv, HandlesInv, AwaitingInv, GraphInv
  <1> DEFINE S == {c \in Coro : Pending(c)}
  <1> SUFFICES ASSUME AtMain, S # {} PROVE FALSE
    BY DEF AllDoneInMain, Live, Done, Pending
  <1>1. OnStack = {} /\ Queued = {} /\ running = {} /\ finished = {}
    BY EmptySeq DEF AtMain, IdleInv, OnStack, Queued
  <1>2. PICK x \in S : \A y \in S : owner[y] # x /\ y \notin refs[x]
    BY DEF NoCycle
  <1>3. at[x] \in States /\ at[x] # "running" /\ at[x] # "perform"
    BY <1>1, <1>2 DEF RunningInv, WakeInv, IInv, TypeOK
  <1>4. at[x] \in {"promise", "select"}
    BY <1>2, <1>3 DEF States, Awaiting, Pending
  <1>5. awaits[x] # {} /\ awaits[x] \subseteq Owned(x) \cup refs[x] /\ awaits[x] \subseteq Coro
    BY <1>4 DEF AwaitsInv, IInv, TypeOK
  <1>6. PICK d \in awaits[x] : d \in Coro /\ ~Done(d)
    BY <1>1, <1>4, <1>5 DEF WakeInv
  <1>7. at[d] # "free"
    BY <1>2, <1>5, <1>6, Names DEF FreeInv, RefsInv, Owned
  <1>8. d \in S
    BY <1>6, <1>7 DEF Pending, Done
  <1> QED BY <1>2, <1>5, <1>6, <1>8 DEF Owned

(* get() in main() never meets a pending promise: as long as curl does not   *)
(* fail, control comes back to main() only when every coroutine it started,  *)
(* and all they started, has ended.                                          *)
THEOREM AllDoneInMainCorrect ==
  ASSUME Discipline, ~MultiFails PROVE Spec => []AllDoneInMain
  <1>1. Init => GraphInv
    BY GraphInvInit
  <1>2. WInv /\ WInv' /\ GraphInv /\ [Next]_vars => GraphInv'
    BY GraphInvNext
  <1>3. WInv /\ GraphInv => AllDoneInMain
    BY IdleIsDone
  <1>4. Spec => []WInv
    BY WInvHolds
  <1> QED BY <1>1, <1>2, <1>3, <1>4, PTL DEF Spec
=============================================================================
