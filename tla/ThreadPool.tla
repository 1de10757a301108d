----------------------------- MODULE ThreadPool ----------------------------
(* thread_pool, detached_task and sync_await (thread-pool.hpp).  Worker      *)
(* threads take coroutine handles from a queue and run their bodies; a body  *)
(* starts tasks, awaits the tasks it holds and returns once they are done,   *)
(* as the bodies of examples/jobs.cpp do.  main() starts tasks, may wait for *)
(* one with sync_await, and stops the pool.  The steps of an await and of    *)
(* the end of a task are separate: other threads run between them.           *)
EXTENDS Naturals, Sequences, FiniteSets

CONSTANTS
  Worker,        \* threads of the pool
  Main,          \* the thread of main()
  Task,          \* detached coroutines
  Sync,          \* the coroutine inside sync_await
  Pill,          \* the empty handle stop_and_join queues for each worker
  Null,
  UsesSyncAwait  \* may main() call sync_await?

ASSUME PoolAssumption ==
  /\ IsFiniteSet(Worker) /\ Worker # {} /\ Main \notin Worker \cup Task \cup {Null}
  /\ Sync \notin Task /\ Pill \notin Task \cup {Sync} /\ Null \notin Task \cup {Sync}
  /\ UsesSyncAwait \in BOOLEAN

Thread == Worker \cup {Main}
Coroutine == Task \cup {Sync}

VARIABLES
  queue,    \* thread_pool::queue
  pc,       \* what each thread does, see Places
  cur,      \* the coroutine a thread executes
  status,   \* of each coroutine, see Statuses
  holder,   \* who holds the detached_task object: a coroutine or Main
  on,       \* the task a coroutine awaits
  awaiter,  \* detached_promise_type::awaiter
  future,   \* has sync_awaiter's std::promise been set?
  pills     \* empty handles stop_and_join has yet to queue

poolVars == <<queue, pc, cur, status, holder, on, awaiter, future, pills>>

(* get: about to lock in get_next; asleep: in cv.wait; body: in a coroutine; *)
(* suspending: between await_ready and await_suspend of an await; ended:     *)
(* between the final suspension and its reading of awaiter; set: sync_await  *)
(* has its result but its coroutine has yet to suspend; exited.  Of main():  *)
(* main: its own code; blocked: in future::get; stopping, joining, joined.   *)
Places == {"get", "asleep", "body", "suspending", "ended", "set", "exited",
           "main", "blocked", "stopping", "joining", "joined"}
Statuses == {"new", "queued", "running", "waiting", "done", "destroyed"}

PoolType ==
  /\ queue \in Seq(Task \cup {Pill})
  /\ pc \in [Thread -> Places]
  /\ cur \in [Thread -> Coroutine \cup {Null}]
  /\ status \in [Coroutine -> Statuses]
  /\ holder \in [Task -> Coroutine \cup {Main, Null}]
  /\ on \in [Coroutine -> Task \cup {Null}]
  /\ awaiter \in [Task -> Coroutine \cup {Null}]
  /\ future \in BOOLEAN
  /\ pills \in Nat

PoolInit ==
  /\ queue = <<>>
  /\ pc = [th \in Thread |-> IF th = Main THEN "main" ELSE "get"]
  /\ cur = [th \in Thread |-> Null]
  /\ status = [c \in Coroutine |-> "new"]
  /\ holder = [t \in Task |-> Null]
  /\ on = [c \in Coroutine |-> Null]
  /\ awaiter = [t \in Task |-> Null]
  /\ future = FALSE
  /\ pills = 0

----------------------------------------------------------------------------
(* Plausible bugs.  No specification uses them: each replaces a definition   *)
(* below, to see that the properties notice.                                 *)
add_without_notify(handle, places) == queue' = Append(queue, handle) /\ pc' = places
front_not_popped == queue
AwaiterIgnored(th) == Null
OnePill == 1

AttachTheWrongWay(th) ==
  /\ pc[th] = "suspending"
  /\ awaiter' = [t \in Task |-> IF t = cur[th] THEN on[t] ELSE awaiter[t]]
  /\ pc' = [pc EXCEPT ![th] = IF th = Main THEN "blocked" ELSE "get"]
  /\ cur' = [cur EXCEPT ![th] = Null]
  /\ UNCHANGED <<queue, status, holder, on, future, pills>>

GetResultAtOnce ==
  /\ pc[Main] = "blocked"
  /\ status' = [status EXCEPT ![Sync] = "destroyed"]
  /\ pc' = [pc EXCEPT ![Main] = "main"]
  /\ UNCHANGED <<queue, cur, holder, on, awaiter, future, pills>>

(* add(): under the mutex, queue the handle and wake one sleeper, if any.    *)
(* places is pc as the rest of the step leaves it.                           *)
add(handle, places) ==
  /\ queue' = Append(queue, handle)
  /\ LET sleepers == {w \in Worker : places[w] = "asleep"}
     IN  IF sleepers = {} THEN pc' = places
         ELSE \E w \in sleepers : pc' = [places EXCEPT ![w] = "get"]

popped == Tail(queue)
EndsLoop(handle) == handle = Pill

(* get_next(): the predicate of cv.wait holds, so the front is taken and     *)
(* resumed; the empty handle ends the worker's loop.                         *)
Take(w) ==
  /\ pc[w] = "get" /\ queue # <<>>
  /\ queue' = popped
  /\ IF EndsLoop(Head(queue))
       THEN /\ pc' = [pc EXCEPT ![w] = "exited"]
            /\ UNCHANGED <<cur, status>>
       ELSE /\ pc' = [pc EXCEPT ![w] = "body"]
            /\ cur' = [cur EXCEPT ![w] = Head(queue)]
            /\ status' = [status EXCEPT ![Head(queue)] = "running"]
  /\ UNCHANGED <<holder, on, awaiter, future, pills>>

(* It does not hold: the worker sleeps, until notified or for no reason.     *)
Sleep(w) ==
  /\ pc[w] = "get" /\ queue = <<>>
  /\ pc' = [pc EXCEPT ![w] = "asleep"]
  /\ UNCHANGED <<queue, cur, status, holder, on, awaiter, future, pills>>

SpuriousWakeup(w) ==
  /\ pc[w] = "asleep"
  /\ pc' = [pc EXCEPT ![w] = "get"]
  /\ UNCHANGED <<queue, cur, status, holder, on, awaiter, future, pills>>

----------------------------------------------------------------------------
Executes(th, c) == pc[th] = "body" /\ cur[th] = c
Held(p) == {t \in Task : holder[t] = p}

(* p calls a coroutine: initial_suspend queues it, schedule_at_threadpool.   *)
Start(th, p, t) ==
  /\ \/ p \in Task /\ Executes(th, p)
     \/ p = Main /\ th = Main /\ pc[Main] = "main"
  /\ status[t] = "new"
  /\ status' = [status EXCEPT ![t] = "queued"]
  /\ holder' = [holder EXCEPT ![t] = p]
  /\ add(t, pc)
  /\ UNCHANGED <<cur, on, awaiter, future, pills>>

(* co_await of a held task that await_ready() finds not done.  The awaiting  *)
(* coroutine is suspended, and its thread is about to attach it.             *)
AwaitNotReady(th, c, t) ==
  /\ c \in Task /\ Executes(th, c)
  /\ t \in Held(c) /\ status[t] # "done"
  /\ pc' = [pc EXCEPT ![th] = "suspending"]
  /\ status' = [status EXCEPT ![c] = "waiting"]
  /\ on' = [on EXCEPT ![c] = t]
  /\ UNCHANGED <<queue, cur, holder, awaiter, future, pills>>

(* await_suspend(): attach, and back to where the thread came from: the loop *)
(* of the worker, or sync_await in main().                                   *)
Attach(th) ==
  /\ pc[th] = "suspending"
  /\ awaiter' = [awaiter EXCEPT ![on[cur[th]]] = cur[th]]
  /\ pc' = [pc EXCEPT ![th] = IF th = Main THEN "blocked" ELSE "get"]
  /\ cur' = [cur EXCEPT ![th] = Null]
  /\ UNCHANGED <<queue, status, holder, on, future, pills>>

(* co_return or an exception; the tasks held are destroyed, then the         *)
(* coroutine is at its final suspension point: done() is true.               *)
Finish(th, c) ==
  /\ c \in Task /\ Executes(th, c)
  /\ \A t \in Held(c) : status[t] = "done"
  /\ pc' = [pc EXCEPT ![th] = "ended"]
  /\ status' = [x \in Coroutine |->
       IF x = c THEN "done" ELSE IF x \in Held(c) THEN "destroyed" ELSE status[x]]
  /\ UNCHANGED <<queue, cur, holder, on, awaiter, future, pills>>

AwaiterRead(th) == awaiter[cur[th]]

(* suspend_or_jump_to_awaiter: continue as the awaiter, or leave the thread  *)
(* to its loop.                                                              *)
JumpToAwaiter(th) ==
  /\ pc[th] = "ended"
  /\ LET next == AwaiterRead(th)
     IN  IF next = Null
           THEN /\ pc' = [pc EXCEPT ![th] = "get"]
                /\ cur' = [cur EXCEPT ![th] = Null]
                /\ UNCHANGED <<status, on>>
           ELSE /\ pc' = [pc EXCEPT ![th] = "body"]
                /\ cur' = [cur EXCEPT ![th] = next]
                /\ status' = [status EXCEPT ![next] = "running"]
                /\ on' = [on EXCEPT ![next] = Null]
  /\ UNCHANGED <<queue, holder, awaiter, future, pills>>

----------------------------------------------------------------------------
(* sync_await(t): its coroutine runs at once, in main()'s thread.            *)
SyncAwait(t) ==
  /\ UsesSyncAwait
  /\ pc[Main] = "main" /\ t \in Held(Main) /\ status[Sync] = "new"
  /\ cur' = [cur EXCEPT ![Main] = Sync]
  /\ IF status[t] = "done"
       THEN /\ pc' = [pc EXCEPT ![Main] = "body"]
            /\ status' = [status EXCEPT ![Sync] = "running"]
            /\ UNCHANGED on
       ELSE /\ pc' = [pc EXCEPT ![Main] = "suspending"]
            /\ status' = [status EXCEPT ![Sync] = "waiting"]
            /\ on' = [on EXCEPT ![Sync] = t]
  /\ UNCHANGED <<queue, holder, awaiter, future, pills>>

(* The coroutine inside sync_await is resumed: return_value sets the future. *)
(* (If the task threw, await_resume rethrows and unhandled_exception calls   *)
(* std::terminate: that end of the whole program is left out.)               *)
SetResult(th) ==
  /\ Executes(th, Sync)
  /\ future' = TRUE
  /\ pc' = [pc EXCEPT ![th] = "set"]
  /\ UNCHANGED <<queue, cur, status, holder, on, awaiter, pills>>

(* ... and it suspends for good.                                             *)
SyncSuspends(th) ==
  /\ pc[th] = "set"
  /\ status' = [status EXCEPT ![Sync] = IF @ = "destroyed" THEN @ ELSE "done"]
  /\ pc' = [pc EXCEPT ![th] = IF th = Main THEN "blocked" ELSE "get"]
  /\ cur' = [cur EXCEPT ![th] = Null]
  /\ UNCHANGED <<queue, holder, on, awaiter, future, pills>>

(* get_result() returns and ~sync_awaiter destroys the coroutine.            *)
GetResult ==
  /\ pc[Main] = "blocked" /\ future
  /\ status' = [status EXCEPT ![Sync] = "destroyed"]
  /\ pc' = [pc EXCEPT ![Main] = "main"]
  /\ UNCHANGED <<queue, cur, holder, on, awaiter, future, pills>>

PillCount == Cardinality(Worker)

(* stop_and_join(): one empty handle per worker, each with a lock of its     *)
(* own, and then the joins.                                                  *)
Stop ==
  /\ pc[Main] = "main"
  /\ pc' = [pc EXCEPT ![Main] = "stopping"]
  /\ pills' = PillCount
  /\ UNCHANGED <<queue, cur, status, holder, on, awaiter, future>>

AddPill ==
  /\ pc[Main] = "stopping"
  /\ pills' = pills - 1
  /\ add(Pill, IF pills = 1 THEN [pc EXCEPT ![Main] = "joining"] ELSE pc)
  /\ UNCHANGED <<cur, status, holder, on, awaiter, future>>

Join ==
  /\ pc[Main] = "joining"
  /\ \A w \in Worker : pc[w] = "exited"
  /\ pc' = [pc EXCEPT ![Main] = "joined"]
  /\ UNCHANGED <<queue, cur, status, holder, on, awaiter, future, pills>>

Stopped == pc[Main] = "joined" /\ UNCHANGED poolVars

----------------------------------------------------------------------------
BodyStep(th) ==
  \/ \E p \in Task, t \in Task : Start(th, p, t)
  \/ \E c \in Task, t \in Task : AwaitNotReady(th, c, t)
  \/ Attach(th)
  \/ \E c \in Task : Finish(th, c)
  \/ JumpToAwaiter(th)
  \/ SetResult(th)
  \/ SyncSuspends(th)

WorkerStep(w) == Take(w) \/ Sleep(w) \/ BodyStep(w)

MainCalls ==
  \/ \E t \in Task : Start(Main, Main, t)
  \/ \E t \in Task : SyncAwait(t)
  \/ Stop

MainStep == BodyStep(Main) \/ GetResult \/ AddPill \/ Join

PoolNext ==
  \/ \E w \in Worker : WorkerStep(w) \/ SpuriousWakeup(w)
  \/ MainCalls
  \/ MainStep
  \/ Stopped

PoolSpec == PoolInit /\ [][PoolNext]_poolVars

(* The operating system runs every thread, the mutex starves nobody, and a   *)
(* body does not loop for ever; main() may do nothing between its calls.     *)
PoolFairSpec ==
  PoolSpec /\ WF_poolVars(MainStep) /\ \A w \in Worker : WF_poolVars(WorkerStep(w))

----------------------------------------------------------------------------
Entries == {queue[i] : i \in DOMAIN queue}

(* No coroutine is run by two threads, or run while it is still queued.      *)
RunByOne ==
  /\ \A th, v \in Thread : cur[th] # Null /\ cur[th] = cur[v] => th = v
  /\ \A i, j \in DOMAIN queue : queue[i] = queue[j] /\ queue[i] # Pill => i = j
  /\ \A t \in Task : t \in Entries => status[t] = "queued" /\ \A th \in Thread : cur[th] # t

(* notify_one is enough: with work in the queue some worker is awake, ...    *)
NoSleepingPool ==
  Entries # {} /\ (\E w \in Worker : pc[w] # "exited") =>
    \E w \in Worker : pc[w] \notin {"asleep", "exited"}

(* ... and a stopped pool still has a pill for every worker that is left.    *)
PillForEachWorker ==
  pc[Main] \in {"stopping", "joining"} =>
    pills + Cardinality({i \in DOMAIN queue : queue[i] = Pill})
      = Cardinality({w \in Worker : pc[w] # "exited"})

(* Nobody runs a body in a frame that is gone, and no queue, and no awaiter  *)
(* somebody will read, leads to one: whoever is named there is asleep.  What *)
(* may be gone is a coroutine past the end of its body: sync_await's on its  *)
(* way to its last suspension, and a task about to read its awaiter, but     *)
(* only if it has none: a thread that has one to resume finds its own frame  *)
(* intact, and its holder asleep.                                            *)
FramesAlive ==
  /\ \A th \in Thread : cur[th] # Null /\ status[cur[th]] = "destroyed" =>
       pc[th] = "set" \/ (pc[th] = "ended" /\ awaiter[cur[th]] = Null)
  /\ \A th \in Thread : pc[th] = "ended" /\ awaiter[cur[th]] # Null
       => status[awaiter[cur[th]]] = "waiting"
  /\ \A t \in Entries \ {Pill} : status[t] # "destroyed"
  /\ \A t \in Task : status[t] \notin {"done", "destroyed"} /\ awaiter[t] # Null
       => status[awaiter[t]] = "waiting"

(* A task queued ahead of the pills runs, and stop_and_join() returns.       *)
QueuedTaskRuns ==
  \A t \in Task :
    (/\ \E i \in DOMAIN queue : queue[i] = t /\ \A j \in 1..i : queue[j] # Pill
     /\ \E w \in Worker : pc[w] # "exited")
      ~> status[t] # "queued"

JoinReturns == pc[Main] = "stopping" ~> pc[Main] = "joined"

(* await_suspend "attach[es] current task to follow after awaited ends": it  *)
(* does follow.                                                              *)
AwaiterFollows ==
  \A c \in Coroutine :
    status[c] = "waiting" /\ status[on[c]] \in {"done", "destroyed"} ~> status[c] # "waiting"
=============================================================================
