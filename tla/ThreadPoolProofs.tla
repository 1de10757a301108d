-------------------------- MODULE ThreadPoolProofs -------------------------
(* Theorems about the thread pool, for any number of workers and tasks, with *)
(* and without sync_await.                                                   *)
EXTENDS ThreadPool, SequenceTheorems, FiniteSetTheorems, TLAPS

Executing == {"body", "suspending", "ended", "set"}
Over(c) == status[c] \in {"done", "destroyed"}
Pills == {i \in DOMAIN queue : queue[i] = Pill}
Alive == {w \in Worker : pc[w] # "exited"}
Awake == {w \in Worker : pc[w] \notin {"asleep", "exited"}}

(* What a thread does agrees with the state of the coroutine it executes.    *)
Agrees(th) ==
  /\ cur[th] # Null <=> pc[th] \in Executing
  /\ pc[th] = "body" => status[cur[th]] = "running"
  /\ pc[th] = "suspending" => status[cur[th]] = "waiting" /\ on[cur[th]] # Null
  /\ pc[th] = "ended" => cur[th] \in Task /\ Over(cur[th])
  /\ pc[th] = "set" => cur[th] = Sync /\ status[Sync] \in {"running", "destroyed"}

ThreadInv == \A th \in Thread : Agrees(th)

(* Somebody has yet to read the awaiter of t: then it is asleep, and on t.   *)
WillRead(t) == ~Over(t) \/ \E th \in Thread : pc[th] = "ended" /\ cur[th] = t

AwaiterInv ==
  \A t \in Task : WillRead(t) /\ awaiter[t] # Null =>
    /\ status[awaiter[t]] = "waiting"
    /\ on[awaiter[t]] = t
    /\ \A th \in Thread : cur[th] # awaiter[t]

(* Once sync_await has its result nobody resumes its coroutine again.        *)
SyncInv ==
  future => /\ status[Sync] \notin {"new", "waiting"}
            /\ \A th \in Thread : cur[th] = Sync => pc[th] = "set"

RunInv == ThreadInv /\ AwaiterInv /\ SyncInv /\ RunByOne

(* Before stop_and_join there is no pill; its loop counts them out.          *)
StopInv ==
  /\ pc[Main] \notin {"stopping", "joining", "joined"} =>
       Pill \notin Entries /\ \A w \in Worker : pc[w] # "exited"
  /\ pc[Main] = "stopping" => pills # 0
  /\ pc[Main] = "joining" => pills = 0
  /\ pc[Main] = "joined" => \A w \in Worker : pc[w] = "exited"

(* While some worker sleeps, each entry of the queue has a worker awake.     *)
AwakeInv == (\E w \in Worker : pc[w] = "asleep") => Cardinality(Awake) >= Len(queue)

PoolIInv == PoolType /\ RunInv /\ StopInv /\ PillForEachWorker /\ AwakeInv

----------------------------------------------------------------------------
(* Names are apart.                                                          *)
LEMMA Apart ==
  /\ Main \notin Worker /\ Sync \notin Task /\ Pill \notin Task
  /\ Null \notin Coroutine /\ IsFiniteSet(Worker)
  BY PoolAssumption DEF Coroutine

WakesOne ==
  (\E w \in Worker : pc[w] = "asleep") =>
    \E w \in Worker : pc[w] = "asleep" /\ pc'[w] = "get"

(* add() lengthens the queue and wakes at most one sleeping worker.          *)
LEMMA AddFacts ==
  ASSUME PoolType, NEW handle \in Task \cup {Pill}, NEW places \in [Thread -> Places],
         \A w \in Worker : places[w] = pc[w], add(handle, places)
  PROVE  /\ queue' = Append(queue, handle)
         /\ queue' \in Seq(Task \cup {Pill})
         /\ pc' \in [Thread -> Places]
         /\ pc'[Main] = places[Main]
         /\ \A w \in Worker : \/ pc'[w] = pc[w]
                              \/ pc[w] = "asleep" /\ pc'[w] = "get"
         /\ WakesOne
  <1> USE DEF add, WakesOne, PoolType, Thread, Places
  <1>1. queue' = Append(queue, handle) /\ queue' \in Seq(Task \cup {Pill})
    OBVIOUS
  <1>2. CASE pc' = places
    BY <1>1, <1>2
  <1>3. CASE \E w \in Worker : places[w] = "asleep" /\ pc' = [places EXCEPT ![w] = "get"]
    BY <1>1, <1>3, PoolAssumption
  <1> QED BY <1>2, <1>3

LEMMA StartFacts ==
  ASSUME PoolType, NEW th \in Thread, NEW p \in Task \cup {Main}, NEW t \in Task, Start(th, p, t)
  PROVE  /\ queue' = Append(queue, t) /\ queue' \in Seq(Task \cup {Pill})
         /\ pc' \in [Thread -> Places]
         /\ \A v \in Thread : pc'[v] = pc[v] \/ (v # Main /\ pc[v] = "asleep" /\ pc'[v] = "get")
         /\ WakesOne
  <1> DEFINE places == pc
  <1>1. places \in [Thread -> Places] /\ \A w \in Worker : places[w] = pc[w]
    BY DEF PoolType
  <1>2. add(t, places) /\ t \in Task \cup {Pill} /\ places[Main] = pc[Main]
    BY DEF Start
  <1> HIDE DEF places
  <1>3. /\ queue' = Append(queue, t) /\ queue' \in Seq(Task \cup {Pill})
        /\ pc' \in [Thread -> Places] /\ pc'[Main] = pc[Main]
        /\ \A w \in Worker : pc'[w] = pc[w] \/ (pc[w] = "asleep" /\ pc'[w] = "get")
        /\ WakesOne
    BY <1>1, <1>2, AddFacts
  <1>4. ASSUME NEW v \in Thread
        PROVE  pc'[v] = pc[v] \/ (v # Main /\ pc[v] = "asleep" /\ pc'[v] = "get")
    <2>1. CASE v = Main
      BY <1>3, <2>1
    <2>2. CASE v \in Worker
      BY <1>3, <2>2, Apart
    <2> QED BY <2>1, <2>2 DEF Thread
  <1> QED BY <1>3, <1>4

LEMMA AddPillFacts ==
  ASSUME PoolType, AddPill
  PROVE  /\ queue' = Append(queue, Pill) /\ queue' \in Seq(Task \cup {Pill})
         /\ pc' \in [Thread -> Places]
         /\ pc'[Main] = IF pills = 1 THEN "joining" ELSE "stopping"
         /\ \A w \in Worker : \/ pc'[w] = pc[w]
                              \/ pc[w] = "asleep" /\ pc'[w] = "get"
         /\ WakesOne
  <1> DEFINE places == IF pills = 1 THEN [pc EXCEPT ![Main] = "joining"] ELSE pc
  <1>1. /\ places \in [Thread -> Places] /\ \A w \in Worker : places[w] = pc[w]
        /\ places[Main] = IF pills = 1 THEN "joining" ELSE "stopping"
    BY PoolAssumption DEF Thread, AddPill, PoolType, Places
  <1>2. add(Pill, places)
    BY DEF AddPill
  <1> HIDE DEF places
  <1> QED BY <1>1, <1>2, AddFacts

(* What is queued after add().                                               *)
LEMMA AppendEntries ==
  ASSUME PoolType, NEW x \in Task \cup {Pill}, queue' = Append(queue, x)
  PROVE  /\ DOMAIN queue' = DOMAIN queue \cup {Len(queue) + 1}
         /\ Len(queue) + 1 \notin DOMAIN queue /\ Len(queue) \in Nat
         /\ Len(queue') = Len(queue) + 1
         /\ \A i \in DOMAIN queue : queue'[i] = queue[i]
         /\ queue'[Len(queue) + 1] = x
         /\ Entries' = Entries \cup {x}
  <1>1. /\ DOMAIN queue = 1..Len(queue) /\ Len(queue) \in Nat
        /\ queue' \in Seq(Task \cup {Pill}) /\ Len(queue') = Len(queue) + 1
        /\ \A i \in 1..Len(queue) : queue'[i] = queue[i]
        /\ queue'[Len(queue) + 1] = x
    BY AppendProperties, LenProperties DEF PoolType
  <1>2. DOMAIN queue' = 1..(Len(queue) + 1)
    BY <1>1, LenProperties
  <1>3. DOMAIN queue' = DOMAIN queue \cup {Len(queue) + 1} /\ Len(queue) + 1 \notin DOMAIN queue
    BY <1>1, <1>2
  <1> QED BY <1>1, <1>3 DEF Entries

LEMMA TypeInit == PoolInit => PoolType
  <1> SUFFICES ASSUME PoolInit PROVE PoolType
    OBVIOUS
  <1>1. queue \in Seq(Task \cup {Pill})
    BY EmptySeq DEF PoolInit
  <1>2. pc \in [Thread -> Places]
    BY DEF PoolInit, Places
  <1> QED BY <1>1, <1>2 DEF PoolInit, PoolType, Statuses

LEMMA TypeStep ==
  ASSUME PoolType, ThreadInv, StopInv, [PoolNext]_poolVars
  PROVE  PoolType'
  <1> USE DEF PoolType, Places, Statuses, Coroutine
  <1>1. ASSUME NEW w \in Worker, Take(w) PROVE PoolType'
    <2>1. Head(queue) \in Task \cup {Pill} /\ Tail(queue) \in Seq(Task \cup {Pill})
      BY <1>1, HeadTailProperties DEF Take
    <2> QED BY <1>1, <2>1 DEF Take, popped, EndsLoop
  <1>2. ASSUME NEW w \in Worker, Sleep(w) \/ SpuriousWakeup(w) PROVE PoolType'
    BY <1>2 DEF Sleep, SpuriousWakeup
  <1>3. ASSUME NEW th \in Thread, NEW p \in Task \cup {Main}, NEW t \in Task, Start(th, p, t)
        PROVE  PoolType'
    <2>1. queue' \in Seq(Task \cup {Pill}) /\ pc' \in [Thread -> Places]
      BY <1>3, AddFacts DEF Start
    <2> QED BY <1>3, <2>1 DEF Start
  <1>4. ASSUME NEW th \in Thread, NEW c \in Task, NEW t \in Task, AwaitNotReady(th, c, t)
        PROVE  PoolType'
    BY <1>4 DEF AwaitNotReady
  <1>5. ASSUME NEW th \in Thread, Attach(th) PROVE PoolType'
    BY <1>5 DEF Attach, ThreadInv, Agrees, Executing
  <1>6. ASSUME NEW th \in Thread, NEW c \in Task, Finish(th, c) PROVE PoolType'
    BY <1>6 DEF Finish
  <1>7. ASSUME NEW th \in Thread, JumpToAwaiter(th) PROVE PoolType'
    BY <1>7 DEF JumpToAwaiter, AwaiterRead, ThreadInv, Agrees
  <1>8. ASSUME NEW th \in Thread, SetResult(th) \/ SyncSuspends(th) PROVE PoolType'
    BY <1>8 DEF SetResult, SyncSuspends
  <1>9. ASSUME NEW t \in Task, SyncAwait(t) PROVE PoolType'
    BY <1>9 DEF SyncAwait
  <1>10. CASE GetResult \/ Join
    BY <1>10 DEF GetResult, Join
  <1>11. CASE Stop
    BY <1>11, PoolAssumption, FS_CardinalityType DEF Stop, PillCount
  <1>12. CASE AddPill
    <2> DEFINE places == IF pills = 1 THEN [pc EXCEPT ![Main] = "joining"] ELSE pc
    <2>1. places \in [Thread -> Places] /\ \A w \in Worker : places[w] = pc[w]
      BY PoolAssumption DEF Thread
    <2>2. queue' \in Seq(Task \cup {Pill}) /\ pc' \in [Thread -> Places]
      BY <1>12, <2>1, AddFacts DEF AddPill
    <2>3. pills' \in Nat
      BY <1>12 DEF AddPill, StopInv
    <2> QED BY <1>12, <2>2, <2>3 DEF AddPill
  <1>13. CASE UNCHANGED poolVars
    BY <1>13 DEF poolVars
  <1> QED BY <1>1, <1>2, <1>3, <1>4, <1>5, <1>6, <1>7, <1>8, <1>9, <1>10, <1>11, <1>12, <1>13
          DEF PoolNext, WorkerStep, BodyStep, MainCalls, MainStep, Stopped, Thread

----------------------------------------------------------------------------
(* RunInv: one lemma per action.                                             *)
LEMMA RunInit == PoolInit => RunInv
  BY Apart DEF PoolInit, RunInv, ThreadInv, Agrees, AwaiterInv, SyncInv, RunByOne, Entries, Executing,
     Thread, Coroutine

LEMMA SleepRun ==
  ASSUME PoolType, RunInv, NEW w \in Worker, Sleep(w) \/ SpuriousWakeup(w)
  PROVE  RunInv'
  <1> USE Apart DEF PoolType, RunInv, Thread, Coroutine, Sleep, SpuriousWakeup
  <1>1. ThreadInv'
    <2> SUFFICES ASSUME NEW v \in Thread PROVE Agrees(v)'
      BY DEF ThreadInv
    <2>1. CASE v = w
      BY <2>1 DEF ThreadInv, Agrees, Executing, Over
    <2>2. CASE v # w
      BY <2>2 DEF ThreadInv, Agrees, Executing, Over, RunByOne
    <2> QED BY <2>1, <2>2
  <1>2. AwaiterInv'
    BY DEF ThreadInv, Agrees, AwaiterInv, WillRead, Executing, Over, RunByOne
  <1>3. SyncInv'
    BY DEF SyncInv, ThreadInv, Agrees, Executing
  <1>4. RunByOne'
    BY DEF RunByOne, Entries, ThreadInv, Agrees, Executing, Over
  <1> QED BY <1>1, <1>2, <1>3, <1>4

LEMMA AwaitNotReadyRun ==
  ASSUME PoolType, RunInv, NEW th \in Thread, NEW c \in Task, NEW t \in Task, AwaitNotReady(th, c, t)
  PROVE  RunInv'
  <1> USE Apart DEF PoolType, RunInv, Thread, Coroutine, AwaitNotReady, Executes, Held
  <1>1. ThreadInv'
    <2> SUFFICES ASSUME NEW v \in Thread PROVE Agrees(v)'
      BY DEF ThreadInv
    <2>1. CASE v = th
      BY <2>1 DEF ThreadInv, Agrees, Executing, Over
    <2>2. CASE v # th
      BY <2>2 DEF ThreadInv, Agrees, Executing, Over, RunByOne
    <2> QED BY <2>1, <2>2
  <1>2. AwaiterInv'
    BY DEF ThreadInv, Agrees, AwaiterInv, WillRead, Executing, Over, RunByOne
  <1>3. SyncInv'
    BY DEF SyncInv, ThreadInv, Agrees, Executing
  <1>4. RunByOne'
    BY DEF RunByOne, Entries, ThreadInv, Agrees, Executing, Over
  <1> QED BY <1>1, <1>2, <1>3, <1>4

LEMMA AttachRun ==
  ASSUME PoolType, RunInv, NEW th \in Thread, Attach(th)
  PROVE  RunInv'
  <1> USE Apart DEF PoolType, RunInv, Thread, Coroutine, Attach, Places
  <1>1. ThreadInv'
    <2> SUFFICES ASSUME NEW v \in Thread PROVE Agrees(v)'
      BY DEF ThreadInv
    <2>1. CASE v = th
      BY <2>1 DEF ThreadInv, Agrees, Executing, Over
    <2>2. CASE v # th
      BY <2>2 DEF ThreadInv, Agrees, Executing, Over, RunByOne
    <2> QED BY <2>1, <2>2
  <1>2. AwaiterInv'
    BY DEF ThreadInv, Agrees, AwaiterInv, WillRead, Executing, Over, RunByOne
  <1>3. SyncInv'
    BY DEF SyncInv, ThreadInv, Agrees, Executing
  <1>4. RunByOne'
    BY DEF RunByOne, Entries, ThreadInv, Agrees, Executing, Over
  <1> QED BY <1>1, <1>2, <1>3, <1>4

LEMMA FinishRun ==
  ASSUME PoolType, RunInv, NEW th \in Thread, NEW c \in Task, Finish(th, c)
  PROVE  RunInv'
  <1> USE Apart DEF PoolType, RunInv, Thread, Coroutine, Finish, Executes, Held
  <1>1. ThreadInv'
    <2> SUFFICES ASSUME NEW v \in Thread PROVE Agrees(v)'
      BY DEF ThreadInv
    <2>1. CASE v = th
      BY <2>1 DEF ThreadInv, Agrees, Executing, Over
    <2>2. CASE v # th
      BY <2>2 DEF ThreadInv, Agrees, Executing, Over, RunByOne
    <2> QED BY <2>1, <2>2
  <1>2. AwaiterInv'
    BY DEF ThreadInv, Agrees, AwaiterInv, WillRead, Executing, Over, RunByOne
  <1>3. SyncInv'
    BY DEF SyncInv, ThreadInv, Agrees, Executing
  <1>4. RunByOne'
    BY DEF RunByOne, Entries, ThreadInv, Agrees, Executing, Over
  <1> QED BY <1>1, <1>2, <1>3, <1>4

LEMMA JumpToAwaiterRun ==
  ASSUME PoolType, RunInv, NEW th \in Thread, JumpToAwaiter(th)
  PROVE  RunInv'
  <1> DEFINE t == cur[th]
             next == awaiter[t]
  <1> USE Apart DEF PoolType, RunInv, Thread, Coroutine
  <1>1. t \in Task /\ Over(t) /\ \A v \in Thread : cur[v] = t => v = th
    BY DEF JumpToAwaiter, ThreadInv, Agrees, RunByOne
  <1>2. CASE next = Null
    <2> USE <1>1, <1>2 DEF JumpToAwaiter, AwaiterRead
    <2>1. ThreadInv'
      BY DEF ThreadInv, Agrees, Executing, Over
    <2>2. AwaiterInv'
      BY DEF AwaiterInv, WillRead, Over
    <2>3. SyncInv'
      BY DEF SyncInv
    <2>4. RunByOne'
      BY DEF RunByOne, Entries
    <2> QED BY <2>1, <2>2, <2>3, <2>4
  <1>3. CASE next # Null
    <2>1. /\ next \in Coroutine /\ status[next] = "waiting" /\ on[next] = t
          /\ \A v \in Thread : cur[v] # next
      BY <1>1, <1>3 DEF JumpToAwaiter, AwaiterInv, WillRead
    <2>2. /\ pc' = [pc EXCEPT ![th] = "body"] /\ cur' = [cur EXCEPT ![th] = next]
          /\ status' = [status EXCEPT ![next] = "running"]
          /\ on' = [on EXCEPT ![next] = Null]
          /\ UNCHANGED <<queue, holder, awaiter, future, pills>>
      BY <1>3 DEF JumpToAwaiter, AwaiterRead
    <2> HIDE DEF t, next
    <2>3. ThreadInv'
      <3> SUFFICES ASSUME NEW v \in Thread PROVE Agrees(v)'
        BY DEF ThreadInv
      <3>1. CASE v = th
        BY <2>1, <2>2, <3>1 DEF Agrees, Executing
      <3>2. CASE v # th
        BY <2>1, <2>2, <3>2 DEF ThreadInv, Agrees, Over
      <3> QED BY <3>1, <3>2
    <2>4. AwaiterInv'
      <3> SUFFICES ASSUME NEW x \in Task, WillRead(x)', awaiter[x] # Null
                   PROVE  /\ status'[awaiter[x]] = "waiting" /\ on'[awaiter[x]] = x
                          /\ \A v \in Thread : cur'[v] # awaiter[x]
        BY <2>2 DEF AwaiterInv
      <3>1. x # t
        BY <1>1, <2>1, <2>2 DEF WillRead, Over
      <3>2. WillRead(x)
        BY <2>1, <2>2, <3>1 DEF WillRead, Over
      <3>3. awaiter[x] # next
        BY <2>1, <3>1, <3>2 DEF AwaiterInv
      <3> QED BY <2>1, <2>2, <3>2, <3>3 DEF AwaiterInv
    <2>5. SyncInv'
      BY <2>1, <2>2 DEF SyncInv
    <2>6. RunByOne'
      BY <2>1, <2>2 DEF RunByOne, Entries
    <2> QED BY <2>3, <2>4, <2>5, <2>6
  <1> QED BY <1>2, <1>3

LEMMA SyncAwaitRun ==
  ASSUME PoolType, RunInv, NEW t \in Task, SyncAwait(t)
  PROVE  RunInv'
  <1> USE Apart DEF PoolType, RunInv, Thread, Coroutine, SyncAwait
  <1>1. ThreadInv'
    <2> SUFFICES ASSUME NEW v \in Thread PROVE Agrees(v)'
      BY DEF ThreadInv
    <2>1. CASE v = Main
      BY <2>1 DEF ThreadInv, Agrees, Executing, Over
    <2>2. CASE v # Main
      BY <2>2 DEF ThreadInv, Agrees, Executing, Over, RunByOne
    <2> QED BY <2>1, <2>2
  <1>2. AwaiterInv'
    BY DEF ThreadInv, Agrees, AwaiterInv, WillRead, Executing, Over, RunByOne
  <1>3. SyncInv'
    BY DEF SyncInv, ThreadInv, Agrees, Executing
  <1>4. RunByOne'
    BY DEF RunByOne, Entries, ThreadInv, Agrees, Executing, Over
  <1> QED BY <1>1, <1>2, <1>3, <1>4

LEMMA SetResultRun ==
  ASSUME PoolType, RunInv, NEW th \in Thread, SetResult(th)
  PROVE  RunInv'
  <1> USE Apart DEF PoolType, RunInv, Thread, Coroutine, SetResult, Executes
  <1>1. ThreadInv'
    <2> SUFFICES ASSUME NEW v \in Thread PROVE Agrees(v)'
      BY DEF ThreadInv
    <2>1. CASE v = th
      BY <2>1 DEF ThreadInv, Agrees, Executing, Over
    <2>2. CASE v # th
      BY <2>2 DEF ThreadInv, Agrees, Executing, Over, RunByOne
    <2> QED BY <2>1, <2>2
  <1>2. AwaiterInv'
    BY DEF ThreadInv, Agrees, AwaiterInv, WillRead, Executing, Over, RunByOne
  <1>3. SyncInv'
    BY DEF SyncInv, ThreadInv, Agrees, Executing, RunByOne
  <1>4. RunByOne'
    BY DEF RunByOne, Entries, ThreadInv, Agrees, Executing, Over
  <1> QED BY <1>1, <1>2, <1>3, <1>4

LEMMA SyncSuspendsRun ==
  ASSUME PoolType, RunInv, NEW th \in Thread, SyncSuspends(th)
  PROVE  RunInv'
  <1> USE Apart DEF PoolType, RunInv, Thread, Coroutine, SyncSuspends
  <1>1. ThreadInv'
    <2> SUFFICES ASSUME NEW v \in Thread PROVE Agrees(v)'
      BY DEF ThreadInv
    <2>1. CASE v = th
      BY <2>1 DEF ThreadInv, Agrees, Executing, Over
    <2>2. CASE v # th
      BY <2>2 DEF ThreadInv, Agrees, Executing, Over, RunByOne
    <2> QED BY <2>1, <2>2
  <1>2. AwaiterInv'
    BY DEF ThreadInv, Agrees, AwaiterInv, WillRead, Executing, Over, RunByOne
  <1>3. SyncInv'
    BY DEF SyncInv, ThreadInv, Agrees, Executing
  <1>4. RunByOne'
    BY DEF RunByOne, Entries, ThreadInv, Agrees, Executing, Over
  <1> QED BY <1>1, <1>2, <1>3, <1>4

LEMMA GetResultRun ==
  ASSUME PoolType, RunInv, GetResult
  PROVE  RunInv'
  <1> USE Apart DEF PoolType, RunInv, Thread, Coroutine, GetResult
  <1>1. ThreadInv'
    <2> SUFFICES ASSUME NEW v \in Thread PROVE Agrees(v)'
      BY DEF ThreadInv
    <2>1. CASE v = Main
      BY <2>1 DEF ThreadInv, Agrees, Executing, Over
    <2>2. CASE v # Main
      BY <2>2 DEF ThreadInv, Agrees, Executing, Over, RunByOne, SyncInv
    <2> QED BY <2>1, <2>2
  <1>2. AwaiterInv'
    BY DEF ThreadInv, Agrees, AwaiterInv, WillRead, SyncInv, Executing, Over, RunByOne
  <1>3. SyncInv'
    BY DEF SyncInv, ThreadInv, Agrees, Executing
  <1>4. RunByOne'
    BY DEF RunByOne, Entries, ThreadInv, Agrees, Executing, Over
  <1> QED BY <1>1, <1>2, <1>3, <1>4

LEMMA StopRun ==
  ASSUME PoolType, RunInv, Stop \/ Join
  PROVE  RunInv'
  <1> USE Apart DEF PoolType, RunInv, Thread, Coroutine, Stop, Join
  <1>1. ThreadInv'
    <2> SUFFICES ASSUME NEW v \in Thread PROVE Agrees(v)'
      BY DEF ThreadInv
    <2>1. CASE v = Main
      BY <2>1 DEF ThreadInv, Agrees, Executing, Over
    <2>2. CASE v # Main
      BY <2>2 DEF ThreadInv, Agrees, Executing, Over, RunByOne
    <2> QED BY <2>1, <2>2
  <1>2. AwaiterInv'
    BY DEF ThreadInv, Agrees, AwaiterInv, WillRead, Executing, Over, RunByOne
  <1>3. SyncInv'
    BY DEF SyncInv, ThreadInv, Agrees, Executing
  <1>4. RunByOne'
    BY DEF RunByOne, Entries, ThreadInv, Agrees, Executing, Over
  <1> QED BY <1>1, <1>2, <1>3, <1>4

LEMMA TakeRun ==
  ASSUME PoolType, RunInv, NEW w \in Worker, Take(w)
  PROVE  RunInv'
  <1> DEFINE t == Head(queue)
  <1> USE Apart DEF PoolType, RunInv, Thread, Coroutine
  <1>1. /\ t = queue[1] /\ Len(queue) \in Nat \ {0} /\ DOMAIN queue = 1..Len(queue)
        /\ Tail(queue) \in Seq(Task \cup {Pill})
        /\ DOMAIN Tail(queue) = 1..(Len(queue) - 1)
        /\ \A i \in DOMAIN Tail(queue) : i + 1 \in DOMAIN queue /\ Tail(queue)[i] = queue[i + 1]
    BY HeadTailProperties, LenProperties, EmptySeq DEF Take
  <1>2. t \in Entries
    BY <1>1 DEF Entries
  <1>3. t \in Task \cup {Pill}
    BY HeadTailProperties DEF Take
  <1>4. /\ Entries' \subseteq Entries
        /\ \A i, j \in DOMAIN queue' : queue'[i] = queue'[j] /\ queue'[i] # Pill => i = j
        /\ t # Pill => t \notin Entries'
    BY <1>1 DEF Take, popped, Entries, RunByOne
  <1>5. cur[w] = Null
    BY DEF Take, ThreadInv, Agrees, Executing
  <1>6. CASE t = Pill
    <2>1. pc' = [pc EXCEPT ![w] = "exited"]
          /\ UNCHANGED <<cur, status, holder, on, awaiter, future, pills>>
      BY <1>6 DEF Take, EndsLoop
    <2>2. ThreadInv' /\ SyncInv'
      BY <1>5, <2>1 DEF ThreadInv, SyncInv, Agrees, Executing, Over
    <2>3. AwaiterInv'
      BY <1>5, <2>1 DEF AwaiterInv, WillRead, Over
    <2>4. RunByOne'
      BY <1>4, <2>1 DEF RunByOne
    <2> QED BY <2>2, <2>3, <2>4
  <1>7. CASE t # Pill
    <2>1. /\ pc' = [pc EXCEPT ![w] = "body"] /\ cur' = [cur EXCEPT ![w] = t]
          /\ status' = [status EXCEPT ![t] = "running"]
          /\ UNCHANGED <<holder, on, awaiter, future, pills>>
      BY <1>7 DEF Take, EndsLoop
    <2>2. t \in Task /\ status[t] = "queued" /\ \A th \in Thread : cur[th] # t
      BY <1>2, <1>3, <1>7 DEF RunByOne
    <2> HIDE DEF t
    <2>3. ThreadInv'
      <3> SUFFICES ASSUME NEW v \in Thread PROVE Agrees(v)'
        BY DEF ThreadInv
      <3>1. CASE v = w
        BY <2>1, <2>2, <3>1 DEF Agrees, Executing
      <3>2. CASE v # w
        BY <2>1, <2>2, <3>2 DEF ThreadInv, Agrees, Over
      <3> QED BY <3>1, <3>2
    <2>4. AwaiterInv'
      BY <2>1, <2>2 DEF AwaiterInv, WillRead, Over
    <2>5. SyncInv'
      BY <2>1, <2>2 DEF SyncInv
    <2>6. RunByOne'
      BY <1>4, <1>7, <2>1, <2>2 DEF RunByOne
    <2> QED BY <2>3, <2>4, <2>5, <2>6
  <1> QED BY <1>6, <1>7

LEMMA StartRun ==
  ASSUME PoolType, RunInv, NEW th \in Thread, NEW p \in Task \cup {Main}, NEW t \in Task,
         Start(th, p, t)
  PROVE  RunInv'
  <1> USE Apart DEF PoolType, RunInv, Thread, Coroutine
  <1>1. /\ status[t] = "new" /\ status' = [status EXCEPT ![t] = "queued"]
        /\ UNCHANGED <<cur, on, awaiter, future, pills>>
    BY DEF Start
  <1>2. /\ queue' = Append(queue, t) /\ pc' \in [Thread -> Places]
        /\ \A v \in Thread : pc'[v] = pc[v] \/ (pc[v] = "asleep" /\ pc'[v] = "get")
    BY StartFacts
  <1>3. /\ t \notin Entries /\ \A v \in Thread : cur[v] # t
    BY <1>1 DEF RunByOne, ThreadInv, Agrees, Executing, Over
  <1>4. ThreadInv'
    <2> SUFFICES ASSUME NEW v \in Thread PROVE Agrees(v)'
      BY DEF ThreadInv
    <2>1. Agrees(v)
      BY DEF ThreadInv
    <2> QED BY <1>1, <1>2, <1>3, <2>1 DEF Agrees, Executing, Over
  <1>5. AwaiterInv'
    BY <1>1, <1>2, <1>3 DEF AwaiterInv, WillRead, Over
  <1>6. SyncInv'
    BY <1>1, <1>2 DEF SyncInv
  <1>7. RunByOne'
    <2>1. /\ Entries' = Entries \cup {t}
          /\ \A i, j \in DOMAIN queue' : queue'[i] = queue'[j] /\ queue'[i] # Pill => i = j
      BY <1>2, <1>3, AppendEntries DEF RunByOne, Entries
    <2> QED BY <1>1, <1>3, <2>1 DEF RunByOne
  <1> QED BY <1>4, <1>5, <1>6, <1>7

LEMMA AddPillRun ==
  ASSUME PoolType, RunInv, AddPill
  PROVE  RunInv'
  <1> USE Apart DEF PoolType, RunInv, Thread, Coroutine
  <1>1. UNCHANGED <<cur, status, on, awaiter, future>>
    BY DEF AddPill
  <1>2. /\ queue' = Append(queue, Pill) /\ pc' \in [Thread -> Places]
        /\ \A v \in Thread : \/ pc'[v] = pc[v]
                             \/ pc[v] = "asleep" /\ pc'[v] = "get"
                             \/ pc[v] = "stopping" /\ pc'[v] = "joining"
    <2>1. pc[Main] = "stopping"
      BY DEF AddPill
    <2> QED BY <2>1, AddPillFacts
  <1>3. ThreadInv'
    <2> SUFFICES ASSUME NEW v \in Thread PROVE Agrees(v)'
      BY DEF ThreadInv
    <2>1. Agrees(v)
      BY DEF ThreadInv
    <2> QED BY <1>1, <1>2, <2>1 DEF Agrees, Executing, Over
  <1>4. AwaiterInv'
    <2>1. \A v \in Thread : pc'[v] = "ended" => pc[v] = "ended"
      BY <1>2
    <2> QED BY <1>1, <2>1 DEF AwaiterInv, WillRead, Over
  <1>5. SyncInv'
    BY <1>1, <1>2 DEF SyncInv
  <1>6. RunByOne'
    <2>1. /\ Entries' = Entries \cup {Pill}
          /\ \A i, j \in DOMAIN queue' : queue'[i] = queue'[j] /\ queue'[i] # Pill => i = j
      BY <1>2, AppendEntries DEF RunByOne
    <2> QED BY <1>1, <2>1 DEF RunByOne
  <1> QED BY <1>3, <1>4, <1>5, <1>6

----------------------------------------------------------------------------
(* Counting: pills, workers left and workers awake.                          *)
Counts == StopInv /\ PillForEachWorker /\ AwakeInv
Phase(place) == IF place \in {"stopping", "joining", "joined"} THEN place ELSE "open"

LEMMA FiniteSome ==
  ASSUME NEW q \in Seq(Task \cup {Pill}), NEW W \in SUBSET Worker,
         NEW P \in SUBSET (DOMAIN q)
  PROVE  /\ IsFiniteSet(P) /\ Cardinality(P) \in Nat
         /\ IsFiniteSet(W) /\ Cardinality(W) \in Nat
         /\ Len(q) \in Nat
  <1>1. Len(q) \in Nat /\ DOMAIN q = 1..Len(q)
    BY LenProperties
  <1>2. IsFiniteSet(P)
    <2>1. IsFiniteSet(DOMAIN q)
      BY <1>1, FS_Interval
    <2> QED BY <2>1, FS_Subset
  <1>3. IsFiniteSet(W)
    BY FS_Subset, Apart
  <1> QED BY <1>1, <1>2, <1>3, FS_CardinalityType

FiniteNow ==
  /\ IsFiniteSet(Pills) /\ Cardinality(Pills) \in Nat
  /\ IsFiniteSet(Alive) /\ Cardinality(Alive) \in Nat
  /\ IsFiniteSet(Awake) /\ Cardinality(Awake) \in Nat
  /\ Len(queue) \in Nat

LEMMA Finite ==
  ASSUME PoolType, PoolType'
  PROVE  FiniteNow /\ FiniteNow'
  <1>1. /\ Pills \in SUBSET (DOMAIN queue) /\ Alive \in SUBSET Worker
        /\ Awake \in SUBSET Worker /\ queue \in Seq(Task \cup {Pill})
    BY DEF Pills, Alive, Awake, PoolType
  <1>2. /\ Pills' \in SUBSET (DOMAIN queue') /\ Alive' \in SUBSET Worker
        /\ Awake' \in SUBSET Worker /\ queue' \in Seq(Task \cup {Pill})
    BY DEF Pills, Alive, Awake, PoolType
  <1>3. FiniteNow
    BY <1>1, FiniteSome DEF FiniteNow
  <1>4. FiniteNow'
    BY <1>2, FiniteSome DEF FiniteNow
  <1> QED BY <1>3, <1>4

(* PillForEachWorker in terms of the sets counted here.                      *)
PillsLeft == pc[Main] \in {"stopping", "joining"} => pills + Cardinality(Pills) = Cardinality(Alive)

LEMMA PillsLeftIs == /\ PillForEachWorker <=> PillsLeft
                     /\ PillForEachWorker' <=> PillsLeft'
  BY DEF PillForEachWorker, PillsLeft, Pills, Alive

(* A step that leaves the queue alone, sends no worker to sleep or out of    *)
(* its loop, and does not start or end a phase of stop_and_join().           *)
LEMMA QuietCounts ==
  ASSUME PoolType, PoolType', Counts, UNCHANGED <<queue, pills>>,
         \A w \in Worker : /\ pc'[w] = "asleep" => pc[w] = "asleep"
                           /\ pc'[w] = "exited" <=> pc[w] = "exited",
         Phase(pc'[Main]) = Phase(pc[Main])
  PROVE  Counts'
  <1>1. Pills' = Pills /\ Alive' = Alive /\ Entries' = Entries
    BY DEF Pills, Alive, Entries
  <1>2. StopInv'
    BY <1>1 DEF Counts, StopInv, Phase
  <1>3. PillForEachWorker'
    BY <1>1, PillsLeftIs DEF Counts, PillsLeft, Phase
  <1>4. Awake \in SUBSET Awake'
    BY DEF Awake
  <1>5. Cardinality(Awake) <= Cardinality(Awake')
    BY <1>4, Finite, FS_Subset DEF FiniteNow
  <1>6. AwakeInv'
    BY <1>5, Finite DEF Counts, AwakeInv, FiniteNow
  <1> QED BY <1>2, <1>3, <1>6 DEF Counts

(* add() keeps a worker awake for each entry.                                *)
LEMMA AddAwake ==
  ASSUME PoolType, PoolType', AwakeInv, NEW x \in Task \cup {Pill}, queue' = Append(queue, x),
         \A w \in Worker : \/ pc'[w] = pc[w]
                           \/ pc[w] = "asleep" /\ pc'[w] = "get",
         WakesOne
  PROVE  AwakeInv'
  <1> SUFFICES ASSUME NEW v \in Worker, pc'[v] = "asleep" PROVE Cardinality(Awake') >= Len(queue')
    BY DEF AwakeInv
  <1>1. PICK w \in Worker : pc[w] = "asleep" /\ pc'[w] = "get"
    BY DEF WakesOne
  <1>2. Awake \cup {w} \in SUBSET Awake' /\ w \notin Awake
    BY <1>1 DEF Awake
  <1>3. Cardinality(Awake \cup {w}) = Cardinality(Awake) + 1
    BY <1>2, Finite, FS_AddElement DEF FiniteNow
  <1>4. Cardinality(Awake \cup {w}) <= Cardinality(Awake')
    BY <1>2, Finite, FS_Subset DEF FiniteNow
  <1>5. Cardinality(Awake) >= Len(queue)
    BY <1>1 DEF AwakeInv
  <1>6. Len(queue') = Len(queue) + 1
    BY AppendEntries
  <1> QED BY <1>3, <1>4, <1>5, <1>6, Finite DEF FiniteNow

(* Taking the front moves every pill one place forward.                      *)
LEMMA TailPills ==
  ASSUME PoolType, PoolType', queue # <<>>, queue' = Tail(queue)
  PROVE  /\ Cardinality(Pills') = IF Head(queue) = Pill THEN Cardinality(Pills) - 1
                                                         ELSE Cardinality(Pills)
         /\ Entries' \subseteq Entries /\ Head(queue) \in Entries
         /\ Len(queue') = Len(queue) - 1
  <1>1. /\ Head(queue) = queue[1] /\ Len(queue) \in Nat \ {0} /\ DOMAIN queue = 1..Len(queue)
        /\ Len(queue') = Len(queue) - 1
        /\ DOMAIN queue' = 1..(Len(queue) - 1)
        /\ \A i \in DOMAIN queue' : i + 1 \in DOMAIN queue /\ queue'[i] = queue[i + 1]
    BY HeadTailProperties, LenProperties, EmptySeq DEF PoolType
  <1> DEFINE shift == [i \in Pills' |-> i + 1]
  <1>2. shift \in Bijection(Pills', Pills \ {1})
    <2>1. shift \in [Pills' -> Pills \ {1}]
      BY <1>1 DEF Pills
    <2>2. \A i, j \in Pills' : shift[i] = shift[j] => i = j
      BY <1>1 DEF Pills
    <2>3. \A k \in Pills \ {1} : \E i \in Pills' : shift[i] = k
      <3> SUFFICES ASSUME NEW k \in Pills \ {1} PROVE k - 1 \in Pills' /\ shift[k - 1] = k
        OBVIOUS
      <3>1. k \in DOMAIN queue /\ queue[k] = Pill /\ k - 1 \in DOMAIN queue' /\ (k - 1) + 1 = k
        BY <1>1 DEF Pills
      <3> QED BY <1>1, <3>1 DEF Pills
    <2> QED BY <2>1, <2>2, <2>3 DEF Bijection, Injection, Surjection, IsInjective
  <1>3. Cardinality(Pills') = Cardinality(Pills \ {1})
    BY <1>2, Finite, FS_Bijection DEF ExistsBijection, FiniteNow
  <1>4. 1 \in Pills <=> Head(queue) = Pill
    BY <1>1 DEF Pills
  <1>5. Entries' \subseteq Entries /\ Head(queue) \in Entries
    BY <1>1 DEF Entries
  <1> QED BY <1>1, <1>3, <1>4, <1>5, Finite, FS_RemoveElement DEF FiniteNow

LEMMA TakeCounts ==
  ASSUME PoolType, PoolType', Counts, ThreadInv, NEW w \in Worker, Take(w)
  PROVE  Counts'
  <1>1. pc[w] = "get" /\ queue # <<>> /\ queue' = Tail(queue) /\ pills' = pills
    BY DEF Take, popped
  <1>2. pc'[Main] = pc[Main] /\ \A v \in Worker \ {w} : pc'[v] = pc[v]
    BY Apart DEF Take, PoolType, Thread
  <1>3. pc[Main] # "joined"
    BY <1>1 DEF Counts, StopInv
  <1>4. CASE Head(queue) = Pill
    <2>1. pc'[w] = "exited"
      BY <1>4 DEF Take, EndsLoop, PoolType, Thread
    <2>2. Alive' = Alive \ {w} /\ w \in Alive /\ Awake' = Awake \ {w} /\ w \in Awake
      BY <1>1, <1>2, <2>1 DEF Alive, Awake
    <2>3. /\ Cardinality(Alive') = Cardinality(Alive) - 1
          /\ Cardinality(Awake') = Cardinality(Awake) - 1
      BY <2>2, Finite, FS_RemoveElement DEF FiniteNow
    <2>4. /\ Cardinality(Pills') = Cardinality(Pills) - 1
          /\ Len(queue') = Len(queue) - 1 /\ Pill \in Entries
      BY <1>1, <1>4, TailPills
    <2>5. pc[Main] \in {"stopping", "joining"}
      BY <1>3, <2>4 DEF Counts, StopInv
    <2>6. StopInv'
      BY <1>1, <1>2, <2>5 DEF Counts, StopInv
    <2>7. PillForEachWorker'
      BY <1>1, <1>2, <2>3, <2>4, <2>5, Finite, PillsLeftIs DEF Counts, PillsLeft, PoolType, FiniteNow
    <2>8. AwakeInv'
      BY <1>2, <2>1, <2>3, <2>4, Finite DEF Counts, AwakeInv, FiniteNow
    <2> QED BY <2>6, <2>7, <2>8 DEF Counts
  <1>5. CASE Head(queue) # Pill
    <2>1. pc'[w] = "body"
      BY <1>5 DEF Take, EndsLoop, PoolType, Thread
    <2>2. Alive' = Alive /\ Awake' = Awake
      BY <1>1, <1>2, <2>1 DEF Alive, Awake
    <2>3. /\ Cardinality(Pills') = Cardinality(Pills) /\ Entries' \subseteq Entries
          /\ Len(queue') = Len(queue) - 1
      BY <1>1, <1>5, TailPills
    <2>4. StopInv'
      BY <1>1, <1>2, <2>1, <2>3 DEF Counts, StopInv
    <2>5. PillForEachWorker'
      BY <1>1, <1>2, <2>2, <2>3, PillsLeftIs DEF Counts, PillsLeft
    <2>6. AwakeInv'
      BY <1>2, <2>1, <2>2, <2>3, Finite DEF Counts, AwakeInv, FiniteNow
    <2> QED BY <2>4, <2>5, <2>6 DEF Counts
  <1> QED BY <1>4, <1>5

LEMMA SleepCounts ==
  ASSUME PoolType, PoolType', Counts, NEW w \in Worker, Sleep(w)
  PROVE  Counts'
  <1>1. /\ queue = <<>> /\ UNCHANGED <<queue, pills>> /\ pc'[Main] = pc[Main]
        /\ \A v \in Worker : pc'[v] = "exited" <=> pc[v] = "exited"
    BY Apart DEF Sleep, PoolType, Thread
  <1>2. Pills' = Pills /\ Alive' = Alive /\ Entries' = Entries
    BY <1>1 DEF Pills, Alive, Entries
  <1>3. StopInv' /\ PillForEachWorker'
    BY <1>1, <1>2, PillsLeftIs DEF Counts, StopInv, PillsLeft
  <1>4. Len(queue') = 0 /\ Cardinality(Awake') \in Nat
    BY <1>1, Finite, EmptySeq DEF FiniteNow
  <1> QED BY <1>3, <1>4 DEF Counts, AwakeInv

LEMMA StartCounts ==
  ASSUME PoolType, PoolType', Counts, NEW th \in Thread, NEW p \in Task \cup {Main}, NEW t \in Task,
         Start(th, p, t)
  PROVE  Counts'
  <1>1. /\ queue' = Append(queue, t) /\ pc'[Main] = pc[Main] /\ pills' = pills /\ WakesOne
        /\ \A w \in Worker : \/ pc'[w] = pc[w]
                             \/ pc[w] = "asleep" /\ pc'[w] = "get"
    BY StartFacts DEF Start, Thread
  <1>2. Pills' = Pills /\ Entries' = Entries \cup {t}
    BY <1>1, AppendEntries, Apart DEF Pills
  <1>3. Alive' = Alive
    BY <1>1 DEF Alive
  <1>4. StopInv'
    BY <1>1, <1>2, Apart DEF Counts, StopInv
  <1>5. PillForEachWorker'
    BY <1>1, <1>2, <1>3, PillsLeftIs DEF Counts, PillsLeft
  <1>6. AwakeInv'
    BY <1>1, AddAwake DEF Counts
  <1> QED BY <1>4, <1>5, <1>6 DEF Counts

LEMMA AddPillCounts ==
  ASSUME PoolType, PoolType', Counts, AddPill
  PROVE  Counts'
  <1>1. /\ queue' = Append(queue, Pill) /\ pills' = pills - 1 /\ WakesOne
        /\ pc[Main] = "stopping"
        /\ pc'[Main] = IF pills = 1 THEN "joining" ELSE "stopping"
        /\ \A w \in Worker : \/ pc'[w] = pc[w]
                             \/ pc[w] = "asleep" /\ pc'[w] = "get"
    BY AddPillFacts DEF AddPill
  <1>2. Pills' = Pills \cup {Len(queue) + 1} /\ Len(queue) + 1 \notin Pills
    BY <1>1, AppendEntries DEF Pills
  <1>3. Cardinality(Pills') = Cardinality(Pills) + 1
    BY <1>2, Finite, FS_AddElement DEF FiniteNow
  <1>4. Alive' = Alive
    BY <1>1 DEF Alive
  <1>5. StopInv'
    BY <1>1 DEF Counts, StopInv, PoolType
  <1>6. PillForEachWorker'
    BY <1>1, <1>3, <1>4, Finite, PillsLeftIs DEF Counts, PillsLeft, PoolType, FiniteNow
  <1>7. AwakeInv'
    BY <1>1, AddAwake DEF Counts
  <1> QED BY <1>5, <1>6, <1>7 DEF Counts

LEMMA StopCounts ==
  ASSUME PoolType, PoolType', Counts, Stop
  PROVE  Counts'
  <1>1. /\ pc[Main] = "main" /\ pc'[Main] = "stopping" /\ pills' = Cardinality(Worker)
        /\ queue' = queue /\ \A w \in Worker : pc'[w] = pc[w]
    BY Apart DEF Stop, PillCount, PoolType, Thread
  <1>2. Pills' = {} /\ Alive' = Worker
    BY <1>1 DEF Counts, StopInv, Pills, Alive, Entries
  <1>3. Cardinality(Worker) \in Nat \ {0}
    BY PoolAssumption, FS_EmptySet, FS_CardinalityType
  <1>4. StopInv'
    BY <1>1, <1>3 DEF Counts, StopInv
  <1>5. PillForEachWorker'
    BY <1>1, <1>2, <1>3, FS_EmptySet, PillsLeftIs DEF PillsLeft
  <1>6. Awake' = Awake
    BY <1>1 DEF Awake
  <1>7. AwakeInv'
    BY <1>1, <1>6 DEF Counts, AwakeInv
  <1> QED BY <1>4, <1>5, <1>7 DEF Counts

LEMMA JoinCounts ==
  ASSUME PoolType, PoolType', Counts, Join
  PROVE  Counts'
  <1>1. /\ pc'[Main] = "joined" /\ queue' = queue
        /\ \A w \in Worker : pc'[w] = pc[w] /\ pc[w] = "exited"
    BY Apart DEF Join, PoolType, Thread
  <1> QED BY <1>1 DEF Counts, StopInv, PillForEachWorker, AwakeInv

(* The remaining actions change neither the queue nor the counts.            *)
LEMMA QuietActions ==
  ASSUME PoolType, PoolType', Counts, ThreadInv,
         \/ \E w \in Worker : SpuriousWakeup(w)
         \/ \E th \in Thread :
              \/ \E c \in Task, t \in Task : AwaitNotReady(th, c, t)
              \/ Attach(th)
              \/ \E c \in Task : Finish(th, c)
              \/ JumpToAwaiter(th)
              \/ SetResult(th)
              \/ SyncSuspends(th)
         \/ \E t \in Task : SyncAwait(t)
         \/ GetResult
         \/ UNCHANGED poolVars
  PROVE  Counts'
  <1> USE Apart DEF PoolType, Thread, Phase
  <1> DEFINE Quiet == /\ UNCHANGED <<queue, pills>>
                      /\ \A w \in Worker : /\ pc'[w] = "asleep" => pc[w] = "asleep"
                                           /\ pc'[w] = "exited" <=> pc[w] = "exited"
                      /\ Phase(pc'[Main]) = Phase(pc[Main])
  <1>1. CASE \E w \in Worker : SpuriousWakeup(w)
    <2>1. Quiet
      BY <1>1 DEF SpuriousWakeup
    <2> QED BY <2>1, QuietCounts
  <1>2. ASSUME NEW th \in Thread,
               \/ \E c \in Task, t \in Task : AwaitNotReady(th, c, t)
               \/ \E c \in Task : Finish(th, c)
        PROVE  Counts'
    <2>1. Quiet
      BY <1>2 DEF AwaitNotReady, Finish, Executes
    <2> QED BY <2>1, QuietCounts
  <1>3. ASSUME NEW th \in Thread, Attach(th) \/ JumpToAwaiter(th) PROVE Counts'
    <2>1. Quiet
      BY <1>3 DEF Attach, JumpToAwaiter
    <2> QED BY <2>1, QuietCounts
  <1>4. ASSUME NEW th \in Thread, SetResult(th) \/ SyncSuspends(th) PROVE Counts'
    <2>1. Quiet
      BY <1>4 DEF SetResult, SyncSuspends, Executes
    <2> QED BY <2>1, QuietCounts
  <1>5. CASE GetResult \/ \E t \in Task : SyncAwait(t)
    <2>1. Quiet
      BY <1>5 DEF GetResult, SyncAwait
    <2> QED BY <2>1, QuietCounts
  <1>6. CASE UNCHANGED poolVars
    <2>1. Quiet
      BY <1>6 DEF poolVars
    <2> QED BY <2>1, QuietCounts
  <1> QED BY <1>1, <1>2, <1>3, <1>4, <1>5, <1>6

----------------------------------------------------------------------------
LEMMA PoolInitIInv == PoolInit => PoolIInv
  <1> SUFFICES ASSUME PoolInit PROVE PoolIInv
    OBVIOUS
  <1>1. queue = <<>> /\ Len(queue) = 0 /\ DOMAIN queue = {} /\ Entries = {}
    BY EmptySeq DEF PoolInit, Entries
  <1>2. pc[Main] = "main" /\ \A w \in Worker : pc[w] = "get"
    BY Apart DEF PoolInit, Thread
  <1>3. StopInv /\ PillForEachWorker /\ AwakeInv
    BY <1>1, <1>2 DEF StopInv, PillForEachWorker, AwakeInv
  <1> QED BY <1>3, TypeInit, RunInit DEF PoolIInv

LEMMA PoolNextIInv == PoolIInv /\ [PoolNext]_poolVars => PoolIInv'
  <1> SUFFICES ASSUME PoolIInv, [PoolNext]_poolVars PROVE PoolIInv'
    OBVIOUS
  <1>1. PoolType /\ RunInv /\ Counts /\ ThreadInv
    BY DEF PoolIInv, Counts, RunInv
  <1>2. PoolType'
    BY <1>1, TypeStep DEF Counts
  <1>3. \/ \E w \in Worker : Take(w)
        \/ \E w \in Worker : Sleep(w)
        \/ \E w \in Worker : SpuriousWakeup(w)
        \/ \E th \in Thread, p \in Task \cup {Main}, t \in Task : Start(th, p, t)
        \/ \E th \in Thread, c \in Task, t \in Task : AwaitNotReady(th, c, t)
        \/ \E th \in Thread : Attach(th)
        \/ \E th \in Thread, c \in Task : Finish(th, c)
        \/ \E th \in Thread : JumpToAwaiter(th)
        \/ \E th \in Thread : SetResult(th)
        \/ \E th \in Thread : SyncSuspends(th)
        \/ \E t \in Task : SyncAwait(t)
        \/ GetResult
        \/ Stop
        \/ AddPill
        \/ Join
        \/ UNCHANGED poolVars
    BY DEF PoolNext, WorkerStep, BodyStep, MainCalls, MainStep, Stopped, Thread
  <1>4. RunInv'
    <2>1. CASE UNCHANGED poolVars
      BY <1>1, <2>1 DEF poolVars, RunInv, ThreadInv, Agrees, AwaiterInv, WillRead, Over, SyncInv,
         RunByOne, Entries
    <2> QED BY <1>1, <1>3, <2>1, TakeRun, SleepRun, StartRun, AwaitNotReadyRun, AttachRun,
               FinishRun, JumpToAwaiterRun, SetResultRun, SyncSuspendsRun, SyncAwaitRun,
               GetResultRun, StopRun, AddPillRun
  <1>5. Counts'
    BY <1>1, <1>2, <1>3, TakeCounts, SleepCounts, StartCounts, AddPillCounts, StopCounts,
       JoinCounts, QuietActions
  <1> QED BY <1>2, <1>4, <1>5 DEF PoolIInv, Counts

LEMMA PoolIInvHolds == PoolSpec => []PoolIInv
  BY PoolInitIInv, PoolNextIInv, PTL DEF PoolSpec

(* Type correctness of every variable of the pool, in every reachable state. *)
THEOREM PoolTypeCorrect == PoolSpec => []PoolType
  <1>1. PoolIInv => PoolType
    BY DEF PoolIInv
  <1> QED BY PoolIInvHolds, <1>1, PTL

(* However the threads' steps interleave, and although awaits race with the  *)
(* ends of tasks, no coroutine handle is ever resumed by two threads, and    *)
(* none is resumed while it is still in the queue.                           *)
THEOREM RunByOneCorrect == PoolSpec => []RunByOne
  <1>1. PoolIInv => RunByOne
    BY DEF PoolIInv, RunInv
  <1> QED BY PoolIInvHolds, <1>1, PTL

(* add() wakes at most one worker, and that is enough: the pool never sleeps *)
(* over a queue that is not empty.                                           *)
THEOREM NoSleepingPoolCorrect == PoolSpec => []NoSleepingPool
  <1>1. ASSUME PoolIInv, Entries # {}, NEW w \in Worker, pc[w] # "exited"
        PROVE  \E v \in Worker : pc[v] \notin {"asleep", "exited"}
    <2>1. Len(queue) \in Nat \ {0}
      BY <1>1, LenProperties, EmptySeq DEF PoolIInv, PoolType, Entries
    <2>2. CASE pc[w] = "asleep"
      <3>1. Cardinality(Awake) >= Len(queue)
        BY <1>1, <2>2 DEF PoolIInv, AwakeInv
      <3>2. Awake # {}
        <4> SUFFICES ASSUME Awake = {} PROVE FALSE
          OBVIOUS
        <4>1. Cardinality(Awake) = 0
          BY FS_EmptySet, Zenon
        <4> QED BY <2>1, <3>1, <4>1
      <3> QED BY <3>2 DEF Awake
    <2> QED BY <1>1, <2>2
  <1>2. PoolIInv => NoSleepingPool
    BY <1>1 DEF NoSleepingPool
  <1> QED BY PoolIInvHolds, <1>2, PTL

(* While stop_and_join() runs, the empty handles queued and those yet to be  *)
(* queued are as many as the workers left: none of them is missed.           *)
THEOREM PillForEachWorkerCorrect == PoolSpec => []PillForEachWorker
  <1>1. PoolIInv => PillForEachWorker
    BY DEF PoolIInv
  <1> QED BY PoolIInvHolds, <1>1, PTL

----------------------------------------------------------------------------
(* FramesAlive needs to know who may destroy a task: its holder, which is    *)
(* also the only one that awaits it.                                         *)
HolderOf(c) == IF c = Sync THEN Main ELSE c

HolderInv ==
  /\ \A c \in Coroutine : status[c] = "waiting" => on[c] # Null /\ holder[on[c]] = HolderOf(c)
  /\ \A t \in Task : awaiter[t] # Null => holder[t] = HolderOf(awaiter[t])
  /\ \A t \in Task : status[t] = "destroyed" => holder[t] \in Task /\ Over(holder[t])
  /\ \A t \in Task : status[t] = "new" => holder[t] = Null

LEMMA HolderApart == \A c \in Coroutine : HolderOf(c) # Null /\ (c # Sync => HolderOf(c) = c)
  BY Apart, PoolAssumption DEF HolderOf, Coroutine

LEMMA HolderInit == PoolInit => HolderInv
  BY DEF PoolInit, HolderInv, Coroutine

(* An action that touches no task that is over, makes nobody wait, attaches  *)
(* nothing and starts nothing.                                               *)
LEMMA HolderQuiet ==
  ASSUME PoolType, HolderInv, UNCHANGED <<holder, awaiter>>,
         \A c \in Coroutine : status'[c] = "waiting" => status[c] = "waiting" /\ on'[c] = on[c],
         \A t \in Task : /\ status'[t] = "destroyed" => status[t] = "destroyed"
                         /\ status'[t] = "new" => status[t] = "new"
                         /\ Over(t) => Over(t)'
  PROVE  HolderInv'
  BY DEF HolderInv, PoolType, Over, Coroutine

LEMMA HolderStep ==
  ASSUME PoolType, RunInv, HolderInv, [PoolNext]_poolVars
  PROVE  HolderInv'
  <1> USE Apart DEF PoolType, Coroutine, Over
  <1>1. ASSUME NEW w \in Worker, Take(w) PROVE HolderInv'
    <2>1. CASE Head(queue) = Pill
      BY <1>1, <2>1, HolderQuiet DEF Take, EndsLoop
    <2>2. CASE Head(queue) # Pill
      <3>1. /\ status' = [status EXCEPT ![Head(queue)] = "running"]
            /\ UNCHANGED <<holder, on, awaiter>>
        BY <1>1, <2>2 DEF Take, EndsLoop
      <3>2. Head(queue) \in Entries
        BY <1>1, HeadTailProperties, LenProperties, EmptySeq DEF Take, Entries
      <3>3. Head(queue) \in Task
        BY <1>1, <2>2, HeadTailProperties DEF Take
      <3>4. status[Head(queue)] = "queued"
        BY <3>2, <3>3 DEF RunInv, RunByOne
      <3> QED BY <3>1, <3>3, <3>4, HolderQuiet
    <2> QED BY <2>1, <2>2
  <1>2. ASSUME NEW w \in Worker, Sleep(w) \/ SpuriousWakeup(w) PROVE HolderInv'
    BY <1>2, HolderQuiet DEF Sleep, SpuriousWakeup
  <1>3. ASSUME NEW th \in Thread, NEW p \in Task \cup {Main}, NEW t \in Task, Start(th, p, t)
        PROVE  HolderInv'
    <2>1. /\ status[t] = "new" /\ holder[t] = Null /\ UNCHANGED <<on, awaiter>>
          /\ status' = [status EXCEPT ![t] = "queued"]
          /\ holder' = [holder EXCEPT ![t] = p]
      BY <1>3 DEF Start, HolderInv
    <2>2. \A x \in Task : holder[x] # Null => holder'[x] = holder[x]
      BY <2>1
    <2>3. ASSUME NEW c \in Coroutine, status'[c] = "waiting"
          PROVE  on'[c] # Null /\ holder'[on'[c]] = HolderOf(c)
      <3>1. status[c] = "waiting" /\ on'[c] = on[c] /\ on[c] \in Task /\ holder[on[c]] = HolderOf(c)
        BY <2>1, <2>3 DEF HolderInv
      <3> QED BY <2>2, <3>1, HolderApart
    <2>4. ASSUME NEW x \in Task, awaiter'[x] # Null PROVE holder'[x] = HolderOf(awaiter'[x])
      <3>1. awaiter'[x] = awaiter[x] /\ awaiter[x] \in Coroutine /\ holder[x] = HolderOf(awaiter[x])
        BY <2>1, <2>4 DEF HolderInv
      <3> QED BY <2>2, <3>1, HolderApart
    <2>5. ASSUME NEW x \in Task, status'[x] = "destroyed"
          PROVE  holder'[x] \in Task /\ status'[holder'[x]] \in {"done", "destroyed"}
      <3>1. /\ x # t /\ holder'[x] = holder[x] /\ holder[x] \in Task
            /\ status[holder[x]] \in {"done", "destroyed"}
        BY <2>1, <2>5 DEF HolderInv
      <3> QED BY <2>1, <3>1
    <2>6. \A x \in Task : status'[x] = "new" => holder'[x] = Null
      BY <2>1 DEF HolderInv
    <2> QED BY <2>3, <2>4, <2>5, <2>6 DEF HolderInv
  <1>4. ASSUME NEW th \in Thread, NEW c \in Task, NEW t \in Task, AwaitNotReady(th, c, t)
        PROVE  HolderInv'
    <2>1. /\ holder[t] = c /\ status[c] = "running" /\ UNCHANGED <<holder, awaiter>>
          /\ status' = [status EXCEPT ![c] = "waiting"] /\ on' = [on EXCEPT ![c] = t]
      BY <1>4 DEF AwaitNotReady, Executes, Held, RunInv, ThreadInv, Agrees
    <2>2. HolderOf(c) = c /\ t # Null
      BY DEF HolderOf
    <2> QED BY <2>1, <2>2 DEF HolderInv
  <1>5. ASSUME NEW th \in Thread, Attach(th) PROVE HolderInv'
    <2>1. /\ cur[th] \in Coroutine /\ status[cur[th]] = "waiting" /\ on[cur[th]] \in Task
          /\ awaiter' = [awaiter EXCEPT ![on[cur[th]]] = cur[th]]
          /\ UNCHANGED <<status, holder, on>>
      BY <1>5 DEF Attach, RunInv, ThreadInv, Agrees, Executing
    <2>2. holder[on[cur[th]]] = HolderOf(cur[th])
      BY <2>1 DEF HolderInv
    <2> QED BY <2>1, <2>2 DEF HolderInv
  <1>6. ASSUME NEW th \in Thread, NEW c \in Task, Finish(th, c) PROVE HolderInv'
    <2>1. /\ status[c] = "running" /\ UNCHANGED <<holder, on, awaiter>>
          /\ \A t \in Task : holder[t] = c => status[t] = "done"
          /\ status' = [x \in Coroutine |-> IF x = c THEN "done"
                         ELSE IF x \in {t \in Task : holder[t] = c} THEN "destroyed" ELSE status[x]]
      BY <1>6 DEF Finish, Executes, Held, RunInv, ThreadInv, Agrees
    <2>2. \A x \in Coroutine : status[x] \in {"done", "destroyed"} => status'[x] \in {"done", "destroyed"}
      BY <2>1
    <2>3. \A x \in Coroutine : status'[x] = "waiting" => status[x] = "waiting"
      BY <2>1
    <2>4. \A x \in Task : status'[x] = "destroyed" => status[x] = "destroyed" \/ holder[x] = c
      BY <2>1
    <2>5. \A x \in Task : status'[x] = "new" => status[x] = "new"
      BY <2>1
    <2>6. status'[c] = "done"
      BY <2>1
    <2> QED BY <2>1, <2>2, <2>3, <2>4, <2>5, <2>6 DEF HolderInv
  <1>7. ASSUME NEW th \in Thread, JumpToAwaiter(th) PROVE HolderInv'
    <2> DEFINE next == awaiter[cur[th]]
    <2>1. CASE next = Null
      BY <1>7, <2>1, HolderQuiet DEF JumpToAwaiter, AwaiterRead
    <2>2. CASE next # Null
      <3>1. next \in Coroutine /\ status[next] = "waiting"
        BY <1>7, <2>2 DEF JumpToAwaiter, RunInv, ThreadInv, Agrees, AwaiterInv, WillRead
      <3>2. /\ status' = [status EXCEPT ![next] = "running"] /\ on' = [on EXCEPT ![next] = Null]
            /\ UNCHANGED <<holder, awaiter>>
        BY <1>7, <2>2 DEF JumpToAwaiter, AwaiterRead
      <3> HIDE DEF next
      <3> QED BY <3>1, <3>2, HolderQuiet
    <2> QED BY <2>1, <2>2
  <1>8. ASSUME NEW th \in Thread, SetResult(th) \/ SyncSuspends(th) PROVE HolderInv'
    BY <1>8, HolderQuiet DEF SetResult, SyncSuspends
  <1>9. ASSUME NEW t \in Task, SyncAwait(t) PROVE HolderInv'
    <2>1. holder[t] = Main /\ HolderOf(Sync) = Main /\ t # Null
      BY <1>9 DEF SyncAwait, Held, HolderOf
    <2> QED BY <1>9, <2>1 DEF SyncAwait, HolderInv
  <1>10. CASE GetResult \/ Join \/ Stop \/ AddPill
    BY <1>10, HolderQuiet DEF GetResult, Join, Stop, AddPill
  <1>11. CASE UNCHANGED poolVars
    BY <1>11, HolderQuiet DEF poolVars
  <1> QED BY <1>1, <1>2, <1>3, <1>4, <1>5, <1>6, <1>7, <1>8, <1>9, <1>10, <1>11
          DEF PoolNext, WorkerStep, BodyStep, MainCalls, MainStep, Stopped, Thread

(* With any number of workers, and with sync_await, no thread runs a body in *)
(* a destroyed frame, and the queue and every awaiter that will be read lead *)
(* to coroutines that exist and sleep.  A task that its awaiter may destroy  *)
(* under the thread that has yet to read its awaiter has no awaiter: whoever *)
(* did attach itself sleeps, and so cannot have destroyed it.                *)
THEOREM FramesAliveCorrect == PoolSpec => []FramesAlive
  <1>1. PoolIInv /\ HolderInv /\ [PoolNext]_poolVars => HolderInv'
    BY HolderStep DEF PoolIInv
  <1>2. ASSUME PoolIInv, HolderInv PROVE FramesAlive
    <2>1. PoolType /\ RunByOne /\ \A th \in Thread : Agrees(th)
      BY <1>2 DEF PoolIInv, RunInv, ThreadInv
    <2>2. \A t \in Task : WillRead(t) /\ awaiter[t] # Null => status[awaiter[t]] = "waiting"
      BY <1>2 DEF PoolIInv, RunInv, AwaiterInv
    <2>3. ASSUME NEW th \in Thread, pc[th] = "ended", awaiter[cur[th]] # Null
          PROVE  status[awaiter[cur[th]]] = "waiting" /\ status[cur[th]] # "destroyed"
      <3> DEFINE t == cur[th]
                 c == awaiter[t]
      <3>1. t \in Task /\ c \in Coroutine /\ status[c] = "waiting"
        BY <2>1, <2>2, <2>3 DEF Agrees, WillRead, PoolType
      <3>2. holder[t] = HolderOf(c)
        BY <1>2, <2>3, <3>1 DEF HolderInv
      <3>3. status[t] = "destroyed" => holder[t] \in Task /\ Over(holder[t])
        BY <1>2, <3>1 DEF HolderInv
      <3>4. Main \notin Task
        BY PoolAssumption
      <3> QED BY <3>1, <3>2, <3>3, <3>4 DEF HolderOf, Over
    <2>4. ASSUME NEW th \in Thread, cur[th] # Null, status[cur[th]] = "destroyed"
          PROVE  pc[th] = "set" \/ (pc[th] = "ended" /\ awaiter[cur[th]] = Null)
      BY <2>1, <2>3, <2>4 DEF Agrees, Executing
    <2>5. ASSUME NEW t \in Entries \ {Pill} PROVE status[t] # "destroyed"
      <3>1. t \in Task
        BY <2>1, LenProperties DEF PoolType, Entries
      <3> QED BY <2>1, <3>1 DEF RunByOne
    <2> QED BY <2>2, <2>3, <2>4, <2>5 DEF FramesAlive, WillRead, Over
  <1> QED BY <1>1, <1>2, HolderInit, PoolIInvHolds, PTL DEF PoolSpec
=============================================================================
