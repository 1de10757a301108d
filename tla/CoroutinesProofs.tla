-------------------------- MODULE CoroutinesProofs -------------------------
(* Theorems about the coroutines and their scheduler, for any number of      *)
(* coroutines, any client program and any set of the client's disciplines.   *)
EXTENDS Coroutines, SequenceTheorems, FiniteSetTheorems, TLAPS

(* The invariant the proofs carry: types and the counter.  The counter is    *)
(* needed for the types, too: it tells that a coroutine that suspends leaves *)
(* a stack that is not empty and a scheduler that is not polling.            *)
IInv == TypeOK /\ CounterIsStack

(* Names that are not coroutines.                                            *)
LEMMA Names == Main \notin Coro /\ Null \notin Coro /\ Main # Null
  BY NamesAssumption

(* Pushing a coroutine on a stack, and replacing the one on top of it.       *)
LEMMA PushType ==
  ASSUME NEW c \in Coro, NEW s \in Seq(Coro)
  PROVE  <<c>> \o s \in Seq(Coro) /\ Len(<<c>> \o s) = Len(s) + 1
  <1>1. <<c>> \in Seq(Coro) /\ Len(<<c>>) = 1
    OBVIOUS
  <1>2. Len(s) \in Nat
    BY LenProperties
  <1> QED BY <1>1, <1>2, ConcatProperties, SMT

(* The order in which sleepers are queued is some sequence of coroutines.    *)
LEMMA QueuedType ==
  ASSUME TypeOK, NEW c \in Coro, NEW queue \in QueuedWith(c)
  PROVE  queue \in Seq(Coro)
  <1>1. PICK woken \in SetToSeqs(Sleeping(c)) : queue = ready \o woken
    BY DEF QueuedWith
  <1>2. Sleeping(c) \subseteq Coro
    BY DEF Sleeping
  <1>3. Cardinality(Sleeping(c)) \in Nat
    BY <1>2, FiniteAssumption, FS_Subset, FS_CardinalityType
  <1>4. woken \in [1..Cardinality(Sleeping(c)) -> Sleeping(c)]
    BY <1>1 DEF SetToSeqs
  <1>5. woken \in Seq(Sleeping(c))
    BY <1>3, <1>4, SeqDef
  <1>6. woken \in Seq(Coro)
    BY <1>2, <1>5, SeqMonotonic
  <1> QED BY <1>1, <1>6, ConcatProperties DEF TypeOK, SchedulerType

(* select_next_coroutine keeps the scheduler well-typed and its counter the  *)
(* height of the stack, whichever of its three answers it gives.             *)
LEMMA SelectNext ==
  ASSUME IInv, stack # <<>>,
         NEW awaiting \in Coro \cup {Null}, NEW queue \in Seq(Coro),
         select_next_coroutine(awaiting, queue, blocked_balance - 1)
  PROVE  /\ stack' \in Seq(Coro)
         /\ ready' \in Seq(Coro)
         /\ polling' \in BOOLEAN
         /\ blocked_balance' \in Int
         /\ CounterIsStack'
  <1> USE DEF IInv, TypeOK, SchedulerType
  <1>1. /\ Tail(stack) \in Seq(Coro)
        /\ Len(Tail(stack)) = blocked_balance - 1
        /\ ~polling
    BY HeadTailProperties DEF CounterIsStack
  <1>2. CASE awaiting # Null /\ stack' = <<awaiting>> \o Tail(stack)
               /\ blocked_balance' = blocked_balance /\ ready' = queue /\ UNCHANGED polling
    BY <1>1, <1>2, PushType DEF CounterIsStack
  <1>3. CASE queue # <<>> /\ stack' = <<Head(queue)>> \o Tail(stack)
               /\ blocked_balance' = blocked_balance /\ ready' = Tail(queue)
               /\ UNCHANGED polling
    <2>1. Head(queue) \in Coro /\ Tail(queue) \in Seq(Coro)
      BY <1>3, HeadTailProperties
    <2> QED BY <1>1, <1>3, <2>1, PushType DEF CounterIsStack
  <1>4. CASE stack' = Tail(stack) /\ blocked_balance' = blocked_balance - 1
               /\ ready' = queue /\ polling' = (blocked_balance - 1 = 0)
    <2>1. polling' => stack' = <<>>
      BY <1>1, <1>4, EmptySeq
    <2> QED BY <1>1, <1>4, <2>1 DEF CounterIsStack
  <1>5. blocked_balance - 1 + 1 = blocked_balance
    OBVIOUS
  <1> QED BY <1>2, <1>3, <1>4, <1>5 DEF select_next_coroutine, take_one, unblocked, graph_blocked

(* A coroutine in control is on top of a stack that is not empty.            *)
LEMMA InControlOnTop ==
  ASSUME NEW p \in Coro, InControl(p)
  PROVE  stack # <<>> /\ p = Head(stack) /\ at[p] = "running"
  BY Names DEF InControl, OnTop, Executing

(* The coroutine that executes and the promises it sees are coroutines.      *)
LEMMA ExecutingType == TypeOK => Executing \subseteq Coro
  BY HeadTailProperties DEF Executing, TypeOK, SchedulerType

LEMMA VisibleType ==
  ASSUME TypeOK, NEW p \in Coro
  PROVE  Visible(p) \subseteq Coro
  BY DEF Visible, Owned, TypeOK

(* Destroying frames keeps the types of everything it touches.               *)
LEMMA DestroyType ==
  ASSUME TypeOK, NEW D, NEW states \in [Coro -> States], destroy(D, states)
  PROVE  /\ CurlType'
         /\ at' \in [Coro -> States]
         /\ owner' \in [Coro -> Coro \cup {Main, Null}]
         /\ refs' \in [Coro -> SUBSET Coro]
         /\ awaits' \in [Coro -> SUBSET Coro]
         /\ awaiter' \in [Coro -> Coro \cup {Null}]
  BY DEF TypeOK, CurlType, destroy, remove_handles, States

----------------------------------------------------------------------------
LEMMA InitIInv == Init => IInv
  <1> SUFFICES ASSUME Init PROVE IInv
    OBVIOUS
  <1>1. stack = <<>> /\ <<>> \in Seq(Coro) /\ Len(<<>>) = 0
    BY EmptySeq DEF Init, SchedulerInit
  <1>2. SchedulerType
    <2>1. stack \in Seq(Coro) /\ ready \in Seq(Coro)
      BY <1>1 DEF Init, SchedulerInit
    <2>2. blocked_balance \in Int
      BY DEF Init, SchedulerInit
    <2>3. polling \in BOOLEAN /\ code \in Codes \cup {Null}
      BY DEF Init, SchedulerInit
    <2>4. waiting_for_someone_else \subseteq Coro \X Coro
      BY DEF Init, SchedulerInit
    <2> QED BY <2>1, <2>2, <2>3, <2>4 DEF SchedulerType
  <1>4. CounterIsStack
    BY <1>1 DEF Init, SchedulerInit, CounterIsStack
  <1>3. CurlType
    BY DEF Init, CurlInit, CurlType
  <1> QED BY <1>2, <1>3, <1>4, BudgetAssumption DEF Init, IInv, TypeOK, States

(* One lemma per action.                                                     *)
LEMMA CallIInv ==
  ASSUME IInv, NEW p \in Coro \cup {Main}, NEW c \in Coro,
         NEW M \in SUBSET Owned(p), NEW R \in SUBSET Borrowable, Call(p, c, M, R)
  PROVE  IInv'
  <1> USE DEF IInv, TypeOK
  <1>1. ~polling
    BY InControlOnTop, Names DEF Call, InControl, AtMain, CounterIsStack
  <1>2. stack' \in Seq(Coro) /\ Len(stack') = Len(stack) + 1
    BY PushType DEF Call, SchedulerType
  <1>3. SchedulerType'
    BY <1>2 DEF Call, SchedulerType, start
  <1>4. CurlType'
    BY DEF Call, CurlType, curlVars
  <1>5. /\ at' \in [Coro -> States]
        /\ owner' \in [Coro -> Coro \cup {Main, Null}]
        /\ awaits' \in [Coro -> SUBSET Coro]
        /\ awaiter' \in [Coro -> Coro \cup {Null}]
    BY DEF Call, States
  <1>6. refs' \in [Coro -> SUBSET Coro]
    BY BorrowableAssumption DEF Call
  <1>7. budget' \in Nat
    BY DEF Call
  <1>8. CounterIsStack'
    BY <1>1, <1>2 DEF Call, CounterIsStack, start, SchedulerType
  <1> QED BY <1>3, <1>4, <1>5, <1>6, <1>7, <1>8

LEMMA AwaitIInv ==
  ASSUME IInv, NEW p \in Coro, NEW D \in SUBSET Coro, Await(p, D)
  PROVE  IInv'
  <1> USE DEF IInv, TypeOK
  <1>1. stack # <<>>
    BY InControlOnTop DEF Await
  <1>2. select_next_coroutine(Null, ready, blocked_balance - 1)
    BY DEF Await, suspend, blocked
  <1>3. /\ stack' \in Seq(Coro) /\ ready' \in Seq(Coro) /\ polling' \in BOOLEAN
        /\ blocked_balance' \in Int /\ CounterIsStack'
    BY <1>1, <1>2, SelectNext DEF SchedulerType
  <1>4. waiting_for_someone_else' \subseteq Coro \X Coro
    BY DEF Await, SleepingAfterAdd, SchedulerType
  <1>5. SchedulerType'
    BY <1>3, <1>4 DEF Await, SchedulerType
  <1>6. CurlType'
    BY DEF Await, CurlType, curlVars
  <1>7. /\ at' \in [Coro -> States] /\ awaits' \in [Coro -> SUBSET Coro]
        /\ awaiter' \in [Coro -> Coro \cup {Null}]
    BY DEF Await, AwaiterAfterAdd, Kind, States, Awaiting
  <1> QED BY <1>3, <1>5, <1>6, <1>7 DEF Await

LEMMA PerformIInv ==
  ASSUME IInv, NEW p \in Coro, Perform(p)
  PROVE  IInv'
  <1> USE DEF IInv, TypeOK
  <1>1. stack # <<>>
    BY InControlOnTop DEF Perform
  <1>2. select_next_coroutine(Null, ready, blocked_balance - 1)
    BY DEF Perform, suspend, blocked
  <1>3. /\ stack' \in Seq(Coro) /\ ready' \in Seq(Coro) /\ polling' \in BOOLEAN
        /\ blocked_balance' \in Int /\ CounterIsStack'
    BY <1>1, <1>2, SelectNext DEF SchedulerType
  <1>4. SchedulerType'
    BY <1>3 DEF Perform, SchedulerType
  <1>5. CurlType'
    BY DEF Perform, add_handle, CurlType
  <1>6. at' \in [Coro -> States] /\ budget' \in Nat
    BY DEF Perform, States, Awaiting
  <1> QED BY <1>3, <1>4, <1>5, <1>6 DEF Perform

LEMMA AwaitResumeIInv ==
  ASSUME IInv, NEW c \in Coro, AwaitResume(c)
  PROVE  IInv'
  <1> USE DEF IInv, TypeOK
  <1>1. awaiter' \in [Coro -> Coro \cup {Null}]
    BY DEF AwaitResume, AwaiterAfterRemove
  <1>2. SchedulerType'
    BY DEF AwaitResume, SchedulerType, SleepingAfterRemove
  <1>3. CurlType' /\ CounterIsStack'
    BY DEF AwaitResume, CurlType, curlVars, CounterIsStack
  <1>4. at' \in [Coro -> States] /\ awaits' \in [Coro -> SUBSET Coro]
    BY DEF AwaitResume, States
  <1> QED BY <1>1, <1>2, <1>3, <1>4 DEF AwaitResume

LEMMA ReturnIInv ==
  ASSUME IInv, NEW c \in Coro, NEW L \in SUBSET Owned(c), Return(c, L)
  PROVE  IInv'
  <1> USE DEF IInv, TypeOK
  <1>1. stack # <<>>
    BY InControlOnTop DEF Return
  <1>2. PICK queue \in QueuedWith(c) :
          select_next_coroutine(awaiter[c], queue, blocked_balance - 1)
    BY DEF Return, finish
  <1>3. queue \in Seq(Coro)
    BY QueuedType
  <1>4. /\ stack' \in Seq(Coro) /\ ready' \in Seq(Coro) /\ polling' \in BOOLEAN
        /\ blocked_balance' \in Int /\ CounterIsStack'
    BY <1>1, <1>2, <1>3, SelectNext
  <1>5. SchedulerType'
    BY <1>4 DEF Return, SchedulerType, forget_sleeping
  <1>6. [at EXCEPT ![c] = "final"] \in [Coro -> States]
    BY DEF States
  <1>7. destroy(L, [at EXCEPT ![c] = "final"])
    BY DEF Return
  <1> QED BY <1>4, <1>5, <1>6, <1>7, DestroyType DEF Return

LEMMA DropIInv ==
  ASSUME IInv, NEW p, NEW d \in Coro, Drop(p, d)
  PROVE  IInv'
  <1> USE DEF IInv, TypeOK
  <1>1. destroy({d}, at)
    BY DEF Drop
  <1>2. SchedulerType' /\ CounterIsStack'
    BY DEF Drop, SchedulerType, CounterIsStack, schedulerVars
  <1> QED BY <1>1, <1>2, DestroyType DEF Drop

LEMMA CurlIInv ==
  ASSUME IInv, CurlStep
  PROVE  IInv'
  <1> USE DEF IInv, TypeOK
  <1>1. CASE \E e \in Coro, k \in Codes : TransferEnds(e, k)
    BY <1>1 DEF TransferEnds, transfer_ends, CurlType, SchedulerType, CounterIsStack,
                schedulerVars, coroutineVars
  <1>2. CASE \E e \in Coro : CompleteSomething(e)
    <2>1. PICK e \in Coro : CompleteSomething(e)
      BY <1>2
    <2> USE <2>1 DEF CompleteSomething, complete_something, remove_handles
    <2>2. stack' \in Seq(Coro) /\ Len(stack') = Len(stack) + 1
      BY PushType DEF SchedulerType
    <2>3. SchedulerType'
      <3>1. code' \in Codes \cup {Null}
        BY DEF CurlType
      <3>2. blocked_balance' \in Int
        BY DEF SchedulerType, unblocked
      <3> QED BY <2>2, <3>1, <3>2 DEF SchedulerType
    <2>4. CurlType'
      BY DEF CurlType
    <2>5. CounterIsStack'
      BY <2>2 DEF CounterIsStack, unblocked, SchedulerType
    <2> QED BY <2>3, <2>4, <2>5 DEF coroutineVars
  <1>3. CASE NothingToComplete
    BY <1>3 DEF NothingToComplete, nothing_to_complete, CurlType, SchedulerType,
                CounterIsStack, curlVars, coroutineVars
  <1>4. CASE PerformFails
    BY <1>4 DEF PerformFails, perform_fails, CurlType, SchedulerType, CounterIsStack,
                curlVars, coroutineVars
  <1> QED BY <1>1, <1>2, <1>3, <1>4 DEF CurlStep

LEMMA NextIInv == IInv /\ [Next]_vars => IInv'
  <1> SUFFICES ASSUME IInv, [Next]_vars PROVE IInv'
    OBVIOUS
  <1>1. CASE MainStep
    BY <1>1, CallIInv, DropIInv DEF MainStep
  <1>2. CASE CoroutineStep
    <2>1. PICK p \in Coro :
            \/ \E c \in Coro, M \in SUBSET Owned(p), R \in SUBSET Borrowable : Call(p, c, M, R)
            \/ \E D \in SUBSET Coro : Await(p, D)
            \/ Perform(p)
            \/ AwaitResume(p)
            \/ \E L \in SUBSET Owned(p) : Return(p, L)
            \/ \E d \in Coro : Drop(p, d)
      BY <1>2, VisibleType, ExecutingType DEF CoroutineStep, IInv
    <2> QED BY <2>1, CallIInv, AwaitIInv, PerformIInv, AwaitResumeIInv, ReturnIInv, DropIInv
  <1>3. CASE CurlStep
    BY <1>3, CurlIInv
  <1>4. CASE UNCHANGED vars
    BY <1>4 DEF IInv, TypeOK, CounterIsStack, CurlType, SchedulerType, vars, curlVars,
                schedulerVars, coroutineVars
  <1> QED BY <1>1, <1>2, <1>3, <1>4 DEF Next, Terminated

----------------------------------------------------------------------------
LEMMA IInvHolds == Spec => []IInv
  BY InitIInv, NextIInv, PTL DEF Spec

(* Type correctness of every variable, in every reachable state.             *)
THEOREM TypeCorrect == Spec => []TypeOK
  <1>1. IInv => TypeOK
    BY DEF IInv
  <1> QED BY IInvHolds, <1>1, PTL

(* The task counter of the release build always equals the number of         *)
(* coroutines on the call stack, so graph_blocked() is exact and curl is     *)
(* polled only when the outermost coroutine has given up control.            *)
THEOREM CounterCorrect == Spec => []CounterIsStack
  <1>1. IInv => CounterIsStack
    BY DEF IInv
  <1> QED BY IInvHolds, <1>1, PTL
=============================================================================
