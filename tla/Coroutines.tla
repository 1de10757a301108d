----------------------------- MODULE Coroutines ----------------------------
(* The promise type of the library's coroutines (promise.hpp), the select    *)
(* awaiter (select.hpp) and perform_later (multi.hpp), driven by an          *)
(* arbitrary client program: each coroutine body calls coroutines, awaits,   *)
(* selects, performs, drops promises and returns in any order.  Everything   *)
(* runs in one thread, in the coroutine on top of the stack or in main().    *)
EXTENDS Scheduler

CONSTANTS
  Main,             \* main(): no coroutine; it cannot await
  Borrowable,       \* coroutines whose promise may be passed by reference
  DropUnfinished,   \* may a promise be destroyed before its coroutine ends?
  SelectBorrowable, \* may a select name a promise others may await?
  MultiFails,       \* may curl_multi_perform fail?
  Budget            \* bound: calls and performs of a whole run

ASSUME BorrowableAssumption == Borrowable \subseteq Coro
ASSUME SwitchAssumption ==
  /\ DropUnfinished \in BOOLEAN
  /\ SelectBorrowable \in BOOLEAN
  /\ MultiFails \in BOOLEAN
ASSUME FiniteAssumption == IsFiniteSet(Coro)
ASSUME BudgetAssumption == Budget \in Nat
ASSUME NamesAssumption ==
  /\ Main \notin Coro
  /\ Null \notin Coro
  /\ Main # Null
  /\ Null \notin Codes

VARIABLES
  at,       \* where the coroutine is, see States
  owner,    \* who holds its promise object
  refs,     \* promises of others its parameters refer to
  awaits,   \* promises it is suspended on
  awaiter,  \* promise_type::awaiter
  budget    \* calls and performs left to the client

coroutineVars == <<at, owner, refs, awaits, awaiter, budget>>
vars == <<curlVars, schedulerVars, coroutineVars>>

(* A frame is "free" before its creation and after its destruction, so a new *)
(* coroutine may get the address of a destroyed one.                         *)
Awaiting == {"promise", "select", "perform"}
States == {"free", "running", "final"} \cup Awaiting

TypeOK ==
  /\ CurlType
  /\ SchedulerType
  /\ at \in [Coro -> States]
  /\ owner \in [Coro -> Coro \cup {Main, Null}]
  /\ refs \in [Coro -> SUBSET Coro]
  /\ awaits \in [Coro -> SUBSET Coro]
  /\ awaiter \in [Coro -> Coro \cup {Null}]
  /\ budget \in Nat

Init ==
  /\ CurlInit
  /\ SchedulerInit
  /\ at = [c \in Coro |-> "free"]
  /\ owner = [c \in Coro |-> Null]
  /\ refs = [c \in Coro |-> {}]
  /\ awaits = [c \in Coro |-> {}]
  /\ awaiter = [c \in Coro |-> Null]
  /\ budget = Budget

----------------------------------------------------------------------------
AtMain == stack = <<>> /\ ~polling

(* The coroutine whose code is executing, if any.                            *)
Executing == IF stack = <<>> THEN {} ELSE {Head(stack)}
OnTop(c) == c \in Executing

(* p executes the code of its body, not of an awaiter's await_resume().      *)
InControl(p) ==
  \/ p = Main /\ AtMain
  \/ p \in Coro /\ OnTop(p) /\ at[p] = "running"

Owned(p) == {c \in Coro : owner[c] = p}
Visible(p) == Owned(p) \cup (IF p = Main THEN {} ELSE refs[p])
Done(c) == at[c] = "final"
Live == {c \in Coro : at[c] # "free"}
OnStack == {stack[i] : i \in DOMAIN stack}

(* Destroying a frame destroys the promise objects in it, and so on down.    *)
Frames(D) ==
  {c \in Coro : \A S \in SUBSET Coro :
     D \subseteq S /\ (\A x \in Coro : owner[x] \in S => x \in S) => c \in S}

(* Rules of the language, not of the library: no reference outlives what it  *)
(* refers to.  DropUnfinished is the discipline of the client.               *)
MayDestroy(D) ==
  LET gone == Frames(D) IN
  /\ DropUnfinished \/ \A c \in gone : Done(c)
  /\ \A c \in Live \ gone : refs[c] \cap gone = {}

(* Plausible bugs, used by no specification (see Scheduler).                 *)
await_never_ready(D) == FALSE
AwaiterOverwritten(p, D) == [d \in Coro |-> IF d \in D THEN p ELSE awaiter[d]]
SleepingAlways(p, D) == waiting_for_someone_else \cup {<<d, p>> : d \in D}
SleepingNever(p, D) == waiting_for_someone_else
AwaiterKept(p, D) == awaiter

PerformFailsAsIfDone ==
  /\ MultiFails /\ polling
  /\ polling' = FALSE
  /\ remove_handles(handles)
  /\ UNCHANGED <<outcome, stack, blocked_balance, ready,
                 waiting_for_someone_else, code, coroutineVars>>

(* ~promise: the frames go, and with each its easy handle.  Nothing is       *)
(* deregistered: ready, the multimap and the awaiters of others stay.        *)
(* states is at as the rest of the step leaves it; a coroutine that has      *)
(* ended uses its references no more.                                        *)
destroy(D, states) ==
  LET gone == Frames(D) IN
  /\ at' = [c \in Coro |-> IF c \in gone THEN "free" ELSE states[c]]
  /\ owner' = [c \in Coro |-> IF c \in gone THEN Null ELSE owner[c]]
  /\ refs' = [c \in Coro |-> IF c \in gone \/ states[c] = "final" THEN {} ELSE refs[c]]
  /\ awaits' = [c \in Coro |-> IF c \in gone THEN {} ELSE awaits[c]]
  /\ awaiter' = [c \in Coro |-> IF c \in gone THEN Null ELSE awaiter[c]]
  /\ outcome' = [c \in Coro |-> IF c \in gone THEN Null ELSE outcome[c]]
  /\ remove_handles(gone)

----------------------------------------------------------------------------
(* p calls coroutine c, moving the promises M and lending the promises R to  *)
(* it.  c starts at once, on top of p.                                       *)
Call(p, c, M, R) ==
  /\ InControl(p)
  /\ budget > 0
  /\ at[c] = "free"
  /\ M \subseteq Owned(p)
  /\ \A x \in Live : refs[x] \cap M = {}
  /\ R \subseteq (Visible(p) \ M) \cap Borrowable
  /\ at' = [at EXCEPT ![c] = "running"]
  /\ owner' = [x \in Coro |-> IF x = c THEN p ELSE IF x \in M THEN c ELSE owner[x]]
  /\ refs' = [refs EXCEPT ![c] = R]
  /\ stack' = <<c>> \o stack
  /\ blocked_balance' = start(blocked_balance)
  /\ budget' = budget - 1
  /\ UNCHANGED <<curlVars, polling, ready, waiting_for_someone_else, code,
                 awaits, awaiter>>

(* add_awaiting() on every promise of D: the first awaiter of a promise is   *)
(* resumed directly by it, the others go to the scheduler.                   *)
AwaiterAfterAdd(p, D) ==
  [d \in Coro |-> IF d \in D /\ awaiter[d] = Null THEN p ELSE awaiter[d]]

SleepingAfterAdd(p, D) ==
  waiting_for_someone_else \cup {<<d, p>> : d \in {x \in D : awaiter[x] # Null}}

(* await_ready() of a promise, or of select: is any of them done?            *)
await_ready(D) == \E d \in D : Done(d)

Kind(D) == IF Cardinality(D) = 1 THEN "promise" ELSE "select"

(* p awaits one promise, or selects among several, and none is done.         *)
Await(p, D) ==
  /\ p \in Coro /\ InControl(p)
  /\ D # {} /\ D \subseteq Visible(p)
  /\ ~await_ready(D)
  /\ Kind(D) = "select" => SelectBorrowable \/ D \cap Borrowable = {}
  /\ at' = [at EXCEPT ![p] = Kind(D)]
  /\ awaits' = [awaits EXCEPT ![p] = D]
  /\ awaiter' = AwaiterAfterAdd(p, D)
  /\ waiting_for_someone_else' = SleepingAfterAdd(p, D)
  /\ suspend
  /\ UNCHANGED <<curlVars, code, owner, refs, budget>>

(* p performs its easy handle: perform_later::await_suspend.                 *)
Perform(p) ==
  /\ p \in Coro /\ InControl(p)
  /\ budget > 0
  /\ at' = [at EXCEPT ![p] = "perform"]
  /\ add_handle(p)
  /\ suspend
  /\ budget' = budget - 1
  /\ UNCHANGED <<waiting_for_someone_else, code, owner, refs, awaits, awaiter>>

(* remove_awaiting() on every promise of D.                                  *)
AwaiterAfterRemove(p, D) ==
  [d \in Coro |-> IF d \in D /\ awaiter[d] = p THEN Null ELSE awaiter[d]]

SleepingAfterRemove(p, D) ==
  waiting_for_someone_else \
    {<<d, p>> : d \in {x \in D : awaiter[x] \notin {Null, p}}}

(* The resumed coroutine runs await_resume() of what it awaited.  Only       *)
(* select deregisters: it may still be registered with the losers.  (If the  *)
(* promise a select takes threw, it rethrows in a noexcept function, that    *)
(* is, std::terminate: that end of the whole program is left out.)           *)
AwaitResume(c) ==
  /\ OnTop(c) /\ at[c] \in Awaiting
  /\ at' = [at EXCEPT ![c] = "running"]
  /\ awaits' = [awaits EXCEPT ![c] = {}]
  /\ IF at[c] = "select"
       THEN /\ awaiter' = AwaiterAfterRemove(c, awaits[c])
            /\ waiting_for_someone_else' = SleepingAfterRemove(c, awaits[c])
       ELSE UNCHANGED <<awaiter, waiting_for_someone_else>>
  /\ UNCHANGED <<curlVars, stack, polling, blocked_balance, ready, code,
                 owner, refs, budget>>

(* c returns or throws: its local promises L are destroyed, those it got by  *)
(* value stay in the frame; then final_suspend wakes whoever awaits it.      *)
Return(c, L) ==
  /\ c \in Coro /\ InControl(c)
  /\ L \subseteq Owned(c)
  /\ MayDestroy(L)
  /\ destroy(L, [at EXCEPT ![c] = "final"])
  /\ waiting_for_someone_else' = forget_sleeping(c)
  /\ \E queue \in QueuedWith(c) :
       select_next_coroutine(awaiter[c], queue, finish(blocked_balance))
  /\ UNCHANGED <<code, budget>>

(* p destroys a promise it holds: end of a scope or of a full expression.    *)
Drop(p, d) ==
  /\ InControl(p)
  /\ d \in Owned(p)
  /\ MayDestroy({d})
  /\ destroy({d}, at)
  /\ UNCHANGED <<schedulerVars, budget>>

TransferEnds(e, k) ==
  /\ polling
  /\ transfer_ends(e, k)
  /\ UNCHANGED <<schedulerVars, coroutineVars>>

CompleteSomething(e) == complete_something(e) /\ UNCHANGED coroutineVars

NothingToComplete == nothing_to_complete /\ UNCHANGED coroutineVars

PerformFails == MultiFails /\ perform_fails /\ UNCHANGED coroutineVars

(* main() has returned: every promise it held is gone.                       *)
Terminated == AtMain /\ Live = {} /\ UNCHANGED vars

----------------------------------------------------------------------------
MainStep ==
  \/ \E c \in Coro, M \in SUBSET Owned(Main), R \in SUBSET Borrowable :
       Call(Main, c, M, R)
  \/ \E d \in Coro : Drop(Main, d)

CoroutineStep ==
  \E p \in Executing :
    \/ \E c \in Coro, M \in SUBSET Owned(p), R \in SUBSET Borrowable :
         Call(p, c, M, R)
    \/ \E D \in SUBSET Visible(p) : Await(p, D)
    \/ Perform(p)
    \/ AwaitResume(p)
    \/ \E L \in SUBSET Owned(p) : Return(p, L)
    \/ \E d \in Coro : Drop(p, d)

CurlStep ==
  \/ \E e \in Coro, k \in Codes : TransferEnds(e, k)
  \/ \E e \in Coro : CompleteSomething(e)
  \/ NothingToComplete
  \/ PerformFails

Next == MainStep \/ CoroutineStep \/ CurlStep \/ Terminated

Spec == Init /\ [][Next]_vars

(* A coroutine body does not loop for ever (Budget bounds it), and every     *)
(* transfer ends: curl_multi_perform and curl_multi_poll keep it moving and  *)
(* its timeouts end the ones that stall.  main() may stop calling.           *)
FairSpec == Spec /\ WF_vars(CoroutineStep) /\ WF_vars(CurlStep)
----------------------------------------------------------------------------
Suspended(c) == at[c] \in Awaiting /\ c \notin OnStack
Queued == {ready[i] : i \in DOMAIN ready}

(* d will hand c to the scheduler, directly or as a sleeper, when it ends.   *)
WakesAtEnd(d, c) ==
  awaiter[d] = c \/ <<d, c>> \in waiting_for_someone_else

(* The release build's single counter is the number of coroutines on the     *)
(* call stack, so graph_blocked() holds exactly when the outermost one gave  *)
(* up control: curl is polled with nothing of the graph left running.        *)
CounterIsStack ==
  /\ blocked_balance = Len(stack)
  /\ polling => stack = <<>>

(* Every handle the scheduler or a pending promise keeps is of a coroutine   *)
(* that still exists and sleeps on that very thing, and the call stack holds *)
(* live coroutines: nothing resumes a destroyed, finished or running one.    *)
(* (A coroutine just resumed from select is on top until it deregisters.)    *)
NoDanglingHandle ==
  /\ \A c \in Queued : Suspended(c) /\ \E d \in awaits[c] : Done(d)
  /\ \A c \in handles : Suspended(c) /\ at[c] = "perform"
  /\ \A d \in Live, c \in Coro :
       ~Done(d) /\ WakesAtEnd(d, c) =>
         d \in awaits[c] /\ (Suspended(c) \/ OnTop(c))
  /\ \A p \in waiting_for_someone_else : p[1] \in Live /\ ~Done(p[1])
  /\ \A i \in DOMAIN stack : at[stack[i]] \notin {"free", "final"}

(* A suspended coroutine has exactly one wake-up coming from each thing it   *)
(* awaits, or is queued once, and never both: it is resumed once per await.  *)
WokenOnce ==
  /\ \A i, j \in DOMAIN ready : ready[i] = ready[j] => i = j
  /\ \A i, j \in DOMAIN stack : stack[i] = stack[j] => i = j
  /\ \A d, c \in Coro :
       ~(awaiter[d] = c /\ <<d, c>> \in waiting_for_someone_else)
  /\ \A c \in Queued : \A d \in awaits[c] : Done(d)

(* No lost wake-up: a suspended coroutine is registered with everything it   *)
(* awaits, or queued, or its transfer is with curl.                          *)
NoLostWakeup ==
  \A c \in Coro : Suspended(c) =>
    \/ at[c] = "perform" /\ c \in running \cup finished
    \/ at[c] # "perform" /\ c \in Queued
    \/ at[c] # "perform" /\ \A d \in awaits[c] : ~Done(d) /\ WakesAtEnd(d, c)

(* await_resume() finds a result: the coroutine resumed from an await or a   *)
(* select finds one of its promises done (result_type would otherwise assert *)
(* and recursive_get() terminate), ...                                       *)
ResumedWithResult ==
  \A c \in Coro : OnTop(c) /\ at[c] \in {"promise", "select"} =>
    \E d \in awaits[c] : Done(d)

(* ... and the one resumed from a perform reads, through the reference to    *)
(* the scheduler's only code, the code its own transfer ended with.          *)
OwnCode ==
  \A c \in Coro : OnTop(c) /\ at[c] = "perform" => code = outcome[c]

(* get() in main() never meets a pending promise: when control is back in    *)
(* main(), every coroutine it started, and all they started, has ended.      *)
AllDoneInMain == AtMain => \A c \in Live : Done(c)

(* Every await ends (or the awaiting coroutine is destroyed) and control     *)
(* comes back to main() again and again.                                     *)
AwaitsEnd == \A c \in Coro : Suspended(c) ~> ~Suspended(c)
BackInMain == []<>AtMain

(* The coroutines implement the task graph: a coroutine on the call stack is *)
(* runnable, however deep, and a suspended one needs what it awaits: Null    *)
(* stands for the network, which is no coroutine.                            *)
Graph == INSTANCE TaskGraph WITH
  Task <- Coro,
  Network <- Null,
  state <- [c \in Coro |-> CASE at[c] = "free" -> "none"
                             [] at[c] = "final" -> "done"
                             [] Suspended(c) -> "waiting"
                             [] OTHER -> "runnable"],
  needs <- [c \in Coro |-> IF at[c] = "perform" THEN {Null} ELSE awaits[c]]

(* Every step of the library is a step of the task graph: only the end of    *)
(* what a coroutine awaits resumes it, and it then finds that result.        *)
ImplementsTaskGraph == Graph!GraphSpec

(* What two comments promise and a client that shares promises breaks.       *)
(* select.hpp, of a coroutine that selects: "this will be awaken when some   *)
(* of the coroutines is finished".  Having read its result and ended, it is  *)
(* not resumed again.                                                        *)
SelectAwakensOnce == \A c \in OnStack : ~Done(c)

(* select.cpp: "rest will be destroyed".  What is destroyed never runs.      *)
DestroyedNeverRuns == \A c \in OnStack : at[c] # "free"
=============================================================================
