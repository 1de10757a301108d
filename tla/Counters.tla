------------------------------ MODULE Counters ------------------------------
(* The two builds of task_counter side by side.  The release build keeps one *)
(* signed balance; the debug build two unsigned counters, which wrap around, *)
(* and which nothing brings down when a sleeping coroutine is destroyed.     *)
EXTENDS Integers

CONSTANTS
  Modulus,  \* 2^w, w the width of unsigned
  MaxAsleep \* bound: coroutines suspended at one time

ASSUME ModulusAssumption == Modulus \in Nat /\ Modulus > 1 /\ MaxAsleep \in Nat

VARIABLES
  tasks_in_running, tasks_blocked, \* the debug build
  blocked_balance,                 \* the release build
  height,                          \* coroutines on the call stack
  asleep                           \* suspended coroutines that still exist

counterVars == <<tasks_in_running, tasks_blocked, blocked_balance, height, asleep>>

Unsigned == 0 .. Modulus - 1

CounterType ==
  /\ tasks_in_running \in Unsigned /\ tasks_blocked \in Unsigned
  /\ blocked_balance \in Int
  /\ height \in Unsigned /\ asleep \in Nat

CounterInit ==
  /\ tasks_in_running = 0 /\ tasks_blocked = 0 /\ blocked_balance = 0
  /\ height = 0 /\ asleep = 0

(* Plausible bug, used by no specification (see Scheduler).                  *)
graph_blocked_if_none_runs(running, sleeping) == sleeping >= running

(* ++ and -- of an unsigned.                                                 *)
increment(n) == IF n = Modulus - 1 THEN 0 ELSE n + 1

decrement(n) == IF n = 0 THEN Modulus - 1 ELSE n - 1

(* graph_blocked() of the debug build and of the release build.              *)
graph_blocked_debug(running, sleeping) == running = sleeping

graph_blocked_release(balance) == balance = 0

(* What blocked() adds to the balance.                                       *)
balance_if_blocked == blocked_balance - 1

(* A coroutine is called, on top of the stack: start().  The stack is finite *)
(* and far smaller than the counters (height < Modulus).                     *)
Start ==
  /\ height + 1 < Modulus
  /\ tasks_in_running' = increment(tasks_in_running)
  /\ blocked_balance' = blocked_balance + 1
  /\ height' = height + 1
  /\ UNCHANGED <<tasks_blocked, asleep>>

(* It ends: finish(), and no coroutine takes its place ...                   *)
FinishAlone ==
  /\ height > 0
  /\ tasks_in_running' = decrement(tasks_in_running)
  /\ blocked_balance' = blocked_balance - 1
  /\ height' = height - 1
  /\ UNCHANGED <<tasks_blocked, asleep>>

(* ... or one that slept does: finish(), then unblocked().                   *)
FinishAndResume ==
  /\ height > 0 /\ asleep > 0
  /\ tasks_in_running' = decrement(tasks_in_running)
  /\ tasks_blocked' = decrement(tasks_blocked)
  /\ asleep' = asleep - 1
  /\ UNCHANGED <<blocked_balance, height>>

(* It suspends: blocked(), and no coroutine takes its place ...              *)
BlockAlone ==
  /\ height > 0 /\ asleep < MaxAsleep
  /\ tasks_blocked' = increment(tasks_blocked)
  /\ blocked_balance' = balance_if_blocked
  /\ height' = height - 1
  /\ asleep' = asleep + 1
  /\ UNCHANGED tasks_in_running

(* ... or one that slept does: blocked(), then unblocked().                  *)
BlockAndResume ==
  /\ height > 0 /\ asleep > 0
  /\ tasks_blocked' = decrement(increment(tasks_blocked))
  /\ blocked_balance' = balance_if_blocked + 1
  /\ UNCHANGED <<tasks_in_running, height, asleep>>

(* A transfer has ended and curl was polled because both counters said that  *)
(* the graph is blocked: unblocked().                                        *)
Unblock ==
  /\ graph_blocked_debug(tasks_in_running, tasks_blocked)
  /\ asleep > 0
  /\ tasks_blocked' = decrement(tasks_blocked)
  /\ blocked_balance' = blocked_balance + 1
  /\ height' = height + 1
  /\ asleep' = asleep - 1
  /\ UNCHANGED tasks_in_running

(* A sleeping coroutine is destroyed: no call of the counter.                *)
DestroySleeping ==
  /\ asleep > 0
  /\ asleep' = asleep - 1
  /\ UNCHANGED <<tasks_in_running, tasks_blocked, blocked_balance, height>>

CounterNext ==
  \/ Start \/ FinishAlone \/ FinishAndResume \/ BlockAlone \/ BlockAndResume
  \/ Unblock \/ DestroySleeping

CounterSpec == CounterInit /\ [][CounterNext]_counterVars
----------------------------------------------------------------------------
(* However often the counters have wrapped and however many coroutines were  *)
(* destroyed in their sleep, both builds answer graph_blocked() alike, and   *)
(* say yes exactly when no coroutine is on the call stack.                   *)
BuildsAgree ==
  LET debug == graph_blocked_debug(tasks_in_running, tasks_blocked)
  IN (debug <=> graph_blocked_release(blocked_balance)) /\ (debug <=> height = 0)
=============================================================================
