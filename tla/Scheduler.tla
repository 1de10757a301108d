----------------------------- MODULE Scheduler -----------------------------
(* default_scheduler (scheduler.hpp, scheduler.cpp) and its task counter     *)
(* (task_counter.hpp, release build).  It is a passive object: coroutines    *)
(* call it when they start, suspend and finish, and it answers with the      *)
(* coroutine to run next.  The answer is resumed by symmetric transfer: it   *)
(* takes the place of the suspended coroutine on the call stack, and the     *)
(* noop coroutine returns to the caller below.                               *)
EXTENDS CurlMulti, Integers, SequencesExt

VARIABLES
  stack,                    \* coroutines on the call stack, innermost first
  polling,                  \* inside complete_something()
  blocked_balance,          \* task_counter
  ready,                    \* coroutine_handle_queue
  waiting_for_someone_else, \* the multimap, as pairs <<awaited, sleeping>>
  code                      \* waiting_coroutines_for_curl_finished::code

schedulerVars == <<stack, polling, blocked_balance, ready,
                   waiting_for_someone_else, code>>

SchedulerType ==
  /\ stack \in Seq(Coro)
  /\ polling \in BOOLEAN
  /\ blocked_balance \in Int
  /\ ready \in Seq(Coro)
  /\ waiting_for_someone_else \subseteq Coro \X Coro
  /\ code \in Codes \cup {Null}

SchedulerInit ==
  /\ stack = <<>>
  /\ polling = FALSE
  /\ blocked_balance = 0
  /\ ready = <<>>
  /\ waiting_for_someone_else = {}
  /\ code = Null

----------------------------------------------------------------------------
(* Plausible bugs.  No specification uses them: each replaces the definition *)
(* it is named after, to see that the properties notice.                     *)
finish_not_counted(balance) == balance
take_one_without_pop(queue) == queue
QueuedWithNobody(awaited) == {ready}
sleeping_not_erased(awaited) == waiting_for_someone_else

complete_something_stale_code(e) ==
  /\ polling /\ e \in finished
  /\ code' = IF code = Null THEN outcome[e] ELSE code
  /\ remove_handles({e})
  /\ polling' = FALSE
  /\ stack' = <<e>> \o stack
  /\ blocked_balance' = blocked_balance + 1
  /\ UNCHANGED <<outcome, ready, waiting_for_someone_else>>

nothing_to_complete_never == FALSE /\ UNCHANGED <<curlVars, schedulerVars>>

----------------------------------------------------------------------------
(* task_counter: what each call does to the balance.                         *)
start(balance) == balance + 1
finish(balance) == balance - 1
blocked(balance) == balance - 1
unblocked(balance) == balance + 1
graph_blocked(balance) == balance = 0

(* coroutine_handle_queue::take_one() of a queue that is not empty.          *)
take_one(queue) == Tail(queue)

(* The coroutine on top of the stack gives up control.  Next to run is its   *)
(* immediate awaiter, else the front of the queue, else nothing: then curl   *)
(* is polled if the whole graph is blocked, and otherwise noop returns to    *)
(* the caller below.  queue and balance are ready and blocked_balance as the *)
(* calls before this one left them.                                          *)
select_next_coroutine(immediate_awaiter, queue, balance) ==
  \/ /\ immediate_awaiter # Null
     /\ stack' = <<immediate_awaiter>> \o Tail(stack)
     /\ blocked_balance' = unblocked(balance)
     /\ ready' = queue
     /\ UNCHANGED polling
  \/ /\ immediate_awaiter = Null
     /\ queue # <<>>
     /\ stack' = <<Head(queue)>> \o Tail(stack)
     /\ blocked_balance' = unblocked(balance)
     /\ ready' = take_one(queue)
     /\ UNCHANGED polling
  \/ /\ immediate_awaiter = Null
     /\ queue = <<>>
     /\ stack' = Tail(stack)
     /\ blocked_balance' = balance
     /\ ready' = queue
     /\ polling' = graph_blocked(balance)

suspend == select_next_coroutine(Null, ready, blocked(blocked_balance))

Sleeping(awaited) ==
  {s \in Coro : <<awaited, s>> \in waiting_for_someone_else}

(* ready once the sleepers of the awaited coroutine are queued.  The         *)
(* multimap keeps them in insertion order, the model in any order.           *)
QueuedWith(awaited) == {ready \o woken : woken \in SetToSeqs(Sleeping(awaited))}

forget_sleeping(awaited) ==
  {p \in waiting_for_someone_else : p[1] # awaited}

(* One turn of the loop in complete_something() that finds a message: the    *)
(* code is published, the handle removed and the coroutine it names resumed. *)
complete_something(e) ==
  /\ polling
  /\ e \in finished
  /\ code' = outcome[e]
  /\ remove_handles({e})
  /\ polling' = FALSE
  /\ stack' = <<e>> \o stack
  /\ blocked_balance' = unblocked(blocked_balance)
  /\ UNCHANGED <<outcome, ready, waiting_for_someone_else>>

(* No message and no transfer in progress: {} is returned, noop returns to   *)
(* the caller of the outermost coroutine.                                    *)
nothing_to_complete ==
  /\ polling
  /\ finished = {}
  /\ running = {}
  /\ polling' = FALSE
  /\ UNCHANGED <<curlVars, stack, blocked_balance, ready,
                 waiting_for_someone_else, code>>

(* curl_multi_perform fails: in a build without assertions the loop is left  *)
(* with no report.                                                           *)
perform_fails ==
  /\ polling
  /\ polling' = FALSE
  /\ UNCHANGED <<curlVars, stack, blocked_balance, ready,
                 waiting_for_someone_else, code>>
=============================================================================
