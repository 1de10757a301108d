-------------------------------- MODULE All --------------------------------
(* co_curl::all (all.hpp): a coroutine that awaits promises one after the    *)
(* other while all of them run.  They end in any order; what they leave is   *)
(* the result of promise_return and result_type (promise.hpp).  Four forms:  *)
(* a range or a pack of promises, of values or of optionals.  How awaiting   *)
(* coroutines are woken is the subject of module Coroutines.                 *)
EXTENDS Integers, Sequences

CONSTANT Tasks  \* number of promises it is given

ASSUME TasksAssumption == Tasks \in Nat

VARIABLES
  form,      \* "range": it holds the promises; "tuple": its caller does
  optional,  \* do the promises hold optionals?
  result,    \* promise_return::result of each promise
  next,      \* the promise that is awaited, or next to be
  suspended, \* is all() waiting for next?
  output,    \* the promises whose values were collected, in that order
  engaged,   \* has output a value? (std::optional::operator bool)
  state      \* "running", or how the coroutine ended

allVars == <<form, optional, result, next, suspended, output, engaged, state>>

(* A promise that is "cancelled" was destroyed before it had a result.       *)
Results == {"none", "value", "nullopt", "exception", "cancelled"}

AllType ==
  /\ form \in {"range", "tuple"}
  /\ optional \in BOOLEAN
  /\ result \in [1..Tasks -> Results]
  /\ next \in 1..(Tasks + 1)
  /\ suspended \in BOOLEAN
  /\ output \in Seq(1..Tasks)
  /\ engaged \in BOOLEAN
  /\ state \in {"running", "returned", "threw", "destroyed"}

(* How a promise may end.                                                    *)
Ends == {"value", "exception"} \cup (IF optional THEN {"nullopt"} ELSE {})

(* Some promises may have ended before they are passed to all().             *)
AllInit ==
  /\ form \in {"range", "tuple"}
  /\ optional \in BOOLEAN
  /\ result \in [1..Tasks -> {"none"} \cup Ends]
  /\ next = 1
  /\ suspended = FALSE
  /\ output = <<>>
  /\ engaged = TRUE
  /\ state = "running"

----------------------------------------------------------------------------
(* Plausible bugs, used by no specification.                                 *)
still_collecting_always == TRUE

----------------------------------------------------------------------------
(* await_ready is false: the coroutine waits, and others run.               *)
Suspend ==
  /\ state = "running" /\ ~suspended /\ next <= Tasks
  /\ result[next] = "none"
  /\ suspended' = TRUE
  /\ UNCHANGED <<form, optional, result, next, output, engaged, state>>

(* A coroutine returns (return_value) or throws (unhandled_exception).       *)
TaskEnds(t, k) ==
  /\ state = "running" /\ suspended
  /\ result[t] = "none"
  /\ result' = [result EXCEPT ![t] = k]
  /\ UNCHANGED <<form, optional, next, suspended, output, engaged, state>>

(* Its handle is resumed, some time after next has ended.                    *)
Resume ==
  /\ state = "running" /\ suspended
  /\ result[next] # "none"
  /\ suspended' = FALSE
  /\ UNCHANGED <<form, optional, result, next, output, engaged, state>>

(* await_resume.                                                             *)
HasNext ==
  state = "running" /\ ~suspended /\ next <= Tasks /\ result[next] # "none"

(* result_type::move() rethrows.                                             *)
move_throws(t) == result[t] = "exception"

(* `if (!output) continue;` is not taken.                                    *)
still_collecting == engaged

next_promise == next + 1

(* The range form of optionals gives up its output at the first nullopt, and *)
(* goes on awaiting; all others collect everything.                          *)
Collect ==
  /\ HasNext /\ ~move_throws(next)
  /\ next' = next_promise
  /\ \/ /\ form = "range" /\ optional
        /\ \/ ~still_collecting /\ UNCHANGED <<output, engaged>>
           \/ /\ still_collecting /\ result[next] = "nullopt"
              /\ output' = <<>> /\ engaged' = FALSE
           \/ /\ still_collecting /\ result[next] # "nullopt"
              /\ output' = Append(output, next) /\ engaged' = TRUE
     \/ /\ ~(form = "range" /\ optional)
        /\ output' = Append(output, next) /\ UNCHANGED engaged
  /\ UNCHANGED <<form, optional, result, suspended, state>>

(* The promises in the frame are destroyed, whether they have ended or not.  *)
cancel_unfinished ==
  [t \in 1..Tasks |-> IF result[t] = "none" THEN "cancelled" ELSE result[t]]

(* The exception leaves all(): a range goes with the frame's vector.         *)
Throw ==
  /\ HasNext /\ move_throws(next)
  /\ state' = "threw"
  /\ result' = IF form = "range" THEN cancel_unfinished ELSE result
  /\ UNCHANGED <<form, optional, next, suspended, output, engaged>>

(* ~promise of the promise that all() returned, while it waits.              *)
Destroy ==
  /\ state = "running" /\ suspended
  /\ state' = "destroyed"
  /\ result' = IF form = "range" THEN cancel_unfinished ELSE result
  /\ UNCHANGED <<form, optional, next, suspended, output, engaged>>

any_nullopt == \E t \in 1..Tasks : result[t] = "nullopt"

(* co_return; the pack of optionals is looked through only now.              *)
Finish ==
  /\ state = "running" /\ next > Tasks
  /\ state' = "returned"
  /\ IF form = "tuple" /\ optional /\ any_nullopt
       THEN output' = <<>> /\ engaged' = FALSE
       ELSE UNCHANGED <<output, engaged>>
  /\ UNCHANGED <<form, optional, result, next, suspended>>

Over == state # "running" /\ UNCHANGED allVars

AllNext ==
  \/ Suspend
  \/ \E t \in 1..Tasks, k \in Ends : TaskEnds(t, k)
  \/ Resume
  \/ Collect
  \/ Throw
  \/ Destroy
  \/ Finish
  \/ Over

AllSpec == AllInit /\ [][AllNext]_allVars

----------------------------------------------------------------------------
(* Reference: in whatever order the promises end, both forms return all the  *)
(* values in the order of the arguments, or nothing if one of the optionals  *)
(* is empty, and only once every one of them has its result.                 *)
ReturnsInOrder ==
  state = "returned" =>
    /\ \A t \in 1..Tasks : result[t] \in {"value", "nullopt"}
    /\ engaged <=> \A t \in 1..Tasks : result[t] # "nullopt"
    /\ engaged => output = [t \in 1..Tasks |-> t]
=============================================================================
