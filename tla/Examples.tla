------------------------------ MODULE Examples ------------------------------
(* The programs of examples/ that run on the scheduler.  A program maps its  *)
(* functions to sequences of instructions; each instruction is one action    *)
(* of Coroutines, the coroutine it names being a variable of the function.   *)
(* A new frame gets a free address at once, the worst case for handles of    *)
(* destroyed coroutines.                                                     *)
EXTENDS Coroutines

CONSTANTS
  Ok,       \* CURLE_OK
  Depth,    \* levels of the two recursive programs (15 and 1000 in the code)
  Attempts  \* performs of a fetch in return.cpp (10 in the code)

ASSUME ExamplesAssumption ==
  /\ Ok \in Codes
  /\ Depth \in Nat /\ Attempts \in Nat \ {0}
  /\ Borrowable = Coro /\ DropUnfinished /\ SelectBorrowable /\ ~MultiFails

VARIABLES
  program,   \* the example that runs
  leftFirst, \* how the compiler ordered the operands of `co_await a + co_await b`
  frame,     \* function, level, next instruction and variables of each frame
  threw,     \* coroutines whose result is an exception
  crashed,   \* std::terminate was called
  over,      \* main() has returned, or crashed
  thrown,    \* a body has thrown (history)
  ended      \* transfers completed so far (history)

exampleVars ==
  <<program, leftFirst, frame, threw, crashed, over, thrown, ended>>

(* Instructions.  A promise passed on keeps the name of the variable.        *)
call_with(x, f, n, moved, lent) ==
  [op |-> "call", name |-> x, fn |-> f, n |-> n, moves |-> moved, lends |-> lent]
call(x, f) == call_with(x, f, 0, {}, {})
await(x) == [op |-> "await", names |-> {x}, caught |-> FALSE]
await_in_try(x) == [op |-> "await", names |-> {x}, caught |-> TRUE]
select(X) == [op |-> "await", names |-> X, caught |-> FALSE]
perform == [op |-> "perform"]
check == [op |-> "check"]      \* throw if the transfer failed
retry == [op |-> "retry"]      \* perform again if it failed
drop(x) == [op |-> "drop", name |-> x]
get(x) == [op |-> "get", name |-> x, caught |-> FALSE]
get_in_try(x) == [op |-> "get", name |-> x, caught |-> TRUE]
sooner(x, y) == IF leftFirst THEN x ELSE y
later(x, y) == IF leftFirst THEN y ELSE x

fetch_or_throw == <<perform, check>>

(* Plausible bug, used by no specification (see Scheduler): the range is     *)
(* lazy, a download starts only when the loop comes to it.                   *)
all_without_materializing(f, n) ==
  <<call_with("a", f, n, {}, {}), await("a"), call_with("b", f, n, {}, {}), await("b")>>

(* all() of promises, and of a range whose promises it calls for itself.     *)
all_promises == <<await("a"), await("b")>>
all_range(f, n) ==
  <<call_with("a", f, n, {}, {}), call_with("b", f, n, {}, {}), await("a"), await("b")>>

----------------------------------------------------------------------------
lazy_perform ==
  [main |-> <<call("r", "download_four"), get("r")>>,
   download_four |->
     <<call("a", "download_two"), call("b", "download_two_b"),
       await(sooner("a", "b")), await(later("a", "b"))>>,
   download_two |->
     <<call("a", "fetch"), call("b", "fetch"),
       await(sooner("a", "b")), await(later("a", "b"))>>,
   download_two_b |->
     <<call("a", "fetch"), call("b", "fetch"),
       await(sooner("a", "b")), await(later("a", "b"))>>,
   fetch |-> <<perform>>]

await_all ==
  [main |-> <<call("r", "main_coroutine"), get("r")>>,
   main_coroutine |-> <<call("r", "all"), await("r")>>,
   all |-> all_range("fetch", 0),
   fetch |-> <<perform>>]

await_all2 ==
  [main |-> <<call("r", "main_coroutine"), get("r")>>,
   main_coroutine |->
     <<call("a", "fetch"), call("b", "fetch"),
       call_with("r", "all", 0, {}, {"a", "b"}), await("r")>>,
   all |-> all_promises,
   fetch |-> <<perform>>]

select_cpp ==
  [main |-> <<call("r", "main_coroutine"), get("r")>>,
   main_coroutine |->
     <<call("a", "fetch"), call("b", "fetch"), select({"a", "b"})>>,
   fetch |-> <<perform>>]

exception ==
  [main |-> <<call("a", "fetch"), get_in_try("a"), call("a", "outer"), get_in_try("a")>>,
   outer |-> <<call("r", "fetch"), await_in_try("r")>>,
   fetch |-> fetch_or_throw]

hello_world == [main |-> <<call("r", "fetch"), get("r")>>, fetch |-> fetch_or_throw]

show_content == [main |-> <<call("r", "fetch"), drop("r")>>, fetch |-> <<perform>>]

factorial(n) ==
  [main |-> <<call_with("r", "factorial", Depth, {}, {}), get("r")>>,
   factorial |->
     IF n = 0 THEN <<>>
     ELSE <<call_with("v", "factorial", n - 1, {}, {}), await("v")>>]

lots_of_coroutines(n) ==
  [main |-> <<call("r", "start"), get("r")>>,
   start |-> <<call("task", "fetch"),
               call_with("r", "recursion", Depth, {"task"}, {}), await("r")>>,
   recursion |->
     IF n > 0
     THEN <<call_with("r", "recursion", n - 1, {"task"}, {}), await("r")>>
     ELSE IF leftFirst THEN <<await("task"), call("b", "fetch"), await("b")>>
     ELSE <<call("b", "fetch"), await("b"), await("task")>>,
   fetch |-> <<perform>>]

random ==
  [main |-> <<call("r", "select_first"), get("r")>>,
   select_first |-> <<call("a", "fetch"), call("b", "fetch"), await("a"), await("b")>>,
   fetch |-> fetch_or_throw]

multiple_awaits ==
  [main |-> <<call("r", "test"), drop("r")>>,
   test |->
     <<call("index", "download_index"),
       call_with("a", "process_left", 0, {}, {"index"}),
       call_with("b", "process_right", 0, {}, {"index"}),
       await(sooner("a", "b")), await(later("a", "b"))>>,
   process_left |-> <<await("index")>>,
   process_right |-> <<await("index")>>,
   download_index |-> <<call("r", "fetch"), await("r")>>,
   fetch |-> <<perform>>]

multi_failure ==
  [main |-> <<call("a", "fetch"), get("a"), call("b", "fetch"), get("b")>>,
   fetch |-> <<perform>>]

return_cpp ==
  [main |-> <<call("r", "fetch_all"), get("r")>>,
   fetch_all |->
     <<call_with("index", "fetch", Attempts, {}, {}), await("index"),
       drop("index"), call("r", "all"), await("r")>>,
   all |-> all_range("fetch_with_name", 0),
   fetch_with_name |-> <<call_with("r", "fetch", Attempts, {}, {}), await("r")>>,
   fetch |-> <<perform, retry>>]

Programs ==
  {"lazy-perform", "await-all", "await-all2", "select", "exception",
   "hello-world", "simplest-hello-world", "factorial", "lots-of-coroutines",
   "random", "multiple-awaits", "multi-failure-propagation", "return"}

Text(n) ==
  CASE program = "lazy-perform" -> lazy_perform
    [] program = "await-all" -> await_all
    [] program = "await-all2" -> await_all2
    [] program = "select" -> select_cpp
    [] program = "exception" -> exception
    [] program = "hello-world" -> hello_world
    [] program = "simplest-hello-world" -> show_content
    [] program = "factorial" -> factorial(n)
    [] program = "lots-of-coroutines" -> lots_of_coroutines(n)
    [] program = "random" -> random
    [] program = "multiple-awaits" -> multiple_awaits
    [] program = "multi-failure-propagation" -> multi_failure
    [] program = "return" -> return_cpp

----------------------------------------------------------------------------
Blank == [fn |-> "none", n |-> 0, pc |-> 1, env |-> <<>>]

ExamplesInit ==
  /\ Init
  /\ program \in Programs
  /\ leftFirst \in BOOLEAN
  /\ frame = [p \in Coro \cup {Main} |-> IF p = Main THEN [Blank EXCEPT !.fn = "main"] ELSE Blank]
  /\ threw = {} /\ thrown = FALSE
  /\ crashed = FALSE /\ over = FALSE
  /\ ended = 0

Body(p) == Text(frame[p].n)[frame[p].fn]
AtEnd(p) == ~over /\ frame[p].pc > Len(Body(p))
Instruction(p) == Body(p)[frame[p].pc]
About(p, op) ==
  /\ ~over /\ InControl(p)
  /\ frame[p].pc <= Len(Body(p))
  /\ Instruction(p).op = op

Variables(p, X) == {frame[p].env[x] : x \in X}
bind(env, x, c) == [y \in {x} \cup DOMAIN env |-> IF y = x THEN c ELSE env[y]]
Advance(p) == frame' = [frame EXCEPT ![p].pc = @ + 1]

(* Parameters passed by value live as long as the frame, locals do not.      *)
Locals(p) == Owned(p) \ Variables(p, {"task"} \cap DOMAIN frame[p].env)

(* Plausible bug, used by no specification (see Scheduler).                  *)
exception_swallowed(D) == FALSE

(* await_resume() and get(): result_type rethrows the exception it holds.    *)
(* (A select takes the first of D that is ready, and std::terminate follows  *)
(* if it threw; no coroutine that a program here selects can throw.)         *)
check_exception(D) == D \cap threw # {}

DoCall(p) ==
  /\ About(p, "call")
  /\ \E f \in Coro : at[f] = "free"
  /\ LET i == Instruction(p)
         c == CHOOSE f \in Coro : at[f] = "free"
         given == i.moves \cup i.lends
     IN /\ Call(p, c, Variables(p, i.moves), Variables(p, i.lends))
        /\ frame' = [frame EXCEPT
             ![p].pc = @ + 1,
             ![p].env = bind(@, i.name, c),
             ![c] = [fn |-> i.fn, n |-> i.n, pc |-> 1,
                     env |-> [x \in given |-> frame[p].env[x]]]]
  /\ UNCHANGED <<program, leftFirst, threw, crashed, over, thrown, ended>>

(* co_await of a promise or of a select: suspend, or go on with the result.  *)
DoAwait(p) ==
  /\ About(p, "await")
  /\ Await(p, Variables(p, Instruction(p).names))
  /\ UNCHANGED exampleVars

GoOn(p) ==
  /\ About(p, "await")
  /\ LET D == Variables(p, Instruction(p).names)
     IN await_ready(D) /\ (check_exception(D) => Instruction(p).caught)
  /\ Advance(p)
  /\ UNCHANGED <<vars, program, leftFirst, threw, crashed, over, thrown, ended>>

DoPerform(p) ==
  /\ About(p, "perform")
  /\ Perform(p)
  /\ Advance(p)
  /\ UNCHANGED <<program, leftFirst, threw, crashed, over, thrown, ended>>

(* The transfer's code is looked at right after the resumption.              *)
TransferIsFine(p) ==
  /\ About(p, "check") \/ About(p, "retry")
  /\ code = Ok
  /\ Advance(p)
  /\ UNCHANGED <<vars, program, leftFirst, threw, crashed, over, thrown, ended>>

PerformAgain(p) ==
  /\ About(p, "retry")
  /\ code # Ok /\ frame[p].n > 1
  /\ frame' = [frame EXCEPT ![p].pc = 1, ![p].n = @ - 1]
  /\ UNCHANGED <<vars, program, leftFirst, threw, crashed, over, thrown, ended>>

(* The body is left: by its end, or by an exception it throws itself (after  *)
(* the last attempt, or for the HTTP status) or that an await rethrows.      *)
Throws(p) ==
  \/ About(p, "check") /\ code # Ok
  \/ About(p, "retry") /\ (code = Ok \/ frame[p].n = 1)

Rethrows(p) ==
  /\ About(p, "await") /\ ~Instruction(p).caught
  /\ LET D == Variables(p, Instruction(p).names)
     IN await_ready(D) /\ check_exception(D)

Leave(p) ==
  /\ InControl(p) /\ (AtEnd(p) \/ Throws(p) \/ Rethrows(p))
  /\ Return(p, Locals(p))
  /\ threw' = {x \in threw : at'[x] # "free"} \cup (IF AtEnd(p) THEN {} ELSE {p})
  /\ thrown' = (thrown \/ Throws(p))
  /\ frame' = [c \in DOMAIN frame |->
                 IF c \in Coro /\ at'[c] \in {"free", "final"} THEN Blank ELSE frame[c]]
  /\ UNCHANGED <<program, leftFirst, crashed, over, ended>>

DoDrop(p) ==
  /\ About(p, "drop")
  /\ Drop(p, frame[p].env[Instruction(p).name])
  /\ threw' = {c \in threw : at'[c] # "free"}
  /\ Advance(p)
  /\ UNCHANGED <<program, leftFirst, crashed, over, thrown, ended>>

Resume(c) == AwaitResume(c) /\ UNCHANGED exampleVars

(* main() reads a result; the promise is a temporary of that expression.     *)
Get(d, caught) ==
  /\ Done(d) /\ (check_exception({d}) => caught)
  /\ Drop(Main, d)
  /\ threw' = threw \ {d}
  /\ Advance(Main)
  /\ UNCHANGED <<program, leftFirst, crashed, over, thrown, ended>>

(* No result is there, or nobody catches the exception.                      *)
Terminate(d, caught) ==
  /\ ~Done(d) \/ (check_exception({d}) /\ ~caught)
  /\ crashed' = TRUE /\ over' = TRUE
  /\ UNCHANGED <<vars, program, leftFirst, frame, threw, thrown, ended>>

MainEnds ==
  /\ AtMain /\ AtEnd(Main)
  /\ over' = TRUE
  /\ UNCHANGED <<vars, program, leftFirst, frame, threw, crashed, thrown, ended>>

ProgramStep ==
  \/ \E p \in Executing \cup {Main} :
       \/ DoCall(p) \/ DoAwait(p) \/ GoOn(p) \/ DoPerform(p)
       \/ TransferIsFine(p) \/ PerformAgain(p) \/ DoDrop(p)
  \/ \E c \in Executing : Resume(c) \/ Leave(c)
  \/ /\ About(Main, "get")
     /\ LET i == Instruction(Main) IN
          \/ Get(frame[Main].env[i.name], i.caught)
          \/ Terminate(frame[Main].env[i.name], i.caught)
  \/ MainEnds

TransfersStep ==
  \/ /\ \E e \in Coro, k \in Codes : TransferEnds(e, k)
     /\ UNCHANGED exampleVars
  \/ /\ \E e \in Coro : CompleteSomething(e)
     /\ ended' = ended + 1
     /\ UNCHANGED <<program, leftFirst, frame, threw, crashed, over, thrown>>
  \/ NothingToComplete /\ UNCHANGED exampleVars

ProgramIsOver == over /\ UNCHANGED <<vars, exampleVars>>

ExamplesNext == ProgramStep \/ TransfersStep \/ ProgramIsOver

(* A program runs as long as it can, and its transfers end (see FairSpec of  *)
(* Coroutines).                                                              *)
ExamplesSpec ==
  /\ ExamplesInit
  /\ [][ExamplesNext]_<<vars, exampleVars>>
  /\ WF_<<vars, exampleVars>>(ProgramStep)
  /\ WF_<<vars, exampleVars>>(TransfersStep)
----------------------------------------------------------------------------
(* Where main() reads a result, or lets go of a promise, without any await,  *)
(* the coroutine has ended: nothing the program started is cut short.        *)
MainFindsResults ==
  About(Main, "get") \/ About(Main, "drop") =>
    Done(frame[Main].env[Instruction(Main).name])

(* No exception is lost and none appears from nowhere on its way through the *)
(* awaiting coroutines: a program that does not catch them crashes if and    *)
(* only if one of its coroutines has thrown, however late it is looked at.   *)
Uncaught == {"hello-world", "random", "return"}
NoExceptionLost == over => (crashed <=> thrown /\ program \in Uncaught)

(* "it will download all in parallel (in one thread :)" (return.cpp): when   *)
(* curl is polled, every coroutine that all() still waits for has a transfer *)
(* with it, and so have, the first time, those of the programs without all().*)
Width == [p \in {"lazy-perform", "select", "random"} |->
            IF p = "lazy-perform" THEN 4 ELSE 2]

DownloadsInParallel ==
  polling =>
    /\ ended = 0 /\ program \in DOMAIN Width =>
         Cardinality(handles) = Width[program]
    /\ \A c \in Live : frame[c].fn = "all" =>
         /\ {"a", "b"} \subseteq DOMAIN frame[c].env
         /\ Cardinality(handles) =
              Cardinality({d \in Variables(c, {"a", "b"}) : ~Done(d)})

(* Every program ends, whichever transfers fail and in which order they end. *)
ProgramEnds == <>over
=============================================================================
