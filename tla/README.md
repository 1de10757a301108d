# co_curl in TLA+

co_curl gives libcurl a C++20 coroutine interface. A coroutine that awaits
`handle.perform()` is suspended, its transfer is added to a libcurl *multi*
handle, and other coroutines run until nothing can run any more; only then is
libcurl polled, and a finished transfer resumes its coroutine. Everything of
this happens in one thread, without an event loop of its own: coroutines hand
control to each other by symmetric transfer, and the scheduler is a passive
object that they call. A separate header has a thread pool with coroutine tasks
of its own, which shares no code with the scheduler.

This directory holds TLA+ modules of the library's state machines, TLC
configurations that check them on small instances, and proofs of theorems about
them for every instance. `PROJECT.json` lists them: runs, the source lines behind
each definition, the hazards, the theorems.

To check a run or a proof:

    tlc -config owned.cfg MCCoroutines.tla
    tlapm CoroutinesProofs.tla

Paths below are relative to `src/include/co_curl/`, and `examples/` to `src/`.

## Inventory

| Component | State | Operations | What makes it correct |
|---|---|---|---|
| scheduler (`scheduler.hpp`, `scheduler.cpp`) | ready queue, multimap of additional awaiters, `code` of the last transfer | `schedule_later`, `suspend`, `select_next_coroutine`, `wakeup_coroutines_waiting_for`, `add_`/`remove_additional_awaiter`, `complete_something` | resumes only coroutines that exist and sleep on what happened; each once per await; none is left behind; polls curl only when the graph is blocked |
| task counter (`task_counter.hpp`) | one balance (release), two counters (`DEBUG`) | `start`, `finish`, `blocked`, `unblocked`, `graph_blocked` | `graph_blocked()` exactly when no coroutine is on the call stack |
| promise (`promise.hpp`) | per coroutine: `awaiter`, result | call, await, `final_suspend`, move, destruction | an await finds a result; an awaiter is registered once; destruction leaves no handle behind |
| select (`select.hpp`) | the promises, the waiting handle | readiness, registration with all, deregistration from all | resumed once, with one of its results; no registration with a loser survives |
| multi handle (`multi.hpp`, `multi.cpp`) | libcurl's: handles, running transfers, unread messages | add, remove, perform, read message, poll; `perform_later` | the code a coroutine reads is its own transfer's |
| easy handle (`easy.hpp`, `easy.cpp`) | libcurl's; private pointer, resume offset, write target, read source | both performs, options, moves, duplicate, cleanup | a finished transfer resumes the coroutine that sleeps on it, whoever else used the handle; a destroyed handle is with no multi handle |
| fetch (`fetch.hpp`) | output, offset of the handle, attempts | the retry loop | returns the whole resource or throws after the last attempt; ends |
| thread pool (`thread-pool.hpp`) | queue, threads, per task `awaiter` and result, `sync_await`'s future | `add`, `get_next`, `stop_and_join`, task start, await and end, `sync_await` | a task is run by one thread; queued tasks run; the awaiter follows; `stop_and_join` returns |
| all (`all.hpp`) | the promises, what it collected | awaits one after the other, collects, gives up on an empty optional, rethrows | the result does not depend on the order in which the promises end; only the form that holds the promises destroys unfinished ones |
| formatting (`format.hpp`) | none | `data_amount`, `duration` and their `operator<<` | what is printed keeps the order of amounts and rounds as it says; a text fits into its buffer or is left out |
| wrappers (`url`, `list`, and the ownership part of `easy`, `multi`) | a pointer to a libcurl object | construct, append, move, swap, duplicate, destroy | each object is freed exactly once |
| examples (`examples/*.cpp`) | their coroutines' frames; ftp-upload: the file on the server | 20 programs | they end, find their results, lose no exception, download in parallel; an upload is whole or not there |
| immediate function (`function.hpp`), out_ptr, zstring, version | none that outlives a call | | not modelled |

How they interact. A coroutine body *calls* another coroutine (its frame starts
at once, on the caller's stack), *awaits* promises (registering itself with
them), *performs* easy handles (registering itself with the scheduler, which
registers it with libcurl), *destroys* promise objects and *ends* (waking those
registered with it). Each suspension asks the scheduler for the next coroutine,
which takes the place of the suspended one on the call stack; `noop_coroutine`
returns to the caller below. `main()` is the only code that is not a coroutine:
it calls coroutines, and reads results with `get()` without waiting for them.

What is hard. Control flow is a tangle of symmetric transfers whose correctness
rests on one integer (`blocked_balance`); coroutine handles are raw addresses kept
in four places (the `awaiter` of a promise, the multimap, the ready queue, the
private pointer of an easy handle) and nothing removes them when a frame is
destroyed; a coroutine may be registered with several promises at once; the
result of a transfer is read through a reference to a single shared variable; and
the thread pool awaits in two unsynchronised steps. Around that core the hard parts are
the sequences nobody writes a test for: two coroutines that use one easy handle, a
counter that wraps, a unit that changes between two amounts, a program that dies between the last byte
and the rename. The 40 hazards in `PROJECT.json` are these, each at its line.

## Modules

    CurlMulti       libcurl's multi interface, as the scheduler uses it (external)
      Scheduler     default_scheduler, the release build's task_counter, the completion loop
        Coroutines  promise, select, perform_later and an arbitrary client; the properties
          MCCoroutines      symmetry sets for TLC
          Examples          thirteen programs of examples/ instead of the arbitrary client
          CoroutinesProofs  theorems: types, the counter
            WakeUpProofs    theorems: who is resumed, and when
              GraphProofs   theorems: TaskGraph is implemented, main() finds everything done
                ExamplesProofs  theorems: the example programs, which are clients of the library
    TaskGraph       abstract: tasks that wait for tasks or the network
    EasyHandles     easy handles apart from the coroutines that perform them
      EasyHandlesProofs     theorems; that EasyHandles implements CurlMulti
    ThreadPool      thread_pool, detached_task, sync_await and an arbitrary client
      ThreadPoolProofs      theorems
    Fetch           the retry loop of fetch()
      FetchProofs           theorems
    All             all(), over the results of the promises it awaits
    Counters        both builds of task_counter side by side
    Format          data_amount and duration
    Owners          the wrappers as owners of libcurl's objects
    Upload          ftp-upload.cpp and the read callback
    PartsProofs     theorems of All, Counters, Format, Owners and Upload
    MCParts         All, Counters, Format, Owners and Upload in one run

Each component module has a section of "plausible bugs": mutated forms of the
operator whose name they carry, which no specification uses. Substituting one for the
original (`mutants` in `PROJECT.json` says which) makes the property fail.

### CurlMulti and Scheduler

`handles`, `running` and `finished` are the multi handle's easy handles, those whose
transfer is in progress and those with an unread `CURLMSG_DONE`. An easy handle is
named by the coroutine that performs it, which is the coroutine its
`CURLINFO_PRIVATE` points to. `outcome` is the code its last transfer ended with. Transfers end only
while the completion loop is running (`polling`), since libcurl works only inside
`curl_multi_perform`.

| Variable | Code |
|---|---|
| `stack` | the call stack: coroutines being executed, innermost first |
| `polling` | control is inside `complete_something()` |
| `blocked_balance` | `task_counter::blocked_balance` |
| `ready` | `coroutine_handle_queue::data` |
| `waiting_for_someone_else` | the multimap, as a set of pairs (a select names each promise once; `select(p, p)`, which would insert two equal entries, is not modelled) |
| `code` | `waiting_coroutines_for_curl_finished::code` |

`select_next_coroutine` is translated branch by branch: the immediate awaiter, the
front of the queue, the poll if the graph is blocked, noop otherwise. It replaces the top of
`stack`, or pops it. The loop in `complete_something()` is cut where libcurl may act:
between two of its turns any number of transfers end (`TransferEnds`), a turn
with a message is `complete_something(e)`, with any of the unread messages (libcurl
promises no order), one without message and running transfer is
`nothing_to_complete`, a failing `curl_multi_perform` is `perform_fails`; a turn that
only polls changes nothing.

The multimap keeps entries of one key in insertion order; `QueuedWith` queues the
sleepers in every order, which includes that one.

### Coroutines

| Variable | Code |
|---|---|
| `at` | where a frame is: `free` (not allocated), `running` (in its body), `promise`, `select`, `perform` (suspended there, or resumed there and about to run `await_resume`), `final` |
| `owner` | the coroutine frame, or `main()`, that holds the `promise` object |
| `refs` | promises of others that a coroutine got by reference |
| `awaits` | the promises of the await or select it is suspended on |
| `awaiter` | `promise_type::awaiter` |
| `budget` | bound on calls and performs, no code |

Actions: `Call` (a coroutine is called with promises moved and lent to it; `start()`),
`Await` (the four awaiters of `promise` and select's `await_suspend`), `Perform`
(`perform_later::await_suspend`), `AwaitResume` (`await_resume` of all of them; select
deregisters), `Return` (locals destroyed, `finish()`, wake-ups, next coroutine),
`Drop` (`~promise` in a body), and the turns of the completion loop. Each action is the
whole handler up to the point where control is in a body again.

The client is arbitrary: any coroutine may take any of these steps at any time. It
obeys the language: it reaches only promises it holds or was lent, and no reference outlives
its object (`MayDestroy`, `Call`). A frame that is destroyed is free again and may be reused
by the next call, as an allocator does, so a stale handle can meet a new coroutine.
Destroying a frame destroys the promises in it (`Frames`, a closure).

Abstracted: values and exceptions (`final` is "has a result or an exception": a
`co_return` and a `throw` take the same steps in the library, and the destructors
an exception runs are those `Return` may run); an await of a promise that is done
(it does not suspend and changes nothing); the swap of a move assignment; the
address order of multimap keys.

Two disciplines are constants, since the library is correct only under them:

* `Borrowable`: the coroutines whose promise may be lent, hence awaited by several
  coroutines; `DropUnfinished`: may a promise be destroyed before its coroutine has ended?
  **Sharing excludes cancellation**: all safety properties hold if nothing is lent *or*
  nothing unfinished is destroyed. With both, see the findings.
* `SelectBorrowable`: may a select name a promise that somebody else may await?
* `MultiFails`: may `curl_multi_perform` fail?

### TaskGraph

What the library promises, with no scheduler in it: a task runs until it waits for
tasks or for the network, is woken only by the end of one of those, then reads that
result before anything else, and runs no more when done or discarded; one step ends
or suspends one task and wakes at most one other. `Coroutines!ImplementsTaskGraph`
is the refinement: a coroutine on the call stack is `runnable`, a suspended one
`waiting`, `needs` is what it awaits until `await_resume` has run.

### ThreadPool

One `pc` per thread. The mutex sections of `add` and `get_next` are single steps;
everything else that two threads can see in between is a step of its own:
`AwaitNotReady` and `Attach` (`await_ready` and `await_suspend` of a detached task), `Finish`
and `JumpToAwaiter` (the task is `done()` before its final awaiter reads `awaiter`),
`SetResult` and `SyncSuspends`, each empty handle of `stop_and_join` (`AddPill`).
Condition variable: `Sleep` in `wait`, `add` wakes one sleeper or none, and
`SpuriousWakeup`. The client: bodies start tasks, await tasks they hold, and return when
those are done; `main()` starts tasks, may `sync_await` one of them once, and stops the
pool (it does not destroy tasks).

### Fetch

A byte of the resource is its position, so the output can be compared with it.
`offset` is `CURLOPT_RESUME_FROM`, `position` what libcurl delivers next. A transfer may be
cut at every byte; a range error comes before the first byte and only when a
range was asked for; the resource does not change between attempts.

### All

Only what a promise holds is kept of it: no result yet, a value, an empty optional, an
exception, or "cancelled" for one destroyed before its end; how waiting coroutines are woken
is in Coroutines. `form` is "range" (the promises are moved into the frame, so an
exception or `~promise` destroys them) or "tuple" (references to the caller's). The two
forms treat an empty optional differently: the range forgets its output at once and goes on
awaiting, the tuple looks at all results at the end. Other promises end only while
`all()` is suspended. `output` holds the arguments whose values were collected instead of the values.

### Examples

The arbitrary client of Coroutines is replaced by programs. A program maps its functions to
sequences of instructions, and each instruction is one action of Coroutines, conjoined with
a step of the frame's `pc` and variables (`env`); nothing of the library is modelled again. What is added is
what only a program has: where `main()` is, results that are exceptions (`threw`), how
an await or `get()` rethrows them (`check_exception`), `try` around an await, and
`std::terminate`. Unwinding is `Leave`: the promise objects of the frame go as `Return` lets them.
`Locals` keeps parameters passed by value until the frame goes, as C++ does. `leftFirst` is the
operand order of `co_await a + co_await b`, which the language leaves open. A new frame takes a free address
at once, the worst case for stale handles. The numbers of pages and levels are cut down to 2 and `Depth`.

### EasyHandles

CurlMulti names an easy handle by the coroutine that performs it. That is an assumption, and
EasyHandles drops it: `holder` is whose variable the handle is, `private` its
`CURLOPT_PRIVATE`, `added`, `busy` and `messages` what the multi handle knows of it, `waits` the handle a
coroutine sleeps on. `Perform` translates `insert()`: the private pointer is overwritten whatever the state of the handle, and
`curl_multi_add_handle` does nothing with one it has (its error is ignored). `SyncPerform` is
`curl_easy_perform`, which refuses a busy handle. `Destroy` takes the frame with the handles in it.
`superseded` is a history variable: who sleeps on a handle that another performed meanwhile. `NamedByCoroutine`
is the refinement of CurlMulti, step by step and with the result codes, for as long as nobody is superseded: the code of a coroutine is that of its handle while it sleeps (`Outcome`),
`await_resume` reads it and is a stutter, and a blocking perform, which CurlMulti does not have, concerns nobody asleep.

### Counters

The release build keeps a signed balance, the debug build two unsigned counters, here modulo `Modulus`. Both
are brought up to date by every call; `height` and `asleep` are what they are about. A coroutine destroyed asleep
calls neither, so `tasks_in_running` and `tasks_blocked` drift, together.

### Format

Operators over a system of units scaled down by `Kibi`, `Thousand` and `Sixty`, since TLC has to enumerate
the amounts. `Hundredths` is `std::to_chars` with two decimals, round half even; the double division
before it is taken as exact. `write_into` returns the length only: `AllOrNothing` needs no characters.

### Owners

A wrapper is a variable with a pointer. A move construction exchanges with `nullptr`, a move assignment swaps,
`url` is copied by `curl_url_dup`, an easy handle by `curl_easy_duphandle`; the destructor frees. `copied`
is a history variable of the objects concerned by an assignment between urls (see the observations).

### Upload

One run of ftp-upload is `LoadFile`, the transfer to `temporary.bin` in chunks the reader
copies, the two postquote commands and the exit status. Any step may fail, `Crash` kills the program
between any two, the last reply may be lost although the server has renamed, and the local
file may be changed between runs (`Edit`). What the server keeps (`temporary`, `final`) survives into the next run.

## Runs

| Run | Question | Bounds |
|---|---|---|
| `owned` | promises awaited only by their holder, destroyed at any time; curl may fail | 4 frames, 7 calls and performs, two codes |
| `shared` | promises lent to others, destroyed only when done | 4 frames, 2 of them lendable, 7 |
| `shared_live` | do awaits end, is control back in `main()`? | 4 frames, 1 lendable, 5, fair |
| `drop_shared` | finding 1 | 4 frames, 6 |
| `select_shared` | finding 2 | 4 frames, 6 |
| `examples` | thirteen programs to their end | 7 frames, depth 3, 2 attempts, fair |
| `easy_handles` | handles owned, lent, shared, destroyed | 2 coroutines, 2 handles, fair |
| `pool_one` | tasks awaiting tasks on one worker | 3 tasks |
| `pool_two` | two workers, `main()`, `sync_await`, `stop_and_join` | 3 tasks |
| `sync_await_hang` | finding 3 | 1 worker, 2 tasks |
| `fetch` | every way transfers can be cut | 3 bytes, 3 attempts |
| `parts` | `all()`, the counters, formatting, ownership, uploads | 3 promises; counters modulo 8; amounts to 34000; 4 wrappers and objects; 3 uploads of 3 contents |

`parts` explores one of five components per behaviour, chosen by `part`; the others keep their
initial state. They share nothing, so the run says of each what a run of its own would.

What the properties say (their comments have the details): `CounterIsStack`, the
counter is the height of the call stack and curl is polled only over an empty
one; `NoDanglingHandle`, each of the four places keeps only handles of live
coroutines that sleep on that very thing; `WokenOnce` and `NoLostWakeup`, each suspended coroutine has
exactly the wake-ups it should; `ResumedWithResult`, an await never meets an
empty result; `OwnCode`, the shared `code` is still the coroutine's own when it is
read; `AllDoneInMain`, `get()` in `main()` finds its result;
`ImplementsTaskGraph`, `AwaitsEnd`, `BackInMain` as above. `NoDanglingHandle` is checked in `owned` and in `shared`, where the
ready queue and the multimap are in use; `NoLostWakeup` likewise, in `owned` with a failing curl.
Of the examples: `MainFindsResults` (no program reads an empty result or cuts a coroutine short), `NoExceptionLost` (a
program crashes if and only if something threw and it does not catch), `DownloadsInParallel`, `ProgramEnds`.
Of easy handles: `OwnTransfer`, `OnlySupersededSleep`, `LastPerformEnds`, `NamedByCoroutine`.
Of the pool: `RunByOne`, `NoSleepingPool` (`notify_one` suffices), `PillForEachWorker`,
`FramesAlive` (what may be gone is a coroutine past its body), `QueuedTaskRuns`, `JoinReturns`, `AwaiterFollows`. Of fetch:
`ReturnsWhole`, `PerformsBounded`, `ThrowsAfterLastAttempt`, `FetchEnds`. Of the parts: `ReturnsInOrder`
of `all()`; `BuildsAgree` of the counters; `AmountsInOrder`, `LongTimesRoundUp`, `AllOrNothing` of formatting;
`OneOwner` of wrappers; `NeverPartial` and `SuccessMeansUploaded` of uploads.
The type invariants and `OutputIsPrefix` are proved, or are parts of proved invariants, and need no run.

Why the bounds are enough. An await graph needs three coroutines for the cases the
code distinguishes: one awaited and its first and second awaiter, or a select with a winner
and a loser; the fourth frame is the coroutine that starts them or the one that reuses a
destroyed frame. `Budget` is the number of calls and performs of a whole run: 7 lets
four coroutines start, perform, and three more be started in freed frames or perform again. With
`Budget` used up the client can still await, destroy and return. `examples` has as many frames as
its largest program (lazy-perform) keeps at once, and `Budget` 20 stops none. Two coroutines and two handles have every case of
`EasyHandles`: own and lent, superseded and not, one handle destroyed while the other is performed. The pool's races
need two workers, or one and `main()`, and a task that awaits a task that starts
one. `Fetch` needs a byte before, at and after a cut, and one attempt more than needed to see the last one; its
theorems cover every size anyway. `All` needs a promise before and one behind the one that is empty or throws. Counters modulo 8 with
4 sleepers wrap in both directions. Amounts run past `GiB` (32^3) and times past two hours (4608), one at a time, so every boundary is met from both sides; the theorems cover the real units.
Two urls and two movable wrappers allow each operation between two of a kind, and `OneOwnerCorrect` covers any number; four objects let one be freed and others live on. Three
uploads let a leftover of the first meet the second, and a success follow. `performs` is a history counter that stops one
above the bound it is compared with, so the cap hides nothing.

Symmetry. In safety runs of Coroutines the frames in `Borrowable` are interchangeable, and so are those
outside; the runs with liveness properties use no symmetry.

Deadlock is checked in every run. `Terminated`, `Stopped`, `ProgramIsOver`, `FormatDone` and the self-loops of `Fetch` and `All`
are the ends of a program; nothing else may stop. `Terminated` wants every frame
gone, so the absence of deadlock also shows that `main()` can always get rid of its promises
under the discipline `~DropUnfinished`: no reachable state leaves one that never ends.

### Fairness

`FairSpec` assumes that a coroutine in control takes its next step, bodies being finite
(`Budget`), and that the completion loop goes on and its transfers end:
`curl_multi_perform`/`poll` move them, and the connection and low-speed timeouts of fetch, or the
peer, end those that stall. Both are weak fairness of the one thread; nothing is
assumed about which message is read first. `main()` is not fair: it may stop
calling. `PoolFairSpec` assumes that each thread is scheduled and that the mutex
starves none. `FetchFairSpec` assumes that a transfer ends. `ExamplesSpec` assumes of each program
what `FairSpec` assumes of bodies and transfers, and that `main()` goes on too: a program runs
as long as it can. `FairEasySpec` assumes that a transfer in progress ends and its message is read, strongly, since the client may run
between any two turns of the completion loop and disable them for a while, and that a resumed coroutine goes on; nothing of clients.

## Findings

1. `drop_shared`: **a destroyed coroutine is resumed.** `~promise` destroys the frame and
   nothing deregisters it. If it awaits a promise that outlives it, that promise (or
   the multimap, or the ready queue) still has its handle. The example
   `examples/multiple-awaits-on-one-object.cpp` can meet it: `process_left` and `process_right` both
   await `index`; if the download throws, `index` ends, `process_right` is queued as the
   additional awaiter and `process_left` is resumed directly and rethrows; `test()`, resumed by
   it, unwinds and destroys `b` (`process_right`), which is still in the ready queue; the
   end of `test()` takes it from there and resumes freed memory.
2. `select_shared`: **a select wakes twice.** A coroutine selects a promise as its additional
   awaiter and another promise as its first. The end of the former queues it; the
   end of the latter, which runs before the queue is served, resumes it directly.
   `remove_awaiting` clears the promises but not the ready queue, so the queue resumes it again,
   at whatever it then awaits or after its end.
3. `sync_await_hang`: **`sync_await` may hang.** `await_ready` reads `done()`, `await_suspend`
   stores `awaiter`; if the task ends and reads `awaiter` in between, nobody reads it again.
   One worker and `main()`, as in `examples/jobs.cpp`, are enough. The same race
   exists between two workers, so `AwaiterFollows` is checked in `pool_one` only, where it holds.

Not a finding, since nothing in the repository promises otherwise, but worth knowing:
a frame may be used after its destruction. With two workers the awaiter that
sees `done()` may destroy the task's frame while the other thread has yet to read
`awaiter` from it (`ended`), and `~sync_awaiter` may destroy its coroutine while the worker
is on the way to its final suspension (`set`). `FramesAlive` says that these two places are the only ones, and that
the former is met only if nobody is attached: a thread that has an awaiter to resume finds its own frame intact and the
awaiter asleep. It is checked with two workers and `sync_await` (`pool_two`) and proved for any number of them. The model reads from such a frame
what was last there, no awaiter; in the program the memory may have been reused.

Two further observations, which no run of its own shows:

* **A lent handle outlives the coroutine that performs it.** `insert()` stores the coroutine's address in the handle,
  and nothing takes it back. If a coroutine performs a handle somebody lent to it and is destroyed, the
  transfer goes on and its end resumes the freed frame: with `AbandonLent = TRUE`, `OwnTransfer` fails. A handle of the coroutine's own is
  safe, since `curl_easy_cleanup` takes it out of the multi handle. No example does it.
* **A url assigned to another.** `url` has a copy constructor and a destructor but its only
  assignment is from `const char *`; the compiler's copies the pointer, so both free one object and the other is lost.
  `OneOwner` excepts exactly the objects concerned. No example does it.

## Proofs

All are checked by `tlapm` and use the named assumptions on the constants only
(`FiniteAssumption`, `NamesAssumption`, `BorrowableAssumption`, `SwitchAssumption`, `BudgetAssumption`;
`PoolAssumption`; `FetchAssumption`; `TasksAssumption`; `EasyAssumption`; `ModulusAssumption`; `OwnersAssumption`; `FormatAssumption`; `UploadAssumption`; `ExamplesAssumption`). The runs evaluate them.

**CoroutinesProofs.** `TypeCorrect` and `CounterCorrect`, for any number of coroutines, every client,
sharing and cancelling as it likes, and a failing curl. The two need each other: `IInv ==
TypeOK /\ CounterIsStack`. A coroutine that suspends pops the call stack, and only the
counter tells that the result is a sequence with nobody polling beneath it; the
counter in turn needs its type. `SelectNext` is the lemma: each of the three answers of
`select_next_coroutine` keeps both. One lemma per action follows.

**WakeUpProofs.** `NoDanglingHandleCorrect`, `WokenOnceCorrect`, `NoLostWakeupCorrect`,
`ResumedWithResultCorrect` and `OwnCodeCorrect`: for any number of coroutines and any
client with `Discipline == (Borrowable = {} \/ ~DropUnfinished) /\ ~SelectBorrowable`, also
when curl fails. `drop_shared` and `select_shared` show that neither half of it can be
left out. The five properties share one inductive invariant, `WInv`, whose parts say for each place that
keeps a handle who can be in it (`StackInv`, `QueueInv`, `HandleInv`,
`RegistrationInv`, `MultimapInv`), where a sleeper must be found (`WakeInv`), what the one just resumed
meets (`TopInv`), that a free frame has left no trace (`FreeInv`), and

* `AwaitsInv`: a coroutine awaits what it owns or was lent. This carries the argument: two coroutines
  can await one promise only if it is lent, so what nobody else was lent has one
  awaiter, its owner; when the promise goes its awaiter, if pending, goes or has been told.
* `OwnerInv`: ownership has no cycle (`Rooted`) and, if nothing is lent, a coroutine above
  another on the stack is owned by it (`Chain`). Only this shows that a coroutine
  cannot destroy itself or its callers: the frames it destroys, closed under ownership
  (`FramesLeast`), together with the stack above one of them would own themselves
  (`OwnedNotOnStack`). When things are lent, nothing unfinished is destroyed, and the
  stack is unfinished.

`DestroyedNeverRunsCorrect` and `SelectAwakensOnceCorrect` are the other side of the findings: what `drop_shared` and `select_shared`
refute of the library as it is used in `examples/` holds of every client that keeps the discipline.

`HandsOver` turns the three answers of `select_next_coroutine` into what they mean for the stack and the
queue as sets, `GoneFacts` says what a destruction can reach, `DestroyKeeps` what it leaves; then
there is one lemma per action, one step per part of the invariant.

**GraphProofs.** Two theorems about the coroutines as a whole, under the same `Discipline`.

* `ImplementsTaskGraphCorrect`: the refinement of `TaskGraph`, step by step, from `WInv`. A coroutine that
  suspends or ends wakes whoever newly is on the stack (`Suspends`, `Returned`), at most one, and that one
  slept on something that is done (`QueueInv`, or the coroutine that ends). `GraphState` and `GraphNeeds` are the
  mapped variables; there is one lemma per action.
* `AllDoneInMainCorrect`, if curl does not fail (`~MultiFails`; when it fails, sleepers are left). `GraphInv` adds to `WInv` that a running
  coroutine is on the stack, that owners exist, that `main()` goes on only when curl and the queue are
  empty (`IdleInv`), and `NoCycle`: in every set of coroutines one depends on none of the set, neither holding
  nor having been lent its promise. A call inserts the new coroutine between its caller and what it is given, so it makes no cycle.
  Were anything unfinished in `main()`, it would await something unfinished; `NoCycle` of all that is unfinished contradicts it.

**ThreadPoolProofs.** For any number of workers and tasks, with and without `sync_await`:
`PoolTypeCorrect`, `RunByOneCorrect`, `NoSleepingPoolCorrect`, `PillForEachWorkerCorrect`, `FramesAliveCorrect`. Main is not a task (`PoolAssumption`).
The inductive invariant is `PoolIInv`:

* `RunInv`. `RunByOne` is not inductive: a handle reaches a thread also from an
  `awaiter`, so `AwaiterInv` says that an awaiter somebody has yet to read is asleep, on that
  very task, and executed by nobody; `ThreadInv` ties a thread's `pc` to the status of the
  coroutine it executes (a thread in `suspending` executes one that is already `waiting`,
  which is where the two unsynchronised steps of an await show); `SyncInv` says the same
  of `main()`'s coroutine once the future is set.
* `StopInv` counts the empty handles: none before `stop_and_join`, all queued when it
  joins, every worker gone when it has joined.
* `AwakeInv`: while a worker sleeps, at least as many workers are awake as the queue is long. That is
  why one `notify_one` per `add` suffices; the weaker `NoSleepingPool` is not inductive, since an awake worker
  may take one of two entries and return to sleep.

`FramesAliveCorrect` needs besides `HolderInv`, who may destroy a task: a task is awaited by its holder only, and only a holder that is over has destroyed
it. So an attached awaiter, asleep, has destroyed nothing (`HolderStep` goes through the actions).

**FetchProofs.** `FetchPrefix`, `FetchWhole`, `FetchBounded`, `FetchThrowsLast`, for every size
of the resource and number of attempts. The invariant adds `LoopInv`, an account of
the loop: each failure pays for at most one retry and one refused range.

**ExamplesProofs.** The thirteen programs of Examples, for any number of frames, any `Depth` and number of attempts, whichever transfers fail.

* `ExamplesAreClients`: `ExamplesSpec => Spec`, each step of a program is a step of the arbitrary client of Coroutines or leaves the library alone.
  The theorems about the library therefore say something about the programs: `ExamplesNoDanglingHandle`, `ExamplesWokenOnce`, `ExamplesNoLostWakeup`, `ExamplesResumedWithResult`,
  `ExamplesDestroyedNeverRuns`. Those theorems assume `Discipline`, and the constants of Examples do not give it (`ExamplesAssumption`
  lets clients lend and destroy): it is a fact about each program that it keeps one half. The programs in `Lending` lend promises and destroy
  nothing unfinished, and the others lend nothing. So `Own` and `Lent` are two instances of GraphProofs, with the constants of either half, and
  `LibraryInv` says that a program runs under the instance that is its own.
* `MainFindsResultsCorrect` and `NoExceptionLostCorrect`.
* `DownloadsInParallelCorrect`, from `ExamplesInv` and `ParallelInv`, below.

`ExamplesInv` is inductive. It adds to `LibraryInv` what ties a frame to the text of its function: `KinInv` (which function runs in the frame that a name
of a caller stands for), `ParentInv` (every frame is named by one that calls it or was given by one), `ParamInv` and `LentInv` (what a parameter is
bound to, who may await it), `MainInv` (where `main()` is and what it holds), `AwaitsReadInv` (what a body has awaited is done, as far as its `pc` tells), and
`ThrowInv` (an exception is with a frame whose awaiter has yet to read it, or has reached `main()`). What the proofs need of the texts themselves (a name is called
before it is awaited, awaited before it is dropped, and so on) is stated as laws (`TextLaw`, `Lawful`), which are proved for every
program by going through its instructions. `UniformInv` leaves out `lots-of-coroutines`, which moves promises between variables
and has a lemma of its own in each place.

`DownloadsInParallel` counts, so it needs to know who is in curl's hands and why. `ParallelInv` adds to `ExamplesInv` what a suspended frame sleeps on
by its text (`SleepInv`: at an await, registered with what the variables named there stand for, or in a function that performs), that until the first
transfer ends nothing is done and whoever runs has only made calls (`EarlyInv`), and that away from `main()` its call has not returned (`CallingInv`). While curl is polled nobody runs,
so every frame that has not ended is with curl or at an await of what has not ended either (`Asleep`). The functions concerned have two shapes, `Fetches`
(one transfer) and `Pairs` (two calls, then awaits), and `CallerOf` follows the owners up to `main()`: each transfer is reached from the one call that
stands for the program, and from no other, which determines `handles`. In return.cpp all() awaits coroutines that each wait for one transfer, so the two sets
are matched by a bijection (`AllOfCoroutines`).

**EasyHandlesProofs.** For any number of coroutines and handles, provided `~AbandonLent`: `OwnTransferCorrect`,
`OnlySupersededSleepCorrect`, `NamedByCoroutineCorrect`. `EasyInv` says that a handle in the multi handle leads to a
coroutine that sleeps on it (`LeadsToSleeper`), that sleepers exist on handles that exist (`SleepersAlive`), and that
a sleeper nobody superseded is the one its handle leads to (`SleepersNamed`). A superseded sleeper whose frame goes, goes
without the handle: that is why only a lent handle can lead to a freed frame. For the
refinement, `OneSleeper`: without superseded coroutines at most one sleeps on a handle, so each step
of a handle is a step of one coroutine in CurlMulti, which leaves the codes of all others alone.

**PartsProofs.** Five parts, each with an invariant of its own.

* All: `AllTypeCorrect`, `ReturnsInOrderCorrect`, for every number of promises. `AllInv` adds that everything before `next` has a
  result that is not an exception and what `output` holds meanwhile; the two forms of optionals need different accounts
  (`OutputSoFar`), which meet in `ReturnsInOrder`.
* Counters: `BuildsAgreeCorrect`, for every width of the counters. `CounterInv`: the two debug counters differ by the height of the
  stack, modulo wrapping, and the balance is that height; a stack lower than the counters' range is the only assumption (`Start`).
* Format: `LongTimesRoundUpCorrect`, `AmountsInOrderCorrect` and `AllOrNothingCorrect`, for every base of units, so that
  the 1024, 1000 and 60 of the code are covered, which no run can reach. For amounts: `Hundredths` is a nearest hundredth
  (`HundredthsNearest`), so within a unit the order is kept (`HundredthsInOrder`), and a whole number of units is
  exact (`WholeAmount`), so the largest amount of a unit prints at most as the first of the next (`UnitsMeet`).
* Owners: `OneOwnerCorrect`, for any number of wrappers and objects. `OwnersInv` adds that what is held exists unless urls were
  assigned, that urls are never empty, and that wrappers out of scope hold nothing.
* Upload: `NeverPartialCorrect` and `SuccessMeansUploadedCorrect`, for every file and buffer. While a transfer sends, what the server has followed by what
  the reader has left is the file (`temporary \o content = filedata` in `UploadInv`): a chunk moves from one to the other
  (`ReaderKeepsFile`), and what is renamed is therefore whole (`SentIsWhole`).

Only model-checked: the liveness properties, which rest on fairness, out of the
prover's reach here. Every safety property of the passing runs is stated by a theorem.

## Not modelled

* Values of results, exceptions' text, conversions; that the pack forms of `all()` must be awaited
  while the caller's promises exist (a lifetime of the caller's), nor that libcurl keeps the raw list given to `postquote()`.
* `std::terminate` in the library: select's `await_resume` is `noexcept` and reads the result of the promise it takes, so a select won by a promise
  that threw ends the program, where the model goes on as after a value (no modelled program has a select that can throw);
  an exception that leaves the body of `sync_awaiter` ends it likewise. What `std::terminate` stops takes no further step.
* `thread_pool`: destruction of unfinished tasks (the program that destroys one has no way to know that no worker runs it), `move_to_another_thread` and
  `give_me_coroutine_handle`, which nothing uses.
* `easy_handle`: the options and getters that only forward to libcurl; `reset()`, which nothing uses. `multi_handle::info_read()`, likewise.
* `examples/resume.cpp`: its loop is that of return.cpp (in Examples), its offsets are those of fetch (in Fetch). It keeps what a failed
  transfer has written before it looks at the HTTP status; a cut error page would be kept as the beginning of the resource.
  `ranges.cpp`, `moves.cpp` and `just-function.cpp` show types and have no behaviour to get wrong.
* `out_ptr`, zstring, concepts, version, the accessors of url, `function.hpp` (a coroutine that never suspends): no state
  that outlives a call.
* The connection limit and poll timeout: libcurl's own business; a queued transfer is one in progress.
* The double arithmetic of `format.hpp`: exact for amounts below 2^53 divided by a power of two.

## Plan

Done: the core (Scheduler, Coroutines, TaskGraph), ThreadPool, Fetch, All, EasyHandles, Examples, Counters, Format, Owners and Upload, and the
safety theorems of the core and of most others. What is left:

1. A select that names one promise twice, which inserts two equal entries into the multimap.
2. The ends by `std::terminate` of select and `sync_awaiter`.
3. The discipline of clients under which no thread of the pool touches a destroyed frame at all; `FramesAlive` says what holds of every client.
