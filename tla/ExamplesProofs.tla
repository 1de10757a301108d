--------------------------- MODULE ExamplesProofs --------------------------
(* The example programs, for every number of frames, levels and attempts.    *)
EXTENDS Examples, GraphProofs

Own == INSTANCE GraphProofs WITH Borrowable <- {}, SelectBorrowable <- FALSE
Lent == INSTANCE GraphProofs WITH DropUnfinished <- FALSE, SelectBorrowable <- FALSE

Lending == {"await-all2", "multiple-awaits"}
Uniform == Programs \ {"lots-of-coroutines"}
Throwing == {"exception"} \cup Uncaught

Idents == {"a", "b", "r", "v", "index", "task"}
Functions == DOMAIN Text(0)

IsCall(i) == /\ i.name \in Idents /\ i.fn \in Functions \ {"main"} /\ i.n \in Nat
             /\ i.moves \subseteq Idents /\ i.lends \subseteq Idents
IsInstruction(i) ==
  /\ i.op \in {"call", "await", "perform", "check", "retry", "drop", "get"}
  /\ i.op = "call" => IsCall(i)
  /\ i.op = "await" => i.names \subseteq Idents
  /\ i.op \in {"drop", "get"} => i.name \in Idents

(* The variables of others a function gets references to.                    *)
Params(f) ==
  CASE program = "await-all2" /\ f = "all" -> {"a", "b"}
    [] program = "multiple-awaits" /\ f \in {"process_left", "process_right"} -> {"index"}
    [] OTHER -> {}

Calls(B, k, x) == k \in DOMAIN B /\ B[k].op = "call" /\ B[k].name = x
Awaits(B, k, x) == k \in DOMAIN B /\ B[k].op = "await" /\ B[k].names = {x}
Drops(B, k, x) == k \in DOMAIN B /\ B[k].op = "drop" /\ B[k].name = x

(* main() reads or drops what it has just called for, ...                    *)
MainLaw(B) ==
  \A k \in DOMAIN B :
    /\ B[k].op \in {"call", "get", "drop"}
    /\ B[k].op # "call" => k > 1 /\ Calls(B, k - 1, B[k].name)
    /\ B[k].op = "call" => /\ k < Len(B) /\ B[k + 1].op # "call"
                           /\ B[k].moves = {} /\ B[k].lends = Params(B[k].fn)
    /\ B[k].op = "drop" => program \notin Uncaught
    /\ B[k].op = "get" /\ program = "exception" => B[k].caught
    /\ B[k].op = "get" /\ program # "exception" => ~B[k].caught

(* ... and a coroutine calls, awaits and drops a variable once, each         *)
(* variable being awaited by itself or by somebody it awaits.                *)
CallLaw(B) ==
  \A k \in DOMAIN B : B[k].op = "call" =>
    /\ B[k].lends = Params(B[k].fn)
    /\ \A x \in B[k].lends : \E j \in 1..(k - 1) : Calls(B, j, x)
    /\ \A x \in B[k].lends : \E j \in DOMAIN Text(0)[B[k].fn] : Awaits(Text(0)[B[k].fn], j, x)
    /\ program \in Uniform => /\ B[k].moves = {} /\ B[k].name # "task"
                              /\ \A j \in DOMAIN B : Calls(B, j, B[k].name) => j = k
    /\ program \in Lending \cup Uncaught =>
         \/ \E j \in DOMAIN B : Awaits(B, j, B[k].name)
         \/ \E i, j \in DOMAIN B : /\ B[i].op = "call" /\ B[k].name \in B[i].lends
                                  /\ Awaits(B, j, B[i].name)

AwaitLaw(B, f) ==
  \A k \in DOMAIN B : B[k].op = "await" =>
    /\ program \in Uncaught => ~B[k].caught
    /\ program \in Uniform \ {"select"} => \E x \in Idents :
         /\ B[k].names = {x}
         /\ \A j \in DOMAIN B : Calls(B, j, x) => j < k
         /\ \A j \in DOMAIN B : Drops(B, j, x) => j > k
         /\ x \in Params(f) \/ \E j \in 1..(k - 1) : Calls(B, j, x)

DropLaw(B) ==
  \A k \in DOMAIN B : B[k].op = "drop" =>
    /\ program = "return"
    /\ \E i, j \in 1..(k - 1) : Calls(B, i, B[k].name) /\ Awaits(B, j, B[k].name)
    /\ \A j \in DOMAIN B : Drops(B, j, B[k].name) => j = k

ThrowLaw(B) ==
  \A k \in DOMAIN B :
    /\ B[k].op \in {"check", "retry"} => program \in Throwing
    /\ B[k].op = "retry" =>
         program = "return" /\ \A j \in DOMAIN B : B[j].op \in {"perform", "retry"}

Lawful(B, f) ==
  /\ Len(B) \in Nat /\ DOMAIN B = 1..Len(B)
  /\ \A k \in DOMAIN B : IsInstruction(B[k])
  /\ IF f = "main" THEN MainLaw(B)
     ELSE /\ \A k \in DOMAIN B : B[k].op # "get"
          /\ Params(f) = {} \/ \A k \in DOMAIN B : B[k].op = "await"
          /\ CallLaw(B) /\ AwaitLaw(B, f) /\ DropLaw(B) /\ ThrowLaw(B)

TextLaw ==
  /\ "main" \in Functions
  /\ \A n \in Nat : DOMAIN Text(n) = Functions /\ \A f \in Functions : Lawful(Text(n)[f], f)

----------------------------------------------------------------------------
(* The frames of the program, ...                                            *)
Envs == UNION {[S -> Coro] : S \in SUBSET Idents}
FrameSet == [fn : Functions \cup {"none"}, n : Nat, pc : Nat \ {0}, env : Envs]
FrameType ==
  /\ frame \in [Coro \cup {Main} -> FrameSet]
  /\ frame[Main].fn = "main"
  /\ \A c \in Coro : /\ Pending(c) => frame[c].fn \in Functions \ {"main"}
                     /\ Done(c) => frame[c].fn = "none"
                     /\ program \in Uniform => "task" \notin DOMAIN frame[c].env
  /\ \A p \in Coro \cup {Main} : frame[p].fn \in Functions => frame[p].pc <= Len(Body(p)) + 1

(* ... what they own: the results of the calls of a frame, ...               *)
CalledAt(B, pc, k) ==
  /\ k \in 1..(pc - 1) /\ B[k].op = "call"
  /\ \A j \in (k + 1)..(pc - 1) : ~Drops(B, j, B[k].name)
Called(p, k) == CalledAt(Body(p), frame[p].pc, k)
Callee(p, k) == frame[p].env[Body(p)[k].name]
IsCallee(p, k) ==
  /\ Body(p)[k].name \in DOMAIN frame[p].env
  /\ Callee(p, k) \in Owned(p)
  /\ Pending(Callee(p, k)) => frame[Callee(p, k)].fn = Body(p)[k].fn

KinOf(p) ==
  /\ \A k \in DOMAIN Body(p) : Called(p, k) => IsCallee(p, k)
  /\ \A j, k \in DOMAIN Body(p) :
       Called(p, j) /\ Called(p, k) /\ Callee(p, j) = Callee(p, k) => j = k
  /\ \A c \in Owned(p) : \E k \in DOMAIN Body(p) : Called(p, k) /\ c = Callee(p, k)
KinInv == \A p \in Coro : Pending(p) => KinOf(p)

JustCalled == frame[Main].pc > 1 /\ Body(Main)[frame[Main].pc - 1].op = "call"
MainInv ==
  /\ JustCalled => IsCallee(Main, frame[Main].pc - 1)
  /\ \A c \in Owned(Main) : JustCalled /\ c = Callee(Main, frame[Main].pc - 1)

ParentInv ==
  \A c \in Coro : /\ at[c] # "free" => owner[c] # Null
                  /\ owner[c] \in Coro => Pending(owner[c])

(* ... what they have read, ...                                              *)
HasReadAt(B, pc, k, x) ==
  /\ k < pc /\ Awaits(B, k, x)
  /\ \A j \in (k + 1)..(pc - 1) : ~Drops(B, j, x)
HasRead(p, k, x) == HasReadAt(Body(p), frame[p].pc, k, x)
ReadOf(p) == \A k \in DOMAIN Body(p), x \in Idents : HasRead(p, k, x) =>
  /\ x \in DOMAIN frame[p].env /\ frame[p].env[x] \in Visible(p)
  /\ Done(frame[p].env[x])
  /\ ~Body(p)[k].caught => frame[p].env[x] \notin threw
ReadInv == \A p \in Coro : Pending(p) => ReadOf(p)

(* ... and what they were lent.                                              *)
ParamOf(p) ==
  \A x \in Params(frame[p].fn) : x \in DOMAIN frame[p].env /\ frame[p].env[x] \in refs[p]
LentOf(p) ==
  \A k \in DOMAIN Body(p) : Called(p, k) => \A x \in Params(Body(p)[k].fn) :
    /\ Pending(Callee(p, k)) => frame[Callee(p, k)].env[x] = frame[p].env[x]
    /\ Done(Callee(p, k)) => Done(frame[p].env[x])
ParamInv == \A p \in Coro : Pending(p) => ParamOf(p)
LentInv == \A p \in Coro : Pending(p) => LentOf(p)

ThrowInv ==
  /\ threw \subseteq {c \in Coro : Done(c)}
  /\ threw # {} => thrown
  /\ thrown => program \in Throwing
  /\ program \in Uncaught /\ thrown /\ ~crashed => threw # {} /\ ~over
  /\ crashed => over /\ thrown /\ program \in Uncaught

LibraryInv ==
  /\ IInv
  /\ IF program \in Lending THEN Lent!WInv /\ Lent!GraphInv ELSE Own!WInv /\ Own!GraphInv
TypeInv == program \in Programs /\ leftFirst \in BOOLEAN /\ FrameType
UniformInv == program \in Uniform => KinInv /\ ParentInv /\ ParamInv /\ LentInv
AwaitsReadInv == program \in Uniform \ {"select"} => ReadInv

ExamplesInv == LibraryInv /\ TypeInv /\ MainInv /\ UniformInv /\ AwaitsReadInv /\ ThrowInv

----------------------------------------------------------------------------
LEMMA NoParams ==
  ASSUME NEW f, program \notin Lending \/ f \notin {"all", "process_left", "process_right"}
  PROVE  Params(f) = {}
  BY DEF Params, Lending

(* Bodies of a few shapes.                                                   *)
LEMMA LawfulParts ==
  ASSUME NEW B, NEW f, f # "main", Len(B) \in Nat, DOMAIN B = 1..Len(B),
         \A k \in DOMAIN B : IsInstruction(B[k]) /\ B[k].op # "get",
         Params(f) = {} \/ \A k \in DOMAIN B : B[k].op = "await",
         CallLaw(B), AwaitLaw(B, f), DropLaw(B), ThrowLaw(B)
  PROVE  Lawful(B, f)
  BY DEF Lawful

LEMMA PerformLawful == ASSUME NEW f, f # "main", Params(f) = {} PROVE Lawful(<<perform>>, f)
  BY DEF Lawful, IsInstruction, perform, CallLaw, AwaitLaw, DropLaw, ThrowLaw

LEMMA CheckLawful ==
  ASSUME NEW f, f # "main", Params(f) = {}, program \in Throwing
  PROVE  Lawful(<<perform, check>>, f)
  BY DEF Lawful, IsInstruction, perform, check, CallLaw, AwaitLaw, DropLaw, ThrowLaw

LEMMA MainLawful ==
  ASSUME NEW g \in Functions \ {"main"}, NEW n \in Nat, Params(g) = {},
         NEW i, \/ i = get("r") /\ program # "exception"
                \/ i = drop("r") /\ program \notin Uncaught
  PROVE  Lawful(<<call_with("r", g, n, {}, {}), i>>, "main")
  <1> DEFINE B == <<call_with("r", g, n, {}, {}), i>>
  <1>1. Len(B) = 2 /\ DOMAIN B = 1..2 /\ B[1] = call_with("r", g, n, {}, {}) /\ B[2] = i
    OBVIOUS
  <1> HIDE DEF B
  <1>2. \A k \in DOMAIN B : IsInstruction(B[k])
    BY <1>1 DEF call_with, get, drop, IsInstruction, IsCall, Idents
  <1>3. MainLaw(B)
    <2>1. /\ B[1].op = "call" /\ B[1].name = "r" /\ B[1].moves = {} /\ B[1].lends = Params(B[1].fn)
          /\ B[2].op \in {"get", "drop"} /\ B[2].name = "r"
          /\ B[2].op = "get" => ~B[2].caught /\ program # "exception"
          /\ B[2].op = "drop" => program \notin Uncaught
      BY <1>1 DEF call_with, get, drop
    <2>2. Calls(B, 1, "r")
      BY <1>1, <2>1 DEF Calls
    <2> QED BY <1>1, <2>1, <2>2 DEF MainLaw
  <1> QED BY <1>1, <1>2, <1>3 DEF Lawful, B

LEMMA PairLawful ==
  ASSUME program \in Uniform \ Lending, NEW f, f # "main", NEW n \in Nat,
         NEW g \in Functions \ {"main"}, NEW h \in Functions \ {"main"},
         NEW x \in {"a", "b"}, NEW y \in {"a", "b"} \ {x}
  PROVE  Lawful(<<call_with("a", g, n, {}, {}), call_with("b", h, n, {}, {}), await(x), await(y)>>, f)
  <1> DEFINE B == <<call_with("a", g, n, {}, {}), call_with("b", h, n, {}, {}), await(x), await(y)>>
  <1>1. /\ Len(B) = 4 /\ DOMAIN B = 1..4 /\ B[3] = await(x) /\ B[4] = await(y)
        /\ B[1] = call_with("a", g, n, {}, {}) /\ B[2] = call_with("b", h, n, {}, {})
    OBVIOUS
  <1>2. Params(f) = {} /\ Params(g) = {} /\ Params(h) = {}
    BY NoParams
  <1> HIDE DEF B
  <1>3. \A k \in DOMAIN B : IsInstruction(B[k]) /\ B[k].op # "get"
    BY <1>1 DEF call_with, await, IsInstruction, IsCall, Idents
  <1>4. CallLaw(B)
    <2>1. \A z \in {"a", "b"} : \E j \in DOMAIN B : Awaits(B, j, z)
      <3>1. Awaits(B, 3, x) /\ Awaits(B, 4, y)
        BY <1>1 DEF await, Awaits
      <3> QED BY <1>1, <3>1
    <2>2. /\ B[1].op = "call" /\ B[1].name = "a" /\ B[1].fn = g /\ B[1].moves = {} /\ B[1].lends = {}
          /\ B[2].op = "call" /\ B[2].name = "b" /\ B[2].fn = h /\ B[2].moves = {} /\ B[2].lends = {}
          /\ B[3].op # "call" /\ B[4].op # "call"
      BY <1>1 DEF call_with, await
    <2>3. \A k \in DOMAIN B : B[k].op = "call" => k = 1 \/ k = 2
      BY <1>1, <2>2
    <2>4. \A k \in DOMAIN B : B[k].op = "call" =>
            /\ B[k].lends = {} /\ B[k].moves = {} /\ B[k].lends = Params(B[k].fn)
            /\ B[k].name \in {"a", "b"} /\ B[k].name # "task"
      BY <1>2, <2>2, <2>3
    <2>5. \A k \in DOMAIN B : B[k].op = "call" => \A j \in DOMAIN B : Calls(B, j, B[k].name) => j = k
      BY <2>2, <2>3 DEF Calls
    <2> QED BY <2>1, <2>4, <2>5, Zenon DEF CallLaw
  <1>5. AwaitLaw(B, f)
    BY <1>1 DEF AwaitLaw, call_with, await, Calls, Drops, Idents
  <1>6. DropLaw(B) /\ ThrowLaw(B)
    BY <1>1 DEF DropLaw, ThrowLaw, call_with, await
  <1> QED BY <1>1, <1>2, <1>3, <1>4, <1>5, <1>6, LawfulParts DEF B

LEMMA SingleLawful ==
  ASSUME program \in Uniform, NEW f, f # "main", Params(f) = {}, NEW n \in Nat,
         NEW g \in Functions \ {"main"}, Params(g) = {}, NEW x \in Idents \ {"task"}
  PROVE  Lawful(<<call_with(x, g, n, {}, {}), await(x)>>, f)
  <1> DEFINE B == <<call_with(x, g, n, {}, {}), await(x)>>
  <1>1. /\ Len(B) = 2 /\ DOMAIN B = 1..2
        /\ B[1] = call_with(x, g, n, {}, {}) /\ B[2] = await(x)
    OBVIOUS
  <1> HIDE DEF B
  <1>2. \A k \in DOMAIN B : IsInstruction(B[k]) /\ B[k].op # "get"
    BY <1>1 DEF call_with, await, IsInstruction, IsCall
  <1>3. CallLaw(B)
    <2>1. /\ B[1].op = "call" /\ B[1].name = x /\ B[1].fn = g /\ B[1].moves = {} /\ B[1].lends = {}
          /\ B[2].op # "call" /\ Awaits(B, 2, x)
      BY <1>1 DEF call_with, await, Awaits
    <2> QED BY <1>1, <2>1 DEF CallLaw, Calls
  <1>4. AwaitLaw(B, f)
    BY <1>1 DEF AwaitLaw, call_with, await, Calls, Drops
  <1>5. DropLaw(B) /\ ThrowLaw(B)
    BY <1>1 DEF DropLaw, ThrowLaw, call_with, await
  <1> QED BY <1>1, <1>2, <1>3, <1>4, <1>5, LawfulParts DEF B

----------------------------------------------------------------------------
(* The thirteen programs.                                                    *)
LEMMA LazyPerformLawful ==
  ASSUME program = "lazy-perform", leftFirst \in BOOLEAN PROVE TextLaw
  <1>1. \A n \in Nat : Text(n) = lazy_perform
    BY DEF Text
  <1>2. Functions = {"main", "download_four", "download_two", "download_two_b", "fetch"}
    BY <1>1 DEF Functions, lazy_perform
  <1>3. program \in Uniform \ Lending /\ program # "exception" /\ Params("download_four") = {}
    BY DEF Uniform, Programs, Lending, Params
  <1>4. sooner("a", "b") \in {"a", "b"} /\ later("a", "b") \in {"a", "b"} \ {sooner("a", "b")}
    BY DEF sooner, later
  <1>5. Lawful(lazy_perform["main"], "main")
    BY <1>2, <1>3, MainLawful DEF lazy_perform, call
  <1>6. Lawful(lazy_perform["download_four"], "download_four")
    <2>1. lazy_perform["download_four"] = <<call_with("a", "download_two", 0, {}, {}), call_with("b", "download_two_b", 0, {}, {}),
                                 await(sooner("a", "b")), await(later("a", "b"))>>
      BY DEF lazy_perform, call
    <2>2. Lawful(<<call_with("a", "download_two", 0, {}, {}), call_with("b", "download_two_b", 0, {}, {}),
                                 await(sooner("a", "b")), await(later("a", "b"))>>, "download_four")
      BY <1>2, <1>3, <1>4, PairLawful
    <2> QED BY <2>1, <2>2
  <1>7. Lawful(lazy_perform["download_two"], "download_two")
    <2>1. lazy_perform["download_two"] = <<call_with("a", "fetch", 0, {}, {}), call_with("b", "fetch", 0, {}, {}),
                                 await(sooner("a", "b")), await(later("a", "b"))>>
      BY DEF lazy_perform, call
    <2>2. Lawful(<<call_with("a", "fetch", 0, {}, {}), call_with("b", "fetch", 0, {}, {}),
                                 await(sooner("a", "b")), await(later("a", "b"))>>, "download_two")
      BY <1>2, <1>3, <1>4, PairLawful
    <2> QED BY <2>1, <2>2
  <1>8. Lawful(lazy_perform["download_two_b"], "download_two_b")
    <2>1. lazy_perform["download_two_b"] = <<call_with("a", "fetch", 0, {}, {}), call_with("b", "fetch", 0, {}, {}),
                                 await(sooner("a", "b")), await(later("a", "b"))>>
      BY DEF lazy_perform, call
    <2>2. Lawful(<<call_with("a", "fetch", 0, {}, {}), call_with("b", "fetch", 0, {}, {}),
                                 await(sooner("a", "b")), await(later("a", "b"))>>, "download_two_b")
      BY <1>2, <1>3, <1>4, PairLawful
    <2> QED BY <2>1, <2>2
  <1>9. Lawful(lazy_perform["fetch"], "fetch")
    BY PerformLawful, NoParams DEF lazy_perform
  <1> QED BY <1>1, <1>2, <1>5, <1>6, <1>7, <1>8, <1>9 DEF TextLaw, Functions

LEMMA AwaitAllLawful == ASSUME program = "await-all" PROVE TextLaw
  <1>1. \A n \in Nat : Text(n) = await_all
    BY DEF Text
  <1>2. Functions = {"main", "main_coroutine", "all", "fetch"}
    BY <1>1 DEF Functions, await_all
  <1>3. /\ program \in Uniform \ Lending /\ program # "exception"
        /\ Params("main_coroutine") = {} /\ Params("all") = {}
    BY DEF Uniform, Programs, Lending, Params
  <1>4. Lawful(await_all["main"], "main")
    BY <1>2, <1>3, MainLawful DEF await_all, call
  <1>5. Lawful(await_all["main_coroutine"], "main_coroutine")
    BY <1>2, <1>3, SingleLawful DEF await_all, call, Idents
  <1>6. Lawful(await_all["all"], "all")
    BY <1>2, <1>3, PairLawful DEF await_all, all_range
  <1>7. Lawful(await_all["fetch"], "fetch")
    BY PerformLawful, NoParams DEF await_all
  <1> QED BY <1>1, <1>2, <1>4, <1>5, <1>6, <1>7 DEF TextLaw, Functions

LEMMA AwaitAll2Lawful == ASSUME program = "await-all2" PROVE TextLaw
  <1>1. \A n \in Nat : Text(n) = await_all2
    BY DEF Text
  <1>2. Functions = {"main", "main_coroutine", "all", "fetch"}
    BY <1>1 DEF Functions, await_all2
  <1>3. /\ program \in Uniform /\ program \in Lending /\ program # "exception"
        /\ program \notin Uncaught
        /\ Params("main_coroutine") = {} /\ Params("all") = {"a", "b"} /\ Params("fetch") = {}
    BY DEF Uniform, Programs, Lending, Params, Uncaught
  <1>4. Lawful(await_all2["main"], "main")
    BY <1>2, <1>3, MainLawful DEF await_all2, call
  <1>5. Lawful(await_all2["fetch"], "fetch")
    BY PerformLawful, NoParams DEF await_all2
  <1>6. Lawful(await_all2["all"], "all")
    <2> DEFINE B == <<await("a"), await("b")>>
    <2>1. await_all2["all"] = B /\ Len(B) = 2 /\ DOMAIN B = 1..2 /\ B[1] = await("a") /\ B[2] = await("b")
      BY DEF await_all2, all_promises
    <2> HIDE DEF B
    <2> QED BY <1>3, <2>1 DEF Lawful, IsInstruction, CallLaw, AwaitLaw, DropLaw, ThrowLaw, await, Calls,
               Drops, Idents
  <1>7. Lawful(await_all2["main_coroutine"], "main_coroutine")
    <2> DEFINE B == <<call("a", "fetch"), call("b", "fetch"),
                      call_with("r", "all", 0, {}, {"a", "b"}), await("r")>>
    <2>1. /\ await_all2["main_coroutine"] = B /\ Len(B) = 4 /\ DOMAIN B = 1..4
          /\ B[1] = call_with("a", "fetch", 0, {}, {}) /\ B[2] = call_with("b", "fetch", 0, {}, {})
          /\ B[3] = call_with("r", "all", 0, {}, {"a", "b"}) /\ B[4] = await("r")
      BY DEF await_all2, call
    <2>2. /\ Text(0)["all"] = <<await("a"), await("b")>>
          /\ Text(0)["fetch"] = <<perform>>
      BY <1>1 DEF await_all2, all_promises
    <2> HIDE DEF B
    <2>3. \A k \in DOMAIN B : IsInstruction(B[k]) /\ B[k].op # "get"
      BY <1>2, <2>1 DEF call_with, await, IsInstruction, IsCall, Idents
    <2>4. CallLaw(B)
      <3>1. Calls(B, 1, "a") /\ Calls(B, 2, "b") /\ Awaits(B, 4, "r")
        BY <2>1 DEF Calls, Awaits, call_with, await
      <3>2. Awaits(Text(0)["all"], 1, "a") /\ Awaits(Text(0)["all"], 2, "b")
        BY <2>2 DEF Awaits, await
      <3>3. \A x \in {"a", "b"} : \E j \in DOMAIN Text(0)["all"] : Awaits(Text(0)["all"], j, x)
        BY <2>2, <3>2
      <3>4. \A x \in {"a", "b"} : \E j \in 1..2 : Calls(B, j, x)
        BY <3>1
      <3> QED BY <1>3, <2>1, <3>1, <3>3, <3>4 DEF CallLaw, call_with, await, Calls
    <2>5. AwaitLaw(B, "main_coroutine") /\ DropLaw(B) /\ ThrowLaw(B)
      BY <1>3, <2>1 DEF AwaitLaw, DropLaw, ThrowLaw, call_with, await, Calls, Drops, Idents
    <2> QED BY <2>1, <2>3, <2>4, <2>5, LawfulParts, NoParams
  <1> QED BY <1>1, <1>2, <1>4, <1>5, <1>6, <1>7 DEF TextLaw, Functions

LEMMA SelectLawful == ASSUME program = "select" PROVE TextLaw
  <1>1. \A n \in Nat : Text(n) = select_cpp
    BY DEF Text
  <1>2. Functions = {"main", "main_coroutine", "fetch"}
    BY <1>1 DEF Functions, select_cpp
  <1>3. /\ program \in Uniform /\ program # "exception" /\ program \notin Lending \cup Uncaught
        /\ Params("main_coroutine") = {} /\ Params("fetch") = {}
    BY DEF Uniform, Programs, Params, Lending, Uncaught
  <1>4. Lawful(select_cpp["main"], "main")
    BY <1>2, <1>3, MainLawful DEF select_cpp, call
  <1>5. Lawful(select_cpp["fetch"], "fetch")
    BY PerformLawful, NoParams DEF select_cpp
  <1>6. Lawful(select_cpp["main_coroutine"], "main_coroutine")
    <2> DEFINE B == <<call("a", "fetch"), call("b", "fetch"), select({"a", "b"})>>
    <2>1. /\ select_cpp["main_coroutine"] = B /\ Len(B) = 3 /\ DOMAIN B = 1..3
          /\ B[1] = call_with("a", "fetch", 0, {}, {}) /\ B[2] = call_with("b", "fetch", 0, {}, {})
          /\ B[3] = select({"a", "b"})
      BY DEF select_cpp, call
    <2> HIDE DEF B
    <2>2. \A k \in DOMAIN B : IsInstruction(B[k]) /\ B[k].op # "get"
      BY <1>2, <2>1 DEF call_with, select, IsInstruction, IsCall, Idents
    <2>3. CallLaw(B)
      BY <1>3, <2>1 DEF CallLaw, call_with, select, Calls
    <2>4. AwaitLaw(B, "main_coroutine") /\ DropLaw(B) /\ ThrowLaw(B)
      BY <1>3, <2>1 DEF AwaitLaw, DropLaw, ThrowLaw, call_with, select
    <2> QED BY <2>1, <2>2, <2>3, <2>4, LawfulParts, NoParams
  <1> QED BY <1>1, <1>2, <1>4, <1>5, <1>6 DEF TextLaw, Functions

LEMMA ExceptionLawful == ASSUME program = "exception" PROVE TextLaw
  <1>1. \A n \in Nat : Text(n) = exception
    BY DEF Text
  <1>2. Functions = {"main", "outer", "fetch"}
    BY <1>1 DEF Functions, exception
  <1>3. /\ program \in Uniform \ {"select"} /\ program \notin Lending \cup Uncaught
        /\ program \in Throwing /\ Params("outer") = {} /\ Params("fetch") = {}
    BY DEF Uniform, Programs, Params, Lending, Uncaught, Throwing
  <1>4. Lawful(exception["main"], "main")
    <2> DEFINE B == <<call("a", "fetch"), get_in_try("a"), call("a", "outer"), get_in_try("a")>>
    <2>1. /\ exception["main"] = B /\ Len(B) = 4 /\ DOMAIN B = 1..4
          /\ B[1] = call_with("a", "fetch", 0, {}, {}) /\ B[2] = get_in_try("a")
          /\ B[3] = call_with("a", "outer", 0, {}, {}) /\ B[4] = get_in_try("a")
      BY DEF exception, call
    <2> HIDE DEF B
    <2>2. \A k \in DOMAIN B : IsInstruction(B[k])
      BY <1>2, <2>1 DEF call_with, get_in_try, IsInstruction, IsCall, Idents
    <2>3. MainLaw(B)
      BY <1>3, <2>1 DEF MainLaw, call_with, get_in_try, Calls
    <2> QED BY <2>1, <2>2, <2>3 DEF Lawful
  <1>5. Lawful(exception["outer"], "outer")
    <2> DEFINE B == <<call("r", "fetch"), await_in_try("r")>>
    <2>1. /\ exception["outer"] = B /\ Len(B) = 2 /\ DOMAIN B = 1..2
          /\ B[1] = call_with("r", "fetch", 0, {}, {}) /\ B[2] = await_in_try("r")
      BY DEF exception, call
    <2> HIDE DEF B
    <2>2. \A k \in DOMAIN B : IsInstruction(B[k]) /\ B[k].op # "get"
      BY <1>2, <2>1 DEF call_with, await_in_try, IsInstruction, IsCall, Idents
    <2>3. CallLaw(B)
      BY <1>3, <2>1 DEF CallLaw, call_with, await_in_try, Calls
    <2>5. DropLaw(B) /\ ThrowLaw(B)
      BY <2>1 DEF DropLaw, ThrowLaw, call_with, await_in_try
    <2>4. AwaitLaw(B, "outer")
      BY <1>3, <2>1 DEF AwaitLaw, call_with, await_in_try, Calls, Drops, Idents
    <2> QED BY <2>1, <2>2, <2>3, <2>4, <2>5, LawfulParts, NoParams
  <1>6. Lawful(exception["fetch"], "fetch")
    BY <1>3, CheckLawful DEF exception, fetch_or_throw
  <1> QED BY <1>1, <1>2, <1>4, <1>5, <1>6 DEF TextLaw, Functions

LEMMA HelloWorldLawful == ASSUME program = "hello-world" PROVE TextLaw
  <1>1. \A n \in Nat : Text(n) = hello_world
    BY DEF Text
  <1>2. Functions = {"main", "fetch"} /\ Params("fetch") = {} /\ program \in Throwing
    BY <1>1 DEF Functions, hello_world, Params, Throwing, Uncaught
  <1>3. Lawful(hello_world["main"], "main")
    BY <1>2, MainLawful DEF hello_world, call
  <1>4. Lawful(hello_world["fetch"], "fetch")
    BY <1>2, CheckLawful DEF hello_world, fetch_or_throw
  <1> QED BY <1>1, <1>2, <1>3, <1>4 DEF TextLaw, Functions

LEMMA ShowContentLawful == ASSUME program = "simplest-hello-world" PROVE TextLaw
  <1>1. \A n \in Nat : Text(n) = show_content
    BY DEF Text
  <1>2. Functions = {"main", "fetch"} /\ Params("fetch") = {}
    BY <1>1 DEF Functions, show_content, Params
  <1>3. Lawful(show_content["main"], "main")
    BY <1>2, MainLawful DEF show_content, call, Uncaught
  <1>4. Lawful(show_content["fetch"], "fetch")
    BY PerformLawful, NoParams DEF show_content
  <1> QED BY <1>1, <1>2, <1>3, <1>4 DEF TextLaw, Functions

LEMMA FactorialLawful == ASSUME program = "factorial" PROVE TextLaw
  <1>1. \A n \in Nat : Text(n) = factorial(n)
    BY DEF Text
  <1>2. Functions = {"main", "factorial"} /\ \A n \in Nat : DOMAIN Text(n) = {"main", "factorial"}
    BY <1>1 DEF Functions, factorial
  <1>3. /\ program \in Uniform /\ program # "exception" /\ Params("factorial") = {}
        /\ Depth \in Nat
    BY ExamplesAssumption DEF Uniform, Programs, Params
  <1>4. ASSUME NEW n \in Nat PROVE Lawful(factorial(n)["main"], "main")
    BY <1>2, <1>3, MainLawful DEF factorial
  <1>5. ASSUME NEW n \in Nat PROVE Lawful(factorial(n)["factorial"], "factorial")
    <2>1. CASE n = 0
      <3>1. factorial(n)["factorial"] = <<>>
        BY <2>1 DEF factorial
      <3> QED BY <3>1 DEF Lawful, CallLaw, AwaitLaw, DropLaw, ThrowLaw
    <2>2. CASE n # 0
      <3>1. n - 1 \in Nat /\ factorial(n)["factorial"] =
                               <<call_with("v", "factorial", n - 1, {}, {}), await("v")>>
        BY <2>2 DEF factorial
      <3> QED BY <1>2, <1>3, <3>1, SingleLawful DEF Idents
    <2> QED BY <2>1, <2>2
  <1> QED BY <1>1, <1>2, <1>4, <1>5 DEF TextLaw

LEMMA LotsLawful ==
  ASSUME program = "lots-of-coroutines", leftFirst \in BOOLEAN PROVE TextLaw
  <1>1. \A n \in Nat : Text(n) = lots_of_coroutines(n)
    BY DEF Text
  <1>2. /\ Functions = {"main", "start", "recursion", "fetch"}
        /\ \A n \in Nat : DOMAIN Text(n) = {"main", "start", "recursion", "fetch"}
    BY <1>1 DEF Functions, lots_of_coroutines
  <1>3. /\ program \notin Uniform /\ program # "exception" /\ program \notin Lending \cup Uncaught
        /\ Params("start") = {} /\ Params("fetch") = {} /\ Params("recursion") = {}
        /\ Depth \in Nat
    BY ExamplesAssumption DEF Uniform, Programs, Params, Lending, Uncaught
  <1>4. ASSUME NEW n \in Nat PROVE Lawful(lots_of_coroutines(n)["main"], "main")
    BY <1>2, <1>3, MainLawful DEF lots_of_coroutines, call
  <1>5. ASSUME NEW n \in Nat PROVE Lawful(lots_of_coroutines(n)["fetch"], "fetch")
    BY PerformLawful, NoParams DEF lots_of_coroutines
  <1>6. ASSUME NEW n \in Nat PROVE Lawful(lots_of_coroutines(n)["start"], "start")
    <2> DEFINE B == <<call("task", "fetch"), call_with("r", "recursion", Depth, {"task"}, {}), await("r")>>
    <2>1. /\ lots_of_coroutines(n)["start"] = B /\ Len(B) = 3 /\ DOMAIN B = 1..3
          /\ B[1] = call_with("task", "fetch", 0, {}, {})
          /\ B[2] = call_with("r", "recursion", Depth, {"task"}, {}) /\ B[3] = await("r")
      BY DEF lots_of_coroutines, call
    <2> HIDE DEF B
    <2>2. \A k \in DOMAIN B : IsInstruction(B[k]) /\ B[k].op # "get"
      BY <1>2, <1>3, <2>1 DEF call_with, await, IsInstruction, IsCall, Idents
    <2>3. CallLaw(B) /\ AwaitLaw(B, "start") /\ DropLaw(B) /\ ThrowLaw(B)
      BY <1>3, <2>1 DEF CallLaw, AwaitLaw, DropLaw, ThrowLaw, call_with, await
    <2> QED BY <2>1, <2>2, <2>3, LawfulParts, NoParams
  <1>7. ASSUME NEW n \in Nat PROVE Lawful(lots_of_coroutines(n)["recursion"], "recursion")
    <2>1. CASE n > 0
      <3> DEFINE B == <<call_with("r", "recursion", n - 1, {"task"}, {}), await("r")>>
      <3>1. /\ lots_of_coroutines(n)["recursion"] = B /\ Len(B) = 2 /\ DOMAIN B = 1..2
            /\ B[1] = call_with("r", "recursion", n - 1, {"task"}, {}) /\ B[2] = await("r")
            /\ n - 1 \in Nat
        BY <2>1 DEF lots_of_coroutines
      <3> HIDE DEF B
      <3>2. \A k \in DOMAIN B : IsInstruction(B[k]) /\ B[k].op # "get"
        BY <1>2, <3>1 DEF call_with, await, IsInstruction, IsCall, Idents
      <3>3. \A k \in DOMAIN B : /\ B[k].op \in {"call", "await"}
                                /\ B[k].op = "call" =>
                                     B[k].lends = {} /\ B[k].lends = Params(B[k].fn)
        <4>1. /\ B[1].op = "call" /\ B[1].fn = "recursion" /\ B[1].lends = {}
              /\ B[2].op = "await"
          BY <3>1 DEF call_with, await
        <4>2. \A k \in DOMAIN B : k = 1 \/ k = 2
          BY <3>1
        <4> QED BY <1>3, <4>1, <4>2
      <3>4. CallLaw(B)
        <4> SUFFICES ASSUME NEW k \in DOMAIN B, B[k].op = "call",
                            B[k].lends = Params(B[k].fn), B[k].lends = {}
                     PROVE  /\ \A x \in B[k].lends : \E j \in 1..(k - 1) : Calls(B, j, x)
                            /\ \A x \in B[k].lends :
                                 \E j \in DOMAIN Text(0)[B[k].fn] : Awaits(Text(0)[B[k].fn], j, x)
          BY <1>3, <3>3, Zenon DEF CallLaw
        <4> QED BY Zenon
      <3>5. AwaitLaw(B, "recursion")
        BY <1>3, Zenon DEF AwaitLaw
      <3>6. DropLaw(B) /\ ThrowLaw(B)
        BY <3>3, Zenon DEF DropLaw, ThrowLaw
      <3> QED BY <3>1, <3>2, <3>4, <3>5, <3>6, LawfulParts, NoParams
    <2>2. CASE ~(n > 0)
      <3> DEFINE B == lots_of_coroutines(n)["recursion"]
      <3>1. /\ Len(B) = 3 /\ DOMAIN B = 1..3
            /\ \A k \in 1..3 : B[k] \in {await("task"), call("b", "fetch"), await("b")}
        BY <2>2 DEF lots_of_coroutines
      <3> HIDE DEF B
      <3>2. \A k \in DOMAIN B : IsInstruction(B[k]) /\ B[k].op # "get"
        BY <1>2, <3>1 DEF call, call_with, await, IsInstruction, IsCall, Idents
      <3>3. \A k \in DOMAIN B : /\ B[k].op \in {"call", "await"}
                                /\ B[k].op = "call" =>
                                     B[k].lends = {} /\ B[k].lends = Params(B[k].fn)
        BY <1>3, <3>1 DEF call, call_with, await
      <3>4. CallLaw(B)
        <4> SUFFICES ASSUME NEW k \in DOMAIN B, B[k].op = "call",
                            B[k].lends = Params(B[k].fn), B[k].lends = {}
                     PROVE  /\ \A x \in B[k].lends : \E j \in 1..(k - 1) : Calls(B, j, x)
                            /\ \A x \in B[k].lends :
                                 \E j \in DOMAIN Text(0)[B[k].fn] : Awaits(Text(0)[B[k].fn], j, x)
          BY <1>3, <3>3, Zenon DEF CallLaw
        <4> QED BY Zenon
      <3>5. AwaitLaw(B, "recursion")
        BY <1>3, Zenon DEF AwaitLaw
      <3>6. DropLaw(B) /\ ThrowLaw(B)
        BY <3>3, Zenon DEF DropLaw, ThrowLaw
      <3> QED BY <3>1, <3>2, <3>4, <3>5, <3>6, LawfulParts, NoParams DEF B
    <2> QED BY <2>1, <2>2
  <1> QED BY <1>1, <1>2, <1>4, <1>5, <1>6, <1>7 DEF TextLaw

LEMMA RandomLawful == ASSUME program = "random" PROVE TextLaw
  <1>1. \A n \in Nat : Text(n) = random
    BY DEF Text
  <1>2. Functions = {"main", "select_first", "fetch"}
    BY <1>1 DEF Functions, random
  <1>3. /\ program \in Uniform \ Lending /\ program # "exception" /\ program \in Throwing
        /\ Params("select_first") = {}
    BY DEF Uniform, Programs, Lending, Params, Throwing, Uncaught
  <1>4. Lawful(random["main"], "main")
    BY <1>2, <1>3, MainLawful DEF random, call
  <1>5. Lawful(random["select_first"], "select_first")
    BY <1>2, <1>3, PairLawful DEF random, call
  <1>6. Lawful(random["fetch"], "fetch")
    BY <1>3, CheckLawful, NoParams DEF random, fetch_or_throw
  <1> QED BY <1>1, <1>2, <1>4, <1>5, <1>6 DEF TextLaw, Functions

LEMMA MultipleAwaitsLawful ==
  ASSUME program = "multiple-awaits", leftFirst \in BOOLEAN PROVE TextLaw
  <1>1. \A n \in Nat : Text(n) = multiple_awaits
    BY DEF Text
  <1>2. Functions = {"main", "test", "process_left", "process_right", "download_index", "fetch"}
    BY <1>1 DEF Functions, multiple_awaits
  <1>3. /\ program \in Uniform \ {"select"} /\ program \in Lending /\ program \notin Uncaught
        /\ Params("test") = {} /\ Params("download_index") = {} /\ Params("fetch") = {}
        /\ Params("process_left") = {"index"} /\ Params("process_right") = {"index"}
    BY DEF Uniform, Programs, Lending, Params, Uncaught
  <1>4. Lawful(multiple_awaits["main"], "main")
    BY <1>2, <1>3, MainLawful DEF multiple_awaits, call
  <1>5. Lawful(multiple_awaits["fetch"], "fetch")
    BY PerformLawful, NoParams DEF multiple_awaits
  <1>6. Lawful(multiple_awaits["download_index"], "download_index")
    BY <1>2, <1>3, SingleLawful DEF multiple_awaits, call, Idents
  <1>7. ASSUME NEW f \in {"process_left", "process_right"} PROVE Lawful(multiple_awaits[f], f)
    <2> DEFINE B == <<await("index")>>
    <2>1. multiple_awaits[f] = B /\ Len(B) = 1 /\ DOMAIN B = 1..1 /\ B[1] = await("index")
      BY DEF multiple_awaits
    <2> HIDE DEF B
    <2> QED BY <1>3, <2>1 DEF Lawful, IsInstruction, CallLaw, AwaitLaw, DropLaw, ThrowLaw, await, Calls,
               Drops, Idents
  <1>8. Lawful(multiple_awaits["test"], "test")
    <2> DEFINE x == sooner("a", "b")
               y == later("a", "b")
               B == <<call("index", "download_index"),
                      call_with("a", "process_left", 0, {}, {"index"}),
                      call_with("b", "process_right", 0, {}, {"index"}), await(x), await(y)>>
    <2>1. /\ multiple_awaits["test"] = B /\ Len(B) = 5 /\ DOMAIN B = 1..5
          /\ B[1] = call_with("index", "download_index", 0, {}, {})
          /\ B[2] = call_with("a", "process_left", 0, {}, {"index"})
          /\ B[3] = call_with("b", "process_right", 0, {}, {"index"})
          /\ B[4] = await(x) /\ B[5] = await(y)
      BY DEF multiple_awaits, call
    <2>2. x \in {"a", "b"} /\ y \in {"a", "b"} \ {x}
      BY DEF sooner, later
    <2>3. \A f \in {"process_left", "process_right"} : Text(0)[f] = <<await("index")>>
      BY <1>1 DEF multiple_awaits
    <2> HIDE DEF B, x, y
    <2>4. \A k \in DOMAIN B : IsInstruction(B[k]) /\ B[k].op # "get"
      BY <1>2, <2>1, <2>2 DEF call_with, await, IsInstruction, IsCall, Idents
    <2>5. CallLaw(B)
      <3>1. Calls(B, 1, "index") /\ Awaits(B, 4, x) /\ Awaits(B, 5, y)
        BY <2>1 DEF Calls, Awaits, call_with, await
      <3>2. \A f \in {"process_left", "process_right"} : Awaits(Text(0)[f], 1, "index")
        BY <2>3 DEF Awaits, await
      <3>3. \A f \in {"process_left", "process_right"} :
              \E j \in DOMAIN Text(0)[f] : Awaits(Text(0)[f], j, "index")
        BY <2>3, <3>2
      <3>4. \A z \in {"a", "b"} : \E j \in DOMAIN B : Awaits(B, j, z)
        BY <2>1, <2>2, <3>1
      <3>5. \E i, j \in DOMAIN B : /\ B[i].op = "call" /\ "index" \in B[i].lends
                                   /\ Awaits(B, j, B[i].name)
        BY <2>1, <3>4 DEF call_with
      <3>6. \A k \in DOMAIN B : B[k].op = "call" =>
              /\ B[k].lends = Params(B[k].fn) /\ B[k].moves = {} /\ B[k].name # "task"
              /\ \A j \in DOMAIN B : Calls(B, j, B[k].name) => j = k
        BY <1>3, <2>1 DEF call_with, await, Calls
      <3>7. \A k \in DOMAIN B : B[k].op = "call" =>
              \/ B[k].name = "index" /\ B[k].lends = {}
              \/ /\ B[k].name \in {"a", "b"} /\ B[k].lends = {"index"} /\ 1 \in 1..(k - 1)
                 /\ B[k].fn \in {"process_left", "process_right"}
        BY <2>1 DEF call_with, await
      <3> SUFFICES ASSUME NEW k \in DOMAIN B, B[k].op = "call"
                   PROVE  /\ \A z \in B[k].lends : \E j \in 1..(k - 1) : Calls(B, j, z)
                          /\ \A z \in B[k].lends :
                               \E j \in DOMAIN Text(0)[B[k].fn] : Awaits(Text(0)[B[k].fn], j, z)
                          /\ \/ \E j \in DOMAIN B : Awaits(B, j, B[k].name)
                             \/ \E i, j \in DOMAIN B : /\ B[i].op = "call" /\ B[k].name \in B[i].lends
                                                      /\ Awaits(B, j, B[i].name)
        BY <3>6, Zenon DEF CallLaw
      <3>8. CASE B[k].name = "index" /\ B[k].lends = {}
        BY <3>5, <3>8
      <3>9. CASE /\ B[k].name \in {"a", "b"} /\ B[k].lends = {"index"} /\ 1 \in 1..(k - 1)
                 /\ B[k].fn \in {"process_left", "process_right"}
        BY <3>1, <3>3, <3>4, <3>9
      <3> QED BY <3>7, <3>8, <3>9
    <2>6. AwaitLaw(B, "test")
      BY <1>3, <2>1, <2>2 DEF AwaitLaw, call_with, await, Calls, Drops, Idents
    <2>7. DropLaw(B) /\ ThrowLaw(B)
      BY <2>1 DEF DropLaw, ThrowLaw, call_with, await
    <2> QED BY <2>1, <2>4, <2>5, <2>6, <2>7, LawfulParts, NoParams
  <1> QED BY <1>1, <1>2, <1>4, <1>5, <1>6, <1>7, <1>8 DEF TextLaw, Functions

LEMMA MultiFailureLawful == ASSUME program = "multi-failure-propagation" PROVE TextLaw
  <1>1. \A n \in Nat : Text(n) = multi_failure
    BY DEF Text
  <1>2. Functions = {"main", "fetch"} /\ Params("fetch") = {}
    BY <1>1 DEF Functions, multi_failure, Params
  <1>3. Lawful(multi_failure["main"], "main")
    <2> DEFINE B == <<call("a", "fetch"), get("a"), call("b", "fetch"), get("b")>>
    <2>1. /\ multi_failure["main"] = B /\ Len(B) = 4 /\ DOMAIN B = 1..4
          /\ B[1] = call_with("a", "fetch", 0, {}, {}) /\ B[2] = get("a")
          /\ B[3] = call_with("b", "fetch", 0, {}, {}) /\ B[4] = get("b")
      BY DEF multi_failure, call
    <2> HIDE DEF B
    <2>2. \A k \in DOMAIN B : IsInstruction(B[k])
      BY <1>2, <2>1 DEF call_with, get, IsInstruction, IsCall, Idents
    <2>3. MainLaw(B)
      BY <1>2, <2>1 DEF MainLaw, call_with, get, Calls
    <2> QED BY <2>1, <2>2, <2>3 DEF Lawful
  <1>4. Lawful(multi_failure["fetch"], "fetch")
    BY PerformLawful, NoParams DEF multi_failure
  <1> QED BY <1>1, <1>2, <1>3, <1>4 DEF TextLaw, Functions

LEMMA ReturnLawful == ASSUME program = "return" PROVE TextLaw
  <1>1. \A n \in Nat : Text(n) = return_cpp
    BY DEF Text
  <1>2. Functions = {"main", "fetch_all", "all", "fetch_with_name", "fetch"}
    BY <1>1 DEF Functions, return_cpp
  <1>3. /\ program \in Uniform \ {"select"} /\ program \notin Lending /\ program # "exception"
        /\ program \in Throwing /\ \A f \in Functions : Params(f) = {}
        /\ Attempts \in Nat
    BY ExamplesAssumption DEF Uniform, Programs, Lending, Params, Throwing, Uncaught
  <1>4. Lawful(return_cpp["main"], "main")
    BY <1>2, <1>3, MainLawful DEF return_cpp, call
  <1>5. Lawful(return_cpp["all"], "all")
    BY <1>2, <1>3, PairLawful DEF return_cpp, all_range
  <1>6. Lawful(return_cpp["fetch_with_name"], "fetch_with_name")
    BY <1>2, <1>3, SingleLawful DEF return_cpp, Idents
  <1>7. Lawful(return_cpp["fetch"], "fetch")
    <2> DEFINE B == <<perform, retry>>
    <2>1. /\ return_cpp["fetch"] = B /\ Len(B) = 2 /\ DOMAIN B = 1..2
          /\ B[1].op = "perform" /\ B[2].op = "retry"
      BY DEF return_cpp, perform, retry
    <2> HIDE DEF B
    <2>2. \A k \in DOMAIN B : B[k].op \in {"perform", "retry"}
      BY <2>1
    <2>3. CallLaw(B) /\ AwaitLaw(B, "fetch") /\ DropLaw(B) /\ ThrowLaw(B)
      BY <1>3, <2>2 DEF CallLaw, AwaitLaw, DropLaw, ThrowLaw
    <2> QED BY <2>1, <2>2, <2>3, NoParams DEF Lawful, IsInstruction
  <1>8. Lawful(return_cpp["fetch_all"], "fetch_all")
    <2> DEFINE B == <<call_with("index", "fetch", Attempts, {}, {}), await("index"), drop("index"),
                      call("r", "all"), await("r")>>
    <2>1. /\ return_cpp["fetch_all"] = B /\ Len(B) = 5 /\ DOMAIN B = 1..5
          /\ B[1] = call_with("index", "fetch", Attempts, {}, {})
          /\ B[2] = await("index") /\ B[3] = drop("index")
          /\ B[4] = call_with("r", "all", 0, {}, {}) /\ B[5] = await("r")
      BY DEF return_cpp, call
    <2> HIDE DEF B
    <2>2. \A k \in DOMAIN B : IsInstruction(B[k]) /\ B[k].op # "get"
      BY <1>2, <1>3, <2>1 DEF call_with, await, drop, IsInstruction, IsCall, Idents
    <2>3. Calls(B, 1, "index") /\ Awaits(B, 2, "index") /\ Awaits(B, 5, "r")
      BY <2>1 DEF Calls, Awaits, call_with, await
    <2>4. CallLaw(B)
      BY <1>2, <1>3, <2>1, <2>3 DEF CallLaw, call_with, await, drop, Calls
    <2>5. AwaitLaw(B, "fetch_all")
      BY <1>3, <2>1 DEF AwaitLaw, call_with, await, drop, Calls, Drops, Idents
    <2>6. DropLaw(B) /\ ThrowLaw(B)
      BY <1>3, <2>1, <2>3 DEF DropLaw, ThrowLaw, call_with, await, drop, Drops
    <2> QED BY <2>1, <2>2, <2>4, <2>5, <2>6, LawfulParts, NoParams
  <1> QED BY <1>1, <1>2, <1>4, <1>5, <1>6, <1>7, <1>8 DEF TextLaw, Functions

LEMMA ProgramsLawful == ASSUME program \in Programs, leftFirst \in BOOLEAN PROVE TextLaw
  BY LazyPerformLawful, AwaitAllLawful, AwaitAll2Lawful, SelectLawful, ExceptionLawful,
     HelloWorldLawful, ShowContentLawful, FactorialLawful, LotsLawful, RandomLawful,
     MultipleAwaitsLawful, MultiFailureLawful, ReturnLawful DEF Programs

LEMMA TextFixed ==
  ASSUME program \notin {"factorial", "lots-of-coroutines"}, NEW n, NEW m
  PROVE  Text(n) = Text(m)
  BY DEF Text

----------------------------------------------------------------------------
(* The library under its clients: the two programs that lend promises drop   *)
(* none before its end, the others lend none.                                *)
LEMMA Instances == Own!IsFiniteSet(Coro) /\ Lent!IsFiniteSet(Coro)
  BY FiniteAssumption DEF IsFiniteSet, Own!IsFiniteSet, Lent!IsFiniteSet

LEMMA LibraryFacts ==
  ASSUME LibraryInv PROVE IInv /\ FreeInv /\ Rooted /\ AllDoneInMain
  <1>1. CASE program \in Lending
    <2>1. Lent!WInv /\ Lent!GraphInv
      BY <1>1 DEF LibraryInv
    <2>2. Lent!AllDoneInMain
      BY <2>1, Lent!IdleIsDone, Instances, BorrowableAssumption, SwitchAssumption, BudgetAssumption,
         NamesAssumption
    <2>3. Lent!FreeInv /\ Lent!Rooted
      BY <2>1 DEF Lent!WInv, Lent!HandlesInv, Lent!AwaitingInv, Lent!OwnerInv
    <2> QED BY <2>2, <2>3 DEF LibraryInv, Lent!FreeInv, FreeInv, Lent!Rooted, Rooted,
              Lent!AllDoneInMain, AllDoneInMain, Lent!AtMain, AtMain, Lent!Live, Live, Lent!Done, Done
  <1>2. CASE program \notin Lending
    <2>1. Own!WInv /\ Own!GraphInv
      BY <1>2 DEF LibraryInv
    <2>2. Own!AllDoneInMain
      BY <2>1, Own!IdleIsDone, Instances, SwitchAssumption, BudgetAssumption,
         NamesAssumption
    <2>3. Own!FreeInv /\ Own!Rooted
      BY <2>1 DEF Own!WInv, Own!HandlesInv, Own!AwaitingInv, Own!OwnerInv
    <2> QED BY <2>2, <2>3 DEF LibraryInv, Own!FreeInv, FreeInv, Own!Rooted, Rooted,
              Own!AllDoneInMain, AllDoneInMain, Own!AtMain, AtMain, Own!Live, Live, Own!Done, Done
  <1> QED BY <1>1, <1>2

LEMMA LibraryInit == ExamplesInit => LibraryInv
  <1> SUFFICES ASSUME Init PROVE LibraryInv
    BY DEF ExamplesInit
  <1>1. IInv
    BY InitIInv
  <1>2. Lent!Init /\ Own!Init
    BY DEF Init, Lent!Init, Own!Init, CurlInit, Lent!CurlInit, Own!CurlInit,
           SchedulerInit, Lent!SchedulerInit, Own!SchedulerInit
  <1>3. Lent!WInv /\ Lent!GraphInv
    BY <1>2, Lent!InitWakes, Lent!GraphInvInit, Instances, BorrowableAssumption, SwitchAssumption,
       BudgetAssumption, NamesAssumption
  <1>4. Own!WInv /\ Own!GraphInv
    BY <1>2, Own!InitWakes, Own!GraphInvInit, Instances, SwitchAssumption, BudgetAssumption,
       NamesAssumption
  <1> QED BY <1>1, <1>3, <1>4 DEF LibraryInv

LEMMA LibraryNext ==
  ASSUME LibraryInv, program' = program, [Next]_vars,
         program \in Lending => Lent!Next \/ UNCHANGED vars,
         program \notin Lending => Own!Next \/ UNCHANGED vars
  PROVE  LibraryInv'
  <1>1. IInv'
    BY NextIInv DEF LibraryInv
  <1>2. CASE program \in Lending
    <2>1. Lent!WInv /\ Lent!GraphInv /\ [Lent!Next]_(Lent!vars)
      BY <1>2 DEF LibraryInv, vars, Lent!vars, curlVars, Lent!curlVars, schedulerVars,
                  Lent!schedulerVars, coroutineVars, Lent!coroutineVars
    <2>2. Lent!Discipline /\ ~MultiFails
      BY ExamplesAssumption DEF Lent!Discipline
    <2>3. Lent!WInv'
      BY <2>1, <2>2, Lent!NextWakes, Instances, BorrowableAssumption, SwitchAssumption,
         BudgetAssumption, NamesAssumption
    <2>4. Lent!GraphInv'
      BY <2>1, <2>2, <2>3, Lent!GraphInvNext, Instances, BorrowableAssumption, SwitchAssumption,
         BudgetAssumption, NamesAssumption
    <2> QED BY <1>1, <1>2, <2>3, <2>4 DEF LibraryInv, Lending
  <1>3. CASE program \notin Lending
    <2>1. Own!WInv /\ Own!GraphInv /\ [Own!Next]_(Own!vars)
      BY <1>3 DEF LibraryInv, vars, Own!vars, curlVars, Own!curlVars, schedulerVars,
                  Own!schedulerVars, coroutineVars, Own!coroutineVars
    <2>2. Own!Discipline /\ ~MultiFails
      BY ExamplesAssumption DEF Own!Discipline
    <2>3. Own!WInv'
      BY <2>1, <2>2, Own!NextWakes, Instances, SwitchAssumption, BudgetAssumption, NamesAssumption
    <2>4. Own!GraphInv'
      BY <2>1, <2>2, <2>3, Own!GraphInvNext, Instances, SwitchAssumption, BudgetAssumption,
         NamesAssumption
    <2> QED BY <1>1, <1>3, <2>3, <2>4 DEF LibraryInv, Lending
  <1> QED BY <1>2, <1>3

(* Each operation of the library under each of its disciplines.              *)
LEMMA CallMaps ==
  ASSUME NEW p \in Coro \cup {Main}, NEW c \in Coro, NEW M, NEW R, Call(p, c, M, R)
  PROVE  Next /\ Lent!Next /\ (R = {} => Own!Next)
  <1>1. M \in SUBSET Owned(p) /\ R \in SUBSET Borrowable
    BY DEF Call
  <1>2. p \in Coro => p \in Executing
    BY Names DEF Call, InControl, OnTop
  <1>3. Next
    BY <1>1, <1>2 DEF Next, MainStep, CoroutineStep
  <1>4. Lent!Call(p, c, M, R)
    BY DEF Call, Lent!Call, InControl, Lent!InControl, AtMain, Lent!AtMain, OnTop, Lent!OnTop,
           Executing, Lent!Executing, Live, Lent!Live, Owned, Lent!Owned, Visible, Lent!Visible,
           curlVars, Lent!curlVars, start, Lent!start
  <1>5. Lent!Next
    BY <1>1, <1>2, <1>4 DEF Lent!Next, Lent!MainStep, Lent!CoroutineStep, Owned, Lent!Owned,
                            Executing, Lent!Executing
  <1>6. ASSUME R = {} PROVE Own!Call(p, c, M, {})
    BY <1>6 DEF Call, Own!Call, InControl, Own!InControl, AtMain, Own!AtMain, OnTop, Own!OnTop,
           Executing, Own!Executing, Live, Own!Live, Owned, Own!Owned, Visible, Own!Visible,
           curlVars, Own!curlVars, start, Own!start
  <1>7. ASSUME R = {} PROVE Own!Next
    <2>1. Own!Call(p, c, M, {}) /\ {} \in SUBSET {}
      BY <1>6, <1>7
    <2> QED BY <1>1, <1>2, <2>1 DEF Own!Next, Own!MainStep, Own!CoroutineStep, Owned, Own!Owned,
                            Executing, Own!Executing
  <1> QED BY <1>3, <1>5, <1>7

LEMMA AwaitMaps ==
  ASSUME NEW p, NEW D, Await(p, D)
  PROVE  Next /\ (Cardinality(D) = 1 => Lent!Next) /\ Own!Next
  <1>1. D \in SUBSET Visible(p) /\ p \in Executing
    BY Names DEF Await, InControl, OnTop
  <1>2. Next
    BY <1>1 DEF Next, CoroutineStep
  <1>3. ASSUME Cardinality(D) = 1 PROVE Lent!Await(p, D)
    <2>1. Lent!Kind(D) = "promise" /\ Kind(D) = "promise"
      BY <1>3, Instances DEF Lent!Kind, Kind, Cardinality, Lent!Cardinality
    <2> QED
      BY <2>1 DEF InControl, Lent!InControl, AtMain, Lent!AtMain, OnTop, Lent!OnTop, Executing,
             Lent!Executing, Visible, Lent!Visible, Owned, Lent!Owned, await_ready,
             Lent!await_ready, Done, Lent!Done, AwaiterAfterAdd, Lent!AwaiterAfterAdd,
             SleepingAfterAdd, Lent!SleepingAfterAdd, suspend, Lent!suspend,
             select_next_coroutine, Lent!select_next_coroutine, blocked, Lent!blocked, unblocked,
             Lent!unblocked, take_one, Lent!take_one, graph_blocked, Lent!graph_blocked, curlVars,
             Lent!curlVars, Await, Lent!Await
  <1>4. Own!Await(p, D)
    <2>1. Own!Kind(D) = Kind(D) /\ D \cap {} = {}
      BY DEF Own!Kind, Kind, Cardinality, Own!Cardinality
    <2> QED
      BY <2>1 DEF InControl, Own!InControl, AtMain, Own!AtMain, OnTop, Own!OnTop, Executing,
             Own!Executing, Visible, Own!Visible, Owned, Own!Owned, await_ready, Own!await_ready,
             Done, Own!Done, AwaiterAfterAdd, Own!AwaiterAfterAdd, SleepingAfterAdd,
             Own!SleepingAfterAdd, suspend, Own!suspend, select_next_coroutine,
             Own!select_next_coroutine, blocked, Own!blocked, unblocked, Own!unblocked, take_one,
             Own!take_one, graph_blocked, Own!graph_blocked, curlVars, Own!curlVars, Await,
             Own!Await
  <1>5. Cardinality(D) = 1 => Lent!Next
    BY <1>1, <1>3 DEF Lent!Next, Lent!CoroutineStep, Visible, Lent!Visible, Owned, Lent!Owned,
                      Executing, Lent!Executing
  <1>6. Own!Next
    BY <1>1, <1>4 DEF Own!Next, Own!CoroutineStep, Visible, Own!Visible, Owned, Own!Owned,
                      Executing, Own!Executing
  <1> QED BY <1>2, <1>5, <1>6

LEMMA PerformMaps ==
  ASSUME NEW p, Perform(p) PROVE Next /\ Lent!Next /\ Own!Next
  <1>1. p \in Executing
    BY Names DEF Perform, InControl, OnTop
  <1>2. Lent!Perform(p)
    BY DEF InControl, Lent!InControl, AtMain, Lent!AtMain, OnTop, Lent!OnTop, Executing,
           Lent!Executing, Perform, Lent!Perform, add_handle, Lent!add_handle, suspend,
           Lent!suspend, select_next_coroutine, Lent!select_next_coroutine, blocked, Lent!blocked,
           unblocked, Lent!unblocked, take_one, Lent!take_one, graph_blocked, Lent!graph_blocked,
           curlVars, Lent!curlVars
  <1>3. Own!Perform(p)
    BY DEF InControl, Own!InControl, AtMain, Own!AtMain, OnTop, Own!OnTop, Executing,
           Own!Executing, Perform, Own!Perform, add_handle, Own!add_handle, suspend, Own!suspend,
           select_next_coroutine, Own!select_next_coroutine, blocked, Own!blocked, unblocked,
           Own!unblocked, take_one, Own!take_one, graph_blocked, Own!graph_blocked, curlVars,
           Own!curlVars
  <1> QED BY <1>1, <1>2, <1>3 DEF Next, CoroutineStep, Lent!Next, Lent!CoroutineStep, Own!Next,
             Own!CoroutineStep, Executing, Lent!Executing, Own!Executing

LEMMA AwaitResumeMaps ==
  ASSUME NEW c, AwaitResume(c) PROVE Next /\ Lent!Next /\ Own!Next
  <1>1. c \in Executing
    BY DEF AwaitResume, OnTop
  <1>2. Lent!AwaitResume(c)
    BY DEF AwaitResume, Lent!AwaitResume, OnTop, Lent!OnTop, Executing, Lent!Executing, Awaiting,
           Lent!Awaiting, AwaiterAfterRemove, Lent!AwaiterAfterRemove, SleepingAfterRemove,
           Lent!SleepingAfterRemove, curlVars, Lent!curlVars
  <1>3. Own!AwaitResume(c)
    BY DEF AwaitResume, Own!AwaitResume, OnTop, Own!OnTop, Executing, Own!Executing, Awaiting,
           Own!Awaiting, AwaiterAfterRemove, Own!AwaiterAfterRemove, SleepingAfterRemove,
           Own!SleepingAfterRemove, curlVars, Own!curlVars
  <1> QED BY <1>1, <1>2, <1>3 DEF Next, CoroutineStep, Lent!Next, Lent!CoroutineStep, Own!Next,
             Own!CoroutineStep, Executing, Lent!Executing, Own!Executing

LEMMA ReturnMaps ==
  ASSUME NEW c, NEW L, Return(c, L)
  PROVE  Next /\ ((\A x \in Frames(L) : Done(x)) => Lent!Next) /\ Own!Next
  <1>1. L \in SUBSET Owned(c) /\ c \in Executing
    BY Names DEF Return, InControl, OnTop
  <1>2. Next
    BY <1>1 DEF Next, CoroutineStep
  <1>3. ASSUME \A x \in Frames(L) : Done(x) PROVE Lent!Return(c, L)
    <2>1. Lent!MayDestroy(L)
      BY <1>3 DEF MayDestroy, Lent!MayDestroy, Frames, Lent!Frames, Done, Lent!Done, Live,
             Lent!Live, Return
    <2>2. Lent!destroy(L, [at EXCEPT ![c] = "final"])
      BY DEF destroy, Lent!destroy, Frames, Lent!Frames, remove_handles, Lent!remove_handles,
             Return
    <2>3. Lent!Sleeping(c) = Sleeping(c)
      BY DEF Lent!Sleeping, Sleeping
    <2>4. Lent!SetToSeqs(Sleeping(c)) = SetToSeqs(Sleeping(c))
      BY DEF Lent!SetToSeqs, SetToSeqs, Cardinality, Lent!Cardinality
    <2>5. Lent!QueuedWith(c) = QueuedWith(c)
      BY <2>3, <2>4 DEF Lent!QueuedWith, QueuedWith
    <2>6. ASSUME NEW queue, select_next_coroutine(awaiter[c], queue, finish(blocked_balance))
          PROVE  Lent!select_next_coroutine(awaiter[c], queue, Lent!finish(blocked_balance))
      BY <2>6 DEF select_next_coroutine, Lent!select_next_coroutine, finish, Lent!finish,
             unblocked, Lent!unblocked, take_one, Lent!take_one, graph_blocked,
             Lent!graph_blocked
    <2> QED
      BY <2>1, <2>2, <2>5, <2>6 DEF InControl, Lent!InControl, AtMain, Lent!AtMain, OnTop,
             Lent!OnTop, Executing, Lent!Executing, Return, Lent!Return, Owned, Lent!Owned,
             forget_sleeping, Lent!forget_sleeping
  <1>4. Own!Return(c, L)
    <2>1. Own!MayDestroy(L)
      BY DEF MayDestroy, Own!MayDestroy, Frames, Own!Frames, Done, Own!Done, Live, Own!Live,
             Return
    <2>2. Own!destroy(L, [at EXCEPT ![c] = "final"])
      BY DEF destroy, Own!destroy, Frames, Own!Frames, remove_handles, Own!remove_handles, Return,
             Own!Return
    <2>3. Own!Sleeping(c) = Sleeping(c)
      BY DEF Own!Sleeping, Sleeping
    <2>4. Own!SetToSeqs(Sleeping(c)) = SetToSeqs(Sleeping(c))
      BY DEF Own!SetToSeqs, SetToSeqs, Cardinality, Own!Cardinality
    <2>5. Own!QueuedWith(c) = QueuedWith(c)
      BY <2>3, <2>4 DEF Own!QueuedWith, QueuedWith
    <2>6. ASSUME NEW queue, select_next_coroutine(awaiter[c], queue, finish(blocked_balance))
          PROVE  Own!select_next_coroutine(awaiter[c], queue, Own!finish(blocked_balance))
      BY <2>6 DEF select_next_coroutine, Own!select_next_coroutine, finish, Own!finish,
             unblocked, Own!unblocked, take_one, Own!take_one, graph_blocked,
             Own!graph_blocked
    <2> QED
      BY <2>1, <2>2, <2>5, <2>6 DEF InControl, Own!InControl, AtMain, Own!AtMain, OnTop,
             Own!OnTop, Executing, Own!Executing, Return, Own!Return, Owned, Own!Owned,
             forget_sleeping, Own!forget_sleeping
  <1>5. (\A x \in Frames(L) : Done(x)) => Lent!Next
    BY <1>1, <1>3 DEF Lent!Next, Lent!CoroutineStep, Owned, Lent!Owned, Executing, Lent!Executing
  <1>6. Own!Next
    BY <1>1, <1>4 DEF Own!Next, Own!CoroutineStep, Owned, Own!Owned, Executing, Own!Executing
  <1> QED BY <1>2, <1>5, <1>6

LEMMA DropMaps ==
  ASSUME NEW p, NEW d, Drop(p, d)
  PROVE  Next /\ ((\A x \in Frames({d}) : Done(x)) => Lent!Next) /\ Own!Next
  <1>1. d \in Coro /\ (p = Main \/ p \in Executing)
    BY Names DEF Drop, Owned, InControl, OnTop
  <1>2. Next
    BY <1>1 DEF Next, MainStep, CoroutineStep
  <1>3. ASSUME \A x \in Frames({d}) : Done(x) PROVE Lent!Drop(p, d)
    <2>1. Lent!MayDestroy({d})
      BY <1>3 DEF MayDestroy, Lent!MayDestroy, Frames, Lent!Frames, Done, Lent!Done, Live,
             Lent!Live, Drop
    <2>2. Lent!destroy({d}, at)
      BY DEF destroy, Lent!destroy, Frames, Lent!Frames, remove_handles, Lent!remove_handles,
             Drop
    <2> QED
      BY <2>1, <2>2 DEF InControl, Lent!InControl, AtMain, Lent!AtMain, OnTop, Lent!OnTop,
             Executing, Lent!Executing, Drop, Lent!Drop, Owned, Lent!Owned, schedulerVars,
             Lent!schedulerVars
  <1>4. Own!Drop(p, d)
    <2>1. Own!MayDestroy({d})
      BY DEF MayDestroy, Own!MayDestroy, Frames, Own!Frames, Done, Own!Done, Live, Own!Live, Drop,
             Own!Drop
    <2>2. Own!destroy({d}, at)
      BY DEF destroy, Own!destroy, Frames, Own!Frames, remove_handles, Own!remove_handles, Drop,
             Own!Drop
    <2> QED
      BY <2>1, <2>2 DEF InControl, Own!InControl, AtMain, Own!AtMain, OnTop, Own!OnTop, Executing,
             Own!Executing, Drop, Own!Drop, Owned, Own!Owned, schedulerVars, Own!schedulerVars
  <1>5. (\A x \in Frames({d}) : Done(x)) => Lent!Next
    BY <1>1, <1>3 DEF Lent!Next, Lent!MainStep, Lent!CoroutineStep, Executing, Lent!Executing
  <1>6. Own!Next
    BY <1>1, <1>4 DEF Own!Next, Own!MainStep, Own!CoroutineStep, Executing, Own!Executing
  <1> QED BY <1>2, <1>5, <1>6

LEMMA CurlMaps ==
  ASSUME \/ \E e \in Coro, k \in Codes : TransferEnds(e, k)
         \/ \E e \in Coro : CompleteSomething(e)
         \/ NothingToComplete
  PROVE  Next /\ Lent!Next /\ Own!Next
  <1>1. CurlStep
    BY DEF CurlStep
  <1>2. Lent!CurlStep
    BY DEF TransferEnds, Lent!TransferEnds, transfer_ends, Lent!transfer_ends, CompleteSomething,
           Lent!CompleteSomething, complete_something, Lent!complete_something, unblocked,
           Lent!unblocked, remove_handles, Lent!remove_handles, NothingToComplete,
           Lent!NothingToComplete, nothing_to_complete, Lent!nothing_to_complete, curlVars,
           Lent!curlVars, schedulerVars, Lent!schedulerVars, coroutineVars, Lent!coroutineVars,
           Lent!CurlStep
  <1>3. Own!CurlStep
    BY DEF TransferEnds, Own!TransferEnds, transfer_ends, Own!transfer_ends, CompleteSomething,
           Own!CompleteSomething, complete_something, Own!complete_something, unblocked,
           Own!unblocked, remove_handles, Own!remove_handles, NothingToComplete,
           Own!NothingToComplete, nothing_to_complete, Own!nothing_to_complete, curlVars,
           Own!curlVars, schedulerVars, Own!schedulerVars, coroutineVars, Own!coroutineVars,
           Own!CurlStep
  <1> QED BY <1>1, <1>2, <1>3 DEF Next, Lent!Next, Own!Next

----------------------------------------------------------------------------
(* A program's text does not change, and what the frames execute is lawful.  *)
LEMMA TextKept ==
  ASSUME UNCHANGED <<program, leftFirst>>
  PROVE  /\ \A n : Text(n)' = Text(n)
         /\ Functions' = Functions
         /\ \A f : Params(f)' = Params(f)
  <1>1. \A n : Text(n)' = Text(n)
    BY DEF Text, lazy_perform, await_all2, multiple_awaits, lots_of_coroutines, sooner, later
  <1>2. \A f : Params(f)' = Params(f)
    BY DEF Params
  <1> QED BY <1>1, <1>2 DEF Functions

LEMMA BodyLawful ==
  ASSUME TypeInv, NEW p \in Coro \cup {Main}, frame[p].fn \in Functions
  PROVE  /\ Lawful(Body(p), frame[p].fn)
         /\ DOMAIN Body(p) = 1..Len(Body(p)) /\ Len(Body(p)) \in Nat
         /\ frame[p].pc \in Nat \ {0} /\ frame[p].n \in Nat /\ frame[p].env \in Envs
         /\ frame[p].pc <= Len(Body(p)) + 1
  <1>1. /\ frame[p].n \in Nat /\ frame[p].pc \in Nat \ {0} /\ frame[p].env \in Envs
        /\ frame[p].pc <= Len(Body(p)) + 1
    BY DEF TypeInv, FrameType, FrameSet
  <1>2. Lawful(Body(p), frame[p].fn)
    BY <1>1, ProgramsLawful DEF TypeInv, TextLaw, Body
  <1> QED BY <1>1, <1>2 DEF Lawful

(* The instruction a frame in control is at.                                 *)
LEMMA AboutFacts ==
  ASSUME TypeInv, NEW p \in Coro \cup {Main}, NEW op, About(p, op)
  PROVE  /\ ~over /\ InControl(p) /\ (p = Main \/ (at[p] = "running" /\ Pending(p)))
         /\ frame[p].fn \in Functions /\ (p = Main <=> frame[p].fn = "main")
         /\ frame[p].pc \in DOMAIN Body(p)
         /\ Body(p)[frame[p].pc] = Instruction(p) /\ Instruction(p).op = op
         /\ IsInstruction(Instruction(p))
  <1>1. ~over /\ InControl(p) /\ frame[p].pc <= Len(Body(p)) /\ Instruction(p).op = op
    BY DEF About
  <1>2. /\ p = Main \/ (at[p] = "running" /\ Pending(p))
        /\ (p = Main /\ p \notin Coro) \/ (p # Main /\ p \in Coro)
    BY <1>1, Names, InControlOnTop DEF Pending
  <1>3. frame[p].fn \in Functions /\ (p = Main <=> frame[p].fn = "main")
    BY <1>2, ProgramsLawful DEF TypeInv, FrameType, TextLaw
  <1>4. frame[p].pc \in DOMAIN Body(p) /\ Lawful(Body(p), frame[p].fn)
    BY <1>1, <1>3, BodyLawful
  <1> QED BY <1>1, <1>2, <1>3, <1>4 DEF Instruction, Lawful

LEMMA MainText ==
  ASSUME TypeInv PROVE MainLaw(Body(Main)) /\ frame[Main].fn = "main" /\ "main" \in Functions
  <1>1. frame[Main].fn = "main" /\ "main" \in Functions
    BY ProgramsLawful DEF TypeInv, FrameType, TextLaw
  <1> QED BY <1>1, BodyLawful DEF Lawful

LEMMA CoroText ==
  ASSUME TypeInv, NEW p \in Coro, Pending(p)
  PROVE  /\ frame[p].fn \in Functions \ {"main"}
         /\ \A k \in DOMAIN Body(p) : IsInstruction(Body(p)[k]) /\ Body(p)[k].op # "get"
         /\ Params(frame[p].fn) = {} \/ \A k \in DOMAIN Body(p) : Body(p)[k].op = "await"
         /\ CallLaw(Body(p)) /\ AwaitLaw(Body(p), frame[p].fn) /\ DropLaw(Body(p)) /\ ThrowLaw(Body(p))
  <1>1. frame[p].fn \in Functions \ {"main"}
    BY DEF TypeInv, FrameType
  <1> QED BY <1>1, BodyLawful DEF Lawful

(* Only coroutines await, perform and throw, only main() reads with get().   *)
LEMMA WhoseInstruction ==
  ASSUME TypeInv, NEW p \in Coro \cup {Main}, NEW op, About(p, op)
  PROVE  /\ op \in {"await", "perform", "check", "retry"} => p \in Coro /\ Pending(p)
         /\ op = "get" => p = Main
  <1>1. /\ p = Main \/ Pending(p)
        /\ frame[p].pc \in DOMAIN Body(p) /\ Body(p)[frame[p].pc].op = op
    BY AboutFacts
  <1>2. p = Main => op \in {"call", "get", "drop"}
    BY <1>1, MainText DEF MainLaw
  <1>3. p # Main => op # "get"
    BY <1>1, CoroText
  <1> QED BY <1>1, <1>2, <1>3

(* What a frame knows of its callees stays true as long as it calls and      *)
(* drops nobody, whatever the others do: their ends only add results.        *)
Undisturbed(q) ==
  /\ Body(q)' = Body(q) /\ frame'[q].env = frame[q].env /\ frame'[q].fn = frame[q].fn
  /\ \A k \in DOMAIN Body(q) : Called(q, k)' <=> Called(q, k)
  /\ Owned(q)' = Owned(q) /\ refs'[q] = refs[q]
  /\ \A x \in Visible(q) : Done(x) => Done(x)'
  /\ \A x \in Owned(q) : Pending(x)' =>
       /\ Pending(x) /\ frame'[x].fn = frame[x].fn
       /\ \A y \in Params(frame[x].fn) : frame'[x].env[y] = frame[x].env[y]
  /\ \A x \in Owned(q) : Done(x)' /\ ~Done(x) =>
       Pending(x) /\ \A y \in Params(frame[x].fn) : at'[frame[x].env[y]] = "final"

LEMMA KinKept ==
  ASSUME NEW q \in Coro, Undisturbed(q), KinOf(q)
  PROVE  KinOf(q)'
  <1> USE DEF Undisturbed
  <1>1. \A k \in DOMAIN Body(q) : Callee(q, k)' = Callee(q, k)
    BY DEF Callee
  <1>2. \A k \in DOMAIN Body(q) : Called(q, k)' => IsCallee(q, k)'
    BY <1>1 DEF KinOf, IsCallee
  <1>3. \A j, k \in DOMAIN Body(q) :
          Called(q, j)' /\ Called(q, k)' /\ Callee(q, j)' = Callee(q, k)' => j = k
    BY <1>1 DEF KinOf
  <1>4. \A c \in Owned(q)' : \E k \in DOMAIN Body(q) : Called(q, k)' /\ c = Callee(q, k)'
    BY <1>1 DEF KinOf
  <1> QED BY <1>2, <1>3, <1>4 DEF KinOf

LEMMA ParamKept ==
  ASSUME UNCHANGED <<program, leftFirst>>, NEW q \in Coro, Undisturbed(q), ParamOf(q)
  PROVE  ParamOf(q)'
  BY TextKept DEF Undisturbed, ParamOf

(* What is lent is a callee of the lender.                                   *)
LEMMA LentIsCallee ==
  ASSUME TypeInv, program \in Uniform, NEW q \in Coro, Pending(q), KinOf(q),
         NEW k \in DOMAIN Body(q), Called(q, k), NEW x \in Params(Body(q)[k].fn)
  PROVE  x \in DOMAIN frame[q].env /\ frame[q].env[x] \in Owned(q)
  <1>1. frame[q].fn \in Functions \ {"main"}
    BY DEF TypeInv, FrameType
  <1>2. Lawful(Body(q), frame[q].fn) /\ frame[q].pc \in Nat \ {0} /\ DOMAIN Body(q) = 1..Len(Body(q))
        /\ Len(Body(q)) \in Nat
    BY <1>1, BodyLawful
  <1>3. k \in 1..(frame[q].pc - 1) /\ Body(q)[k].op = "call"
    BY DEF Called, CalledAt
  <1>4. CallLaw(Body(q)) /\ DropLaw(Body(q))
    BY <1>1, <1>2 DEF Lawful
  <1>5. x \in Body(q)[k].lends
    BY <1>3, <1>4 DEF CallLaw
  <1>6. PICK j \in 1..(k - 1) : Calls(Body(q), j, x)
    BY <1>3, <1>4, <1>5 DEF CallLaw
  <1>7. program # "return"
    BY DEF Params
  <1>8. j \in DOMAIN Body(q) /\ Called(q, j) /\ Body(q)[j].name = x
    <2>1. \A i \in DOMAIN Body(q) : Body(q)[i].op # "drop"
      BY <1>4, <1>7 DEF DropLaw
    <2>2. j \in DOMAIN Body(q) /\ Body(q)[j].op = "call" /\ Body(q)[j].name = x
      BY <1>6 DEF Calls
    <2>3. j \in 1..(frame[q].pc - 1)
      BY <1>2, <1>3, <1>6
    <2> QED BY <2>1, <2>2, <2>3 DEF Called, CalledAt, Drops
  <1> QED BY <1>8 DEF KinOf, IsCallee, Callee

LEMMA LentKept ==
  ASSUME TypeInv, program \in Uniform, UNCHANGED <<program, leftFirst>>,
         NEW q \in Coro, Pending(q), Undisturbed(q), KinOf(q), LentOf(q)
  PROVE  LentOf(q)'
  <1> SUFFICES ASSUME NEW k \in DOMAIN Body(q), Called(q, k), NEW x \in Params(Body(q)[k].fn)
               PROVE  /\ Pending(Callee(q, k))' => frame'[Callee(q, k)'].env[x] = frame'[q].env[x]
                      /\ Done(Callee(q, k))' => Done(frame[q].env[x])'
    BY TextKept DEF LentOf, Undisturbed
  <1>0. PICK c : c = Callee(q, k)
    OBVIOUS
  <1>1. Callee(q, k)' = c
    BY <1>0 DEF Callee, Undisturbed
  <1>2. c \in Owned(q) /\ (Pending(c) => frame[c].fn = Body(q)[k].fn)
    BY <1>0 DEF KinOf, IsCallee
  <1>3. /\ Pending(c) => frame[c].env[x] = frame[q].env[x]
        /\ Done(c) => Done(frame[q].env[x])
    BY <1>0 DEF LentOf
  <1>4. frame[q].env[x] \in Visible(q)
    BY LentIsCallee DEF Visible
  <1>5. Pending(c)' => frame'[c].env[x] = frame[q].env[x]
    BY <1>2, <1>3, TextKept DEF Undisturbed
  <1>6. PICK d : d = frame[q].env[x]
    OBVIOUS
  <1>7. Done(c)' => Done(d)'
    BY <1>2, <1>3, <1>4, <1>6 DEF Undisturbed, Done
  <1> QED BY <1>0, <1>1, <1>5, <1>6, <1>7 DEF Undisturbed, Pending, Done

(* What it has read stays so, and it may have read one thing more.           *)
ReadsNow(q, k, x) ==
  /\ x \in DOMAIN frame[q].env /\ frame[q].env[x] \in Visible(q)
  /\ Done(frame[q].env[x])
  /\ ~Body(q)[k].caught => frame[q].env[x] \notin threw

LEMMA ReadKept ==
  ASSUME NEW q \in Coro, Undisturbed(q), ReadOf(q),
         \A x \in Visible(q) : Done(x) /\ x \notin threw => x \notin threw',
         \A k \in DOMAIN Body(q), x \in Idents :
           HasRead(q, k, x)' => HasRead(q, k, x) \/ ReadsNow(q, k, x)
  PROVE  ReadOf(q)'
  <1> SUFFICES ASSUME NEW k \in DOMAIN Body(q), NEW x \in Idents, HasRead(q, k, x)'
               PROVE  /\ x \in DOMAIN frame'[q].env /\ frame'[q].env[x] \in Visible(q)'
                      /\ at'[frame'[q].env[x]] = "final"
                      /\ ~Body(q)[k].caught => frame'[q].env[x] \notin threw'
    BY DEF ReadOf, Undisturbed, Done
  <1>1. ReadsNow(q, k, x)
    BY DEF ReadOf, ReadsNow
  <1>2. Visible(q)' = Visible(q)
    BY DEF Visible, Undisturbed
  <1> QED BY <1>1, <1>2 DEF ReadsNow, Undisturbed, Done

(* Nothing begins or ends, and nothing changes hands.                        *)
SameStatus == \A x \in Coro : /\ at'[x] = "free" <=> at[x] = "free"
                              /\ at'[x] = "final" <=> at[x] = "final"

ClientInv == TypeInv /\ MainInv /\ UniformInv /\ AwaitsReadInv

LEMMA Steady ==
  ASSUME TypeOK, ClientInv, TypeInv', UNCHANGED <<program, leftFirst, threw, owner, refs>>, SameStatus,
         frame'[Main] = frame[Main],
         \A q \in Coro : frame'[q].fn = frame[q].fn /\ frame'[q].env = frame[q].env,
         \A q \in Coro : Pending(q) =>
           /\ Body(q)' = Body(q)
           /\ \A k \in DOMAIN Body(q) : Called(q, k)' <=> Called(q, k),
         program \in Uniform \ {"select"} =>
           \A q \in Coro : Pending(q) => \A k \in DOMAIN Body(q), x \in Idents :
             HasRead(q, k, x)' => HasRead(q, k, x) \/ ReadsNow(q, k, x)
  PROVE  ClientInv'
  <1>1. \A x \in Coro : (Pending(x)' <=> Pending(x)) /\ (Done(x)' <=> Done(x))
    BY DEF SameStatus, Pending, Done
  <1>2. \A q \in Coro \cup {Main} : Owned(q)' = Owned(q)
    BY DEF Owned
  <1>3. Body(Main)' = Body(Main)
    BY TextKept DEF Body
  <1>4. MainInv'
    <2>1. JustCalled' <=> JustCalled
      BY <1>3 DEF JustCalled
    <2>2. \A k : Callee(Main, k)' = Callee(Main, k)
      BY <1>3 DEF Callee
    <2>3. ASSUME NEW k, IsCallee(Main, k) PROVE IsCallee(Main, k)'
      <3>1. PICK c \in Coro : c = Callee(Main, k)
        BY <2>3 DEF IsCallee, Owned
      <3> QED BY <1>1, <1>2, <1>3, <2>2, <2>3, <3>1 DEF IsCallee
    <2> QED BY <1>2, <2>1, <2>2, <2>3 DEF ClientInv, MainInv
  <1>5. ASSUME NEW q \in Coro, Pending(q) PROVE Undisturbed(q)
    <2>1. Visible(q) \subseteq Coro /\ Owned(q) \subseteq Coro
      BY VisibleType DEF Owned
    <2> QED BY <1>1, <1>2, <1>5, <2>1 DEF Undisturbed
  <1>6. ASSUME program \in Uniform
        PROVE  KinInv' /\ ParentInv' /\ ParamInv' /\ LentInv'
    <2>1. KinInv /\ ParentInv /\ ParamInv /\ LentInv
      BY <1>6 DEF ClientInv, UniformInv
    <2>2. KinInv'
      BY <1>1, <1>5, <2>1, KinKept DEF KinInv
    <2>3. ParamInv'
      BY <1>1, <1>5, <2>1, ParamKept DEF ParamInv
    <2>4. LentInv'
      BY <1>1, <1>5, <1>6, <2>1, LentKept DEF LentInv, KinInv, ClientInv
    <2>5. ParentInv'
      BY <1>1, <2>1 DEF ParentInv, SameStatus
    <2> QED BY <2>2, <2>3, <2>4, <2>5
  <1>7. ASSUME program \in Uniform \ {"select"} PROVE ReadInv'
    <2>1. ReadInv
      BY <1>7 DEF ClientInv, AwaitsReadInv
    <2> QED BY <1>1, <1>5, <1>7, <2>1, ReadKept DEF ReadInv
  <1>8. Uniform' = Uniform
    BY DEF Uniform, Programs
  <1> QED BY <1>4, <1>6, <1>7, <1>8 DEF ClientInv, UniformInv, AwaitsReadInv

(* An instruction that neither calls nor drops leaves the callees alone, and *)
(* only an await adds to what has been read.                                 *)
LEMMA CalledStep ==
  ASSUME NEW B, NEW i \in Nat \ {0}, B[i].op \notin {"call", "drop"}, NEW k \in Nat
  PROVE  /\ CalledAt(B, i + 1, k) <=> CalledAt(B, i, k)
         /\ \A x : HasReadAt(B, i + 1, k, x) => HasReadAt(B, i, k, x) \/ (k = i /\ Awaits(B, i, x))
  <1>1. CalledAt(B, i + 1, k) <=> CalledAt(B, i, k)
    <2>1. k = i => ~CalledAt(B, i + 1, k) /\ ~CalledAt(B, i, k)
      BY DEF CalledAt
    <2>2. k # i => (k \in 1..(i + 1 - 1) <=> k \in 1..(i - 1))
      OBVIOUS
    <2>3. \A j \in (k + 1)..(i + 1 - 1) : j \in (k + 1)..(i - 1) \/ j = i
      OBVIOUS
    <2>4. \A j \in (k + 1)..(i - 1) : j \in (k + 1)..(i + 1 - 1)
      OBVIOUS
    <2>5. \A x : ~Drops(B, i, x)
      BY DEF Drops
    <2> QED BY <2>1, <2>2, <2>3, <2>4, <2>5 DEF CalledAt
  <1>2. ASSUME NEW x, HasReadAt(B, i + 1, k, x) PROVE HasReadAt(B, i, k, x) \/ (k = i /\ Awaits(B, i, x))
    BY <1>2 DEF HasReadAt
  <1> QED BY <1>1, <1>2

LEMMA Quiet ==
  ASSUME TypeOK, ClientInv, UNCHANGED <<program, leftFirst, frame, threw, owner, refs>>, SameStatus
  PROVE  ClientInv'
  <1>1. \A q \in Coro \cup {Main} : Body(q)' = Body(q)
    BY TextKept DEF Body
  <1>2. TypeInv'
    <2>1. \A x \in Coro : (Pending(x)' <=> Pending(x)) /\ (Done(x)' <=> Done(x))
      BY DEF SameStatus, Pending, Done
    <2>2. Envs' = Envs /\ Uniform' = Uniform /\ Programs' = Programs
      BY DEF Envs, Idents, Uniform, Programs
    <2> QED BY <1>1, <2>1, <2>2, TextKept DEF ClientInv, TypeInv, FrameType, FrameSet
  <1>3. \A q \in Coro : /\ \A k \in DOMAIN Body(q) : Called(q, k)' <=> Called(q, k)
                        /\ \A k, x : HasRead(q, k, x)' => HasRead(q, k, x)
    BY <1>1 DEF Called, HasRead
  <1> QED BY <1>1, <1>2, <1>3, Steady

(* p goes on behind an instruction that neither calls nor drops anything.    *)
LEMMA Advances ==
  ASSUME TypeOK, ClientInv, NEW p \in Coro, NEW op \in {"await", "perform", "check", "retry"},
         About(p, op), Advance(p), SameStatus,
         UNCHANGED <<program, leftFirst, threw, owner, refs>>,
         program \in Uniform \ {"select"} => \A x \in Idents :
           Awaits(Body(p), frame[p].pc, x) => ReadsNow(p, frame[p].pc, x)
  PROVE  ClientInv'
  <1> DEFINE i == frame[p].pc
  <1>1. /\ TypeInv /\ FrameType /\ frame' = [frame EXCEPT ![p].pc = i + 1]
        /\ frame \in [Coro \cup {Main} -> FrameSet]
    BY DEF ClientInv, TypeInv, FrameType, Advance
  <1>2. i \in DOMAIN Body(p) /\ Body(p)[i].op = op /\ Pending(p) /\ frame[p].fn \in Functions
    BY <1>1, AboutFacts, Names
  <1>3. i \in 1..Len(Body(p)) /\ Len(Body(p)) \in Nat /\ DOMAIN Body(p) = 1..Len(Body(p)) /\ i \in Nat
    BY <1>1, <1>2, BodyLawful
  <1>4. \A q \in Coro \cup {Main} :
          /\ frame'[q].fn = frame[q].fn /\ frame'[q].env = frame[q].env /\ frame'[q].n = frame[q].n
          /\ frame'[q].pc = IF q = p THEN i + 1 ELSE frame[q].pc
          /\ q # p => frame'[q] = frame[q]
    BY <1>1
  <1>5. \A q \in Coro \cup {Main} : Body(q)' = Body(q)
    BY <1>4, TextKept DEF Body
  <1>6. TypeInv'
    <2>1. \A x \in Coro : (Pending(x)' <=> Pending(x)) /\ (Done(x)' <=> Done(x))
      BY DEF SameStatus, Pending, Done
    <2>2. Envs' = Envs /\ Uniform' = Uniform /\ Programs' = Programs
      BY DEF Envs, Idents, Uniform, Programs
    <2>3. frame' \in [Coro \cup {Main} -> FrameSet]
      <3>1. [frame[p] EXCEPT !.pc = i + 1] \in FrameSet
        BY <1>1, <1>3 DEF FrameSet
      <3> QED BY <1>1, <3>1
    <2>4. \A q \in Coro \cup {Main} :
            frame'[q].fn \in Functions => frame'[q].pc <= Len(Body(q)) + 1
      BY <1>1, <1>3, <1>4 DEF FrameType
    <2> QED BY <1>1, <1>4, <1>5, <2>1, <2>2, <2>3, <2>4, TextKept, Names DEF TypeInv, FrameType, FrameSet
  <1>7. \A q \in Coro : q # p =>
          /\ \A k \in DOMAIN Body(q) : Called(q, k)' <=> Called(q, k)
          /\ \A k, x : HasRead(q, k, x)' => HasRead(q, k, x)
    BY <1>4, <1>5 DEF Called, HasRead
  <1>8. Body(p)[i].op \notin {"call", "drop"}
    BY <1>2
  <1>9. \A k \in DOMAIN Body(p) : Called(p, k)' <=> Called(p, k)
    BY <1>3, <1>4, <1>5, <1>8, CalledStep DEF Called
  <1>10. ASSUME program \in Uniform \ {"select"}, NEW k \in DOMAIN Body(p), NEW x \in Idents,
                HasRead(p, k, x)'
         PROVE  HasRead(p, k, x) \/ ReadsNow(p, k, x)
    <2>1. HasReadAt(Body(p), i + 1, k, x)
      BY <1>4, <1>5, <1>10 DEF HasRead
    <2>2. HasReadAt(Body(p), i, k, x) \/ (k = i /\ Awaits(Body(p), i, x))
      BY <1>3, <1>8, <2>1, CalledStep
    <2> QED BY <1>10, <2>2 DEF HasRead
  <1>11. frame'[Main] = frame[Main]
    BY <1>4, Names
  <1> QED BY <1>4, <1>5, <1>6, <1>7, <1>9, <1>10, <1>11, Steady

(* Another attempt: nothing in that body is about other coroutines.          *)
LEMMA Again ==
  ASSUME TypeOK, ClientInv, NEW p \in Coro \cup {Main}, PerformAgain(p)
  PROVE  ClientInv'
  <1>1. About(p, "retry") /\ TypeInv /\ frame[p].n > 1
    BY DEF PerformAgain, ClientInv
  <1>2. p \in Coro /\ Pending(p) /\ frame[p].pc \in DOMAIN Body(p)
        /\ Body(p)[frame[p].pc].op = "retry"
    BY <1>1, WhoseInstruction, AboutFacts
  <1>3. program = "return" /\ \A k \in DOMAIN Body(p) : Body(p)[k].op \in {"perform", "retry"}
    BY <1>1, <1>2, CoroText DEF ThrowLaw
  <1>4. /\ FrameType /\ frame' = [frame EXCEPT ![p].pc = 1, ![p].n = @ - 1]
        /\ UNCHANGED <<at, program, leftFirst, threw, owner, refs>>
    BY <1>1 DEF PerformAgain, TypeInv, vars, coroutineVars
  <1>5. frame[p].n \in Nat /\ frame \in [Coro \cup {Main} -> FrameSet] /\ Len(Body(p)) \in Nat
        /\ DOMAIN Body(p) = 1..Len(Body(p))
    BY <1>1, <1>2, <1>4, CoroText, BodyLawful DEF FrameType
  <1>6. [frame[p] EXCEPT !.pc = 1, !.n = @ - 1] \in FrameSet
    <2>1. PICK r \in FrameSet : r = frame[p]
      BY <1>5
    <2>2. r.n - 1 \in Nat
      BY <1>1, <1>5, <2>1
    <2>3. [r EXCEPT !.pc = 1] \in FrameSet
      BY DEF FrameSet
    <2>4. [[r EXCEPT !.pc = 1] EXCEPT !.n = r.n - 1] \in FrameSet
      BY <2>2, <2>3 DEF FrameSet
    <2> QED BY <2>1, <2>4
  <1>7. \A q \in Coro \cup {Main} :
          /\ frame'[q].fn = frame[q].fn /\ frame'[q].env = frame[q].env
          /\ q # p => frame'[q] = frame[q]
          /\ q = p => frame'[q].pc = 1
    BY <1>4, <1>5
  <1>8. \A q \in Coro \cup {Main} : Body(q)' = Body(q)
    <2>1. \A n, m : Text(n)' = Text(m)
      BY <1>3, <1>4, TextKept, TextFixed
    <2> QED BY <1>7, <2>1 DEF Body
  <1>9. TypeInv'
    <2>1. \A x \in Coro : (Pending(x)' <=> Pending(x)) /\ (Done(x)' <=> Done(x))
      BY <1>4 DEF Pending, Done
    <2>2. Envs' = Envs /\ Uniform' = Uniform /\ Programs' = Programs
      BY DEF Envs, Idents, Uniform, Programs
    <2>3. frame' \in [Coro \cup {Main} -> FrameSet]
      BY <1>4, <1>5, <1>6
    <2>4. \A q \in Coro \cup {Main} :
            frame'[q].fn \in Functions => frame'[q].pc <= Len(Body(q)) + 1
      BY <1>4, <1>5, <1>7 DEF FrameType
    <2> QED BY <1>1, <1>4, <1>7, <1>8, <2>1, <2>2, <2>3, <2>4, TextKept, Names
            DEF TypeInv, FrameType, FrameSet
  <1>10. \A q \in Coro : Pending(q) =>
           /\ \A k \in DOMAIN Body(q) : Called(q, k)' <=> Called(q, k)
           /\ \A k \in DOMAIN Body(q) : \A x : HasRead(q, k, x)' => HasRead(q, k, x)
    <2>1. \A k \in DOMAIN Body(p) :
            ~Called(p, k)' /\ ~Called(p, k) /\ \A x : ~HasRead(p, k, x)'
      BY <1>2, <1>3, <1>8 DEF HasRead, HasReadAt, Awaits, Called, CalledAt
    <2> QED BY <1>7, <1>8, <2>1 DEF Called, HasRead
  <1>11. SameStatus /\ frame'[Main] = frame[Main]
    BY <1>2, <1>4, <1>7, Names DEF SameStatus
  <1> QED BY <1>4, <1>7, <1>8, <1>9, <1>10, <1>11, Steady

----------------------------------------------------------------------------
(* A call: p gets the variable i.name, and c the parameters.                 *)
Spawns(p, c, i) ==
  /\ p # c /\ at[c] = "free" /\ at'[c] = "running" /\ owner'[c] = p
  /\ refs'[c] = Variables(p, i.lends)
  /\ Variables(p, i.moves \cup i.lends) \subseteq Coro
  /\ i.moves = {} => \A x \in Coro \ {c} : owner'[x] = owner[x]
  /\ \A x \in Coro \ {c} : at'[x] = at[x] /\ refs'[x] = refs[x]
  /\ \A x \in Coro \ {c} : owner'[x] = owner[x] \/ (owner'[x] = c /\ owner[x] = p)
  /\ frame'[p] = [frame[p] EXCEPT !.pc = @ + 1, !.env = bind(@, i.name, c)]
  /\ frame'[c] = [fn |-> i.fn, n |-> i.n, pc |-> 1,
                  env |-> [x \in i.moves \cup i.lends |-> frame[p].env[x]]]
  /\ \A q \in (Coro \cup {Main}) \ {p, c} : frame'[q] = frame[q]
  /\ frame' = [q \in Coro \cup {Main} |-> frame'[q]]

LEMMA CallSpawnsFrame ==
  ASSUME TypeOK, TypeInv, NEW p \in Coro \cup {Main}, DoCall(p)
  PROVE  \E c \in Coro : Spawns(p, c, Instruction(p))
  <1> DEFINE i == Instruction(p)
  <1>1. PICK c \in Coro :
          /\ at[c] = "free"
          /\ Call(p, c, Variables(p, i.moves), Variables(p, i.lends))
          /\ frame' = [frame EXCEPT
               ![p].pc = @ + 1,
               ![p].env = bind(@, i.name, c),
               ![c] = [fn |-> i.fn, n |-> i.n, pc |-> 1,
                       env |-> [x \in i.moves \cup i.lends |-> frame[p].env[x]]]]
    BY DEF DoCall
  <1>2. p # c
    BY <1>1, AboutFacts, Names DEF DoCall
  <1>3. frame \in [Coro \cup {Main} -> FrameSet]
    BY DEF TypeInv, FrameType
  <1>4. /\ frame'[p] = [frame[p] EXCEPT !.pc = @ + 1, !.env = bind(@, i.name, c)]
        /\ frame'[c] = [fn |-> i.fn, n |-> i.n, pc |-> 1,
                        env |-> [x \in i.moves \cup i.lends |-> frame[p].env[x]]]
        /\ \A q \in (Coro \cup {Main}) \ {p, c} : frame'[q] = frame[q]
        /\ frame' = [q \in Coro \cup {Main} |-> frame'[q]]
    BY <1>1, <1>2, <1>3
  <1>5. /\ at'[c] = "running" /\ owner'[c] = p /\ refs'[c] = Variables(p, i.lends)
        /\ \A x \in Coro \ {c} : at'[x] = at[x] /\ refs'[x] = refs[x]
        /\ \A x \in Coro \ {c} : owner'[x] = IF x \in Variables(p, i.moves) THEN c ELSE owner[x]
    BY <1>1 DEF Call, TypeOK
  <1>6. Variables(p, i.moves) \subseteq Owned(p) /\ Variables(p, i.lends) \subseteq Visible(p)
    BY <1>1 DEF Call
  <1>7. Variables(p, i.moves \cup i.lends) = Variables(p, i.moves) \cup Variables(p, i.lends)
    BY DEF Variables
  <1>8. Owned(p) \subseteq Coro /\ Visible(p) \subseteq Coro
    BY VisibleType DEF Owned, Visible
  <1>9. i.moves = {} => Variables(p, i.moves) = {}
    BY DEF Variables
  <1>10. \A x \in Variables(p, i.moves) : owner[x] = p
    BY <1>6 DEF Owned
  <1>11. Variables(p, i.moves \cup i.lends) \subseteq Coro
    BY <1>6, <1>7, <1>8
  <1>12. /\ i.moves = {} => \A x \in Coro \ {c} : owner'[x] = owner[x]
         /\ \A x \in Coro \ {c} : owner'[x] = owner[x] \/ (owner'[x] = c /\ owner[x] = p)
    BY <1>5, <1>9, <1>10
  <1> HIDE DEF i
  <1>13. Spawns(p, c, i)
    BY <1>1, <1>2, <1>4, <1>5, <1>11, <1>12, Zenon DEF Spawns
  <1> QED BY <1>13 DEF i

LEMMA SpawnedFrames ==
  ASSUME TypeInv, NEW p \in Coro \cup {Main}, NEW c \in Coro, NEW i, Spawns(p, c, i)
  PROVE  /\ frame'[p].fn = frame[p].fn /\ frame'[p].n = frame[p].n /\ frame'[p].pc = frame[p].pc + 1
         /\ frame'[p].env = bind(frame[p].env, i.name, c)
         /\ frame'[c].fn = i.fn /\ frame'[c].n = i.n /\ frame'[c].pc = 1
         /\ DOMAIN frame'[c].env = i.moves \cup i.lends
         /\ \A x \in i.moves \cup i.lends : frame'[c].env[x] = frame[p].env[x]
         /\ \A q \in (Coro \cup {Main}) \ {p, c} : frame'[q] = frame[q]
         /\ \A q \in (Coro \cup {Main}) \ {c} : frame'[q].fn = frame[q].fn
  <1>1. frame[p] \in FrameSet
    BY DEF TypeInv, FrameType
  <1>2. /\ frame'[p].fn = frame[p].fn /\ frame'[p].n = frame[p].n /\ frame'[p].pc = frame[p].pc + 1
        /\ frame'[p].env = bind(frame[p].env, i.name, c)
    BY <1>1 DEF Spawns, FrameSet
  <1>3. /\ frame'[c].fn = i.fn /\ frame'[c].n = i.n /\ frame'[c].pc = 1
        /\ frame'[c].env = [x \in i.moves \cup i.lends |-> frame[p].env[x]]
    BY DEF Spawns
  <1>4. \A q \in (Coro \cup {Main}) \ {p, c} : frame'[q] = frame[q]
    BY DEF Spawns
  <1> QED BY <1>2, <1>3, <1>4

LEMMA SpawnedType ==
  ASSUME TypeOK, ClientInv, UNCHANGED <<program, leftFirst, threw>>,
         NEW p \in Coro \cup {Main}, About(p, "call"), NEW c \in Coro, Spawns(p, c, Instruction(p))
  PROVE  /\ TypeInv' /\ Body(p)' = Body(p)
         /\ \A q \in (Coro \cup {Main}) \ {p, c} : Body(q)' = Body(q)
         /\ DOMAIN Body(c)' = 1..Len(Body(c)') /\ Len(Body(c)') \in Nat
  <1> DEFINE i == Instruction(p)
  <1>1. TypeInv /\ FrameType /\ frame \in [Coro \cup {Main} -> FrameSet]
    BY DEF ClientInv, TypeInv, FrameType
  <1>2. /\ IsCall(i) /\ frame[p].pc \in DOMAIN Body(p) /\ Body(p)[frame[p].pc] = i /\ i.op = "call"
        /\ frame[p].fn \in Functions
    BY <1>1, AboutFacts DEF IsInstruction
  <1>3. frame[p].pc \in 1..Len(Body(p)) /\ Len(Body(p)) \in Nat
    BY <1>1, <1>2, BodyLawful
  <1>4. PICK S \in SUBSET Idents : frame[p].env \in [S -> Coro]
    <2>1. frame[p] \in FrameSet
      BY <1>1
    <2>2. frame[p].env \in Envs
      BY <2>1 DEF FrameSet
    <2> QED BY <2>2 DEF Envs
  <1>5. bind(frame[p].env, i.name, c) \in [{i.name} \cup S -> Coro] /\ {i.name} \cup S \in SUBSET Idents
    BY <1>2, <1>4 DEF bind, IsCall
  <1>6. [x \in i.moves \cup i.lends |-> frame[p].env[x]] \in [i.moves \cup i.lends -> Coro]
        /\ i.moves \cup i.lends \in SUBSET Idents
    BY <1>2 DEF Spawns, Variables, IsCall
  <1>7. /\ bind(frame[p].env, i.name, c) \in Envs
        /\ [x \in i.moves \cup i.lends |-> frame[p].env[x]] \in Envs
    BY <1>5, <1>6 DEF Envs
  <1>8. /\ frame'[p].fn = frame[p].fn /\ frame'[p].n = frame[p].n /\ frame'[p].pc = frame[p].pc + 1
        /\ frame'[p].env = bind(frame[p].env, i.name, c)
        /\ frame'[c].fn = i.fn /\ frame'[c].n = i.n /\ frame'[c].pc = 1
        /\ frame'[c].env = [x \in i.moves \cup i.lends |-> frame[p].env[x]]
    <2>1. frame'[c].env = [x \in i.moves \cup i.lends |-> frame[p].env[x]]
      BY DEF Spawns
    <2> QED BY <1>1, <2>1, SpawnedFrames
  <1>9. frame'[p] \in FrameSet
    <2>1. PICK r \in FrameSet : r = frame[p]
      BY <1>1
    <2>2. r.pc + 1 \in Nat \ {0}
      BY <2>1, <1>3
    <2>3. [r EXCEPT !.pc = r.pc + 1] \in FrameSet
      BY <2>2 DEF FrameSet
    <2>4. [[r EXCEPT !.pc = r.pc + 1] EXCEPT !.env = bind(r.env, i.name, c)] \in FrameSet
      BY <1>7, <2>1, <2>3 DEF FrameSet
    <2> QED BY <2>1, <2>4 DEF Spawns
  <1>10. frame'[c] \in FrameSet
    BY <1>2, <1>7 DEF Spawns, FrameSet, IsCall
  <1>11. frame' \in [Coro \cup {Main} -> FrameSet]
    BY <1>1, <1>9, <1>10 DEF Spawns
  <1>12. /\ Body(p)' = Body(p) /\ Body(c)' = Text(i.n)[i.fn]
         /\ \A q \in (Coro \cup {Main}) \ {p, c} : Body(q)' = Body(q)
    BY <1>8, TextKept DEF Body, Spawns
  <1>18. DOMAIN Body(c)' = 1..Len(Body(c)') /\ Len(Body(c)') \in Nat
    <2>1. /\ DOMAIN Text(i.n)[i.fn] = 1..Len(Text(i.n)[i.fn])
          /\ Len(Text(i.n)[i.fn]) \in Nat
      BY <1>1, <1>2, ProgramsLawful DEF TypeInv, TextLaw, Lawful, IsCall
    <2> QED BY <1>12, <2>1
  <1>13. \A q \in Coro \cup {Main} :
           frame'[q].fn \in Functions => frame'[q].pc <= Len(Body(q)') + 1
    <2>1. Len(Text(i.n)[i.fn]) \in Nat
      BY <1>18, <1>12
    <2>2. frame'[p].pc <= Len(Body(p)') + 1
      BY <1>3, <1>8, <1>12
    <2>3. frame'[c].pc <= Len(Body(c)') + 1
      BY <1>8, <1>12, <2>1
    <2>4. ASSUME NEW q \in (Coro \cup {Main}) \ {p, c}, frame'[q].fn \in Functions
          PROVE  frame'[q].pc <= Len(Body(q)') + 1
      BY <1>1, <1>12, <2>4 DEF Spawns, FrameType
    <2> QED BY <2>2, <2>3, <2>4
  <1>14. frame'[Main].fn = "main"
    BY <1>1, <1>8, Names DEF Spawns, FrameType
  <1>15. \A q \in Coro : /\ Pending(q)' => frame'[q].fn \in Functions \ {"main"}
                         /\ Done(q)' => frame'[q].fn = "none"
    <2>2. \A q \in (Coro \cup {Main}) \ {p, c} : frame'[q] = frame[q]
      BY DEF Spawns
    <2>3. p # c /\ at'[c] = "running" /\ \A q \in Coro \ {c} : at'[q] = at[q]
      BY DEF Spawns
    <2>4. p \in Coro => Pending(p)
      BY <1>1, AboutFacts, Names
    <2>5. ASSUME NEW q \in Coro
          PROVE  /\ Pending(q)' => frame'[q].fn \in Functions \ {"main"}
                 /\ Done(q)' => frame'[q].fn = "none"
      <3>1. CASE q = c
        BY <1>2, <1>8, <2>3, <3>1 DEF Pending, Done, IsCall
      <3>2. CASE q = p
        BY <1>1, <1>8, <2>3, <2>4, <3>2 DEF Pending, Done, FrameType
      <3>3. CASE q \notin {p, c}
        BY <1>1, <2>2, <2>3, <3>3 DEF Pending, Done, FrameType
      <3> QED BY <3>1, <3>2, <3>3
    <2> QED BY <2>5
  <1>16. program \in Uniform => \A q \in Coro : "task" \notin DOMAIN frame'[q].env
    <2>1. ASSUME program \in Uniform PROVE i.moves = {} /\ "task" \notin i.lends /\ (p \in Coro => i.name # "task")
      <3>1. "task" \notin Params(i.fn)
        BY DEF Params
      <3>2. CASE p = Main
        BY <1>1, <1>2, <3>1, <3>2, MainText, Names DEF MainLaw
      <3>3. CASE p # Main
        <4>1. p \in Coro /\ Pending(p)
          BY <1>1, <3>3, AboutFacts
        <4> QED BY <1>1, <1>2, <2>1, <3>1, <4>1, CoroText DEF CallLaw
      <3> QED BY <3>2, <3>3
    <2>2. DOMAIN bind(frame[p].env, i.name, c) = {i.name} \cup DOMAIN frame[p].env
      BY DEF bind
    <2>3. DOMAIN frame'[c].env = i.moves \cup i.lends /\ DOMAIN frame'[p].env = {i.name} \cup DOMAIN frame[p].env
      BY <1>8, <2>2
    <2>4. \A q \in (Coro \cup {Main}) \ {p, c} : frame'[q] = frame[q]
      BY DEF Spawns
    <2>5. ASSUME program \in Uniform, NEW q \in Coro PROVE "task" \notin DOMAIN frame'[q].env
      <3>1. CASE q = c
        BY <2>1, <2>3, <2>5, <3>1
      <3>2. CASE q # c
        BY <1>1, <2>1, <2>3, <2>4, <2>5, <3>2 DEF FrameType
      <3> QED BY <3>1, <3>2
    <2> QED BY <2>5
  <1>17. Uniform' = Uniform /\ Programs' = Programs /\ Envs' = Envs
    BY DEF Uniform, Programs, Envs, Idents
  <1> QED BY <1>1, <1>11, <1>12, <1>13, <1>14, <1>15, <1>16, <1>17, <1>18, TextKept
          DEF TypeInv, FrameType, FrameSet

LEMMA CalledAfterCall ==
  ASSUME NEW B, NEW n \in Nat \ {0}, B[n].op = "call", NEW k \in Nat
  PROVE  /\ CalledAt(B, n + 1, k) <=> CalledAt(B, n, k) \/ k = n
         /\ \A x : HasReadAt(B, n + 1, k, x) => HasReadAt(B, n, k, x)
  <1>1. \A x : ~Drops(B, n, x) /\ ~Awaits(B, n, x)
    BY DEF Drops, Awaits
  <1>2. CalledAt(B, n + 1, n) /\ ~CalledAt(B, n, n)
    BY DEF CalledAt
  <1>3. ASSUME k # n PROVE CalledAt(B, n + 1, k) <=> CalledAt(B, n, k)
    <2>1. k \in 1..(n + 1 - 1) <=> k \in 1..(n - 1)
      BY <1>3
    <2>2. \A j \in (k + 1)..(n + 1 - 1) : j \in (k + 1)..(n - 1) \/ j = n
      OBVIOUS
    <2>3. \A j \in (k + 1)..(n - 1) : j \in (k + 1)..(n + 1 - 1)
      OBVIOUS
    <2> QED BY <1>1, <2>1, <2>2, <2>3 DEF CalledAt
  <1>4. ASSUME NEW x, HasReadAt(B, n + 1, k, x) PROVE HasReadAt(B, n, k, x)
    BY <1>1, <1>4 DEF HasReadAt
  <1> QED BY <1>2, <1>3, <1>4

(* Who owns what after a call that moves nothing.                            *)
LEMMA SpawnedOwners ==
  ASSUME TypeOK, FreeInv, NEW p \in Coro \cup {Main}, NEW c \in Coro, NEW i, Spawns(p, c, i)
  PROVE  /\ owner[c] = Null /\ Owned(c) = {}
         /\ p # Main => Owned(Main)' = Owned(Main)
         /\ i.moves = {} => /\ Owned(p)' = Owned(p) \cup {c}
                            /\ \A q \in (Coro \cup {Main}) \ {p} : Owned(q)' = Owned(q)
  <1>1. owner[c] = Null /\ Owned(c) = {}
    BY DEF FreeInv, Spawns, Owned
  <1>2. /\ owner'[c] = p /\ p # Null /\ \A q \in Coro \cup {Main} : q # Null
        /\ \A x \in Coro \ {c} : owner'[x] = owner[x] \/ (owner'[x] = c /\ owner[x] = p)
        /\ i.moves = {} => \A x \in Coro \ {c} : owner'[x] = owner[x]
    BY Names DEF Spawns
  <1>3. p # Main => Owned(Main)' = Owned(Main)
    BY <1>1, <1>2, Names DEF Owned
  <1>4. ASSUME i.moves = {} PROVE /\ Owned(p)' = Owned(p) \cup {c}
                                 /\ \A q \in (Coro \cup {Main}) \ {p} : Owned(q)' = Owned(q)
    BY <1>1, <1>2, <1>4 DEF Owned
  <1> QED BY <1>1, <1>3, <1>4

LEMMA SpawnedMain ==
  ASSUME TypeOK, ClientInv, FreeInv, UNCHANGED <<program, leftFirst, threw>>,
         NEW p \in Coro \cup {Main}, About(p, "call"), NEW c \in Coro, Spawns(p, c, Instruction(p))
  PROVE  MainInv'
  <1> DEFINE i == Instruction(p)
             n == frame[Main].pc
  <1>1. /\ TypeInv /\ MainInv /\ Body(Main)' = Body(Main) /\ IsCall(i)
        /\ Main \in (Coro \cup {Main}) \ {c} /\ Main \notin Coro
    BY SpawnedType, AboutFacts, Names DEF ClientInv, IsInstruction
  <1>2. /\ at'[c] = "running" /\ owner[c] = Null
        /\ \A x \in Coro \ {c} : at'[x] = at[x] /\ frame'[x].fn = frame[x].fn
    <2>1. \A x \in Coro \ {c} : frame'[x].fn = frame[x].fn
      BY <1>1, SpawnedFrames
    <2>2. at'[c] = "running" /\ \A x \in Coro \ {c} : at'[x] = at[x]
      BY DEF Spawns
    <2> QED BY <2>1, <2>2, SpawnedOwners
  <1>3. CASE p # Main
    <2>1. frame'[Main] = frame[Main] /\ Owned(Main)' = Owned(Main)
      BY <1>1, <1>3, SpawnedOwners, SpawnedFrames
    <2>2. JustCalled' <=> JustCalled
      BY <1>1, <2>1 DEF JustCalled
    <2>3. ASSUME NEW k, IsCallee(Main, k) PROVE IsCallee(Main, k)' /\ Callee(Main, k)' = Callee(Main, k)
      <3>1. PICK d \in Coro : d = Callee(Main, k) /\ owner[d] = Main
        BY <2>3 DEF IsCallee, Owned
      <3>2. Callee(Main, k)' = d
        BY <1>1, <2>1, <3>1 DEF Callee
      <3>3. d # c
        BY <1>2, <3>1, Names
      <3>4. Pending(d)' => Pending(d) /\ frame'[d].fn = frame[d].fn
        BY <1>2, <3>3 DEF Pending
      <3> QED BY <1>1, <2>1, <2>3, <3>1, <3>2, <3>4 DEF IsCallee
    <2>4. CASE JustCalled
      <3>1. PICK k : k = n - 1
        OBVIOUS
      <3>2. IsCallee(Main, k)' /\ Callee(Main, k)' = Callee(Main, k)
        BY <1>1, <2>3, <2>4, <3>1 DEF MainInv
      <3>3. k = frame'[Main].pc - 1
        BY <2>1, <3>1
      <3>4. \A d \in Owned(Main) : d = Callee(Main, k)
        BY <1>1, <3>1 DEF MainInv
      <3> QED BY <2>1, <2>2, <2>4, <3>2, <3>3, <3>4 DEF MainInv
    <2>5. CASE ~JustCalled
      BY <1>1, <2>1, <2>2, <2>5 DEF MainInv
    <2> QED BY <2>4, <2>5
  <1>4. CASE p = Main
    <2>1. /\ n \in DOMAIN Body(Main) /\ Body(Main)[n] = i /\ i.op = "call" /\ n \in Nat \ {0}
          /\ DOMAIN Body(Main) = 1..Len(Body(Main)) /\ MainLaw(Body(Main))
      BY <1>1, <1>4, AboutFacts, MainText, BodyLawful
    <2>2. ~JustCalled
      <3>1. ASSUME JustCalled PROVE n - 1 \in DOMAIN Body(Main) /\ Body(Main)[n - 1].op = "call"
        BY <2>1, <3>1 DEF JustCalled
      <3>2. ASSUME JustCalled PROVE Body(Main)[(n - 1) + 1].op # "call"
        BY <2>1, <3>1, <3>2 DEF MainLaw
      <3>3. (n - 1) + 1 = n
        BY <2>1
      <3> QED BY <2>1, <3>2, <3>3
    <2>3. Owned(Main) = {} /\ i.moves = {}
      BY <1>1, <2>1, <2>2 DEF MainInv, MainLaw
    <2>4. Owned(Main)' = {c}
      BY <1>4, <2>3, SpawnedOwners
    <2>5. /\ frame'[Main].pc = n + 1 /\ frame'[Main].env = bind(frame[Main].env, i.name, c)
          /\ frame'[c].fn = i.fn
      BY <1>1, <1>4, SpawnedFrames
    <2>6. i.name \in DOMAIN frame'[Main].env /\ frame'[Main].env[i.name] = c
      BY <2>5 DEF bind
    <2>7. PICK m \in Nat : m = n
      BY <2>1
    <2>8. frame'[Main].pc - 1 = m
      BY <2>5, <2>7
    <2>9. Callee(Main, m)' = c
      BY <1>1, <2>1, <2>6, <2>7 DEF Callee
    <2>10. IsCallee(Main, m)'
      BY <1>1, <2>1, <2>4, <2>5, <2>6, <2>7, <2>9 DEF IsCallee
    <2>11. JustCalled'
      BY <1>1, <2>1, <2>5, <2>7, <2>8 DEF JustCalled
    <2> QED BY <2>4, <2>8, <2>9, <2>10, <2>11 DEF MainInv
  <1> QED BY <1>3, <1>4

(* What the caller knows of the callees it had, ...                          *)
LEMMA CallerKeeps ==
  ASSUME TypeOK, ClientInv, FreeInv, UNCHANGED <<program, leftFirst, threw>>, program \in Uniform,
         NEW p \in Coro, About(p, "call"), NEW c \in Coro, Spawns(p, c, Instruction(p)),
         NEW k \in DOMAIN Body(p), Called(p, k)
  PROVE  /\ k # frame[p].pc /\ k < frame[p].pc /\ Body(p)[k].op = "call"
         /\ \A x \in {Body(p)[k].name} \cup Params(Body(p)[k].fn) :
              /\ x \in DOMAIN frame[p].env /\ x \in DOMAIN frame'[p].env
              /\ frame'[p].env[x] = frame[p].env[x]
              /\ frame[p].env[x] \in Owned(p)
  <1> DEFINE i == Instruction(p)
             n == frame[p].pc
  <1>1. /\ TypeInv /\ n \in DOMAIN Body(p) /\ Body(p)[n] = i /\ i.op = "call" /\ IsCall(i) /\ Pending(p)
        /\ frame[p].fn \in Functions /\ KinOf(p)
    BY AboutFacts, Names DEF ClientInv, IsInstruction, UniformInv, KinInv
  <1>2. /\ CallLaw(Body(p)) /\ n \in Nat \ {0} /\ DOMAIN Body(p) = 1..Len(Body(p)) /\ Len(Body(p)) \in Nat
    BY <1>1, CoroText, BodyLawful
  <1>3. k # n /\ k < n /\ Body(p)[k].op = "call"
    BY <1>2 DEF Called, CalledAt
  <1>4. \A j \in DOMAIN Body(p) : Calls(Body(p), j, i.name) => j = n
    BY <1>1, <1>2 DEF CallLaw
  <1>5. frame'[p].env = bind(frame[p].env, i.name, c)
    BY <1>1, SpawnedFrames
  <1>6. \A x \in DOMAIN frame[p].env : x # i.name =>
          x \in DOMAIN frame'[p].env /\ frame'[p].env[x] = frame[p].env[x]
    BY <1>5 DEF bind
  <1>7. /\ Body(p)[k].name # i.name /\ Body(p)[k].name \in DOMAIN frame[p].env
        /\ frame[p].env[Body(p)[k].name] \in Owned(p)
    BY <1>1, <1>3, <1>4 DEF KinOf, IsCallee, Callee, Calls
  <1>8. ASSUME NEW x \in Params(Body(p)[k].fn)
        PROVE  x # i.name /\ x \in DOMAIN frame[p].env /\ frame[p].env[x] \in Owned(p)
    <2>1. PICK j \in 1..(k - 1) : Calls(Body(p), j, x)
      BY <1>2, <1>3 DEF CallLaw
    <2>2. j \in DOMAIN Body(p) /\ j # n
      BY <1>3, <1>2, <2>1 DEF Calls
    <2> QED BY <1>1, <1>4, <2>1, <2>2, LentIsCallee
  <1> QED BY <1>3, <1>6, <1>7, <1>8

LEMMA CallerKin ==
  ASSUME TypeOK, ClientInv, FreeInv, UNCHANGED <<program, leftFirst, threw>>, program \in Uniform,
         NEW p \in Coro, About(p, "call"), NEW c \in Coro, Spawns(p, c, Instruction(p)),
         Instruction(p).moves = {}
  PROVE  KinOf(p)' /\ LentOf(p)'
  <1>1. PICK n : n = frame[p].pc
    OBVIOUS
  <1>2. PICK i : i = Instruction(p)
    OBVIOUS
  <1>3. /\ TypeInv /\ n \in DOMAIN Body(p) /\ Body(p)[n] = i /\ i.op = "call" /\ IsCall(i) /\ Pending(p)
        /\ frame[p].fn \in Functions /\ KinOf(p) /\ LentOf(p) /\ i.moves = {}
    BY <1>1, <1>2, AboutFacts, Names DEF ClientInv, IsInstruction, UniformInv, KinInv, LentInv
  <1>4. /\ CallLaw(Body(p)) /\ n \in Nat \ {0} /\ DOMAIN Body(p) = 1..Len(Body(p)) /\ Len(Body(p)) \in Nat
    BY <1>1, <1>3, CoroText, BodyLawful
  <1>5. /\ Body(p)' = Body(p) /\ frame'[p].pc = n + 1 /\ frame'[p].env = bind(frame[p].env, i.name, c)
        /\ frame'[c].fn = i.fn
    BY <1>1, <1>2, <1>3, SpawnedFrames, SpawnedType
  <1>6. \A k \in DOMAIN Body(p) : Called(p, k)' <=> Called(p, k) \/ k = n
    BY <1>1, <1>3, <1>4, <1>5, CalledAfterCall DEF Called
  <1>7. i.name \in DOMAIN frame'[p].env /\ frame'[p].env[i.name] = c
    BY <1>5 DEF bind
  <1>8. Owned(p)' = Owned(p) \cup {c} /\ c \notin Owned(p) /\ Owned(p) \subseteq Coro
    <2>1. owner[c] = Null /\ Owned(p)' = Owned(p) \cup {c}
      BY <1>2, <1>3, SpawnedOwners
    <2> QED BY <2>1, Names DEF Owned
  <1>9. Callee(p, n)' = c /\ IsCallee(p, n)'
    <2>1. Callee(p, n)' = c
      BY <1>3, <1>5, <1>7 DEF Callee
    <2> QED BY <1>3, <1>5, <1>7, <1>8, <2>1 DEF IsCallee
  <1>10. /\ at'[c] = "running"
         /\ \A x \in Coro \ {c} : at'[x] = at[x] /\ frame'[x].fn = frame[x].fn
    <2>1. \A x \in Coro \ {c} : frame'[x].fn = frame[x].fn
      BY <1>3, SpawnedFrames
    <2> QED BY <2>1 DEF Spawns
  <1>11. ASSUME NEW k \in DOMAIN Body(p), Called(p, k)
         PROVE  /\ k # n /\ Callee(p, k)' = Callee(p, k) /\ Callee(p, k) \in Owned(p)
                /\ IsCallee(p, k)'
    <2>1. /\ k # n /\ Body(p)[k].name \in DOMAIN frame'[p].env
          /\ frame'[p].env[Body(p)[k].name] = frame[p].env[Body(p)[k].name]
      BY <1>1, <1>11, CallerKeeps
    <2>2. PICK d : d = Callee(p, k)
      OBVIOUS
    <2>3. Callee(p, k)' = d
      BY <1>5, <2>1, <2>2 DEF Callee
    <2>4. d \in Owned(p) /\ (Pending(d) => frame[d].fn = Body(p)[k].fn)
      BY <1>3, <1>11, <2>2 DEF KinOf, IsCallee
    <2>5. Pending(d)' => frame'[d].fn = Body(p)[k].fn
      BY <1>8, <1>10, <2>4 DEF Pending
    <2>6. IsCallee(p, k)'
      BY <1>5, <1>8, <2>1, <2>3, <2>4, <2>5 DEF IsCallee
    <2> QED BY <2>1, <2>2, <2>3, <2>4, <2>6
  <1>12. KinOf(p)'
    <2>1. \A k \in DOMAIN Body(p) : Called(p, k)' => IsCallee(p, k)'
      BY <1>6, <1>9, <1>11
    <2>2. \A j, k \in DOMAIN Body(p) :
            Called(p, j)' /\ Called(p, k)' /\ Callee(p, j)' = Callee(p, k)' => j = k
      <3>1. \A j, k \in DOMAIN Body(p) :
              Called(p, j) /\ Called(p, k) /\ Callee(p, j) = Callee(p, k) => j = k
        BY <1>3 DEF KinOf
      <3>2. \A k \in DOMAIN Body(p) : Called(p, k) => Callee(p, k)' = Callee(p, k) /\ Callee(p, k) # c
        BY <1>8, <1>11
      <3> QED BY <1>6, <1>9, <3>1, <3>2
    <2>3. ASSUME NEW d \in Owned(p)' PROVE \E k \in DOMAIN Body(p) : Called(p, k)' /\ d = Callee(p, k)'
      <3>1. CASE d = c
        BY <1>3, <1>6, <1>9, <3>1
      <3>2. CASE d \in Owned(p)
        <4>1. PICK k \in DOMAIN Body(p) : Called(p, k) /\ d = Callee(p, k)
          BY <1>3, <3>2 DEF KinOf
        <4> QED BY <1>6, <1>11, <4>1
      <3> QED BY <1>8, <3>1, <3>2
    <2> QED BY <1>5, <2>1, <2>2, <2>3 DEF KinOf
  <1>13. LentOf(p)'
    <2>1. ASSUME NEW k \in DOMAIN Body(p), Called(p, k), NEW x \in Params(Body(p)[k].fn)
          PROVE  /\ Pending(Callee(p, k))' => frame'[Callee(p, k)'].env[x] = frame'[p].env[x]
                 /\ Done(Callee(p, k))' => at'[frame'[p].env[x]] = "final"
      <3>1. PICK d : d = Callee(p, k)
        OBVIOUS
      <3>2. Callee(p, k)' = d /\ d \in Owned(p) /\ d # c
        BY <1>8, <1>11, <2>1, <3>1
      <3>3. frame'[p].env[x] = frame[p].env[x] /\ frame[p].env[x] \in Owned(p)
        BY <2>1, CallerKeeps
      <3>4. /\ Pending(d) => frame[d].env[x] = frame[p].env[x]
            /\ Done(d) => Done(frame[p].env[x])
        BY <1>3, <2>1, <3>1 DEF LentOf
      <3>5. Pending(d) => d # p
        <4>1. Params(frame[p].fn) = {}
          BY <1>3, CoroText
        <4> QED BY <1>3, <1>11, <2>1, <3>1, <4>1 DEF KinOf, IsCallee
      <3>6. Pending(d)' => frame'[d].env[x] = frame[p].env[x]
        BY <1>2, <1>3, <1>8, <1>10, <3>2, <3>4, <3>5, SpawnedFrames DEF Pending
      <3>7. Done(d)' => at'[frame[p].env[x]] = "final"
        BY <1>8, <1>10, <3>2, <3>3, <3>4 DEF Done
      <3> QED BY <3>1, <3>2, <3>3, <3>6, <3>7 DEF Pending, Done
    <2>2. ASSUME NEW x \in Params(i.fn)
          PROVE  frame'[c].env[x] = frame'[p].env[x]
      <3>1. x \in i.lends
        BY <1>3, <1>4 DEF CallLaw
      <3>2. frame'[c].env[x] = frame[p].env[x]
        BY <1>2, <1>3, <3>1, SpawnedFrames
      <3>3. PICK j \in 1..(n - 1) : Calls(Body(p), j, x)
        BY <1>3, <1>4, <3>1 DEF CallLaw
      <3>4. j \in DOMAIN Body(p) /\ j # n /\ j \in 1..(n - 1)
        BY <1>4, <3>3 DEF Calls
      <3>5. x # i.name
        BY <1>3, <1>4, <3>3, <3>4 DEF CallLaw
      <3>6. program # "return"
        BY DEF Params
      <3>7. DropLaw(Body(p))
        BY <1>3, CoroText
      <3>8. \A m \in DOMAIN Body(p) : Body(p)[m].op # "drop"
        BY <3>6, <3>7 DEF DropLaw
      <3>9. Called(p, j)
        BY <1>1, <3>3, <3>4, <3>8 DEF Called, CalledAt, Drops, Calls
      <3>10. x \in DOMAIN frame[p].env
        BY <1>3, <3>3, <3>4, <3>9 DEF KinOf, IsCallee, Calls
      <3> QED BY <1>5, <3>2, <3>5, <3>10 DEF bind
    <2>3. /\ Pending(Callee(p, n))' => \A x \in Params(i.fn) : frame'[Callee(p, n)'].env[x] = frame'[p].env[x]
          /\ ~Done(Callee(p, n))'
      BY <1>9, <1>10, <2>2 DEF Done
    <2>4. \A f : Params(f)' = Params(f)
      BY TextKept
    <2> QED BY <1>3, <1>5, <1>6, <2>1, <2>3, <2>4 DEF LentOf, Done
  <1> QED BY <1>12, <1>13

LEMMA CallerReads ==
  ASSUME TypeOK, ClientInv, FreeInv, UNCHANGED <<program, leftFirst, threw>>,
         program \in Uniform \ {"select"},
         NEW p \in Coro, About(p, "call"), NEW c \in Coro, Spawns(p, c, Instruction(p)),
         Instruction(p).moves = {}
  PROVE  ReadOf(p)'
  <1>1. PICK n : n = frame[p].pc
    OBVIOUS
  <1>2. PICK i : i = Instruction(p)
    OBVIOUS
  <1>3. /\ TypeInv /\ n \in DOMAIN Body(p) /\ Body(p)[n] = i /\ i.op = "call" /\ IsCall(i) /\ Pending(p)
        /\ frame[p].fn \in Functions /\ ReadOf(p) /\ i.moves = {}
    BY <1>1, <1>2, AboutFacts, Names DEF ClientInv, IsInstruction, AwaitsReadInv, ReadInv
  <1>4. /\ AwaitLaw(Body(p), frame[p].fn) /\ n \in Nat \ {0} /\ DOMAIN Body(p) = 1..Len(Body(p))
        /\ Len(Body(p)) \in Nat
    BY <1>1, <1>3, CoroText, BodyLawful
  <1>5. /\ Body(p)' = Body(p) /\ frame'[p].pc = n + 1 /\ frame'[p].env = bind(frame[p].env, i.name, c)
    BY <1>1, <1>2, <1>3, SpawnedFrames, SpawnedType
  <1>6. /\ Visible(p) \subseteq Visible(p)' /\ Visible(p) \subseteq Coro
    <2>1. Owned(p)' = Owned(p) \cup {c}
      BY <1>2, <1>3, SpawnedOwners
    <2>2. refs'[p] = refs[p] /\ p # Main
      BY Names DEF Spawns
    <2> QED BY <2>1, <2>2, VisibleType DEF Visible
  <1> SUFFICES ASSUME NEW k \in DOMAIN Body(p), NEW x \in Idents, HasRead(p, k, x)'
               PROVE  /\ x \in DOMAIN frame'[p].env /\ frame'[p].env[x] \in Visible(p)'
                      /\ at'[frame'[p].env[x]] = "final"
                      /\ ~Body(p)[k].caught => frame'[p].env[x] \notin threw'
    BY <1>5 DEF ReadOf, Done
  <1>7. HasRead(p, k, x)
    <2>1. HasReadAt(Body(p), n + 1, k, x)
      BY <1>5 DEF HasRead
    <2>2. HasReadAt(Body(p), n, k, x)
      BY <1>3, <1>4, <2>1, CalledAfterCall
    <2> QED BY <1>1, <2>2 DEF HasRead
  <1>8. /\ x \in DOMAIN frame[p].env /\ frame[p].env[x] \in Visible(p) /\ Done(frame[p].env[x])
        /\ ~Body(p)[k].caught => frame[p].env[x] \notin threw
    BY <1>3, <1>7 DEF ReadOf
  <1>9. x # i.name
    <2>1. k < n /\ Awaits(Body(p), k, x)
      BY <1>1, <1>7 DEF HasRead, HasReadAt
    <2>2. \A j \in DOMAIN Body(p) : Calls(Body(p), j, x) => j < k
      <3>1. PICK y : /\ Body(p)[k].names = {y}
                     /\ \A j \in DOMAIN Body(p) : Calls(Body(p), j, y) => j < k
        BY <1>4, <2>1 DEF AwaitLaw, Awaits
      <3>2. y = x
        BY <2>1, <3>1 DEF Awaits
      <3> QED BY <3>1, <3>2
    <2> QED BY <1>3, <1>4, <2>1, <2>2 DEF Calls
  <1>10. frame'[p].env[x] = frame[p].env[x] /\ x \in DOMAIN frame'[p].env
    BY <1>5, <1>8, <1>9 DEF bind
  <1>11. frame[p].env[x] # c /\ \A d \in Coro \ {c} : at'[d] = at[d]
    BY <1>8 DEF Spawns, Done
  <1> QED BY <1>6, <1>8, <1>10, <1>11 DEF Done

LEMMA CallKeeps ==
  ASSUME TypeOK, ClientInv, FreeInv, NEW p \in Coro \cup {Main}, DoCall(p)
  PROVE  ClientInv'
  <1>1. About(p, "call") /\ UNCHANGED <<program, leftFirst, threw>>
    BY DEF DoCall
  <1>2. PICK i : i = Instruction(p)
    OBVIOUS
  <1>3. PICK c \in Coro : Spawns(p, c, Instruction(p))
    BY CallSpawnsFrame DEF ClientInv
  <1>4. /\ TypeInv' /\ MainInv' /\ Body(p)' = Body(p) /\ TypeInv /\ p # c
        /\ \A q \in (Coro \cup {Main}) \ {p, c} : Body(q)' = Body(q)
    <2>1. MainInv'
      BY <1>1, <1>3, SpawnedMain
    <2>2. TypeInv /\ p # c
      BY <1>3 DEF ClientInv, Spawns
    <2>3. /\ TypeInv' /\ Body(p)' = Body(p)
          /\ \A q \in (Coro \cup {Main}) \ {p, c} : Body(q)' = Body(q)
      BY <1>1, <1>3, SpawnedType
    <2> QED BY <2>1, <2>2, <2>3
  <1>5. /\ at'[c] = "running" /\ at[c] = "free" /\ owner'[c] = p /\ refs'[c] = Variables(p, i.lends)
        /\ \A x \in Coro \ {c} : at'[x] = at[x] /\ refs'[x] = refs[x]
    BY <1>2, <1>3 DEF Spawns
  <1>6. /\ owner[c] = Null /\ Owned(c) = {} /\ p # Null
    BY <1>3, SpawnedOwners, Names
  <1>7. ASSUME program \in Uniform
        PROVE  /\ i.moves = {} /\ i.lends = Params(i.fn) /\ IsCall(i)
               /\ p \in Coro => Params(frame[p].fn) = {} /\ Pending(p)
    <2>1. /\ IsCall(i) /\ frame[p].pc \in DOMAIN Body(p) /\ Body(p)[frame[p].pc] = i /\ i.op = "call"
      BY <1>1, <1>2, <1>4, AboutFacts DEF IsInstruction
    <2>2. CASE p = Main
      BY <1>4, <2>1, <2>2, MainText, Names DEF MainLaw
    <2>3. CASE p # Main
      <3>1. p \in Coro /\ Pending(p)
        BY <1>1, <1>4, <2>3, AboutFacts
      <3> QED BY <1>4, <1>7, <2>1, <3>1, CoroText DEF CallLaw
    <2> QED BY <2>2, <2>3
  <1>8. ASSUME program \in Uniform
        PROVE  /\ Owned(p)' = Owned(p) \cup {c} /\ Owned(c)' = {}
               /\ \A q \in (Coro \cup {Main}) \ {p} : Owned(q)' = Owned(q)
    BY <1>2, <1>3, <1>4, <1>6, <1>7, <1>8, SpawnedOwners
  <1>9. ASSUME program \in Uniform, NEW q \in Coro \ {p, c} PROVE Undisturbed(q)
    <2>1. frame'[q] = frame[q] /\ Body(q)' = Body(q)
      BY <1>3, <1>4, <1>9, SpawnedFrames
    <2>2. \A k \in DOMAIN Body(q) : Called(q, k)' <=> Called(q, k)
      BY <2>1 DEF Called
    <2>3. Owned(q)' = Owned(q) /\ refs'[q] = refs[q] /\ c \notin Owned(q)
      BY <1>5, <1>6, <1>8, <1>9, Names DEF Owned
    <2>4. \A x \in Visible(q) : Done(x) => Done(x)'
      BY <1>5, VisibleType DEF Done
    <2>5. ASSUME NEW x \in Owned(q), Pending(x)'
          PROVE  /\ Pending(x) /\ frame'[x].fn = frame[x].fn
                 /\ \A y \in Params(frame[x].fn) : frame'[x].env[y] = frame[x].env[y]
      <3>1. x \in Coro \ {c}
        BY <2>3 DEF Owned
      <3>2. Pending(x) /\ frame'[x].fn = frame[x].fn
        BY <1>3, <1>4, <1>5, <2>5, <3>1, SpawnedFrames DEF Pending
      <3>3. CASE x = p
        BY <1>7, <1>9, <3>1, <3>2, <3>3
      <3>4. CASE x # p
        BY <1>3, <1>4, <3>1, <3>2, <3>4, SpawnedFrames
      <3> QED BY <3>2, <3>3, <3>4
    <2>6. \A x \in Owned(q) : Done(x)' => Done(x)
      BY <1>5, <2>3 DEF Done, Owned
    <2> QED BY <2>1, <2>2, <2>3, <2>4, <2>5, <2>6 DEF Undisturbed
  <1>10. \A q \in Coro \ {p, c} : Pending(q)' => Pending(q)
    BY <1>5 DEF Pending
  <1>11. \A k \in DOMAIN Body(c)' : ~Called(c, k)' /\ \A x : ~HasRead(c, k, x)'
    <2>1. frame'[c].pc = 1
      BY <1>3, <1>4, SpawnedFrames
    <2>2. DOMAIN Body(c)' = 1..Len(Body(c)') /\ Len(Body(c)') \in Nat
      BY <1>1, <1>3, SpawnedType
    <2> QED BY <2>1, <2>2 DEF Called, CalledAt, HasRead, HasReadAt
  <1>12. ASSUME program \in Uniform PROVE KinInv'
    <2>1. KinOf(c)'
      BY <1>8, <1>11, <1>12 DEF KinOf
    <2>2. p \in Coro => KinOf(p)'
      BY <1>1, <1>2, <1>3, <1>7, <1>12, CallerKin
    <2>3. \A q \in Coro \ {p, c} : Pending(q) => KinOf(q)'
      BY <1>9, <1>12, KinKept DEF ClientInv, UniformInv, KinInv
    <2> QED BY <1>10, <2>1, <2>2, <2>3 DEF KinInv
  <1>13. ASSUME program \in Uniform PROVE LentInv'
    <2>1. LentOf(c)'
      BY <1>11 DEF LentOf
    <2>2. p \in Coro => LentOf(p)'
      BY <1>1, <1>2, <1>3, <1>7, <1>13, CallerKin
    <2>3. \A q \in Coro \ {p, c} : Pending(q) => LentOf(q)'
      BY <1>1, <1>9, <1>13, LentKept DEF ClientInv, UniformInv, KinInv, LentInv
    <2> QED BY <1>10, <2>1, <2>2, <2>3 DEF LentInv
  <1>14. ASSUME program \in Uniform PROVE ParamInv'
    <2>1. ParamOf(c)'
      <3>1. /\ frame'[c].fn = i.fn /\ DOMAIN frame'[c].env = i.lends
            /\ \A x \in i.lends : frame'[c].env[x] = frame[p].env[x]
        <4>1. i.moves \cup i.lends = i.lends
          BY <1>7, <1>14
        <4>2. /\ frame'[c].fn = i.fn /\ DOMAIN frame'[c].env = i.moves \cup i.lends
              /\ \A x \in i.moves \cup i.lends : frame'[c].env[x] = frame[p].env[x]
          BY <1>2, <1>3, <1>4, SpawnedFrames
        <4> QED BY <4>1, <4>2
      <3>2. \A x \in i.lends : frame[p].env[x] \in refs'[c]
        BY <1>5 DEF Variables
      <3>3. Params(i.fn)' = i.lends
        BY <1>1, <1>7, <1>14, TextKept
      <3> QED BY <3>1, <3>2, <3>3, <1>1, <1>7, <1>14, TextKept DEF ParamOf
    <2>2. p \in Coro => ParamOf(p)'
      <3>1. frame'[p].fn = frame[p].fn
        BY <1>3, <1>4, SpawnedFrames
      <3>2. p \in Coro => \A f : f = frame[p].fn => Params(f)' = {}
        BY <1>1, <1>7, <1>14, TextKept
      <3> QED BY <3>1, <3>2 DEF ParamOf
    <2>3. \A q \in Coro \ {p, c} : Pending(q) => ParamOf(q)'
      BY <1>1, <1>9, <1>14, ParamKept DEF ClientInv, UniformInv, ParamInv
    <2> QED BY <1>10, <2>1, <2>2, <2>3 DEF ParamInv
  <1>15. ASSUME program \in Uniform PROVE ParentInv'
    <2>1. ParentInv
      BY <1>15 DEF ClientInv, UniformInv
    <2>2. \A x \in Coro \ {c} : owner'[x] = owner[x]
      BY <1>2, <1>3, <1>7, <1>15 DEF Spawns
    <2>3. \A x \in Coro : Pending(x) => Pending(x)'
      BY <1>5 DEF Pending
    <2>4. p \in Coro => Pending(p)'
      BY <1>7, <1>15, <2>3
    <2>5. ASSUME NEW x \in Coro
          PROVE  /\ at'[x] # "free" => owner'[x] # Null
                 /\ owner'[x] \in Coro => at'[owner'[x]] \notin {"free", "final"}
      <3>1. CASE x = c
        BY <1>5, <1>6, <2>4, <3>1 DEF Pending
      <3>2. CASE x # c
        BY <1>5, <2>1, <2>2, <2>3, <3>2 DEF ParentInv, Pending
      <3> QED BY <3>1, <3>2
    <2> QED BY <2>5 DEF ParentInv, Pending
  <1>16. ASSUME program \in Uniform \ {"select"} PROVE ReadInv'
    <2>1. ReadOf(c)'
      BY <1>11 DEF ReadOf
    <2>2. p \in Coro => ReadOf(p)'
      BY <1>1, <1>2, <1>3, <1>7, <1>16, CallerReads
    <2>3. ASSUME NEW q \in Coro \ {p, c}, Pending(q) PROVE ReadOf(q)'
      <3>1. Undisturbed(q) /\ ReadOf(q)
        BY <1>9, <1>16, <2>3 DEF ClientInv, AwaitsReadInv, ReadInv
      <3>2. \A k \in DOMAIN Body(q), x \in Idents : HasRead(q, k, x)' => HasRead(q, k, x)
        <4>1. frame'[q] = frame[q] /\ Body(q)' = Body(q)
          BY <1>3, <1>4, <2>3, SpawnedFrames
        <4> QED BY <4>1 DEF HasRead
      <3> QED BY <1>1, <3>1, <3>2, ReadKept
    <2> QED BY <1>10, <2>1, <2>2, <2>3 DEF ReadInv
  <1>17. Uniform' = Uniform
    BY DEF Uniform, Programs
  <1> QED BY <1>1, <1>4, <1>12, <1>13, <1>14, <1>15, <1>16, <1>17 DEF ClientInv, UniformInv, AwaitsReadInv

----------------------------------------------------------------------------
(* Promises that go: what has ended owns nothing any more.                   *)
LEMMA FramesOfDone ==
  ASSUME ParentInv, NEW D \in SUBSET Coro, \A d \in D : Done(d)
  PROVE  Frames(D) = D
  <1>1. \A x \in Coro : owner[x] \in D => x \in D
    BY DEF ParentInv, Pending, Done
  <1>2. Frames(D) \subseteq D
    BY <1>1 DEF Frames
  <1> QED BY <1>2, FramesLeast

LEMMA MainFinds ==
  ASSUME TypeOK, TypeInv, MainInv, FreeInv, AllDoneInMain,
         NEW op \in {"get", "drop"}, About(Main, op)
  PROVE  LET d == frame[Main].env[Instruction(Main).name] IN
         /\ d \in Owned(Main) /\ Done(d) /\ Owned(Main) = {d}
         /\ \A c \in Coro : ~Pending(c)
         /\ op = "drop" => program \notin Uncaught
         /\ op = "get" => (Instruction(Main).caught <=> program = "exception")
  <1>1. PICK n : n = frame[Main].pc
    OBVIOUS
  <1>2. /\ n \in DOMAIN Body(Main) /\ Body(Main)[n] = Instruction(Main) /\ Body(Main)[n].op = op
        /\ MainLaw(Body(Main)) /\ n \in Nat \ {0} /\ frame[Main].fn \in Functions
    BY <1>1, AboutFacts, MainText, BodyLawful
  <1>3. n > 1 /\ Calls(Body(Main), n - 1, Body(Main)[n].name)
    BY <1>2 DEF MainLaw
  <1>4. JustCalled /\ Callee(Main, n - 1) = frame[Main].env[Instruction(Main).name]
    BY <1>1, <1>2, <1>3 DEF JustCalled, Calls, Callee
  <1>5. PICK d : d = frame[Main].env[Instruction(Main).name]
    OBVIOUS
  <1>6. d \in Owned(Main) /\ Owned(Main) = {d}
    BY <1>1, <1>4, <1>5 DEF MainInv, IsCallee
  <1>7. AtMain
    BY AboutFacts, Names DEF InControl
  <1>8. d \in Coro /\ at[d] # "free"
    BY <1>6, Names DEF FreeInv, Owned
  <1>9. \A c \in Coro : ~Pending(c)
    BY <1>7 DEF AllDoneInMain, Live, Pending, Done
  <1>10. Done(d)
    BY <1>8, <1>9 DEF Pending, Done
  <1>11. /\ op = "drop" => program \notin Uncaught
         /\ op = "get" => (Instruction(Main).caught <=> program = "exception")
    BY <1>2 DEF MainLaw
  <1> QED BY <1>5, <1>6, <1>9, <1>10, <1>11

(* main() lets go of what it holds when everything has ended.                *)
LEMMA MainLetsGo ==
  ASSUME TypeOK, ClientInv, FreeInv, AllDoneInMain, UNCHANGED <<program, leftFirst>>,
         NEW op \in {"get", "drop"}, About(Main, op),
         Drop(Main, frame[Main].env[Instruction(Main).name]), Advance(Main)
  PROVE  ClientInv'
  <1>1. PICK n : n = frame[Main].pc
    OBVIOUS
  <1>2. PICK d : d = frame[Main].env[Instruction(Main).name]
    OBVIOUS
  <1>3. /\ TypeInv /\ MainInv /\ frame \in [Coro \cup {Main} -> FrameSet]
        /\ frame' = [frame EXCEPT ![Main].pc = n + 1]
    BY <1>1 DEF ClientInv, TypeInv, FrameType, Advance
  <1>4. d \in Owned(Main) /\ Owned(Main) = {d} /\ \A c \in Coro : ~Pending(c)
    BY <1>2, <1>3, MainFinds
  <1>5. /\ n \in DOMAIN Body(Main) /\ Body(Main)[n].op = op /\ frame[Main].fn \in Functions
        /\ DOMAIN Body(Main) = 1..Len(Body(Main)) /\ Len(Body(Main)) \in Nat /\ n \in Nat \ {0}
    BY <1>1, <1>3, AboutFacts, BodyLawful
  <1>6. /\ \A q \in Coro : frame'[q] = frame[q]
        /\ frame'[Main].fn = frame[Main].fn /\ frame'[Main].n = frame[Main].n
        /\ frame'[Main].env = frame[Main].env /\ frame'[Main].pc = n + 1
    <2>1. frame[Main] \in FrameSet
      BY <1>3
    <2> QED BY <1>3, <2>1, Names DEF FrameSet
  <1>7. \A q \in Coro \cup {Main} : Body(q)' = Body(q)
    BY <1>6, TextKept DEF Body
  <1>8. PICK gone : gone = Frames({d})
    OBVIOUS
  <1>9. /\ d \in gone /\ gone \subseteq Coro /\ d \in Coro
        /\ \A x \in Coro : /\ at'[x] = IF x \in gone THEN "free" ELSE at[x]
                           /\ owner'[x] = IF x \in gone THEN Null ELSE owner[x]
    <2>1. d \in Coro /\ {d} \in SUBSET Coro
      BY <1>4 DEF Owned
    <2>2. d \in gone /\ gone \subseteq Coro
      BY <1>8, <2>1, FramesLeast
    <2> QED BY <1>2, <1>8, <2>1, <2>2 DEF Drop, destroy
  <1>10. \A c \in Coro : ~Pending(c)' /\ (Done(c)' => Done(c))
    BY <1>4, <1>9 DEF Pending, Done
  <1>11. TypeInv'
    <2>1. Envs' = Envs /\ Uniform' = Uniform /\ Programs' = Programs
      BY DEF Envs, Idents, Uniform, Programs
    <2>2. frame' \in [Coro \cup {Main} -> FrameSet]
      <3>1. PICK r \in FrameSet : r = frame[Main]
        BY <1>3
      <3>2. [r EXCEPT !.pc = n + 1] \in FrameSet
        BY <1>5 DEF FrameSet
      <3>3. frame' = [frame EXCEPT ![Main] = [r EXCEPT !.pc = n + 1]]
        BY <1>3, <3>1
      <3> QED BY <1>3, <3>2, <3>3
    <2>3. \A q \in Coro \cup {Main} :
            frame'[q].fn \in Functions => frame'[q].pc <= Len(Body(q)) + 1
      BY <1>3, <1>5, <1>6 DEF TypeInv, FrameType
    <2> QED BY <1>3, <1>6, <1>7, <1>10, <2>1, <2>2, <2>3, TextKept, Names
            DEF TypeInv, FrameType, FrameSet
  <1>12. Owned(Main)' = {}
    BY <1>4, <1>9, Names DEF Owned
  <1>13. ~JustCalled'
    <2>1. frame'[Main].pc - 1 = n
      BY <1>5, <1>6
    <2> QED BY <1>5, <1>7, <2>1 DEF JustCalled
  <1>14. MainInv'
    BY <1>12, <1>13 DEF MainInv
  <1>15. KinInv' /\ ParamInv' /\ LentInv' /\ ReadInv'
    BY <1>10 DEF KinInv, ParamInv, LentInv, ReadInv
  <1>16. program \in Uniform => ParentInv'
    BY <1>4, <1>9, Names DEF ParentInv, ClientInv, UniformInv
  <1>17. Uniform' = Uniform
    BY DEF Uniform, Programs
  <1> QED BY <1>11, <1>14, <1>15, <1>16, <1>17 DEF ClientInv, UniformInv, AwaitsReadInv

(* Behind a drop its variable is nobody's.                                   *)
LEMMA CalledAfterDrop ==
  ASSUME NEW B, NEW n \in Nat \ {0}, B[n].op = "drop", n \in DOMAIN B, NEW k \in Nat
  PROVE  /\ CalledAt(B, n + 1, k) <=> CalledAt(B, n, k) /\ B[k].name # B[n].name
         /\ \A x : HasReadAt(B, n + 1, k, x) => HasReadAt(B, n, k, x) /\ x # B[n].name
  <1>1. \A x : (Drops(B, n, x) <=> x = B[n].name) /\ ~Awaits(B, n, x)
    BY DEF Drops, Awaits
  <1>2. ~CalledAt(B, n + 1, n) /\ ~CalledAt(B, n, n)
    BY DEF CalledAt
  <1>3. ASSUME k # n PROVE CalledAt(B, n + 1, k) <=> CalledAt(B, n, k) /\ B[k].name # B[n].name
    <2>1. k \in 1..(n + 1 - 1) <=> k \in 1..(n - 1)
      BY <1>3
    <2>2. \A j \in (k + 1)..(n + 1 - 1) : j \in (k + 1)..(n - 1) \/ j = n
      OBVIOUS
    <2>3. \A j \in (k + 1)..(n - 1) : j \in (k + 1)..(n + 1 - 1)
      OBVIOUS
    <2>4. k \in 1..(n - 1) => n \in (k + 1)..(n + 1 - 1)
      OBVIOUS
    <2> QED BY <1>1, <2>1, <2>2, <2>3, <2>4 DEF CalledAt
  <1>4. ASSUME NEW x, HasReadAt(B, n + 1, k, x) PROVE HasReadAt(B, n, k, x) /\ x # B[n].name
    <2>1. k < n + 1 /\ Awaits(B, k, x) /\ \A j \in (k + 1)..(n + 1 - 1) : ~Drops(B, j, x)
      BY <1>4 DEF HasReadAt
    <2>2. k # n
      BY <1>1, <2>1
    <2>3. n \in (k + 1)..(n + 1 - 1)
      BY <2>1, <2>2
    <2> QED BY <1>1, <2>1, <2>2, <2>3 DEF HasReadAt
  <1> QED BY <1>2, <1>3, <1>4

(* What was awaited was called, and is one's own unless it was lent.         *)
LEMMA ReadWasCalled ==
  ASSUME TypeInv, program \in Uniform \ {"select"}, NEW p \in Coro, Pending(p),
         NEW k \in DOMAIN Body(p), NEW x \in Idents, HasRead(p, k, x)
  PROVE  \/ x \in Params(frame[p].fn)
         \/ \E j \in DOMAIN Body(p) : Called(p, j) /\ Body(p)[j].name = x
  <1>1. /\ AwaitLaw(Body(p), frame[p].fn) /\ frame[p].pc \in Nat \ {0}
        /\ DOMAIN Body(p) = 1..Len(Body(p)) /\ Len(Body(p)) \in Nat
    BY CoroText, BodyLawful
  <1>2. /\ k < frame[p].pc /\ Awaits(Body(p), k, x)
        /\ \A j \in (k + 1)..(frame[p].pc - 1) : ~Drops(Body(p), j, x)
    BY DEF HasRead, HasReadAt
  <1>3. /\ \A j \in DOMAIN Body(p) : Drops(Body(p), j, x) => j > k
        /\ x \in Params(frame[p].fn) \/ \E j \in 1..(k - 1) : Calls(Body(p), j, x)
    <2>1. PICK y : /\ Body(p)[k].names = {y}
                   /\ \A j \in DOMAIN Body(p) : Drops(Body(p), j, y) => j > k
                   /\ y \in Params(frame[p].fn) \/ \E j \in 1..(k - 1) : Calls(Body(p), j, y)
      BY <1>1, <1>2 DEF AwaitLaw, Awaits
    <2>2. y = x
      BY <1>2, <2>1 DEF Awaits
    <2> QED BY <2>1, <2>2
  <1>4. ASSUME NEW j \in 1..(k - 1), Calls(Body(p), j, x)
        PROVE  j \in DOMAIN Body(p) /\ Called(p, j) /\ Body(p)[j].name = x
    <2>1. \A m \in (j + 1)..(frame[p].pc - 1) : ~Drops(Body(p), m, x)
      BY <1>1, <1>2, <1>3 DEF Drops
    <2> QED BY <1>1, <1>2, <1>4, <2>1 DEF Called, CalledAt, Calls
  <1> QED BY <1>3, <1>4

(* What a coroutine drops it has read.                                       *)
LEMMA DropsWhatWasRead ==
  ASSUME TypeOK, ClientInv, NEW p \in Coro, About(p, "drop")
  PROVE  LET n == frame[p].pc
             x == Instruction(p).name
             d == frame[p].env[x]
         IN /\ program = "return" /\ Pending(p)
            /\ x \in DOMAIN frame[p].env /\ d \in Owned(p) /\ Done(d) /\ d \notin threw
            /\ \E i \in DOMAIN Body(p) : Called(p, i) /\ Callee(p, i) = d /\ Body(p)[i].name = x
  <1>1. PICK n : n = frame[p].pc
    OBVIOUS
  <1>2. PICK x : x = Instruction(p).name
    OBVIOUS
  <1>3. /\ TypeInv /\ n \in DOMAIN Body(p) /\ Body(p)[n].op = "drop" /\ Body(p)[n].name = x
        /\ x \in Idents /\ Pending(p) /\ frame[p].fn \in Functions
    BY <1>1, <1>2, AboutFacts, Names DEF ClientInv, IsInstruction
  <1>4. /\ DropLaw(Body(p)) /\ AwaitLaw(Body(p), frame[p].fn) /\ DOMAIN Body(p) = 1..Len(Body(p))
        /\ Len(Body(p)) \in Nat /\ n \in Nat \ {0}
    BY <1>1, <1>3, CoroText, BodyLawful
  <1>5. /\ program = "return"
        /\ \A j \in DOMAIN Body(p) : Drops(Body(p), j, x) => j = n
    BY <1>3, <1>4 DEF DropLaw
  <1>6. PICK i \in 1..(n - 1), j \in 1..(n - 1) : Calls(Body(p), i, x) /\ Awaits(Body(p), j, x)
    BY <1>3, <1>4 DEF DropLaw
  <1>7. i \in DOMAIN Body(p) /\ j \in DOMAIN Body(p) /\ i < n /\ j < n
    BY <1>4, <1>6 DEF Calls, Awaits
  <1>8. HasRead(p, j, x)
    BY <1>1, <1>4, <1>5, <1>6, <1>7 DEF HasRead, HasReadAt, Drops
  <1>9. Called(p, i) /\ Body(p)[i].name = x
    BY <1>1, <1>4, <1>5, <1>6, <1>7 DEF Called, CalledAt, Drops, Calls
  <1>10. program \in Uniform \ {"select"} /\ program \in Uncaught /\ KinOf(p) /\ ReadOf(p)
    <2>1. program \in Uniform \ {"select"} /\ program \in Uncaught
      BY <1>5 DEF Uniform, Programs, Uncaught
    <2> QED BY <1>3, <2>1 DEF ClientInv, UniformInv, AwaitsReadInv, KinInv, ReadInv
  <1>11. ~Body(p)[j].caught
    BY <1>4, <1>6, <1>7, <1>10 DEF AwaitLaw, Awaits
  <1>12. Done(frame[p].env[x]) /\ frame[p].env[x] \notin threw /\ x \in DOMAIN frame[p].env
    BY <1>3, <1>7, <1>8, <1>10, <1>11 DEF ReadOf
  <1>13. Callee(p, i) = frame[p].env[x] /\ frame[p].env[x] \in Owned(p)
    BY <1>7, <1>9, <1>10 DEF KinOf, IsCallee, Callee
  <1> QED BY <1>2, <1>3, <1>5, <1>7, <1>9, <1>12, <1>13

(* The coroutine that drops d, which has ended, and the others.              *)
Forgets(p, d) ==
  /\ at[d] = "final" /\ at'[d] = "free" /\ owner'[d] = Null
  /\ \A x \in Coro \ {d} : at'[x] = at[x] /\ owner'[x] = owner[x]
  /\ \A x \in Coro : Pending(x) => refs'[x] = refs[x] /\ d \notin refs[x]
  /\ frame'[p].pc = frame[p].pc + 1
  /\ \A q \in Coro \cup {Main} :
       /\ frame'[q].fn = frame[q].fn /\ frame'[q].n = frame[q].n /\ frame'[q].env = frame[q].env
       /\ q # p => frame'[q] = frame[q]
       /\ Body(q)' = Body(q)
       /\ q # p => Owned(q)' = Owned(q) /\ d \notin Owned(q)
  /\ Owned(p)' = Owned(p) \ {d}
  /\ threw' \subseteq threw

LEMMA DropForgets ==
  ASSUME TypeOK, ClientInv, NEW p \in Coro, DoDrop(p)
  PROVE  Forgets(p, frame[p].env[Instruction(p).name])
  <1>1. PICK d : d = frame[p].env[Instruction(p).name]
    OBVIOUS
  <1>2. /\ About(p, "drop") /\ Drop(p, d) /\ Advance(p) /\ UNCHANGED <<program, leftFirst>>
        /\ threw' = {c \in threw : at'[c] # "free"}
    BY <1>1 DEF DoDrop
  <1>3. program = "return" /\ d \in Owned(p) /\ Done(d) /\ d \in Coro /\ owner[d] = p
    BY <1>1, <1>2, DropsWhatWasRead DEF Owned
  <1>4. ParentInv /\ TypeInv /\ frame \in [Coro \cup {Main} -> FrameSet]
    BY <1>3 DEF ClientInv, UniformInv, Uniform, Programs, TypeInv, FrameType
  <1>5. Frames({d}) = {d}
    BY <1>3, <1>4, FramesOfDone
  <1>6. MayDestroy({d}) /\ destroy({d}, at)
    BY <1>2 DEF Drop
  <1>7. /\ at' = [x \in Coro |-> IF x \in {d} THEN "free" ELSE at[x]]
        /\ owner' = [x \in Coro |-> IF x \in {d} THEN Null ELSE owner[x]]
        /\ refs' = [x \in Coro |-> IF x \in {d} \/ at[x] = "final" THEN {} ELSE refs[x]]
    BY <1>5, <1>6 DEF destroy
  <1>8. \A x \in Coro : Pending(x) => refs'[x] = refs[x] /\ d \notin refs[x]
    BY <1>3, <1>5, <1>6, <1>7 DEF MayDestroy, Live, Pending, Done
  <1>9. /\ frame'[p].pc = frame[p].pc + 1
        /\ \A q \in Coro \cup {Main} :
            /\ frame'[q].fn = frame[q].fn /\ frame'[q].n = frame[q].n /\ frame'[q].env = frame[q].env
            /\ q # p => frame'[q] = frame[q]
    <2>1. frame' = [frame EXCEPT ![p].pc = frame[p].pc + 1]
      BY <1>2 DEF Advance
    <2>2. frame[p] \in FrameSet
      BY <1>4
    <2> QED BY <1>4, <2>1, <2>2 DEF FrameSet
  <1>10. \A q \in Coro \cup {Main} : Body(q)' = Body(q)
    BY <1>2, <1>9, TextKept DEF Body
  <1>11. /\ Owned(p)' = Owned(p) \ {d}
         /\ \A q \in Coro \cup {Main} : q # p => Owned(q)' = Owned(q) /\ d \notin Owned(q)
    BY <1>3, <1>7, Names DEF Owned
  <1>12. threw' \subseteq threw
    BY <1>2
  <1> QED BY <1>1, <1>3, <1>7, <1>8, <1>9, <1>10, <1>11, <1>12 DEF Forgets, Done

LEMMA DropperKin ==
  ASSUME TypeOK, ClientInv, UNCHANGED <<program, leftFirst>>, NEW p \in Coro, About(p, "drop"),
         Forgets(p, frame[p].env[Instruction(p).name])
  PROVE  KinOf(p)' /\ ReadOf(p)'
  <1>1. PICK n : n = frame[p].pc
    OBVIOUS
  <1>2. PICK x : x = Instruction(p).name
    OBVIOUS
  <1>3. PICK d : d = frame[p].env[x]
    OBVIOUS
  <1>4. Forgets(p, d)
    BY <1>2, <1>3
  <1>5. /\ TypeInv /\ n \in DOMAIN Body(p) /\ Body(p)[n].op = "drop" /\ Body(p)[n].name = x
        /\ x \in Idents /\ Pending(p) /\ frame[p].fn \in Functions
    BY <1>1, <1>2, AboutFacts, Names DEF ClientInv, IsInstruction
  <1>6. /\ DOMAIN Body(p) = 1..Len(Body(p)) /\ Len(Body(p)) \in Nat /\ n \in Nat \ {0}
    BY <1>1, <1>5, BodyLawful
  <1>7. PICK i \in DOMAIN Body(p) : Called(p, i) /\ Callee(p, i) = d /\ Body(p)[i].name = x
    BY <1>2, <1>3, DropsWhatWasRead
  <1>8. program = "return" /\ program \in Uniform \ {"select"} /\ KinOf(p) /\ ReadOf(p)
    <2>1. program = "return"
      BY DropsWhatWasRead
    <2>2. program \in Uniform \ {"select"}
      BY <2>1 DEF Uniform, Programs
    <2> QED BY <1>5, <2>1, <2>2 DEF ClientInv, UniformInv, AwaitsReadInv, KinInv, ReadInv
  <1>9. /\ \A j, k \in DOMAIN Body(p) :
             Called(p, j) /\ Called(p, k) /\ Callee(p, j) = Callee(p, k) => j = k
        /\ \A k \in DOMAIN Body(p) : Called(p, k) => IsCallee(p, k)
        /\ \A c \in Owned(p) : \E k \in DOMAIN Body(p) : Called(p, k) /\ c = Callee(p, k)
    BY <1>8 DEF KinOf
  <1>10. \A k \in DOMAIN Body(p) : Called(p, k) /\ Body(p)[k].name # x => Callee(p, k) # d
    BY <1>7, <1>9
  <1>11. Body(p)' = Body(p) /\ frame'[p].pc = n + 1 /\ frame'[p].env = frame[p].env
         /\ Owned(p)' = Owned(p) \ {d}
    BY <1>1, <1>4 DEF Forgets
  <1>12. \A k \in DOMAIN Body(p) :
           /\ Callee(p, k)' = Callee(p, k)
           /\ Called(p, k)' <=> Called(p, k) /\ Body(p)[k].name # x
    BY <1>1, <1>5, <1>6, <1>11, CalledAfterDrop DEF Called, Callee
  <1>13. ASSUME NEW k \in DOMAIN Body(p), Called(p, k)' PROVE IsCallee(p, k)'
    <2>1. PICK c : c = Callee(p, k)
      OBVIOUS
    <2>2. /\ Called(p, k) /\ c # d /\ IsCallee(p, k) /\ Callee(p, k)' = c
      BY <1>9, <1>10, <1>12, <1>13, <2>1
    <2>3. /\ Body(p)[k].name \in DOMAIN frame[p].env /\ c \in Owned(p)
          /\ Pending(c) => frame[c].fn = Body(p)[k].fn
      BY <2>1, <2>2 DEF IsCallee
    <2>4. c \in Coro \ {d}
      BY <2>2, <2>3 DEF Owned
    <2>5. Pending(c)' => frame'[c].fn = Body(p)[k].fn
      BY <1>4, <2>3, <2>4 DEF Forgets, Pending
    <2> QED BY <1>11, <2>2, <2>3, <2>5 DEF IsCallee
  <1>14. KinOf(p)'
    <2>1. \A j, k \in DOMAIN Body(p) :
            Called(p, j)' /\ Called(p, k)' /\ Callee(p, j)' = Callee(p, k)' => j = k
      BY <1>9, <1>12
    <2>2. \A c \in Owned(p)' : \E k \in DOMAIN Body(p) : Called(p, k)' /\ c = Callee(p, k)'
      <3>1. ASSUME NEW c \in Owned(p) \ {d}
            PROVE  \E k \in DOMAIN Body(p) : Called(p, k)' /\ c = Callee(p, k)'
        <4>1. PICK k \in DOMAIN Body(p) : Called(p, k) /\ c = Callee(p, k)
          BY <1>9
        <4>2. Body(p)[k].name # x
          BY <1>3, <3>1, <4>1 DEF Callee
        <4> QED BY <1>12, <4>1, <4>2
      <3> QED BY <1>11, <3>1
    <2> QED BY <1>11, <1>13, <2>1, <2>2 DEF KinOf
  <1>15. ReadOf(p)'
    <2> SUFFICES ASSUME NEW k \in DOMAIN Body(p), NEW y \in Idents, HasRead(p, k, y)'
                 PROVE  /\ y \in DOMAIN frame'[p].env /\ frame'[p].env[y] \in Visible(p)'
                        /\ at'[frame'[p].env[y]] = "final"
                        /\ ~Body(p)[k].caught => frame'[p].env[y] \notin threw'
      BY <1>11 DEF ReadOf, Done
    <2>1. HasRead(p, k, y) /\ y # x
      <3>1. HasReadAt(Body(p), n + 1, k, y)
        BY <1>11 DEF HasRead
      <3>2. k \in Nat
        BY <1>6
      <3>3. HasReadAt(Body(p), n, k, y) /\ y # Body(p)[n].name
        BY <1>5, <1>6, <3>1, <3>2, CalledAfterDrop
      <3> QED BY <1>1, <1>5, <3>3 DEF HasRead
    <2>2. /\ y \in DOMAIN frame[p].env /\ Done(frame[p].env[y])
          /\ ~Body(p)[k].caught => frame[p].env[y] \notin threw
      BY <1>8, <2>1 DEF ReadOf
    <2>3. PICK j \in DOMAIN Body(p) : Called(p, j) /\ Body(p)[j].name = y
      <3>1. Params(frame[p].fn) = {}
        BY <1>8 DEF Params
      <3> QED BY <1>5, <1>8, <2>1, <3>1, ReadWasCalled
    <2>4. frame[p].env[y] # d /\ frame[p].env[y] \in Owned(p)
      BY <1>9, <1>10, <2>1, <2>3 DEF Callee, IsCallee
    <2>5. /\ frame[p].env[y] \in Coro /\ at'[frame[p].env[y]] = at[frame[p].env[y]]
          /\ threw' \subseteq threw
      BY <1>4, <2>4 DEF Forgets, Owned
    <2> QED BY <1>11, <2>2, <2>4, <2>5 DEF Visible, Done
  <1> QED BY <1>14, <1>15

LEMMA DropKeeps ==
  ASSUME TypeOK, ClientInv, FreeInv, AllDoneInMain, NEW p \in Coro \cup {Main}, DoDrop(p)
  PROVE  ClientInv'
  <1>1. About(p, "drop") /\ UNCHANGED <<program, leftFirst>>
    BY DEF DoDrop
  <1>2. CASE p = Main
    BY <1>1, <1>2, MainLetsGo DEF DoDrop
  <1>3. CASE p # Main
    <2>1. PICK d : d = frame[p].env[Instruction(p).name]
      OBVIOUS
    <2>2. p \in Coro /\ Forgets(p, d) /\ KinOf(p)' /\ ReadOf(p)'
      BY <1>1, <1>3, <2>1, DropForgets, DropperKin
    <2>3. program = "return" /\ d \in Owned(p) /\ Done(d) /\ d \in Coro
      BY <1>1, <2>1, <2>2, DropsWhatWasRead DEF Owned
    <2>4. /\ program \in Uniform \ {"select"} /\ \A f : Params(f) = {} /\ Params(f)' = {}
          /\ Uniform' = Uniform
      BY <1>1, <2>3 DEF Uniform, Programs, Params
    <2>5. TypeInv /\ MainInv /\ KinInv /\ ParentInv /\ ReadInv
      BY <2>4 DEF ClientInv, UniformInv, AwaitsReadInv
    <2>6. \A x \in Coro : /\ x # d => (Pending(x)' <=> Pending(x)) /\ (Done(x)' <=> Done(x))
                          /\ Pending(x) => x # d
                          /\ ~Pending(d)' /\ ~Done(d)'
      BY <2>2, <2>3 DEF Forgets, Pending, Done
    <2>7. TypeInv'
      <3>1. PICK n : n = frame[p].pc
        OBVIOUS
      <3>2. /\ n \in DOMAIN Body(p) /\ frame[p].fn \in Functions /\ DOMAIN Body(p) = 1..Len(Body(p))
            /\ Len(Body(p)) \in Nat /\ n \in Nat \ {0}
        BY <1>1, <2>5, <3>1, AboutFacts, BodyLawful
      <3>3. Envs' = Envs /\ Uniform' = Uniform /\ Programs' = Programs
        BY DEF Envs, Idents, Uniform, Programs
      <3>4. frame' \in [Coro \cup {Main} -> FrameSet]
        <4>1. PICK r \in FrameSet : r = frame[p]
          BY <2>5 DEF TypeInv, FrameType
        <4>2. [r EXCEPT !.pc = n + 1] \in FrameSet
          BY <3>2 DEF FrameSet
        <4>3. frame' = [frame EXCEPT ![p] = [r EXCEPT !.pc = n + 1]]
          BY <2>5, <3>1, <4>1 DEF DoDrop, Advance, TypeInv, FrameType
        <4> QED BY <2>5, <4>2, <4>3 DEF TypeInv, FrameType
      <3>5. \A q \in Coro \cup {Main} :
              frame'[q].fn \in Functions => frame'[q].pc <= Len(Body(q)) + 1
        BY <2>2, <2>5, <3>1, <3>2 DEF Forgets, TypeInv, FrameType
      <3>6. /\ frame'[Main].fn = "main"
            /\ \A c \in Coro : /\ Pending(c)' => frame'[c].fn \in Functions \ {"main"}
                               /\ Done(c)' => frame'[c].fn = "none"
                               /\ program \in Uniform => "task" \notin DOMAIN frame'[c].env
        BY <2>2, <2>5, <2>6 DEF Forgets, TypeInv, FrameType
      <3>7. \A q \in Coro \cup {Main} : Body(q)' = Body(q)
        BY <2>2 DEF Forgets
      <3> QED BY <1>1, <2>5, <3>3, <3>4, <3>5, <3>6, <3>7, TextKept DEF TypeInv, FrameType, FrameSet
    <2>8. MainInv'
      <3>1. /\ frame'[Main] = frame[Main] /\ Body(Main)' = Body(Main) /\ Owned(Main)' = Owned(Main)
            /\ d \notin Owned(Main)
        BY <1>3, <2>2 DEF Forgets
      <3>2. JustCalled' <=> JustCalled
        BY <3>1 DEF JustCalled
      <3>3. \A k : Callee(Main, k)' = Callee(Main, k)
        BY <3>1 DEF Callee
      <3>4. ASSUME NEW k, IsCallee(Main, k) PROVE IsCallee(Main, k)'
        <4>1. PICK c \in Coro : c = Callee(Main, k) /\ c # d
          BY <3>1, <3>4 DEF IsCallee, Owned
        <4>2. Pending(c)' => Pending(c) /\ frame'[c].fn = frame[c].fn
          BY <2>2, <2>6, <4>1 DEF Forgets
        <4> QED BY <3>1, <3>3, <3>4, <4>1, <4>2 DEF IsCallee
      <3> QED BY <2>5, <3>1, <3>2, <3>3, <3>4 DEF MainInv
    <2>9. ASSUME NEW q \in Coro \ {p}, Pending(q) PROVE Undisturbed(q)
      <3>1. /\ frame'[q] = frame[q] /\ Body(q)' = Body(q) /\ Owned(q)' = Owned(q) /\ d \notin Owned(q)
            /\ refs'[q] = refs[q] /\ d \notin refs[q]
        BY <2>2, <2>9 DEF Forgets
      <3>2. \A k \in DOMAIN Body(q) : Called(q, k)' <=> Called(q, k)
        BY <3>1 DEF Called
      <3>3. Visible(q) \subseteq Coro \ {d} /\ Owned(q) \subseteq Coro \ {d}
        BY <3>1, VisibleType DEF Visible, Owned
      <3>4. \A x \in Owned(q) : Pending(x)' => Pending(x) /\ frame'[x].fn = frame[x].fn
                                                /\ frame'[x].env = frame[x].env
        BY <2>2, <2>6, <3>3 DEF Forgets
      <3> QED BY <2>6, <3>1, <3>2, <3>3, <3>4 DEF Undisturbed
    <2>10. \A q \in Coro : Pending(q)' => Pending(q)
      BY <2>6
    <2>11. KinInv'
      BY <2>2, <2>5, <2>9, <2>10, KinKept DEF KinInv
    <2>12. ParamInv' /\ LentInv'
      BY <2>4 DEF ParamInv, ParamOf, LentInv, LentOf
    <2>13. ParentInv'
      <3>1. ASSUME NEW x \in Coro
            PROVE  /\ at'[x] # "free" => owner'[x] # Null
                   /\ owner'[x] \in Coro => at'[owner'[x]] \notin {"free", "final"}
        <4>1. CASE x = d
          BY <2>2, <4>1, Names DEF Forgets
        <4>2. CASE x # d
          BY <2>2, <2>3, <2>5, <4>2 DEF Forgets, ParentInv, Pending
        <4> QED BY <4>1, <4>2
      <3> QED BY <3>1 DEF ParentInv, Pending
    <2>14. ReadInv'
      <3>1. ASSUME NEW q \in Coro \ {p}, Pending(q) PROVE ReadOf(q)'
        <4>1. Undisturbed(q) /\ ReadOf(q)
          BY <2>5, <2>9, <3>1 DEF ReadInv
        <4>2. \A k \in DOMAIN Body(q), x \in Idents : HasRead(q, k, x)' => HasRead(q, k, x)
          <5>1. frame'[q] = frame[q] /\ Body(q)' = Body(q)
            BY <2>2, <3>1 DEF Forgets
          <5> QED BY <5>1 DEF HasRead
        <4>3. \A x : x \notin threw => x \notin threw'
          BY <2>2 DEF Forgets
        <4> QED BY <4>1, <4>2, <4>3, ReadKept
      <3> QED BY <2>2, <2>10, <3>1 DEF ReadInv
    <2> QED BY <1>1, <2>4, <2>7, <2>8, <2>11, <2>12, <2>13, <2>14 DEF ClientInv, UniformInv, AwaitsReadInv
  <1> QED BY <1>2, <1>3

----------------------------------------------------------------------------
(* A coroutine at the end of its body has read all it had to read.           *)
LEMMA AtEndRead ==
  ASSUME TypeInv, program \in Uniform \ {"select"}, NEW c \in Coro, Pending(c), ReadOf(c), AtEnd(c),
         NEW j, NEW x \in Idents, Awaits(Body(c), j, x),
         program = "return" => \E k \in DOMAIN Body(c) : Called(c, k) /\ Body(c)[k].name = x
  PROVE  /\ x \in DOMAIN frame[c].env /\ Done(frame[c].env[x]) /\ frame[c].env[x] \in Visible(c)
         /\ program \in Uncaught => frame[c].env[x] \notin threw
  <1>1. /\ DropLaw(Body(c)) /\ AwaitLaw(Body(c), frame[c].fn)
        /\ DOMAIN Body(c) = 1..Len(Body(c)) /\ Len(Body(c)) \in Nat /\ frame[c].pc \in Nat \ {0}
        /\ frame[c].pc > Len(Body(c))
    BY CoroText, BodyLawful DEF AtEnd
  <1>2. j \in DOMAIN Body(c) /\ j < frame[c].pc
    BY <1>1 DEF Awaits
  <1>3. PICK y : /\ Body(c)[j].names = {y}
                 /\ \A i \in DOMAIN Body(c) : Calls(Body(c), i, y) => i < j
    BY <1>1, <1>2 DEF AwaitLaw, Awaits
  <1>4. \A i \in DOMAIN Body(c) : Calls(Body(c), i, x) => i < j
    BY <1>3 DEF Awaits
  <1>5. \A m \in (j + 1)..(frame[c].pc - 1) : ~Drops(Body(c), m, x)
    <2>1. CASE program # "return"
      BY <1>1, <2>1 DEF DropLaw, Drops
    <2>2. CASE program = "return"
      <3>1. PICK k \in DOMAIN Body(c) : Called(c, k) /\ Body(c)[k].name = x
        BY <2>2
      <3>2. k < j /\ \A m \in (k + 1)..(frame[c].pc - 1) : ~Drops(Body(c), m, x)
        BY <1>4, <3>1 DEF Called, CalledAt, Calls
      <3> QED BY <1>1, <1>2, <3>1, <3>2
    <2> QED BY <2>1, <2>2
  <1>6. HasRead(c, j, x)
    BY <1>2, <1>5 DEF HasRead, HasReadAt
  <1>7. program \in Uncaught => ~Body(c)[j].caught
    BY <1>1, <1>2 DEF AwaitLaw, Awaits
  <1> QED BY <1>2, <1>6, <1>7 DEF ReadOf

LEMMA CalleesEnded ==
  ASSUME TypeOK, ClientInv, program \in Lending \cup Uncaught, NEW c \in Coro, Pending(c), AtEnd(c),
         NEW d \in Owned(c)
  PROVE  Done(d) /\ (program \in Uncaught => d \notin threw)
  <1>1. program \in Uniform \ {"select"}
    BY DEF Uniform, Programs, Lending, Uncaught
  <1>2. TypeInv /\ KinOf(c) /\ LentOf(c) /\ ReadOf(c)
    BY <1>1 DEF ClientInv, UniformInv, AwaitsReadInv, KinInv, LentInv, ReadInv
  <1>3. PICK k \in DOMAIN Body(c) : Called(c, k) /\ d = Callee(c, k)
    BY <1>2 DEF KinOf
  <1>4. /\ CallLaw(Body(c)) /\ DropLaw(Body(c)) /\ frame[c].pc \in Nat \ {0}
        /\ DOMAIN Body(c) = 1..Len(Body(c)) /\ Len(Body(c)) \in Nat /\ frame[c].pc > Len(Body(c))
        /\ \A i \in DOMAIN Body(c) : IsInstruction(Body(c)[i])
    BY <1>2, CoroText, BodyLawful DEF AtEnd
  <1>5. Body(c)[k].op = "call" /\ Body(c)[k].name \in Idents
    BY <1>3, <1>4 DEF Called, CalledAt, IsInstruction, IsCall
  <1>6. \/ \E j \in DOMAIN Body(c) : Awaits(Body(c), j, Body(c)[k].name)
        \/ \E i, j \in DOMAIN Body(c) : /\ Body(c)[i].op = "call" /\ Body(c)[k].name \in Body(c)[i].lends
                                        /\ Awaits(Body(c), j, Body(c)[i].name)
    BY <1>4, <1>5 DEF CallLaw
  <1>7. CASE \E j \in DOMAIN Body(c) : Awaits(Body(c), j, Body(c)[k].name)
    BY <1>1, <1>2, <1>3, <1>5, <1>7, AtEndRead DEF Callee
  <1>8. ASSUME NEW i \in DOMAIN Body(c), NEW j \in DOMAIN Body(c),
               Body(c)[i].op = "call", Body(c)[k].name \in Body(c)[i].lends,
               Awaits(Body(c), j, Body(c)[i].name)
        PROVE  Done(d) /\ program \notin Uncaught
    <2>1. Body(c)[k].name \in Params(Body(c)[i].fn) /\ program \in Lending /\ program # "return"
      BY <1>4, <1>8 DEF CallLaw, Params, Lending
    <2>2. \A m \in DOMAIN Body(c) : Body(c)[m].op # "drop"
      BY <1>4, <2>1 DEF DropLaw
    <2>3. Called(c, i)
      BY <1>4, <1>8, <2>2 DEF Called, CalledAt, Drops
    <2>4. Body(c)[i].name \in Idents
      BY <1>4, <1>8 DEF IsInstruction, IsCall
    <2>5. Done(Callee(c, i))
      BY <1>1, <1>2, <1>8, <2>1, <2>4, AtEndRead DEF Callee
    <2>6. Done(frame[c].env[Body(c)[k].name])
      BY <1>2, <1>8, <2>1, <2>3, <2>5 DEF LentOf
    <2> QED BY <1>3, <2>1, <2>6 DEF Callee, Lending, Uncaught
  <1> QED BY <1>6, <1>7, <1>8

LEMMA ParamsEnded ==
  ASSUME TypeOK, ClientInv, program \in Uniform, NEW q \in Coro, Pending(q),
         NEW c \in Owned(q), Pending(c), AtEnd(c), NEW y \in Params(frame[c].fn)
  PROVE  frame[c].env[y] \in refs[c] /\ Done(frame[c].env[y])
  <1>1. /\ program \in Lending /\ program \in Uniform \ {"select"} /\ program # "return"
        /\ program \notin {"factorial", "lots-of-coroutines"} /\ c \in Coro
    BY DEF Params, Lending, Uniform, Programs, Owned
  <1>2. TypeInv /\ KinOf(q) /\ ReadOf(c) /\ ParamOf(c)
    BY <1>1 DEF ClientInv, UniformInv, AwaitsReadInv, KinInv, ParamInv, ReadInv
  <1>3. PICK k \in DOMAIN Body(q) : Called(q, k) /\ c = Callee(q, k)
    BY <1>2 DEF KinOf
  <1>4. frame[c].fn = Body(q)[k].fn
    BY <1>2, <1>3 DEF KinOf, IsCallee
  <1>5. /\ CallLaw(Body(q)) /\ Body(q)[k].op = "call" /\ IsInstruction(Body(q)[k])
    BY <1>2, <1>3, CoroText DEF Called, CalledAt
  <1>6. y \in Body(q)[k].lends /\ y \in Idents
    BY <1>4, <1>5 DEF CallLaw, IsInstruction, IsCall
  <1>7. PICK j : Awaits(Text(0)[frame[c].fn], j, y)
    BY <1>4, <1>5, <1>6 DEF CallLaw
  <1>8. Body(c) = Text(0)[frame[c].fn]
    BY <1>1, TextFixed DEF Body
  <1>9. Done(frame[c].env[y])
    BY <1>1, <1>2, <1>6, <1>7, <1>8, AtEndRead
  <1> QED BY <1>2, <1>9 DEF ParamOf

(* The end of a body, or its exception: c and all that only it holds.        *)
Leaves(c, gone) ==
  /\ at[c] = "running" /\ c \notin gone /\ gone \subseteq Coro
  /\ \A x \in Coro : owner[x] \in gone => x \in gone
  /\ \A x \in gone : owner[x] = c \/ owner[x] \in gone
  /\ \A x \in Coro : /\ at'[x] = IF x \in gone THEN "free" ELSE IF x = c THEN "final" ELSE at[x]
                     /\ owner'[x] = IF x \in gone THEN Null ELSE owner[x]
                     /\ x \notin gone /\ Pending(x) /\ x # c => refs'[x] = refs[x]
                     /\ x \notin gone /\ Pending(x) => refs[x] \cap gone = {}
                     /\ frame'[x] = IF at'[x] \in {"free", "final"} THEN Blank ELSE frame[x]
  /\ frame'[Main] = frame[Main] /\ frame' = [x \in Coro \cup {Main} |-> frame'[x]]
  /\ program \in Uniform => Owned(c) \subseteq gone
  /\ \A x \in Coro \ {c} : x \in threw' <=> x \in threw /\ at'[x] # "free"
  /\ AtEnd(c) => threw' = {x \in threw : at'[x] # "free"}
  /\ ~AtEnd(c) => c \in threw'

LEMMA LeaveLeaves ==
  ASSUME TypeOK, TypeInv, Rooted, NEW c \in Coro, Leave(c)
  PROVE  Leaves(c, Frames(Locals(c)))
  <1>1. PICK gone : gone = Frames(Locals(c))
    OBVIOUS
  <1>2. /\ InControl(c) /\ Return(c, Locals(c))
        /\ threw' = {x \in threw : at'[x] # "free"} \cup (IF AtEnd(c) THEN {} ELSE {c})
        /\ frame' = [x \in DOMAIN frame |->
                       IF x \in Coro /\ at'[x] \in {"free", "final"} THEN Blank ELSE frame[x]]
    BY DEF Leave
  <1>3. MayDestroy(Locals(c)) /\ destroy(Locals(c), [at EXCEPT ![c] = "final"]) /\ at[c] = "running"
    BY <1>2, InControlOnTop DEF Return
  <1>4. /\ Locals(c) \subseteq Coro /\ \A x \in Locals(c) : owner[x] = c
    BY DEF Locals, Owned
  <1>5. /\ gone \subseteq Coro /\ Locals(c) \subseteq gone
        /\ \A x \in Coro : owner[x] \in gone => x \in gone
        /\ \A x \in gone : owner[x] = c \/ owner[x] \in gone
    BY <1>1, <1>4, FramesLeast
  <1>6. c \notin gone
    <2>1. ASSUME c \in gone PROVE \A x \in gone : owner[x] \in gone
      BY <1>5, <2>1
    <2> QED BY <1>5, <2>1 DEF Rooted
  <1>7. /\ at' = [x \in Coro |-> IF x \in gone THEN "free" ELSE [at EXCEPT ![c] = "final"][x]]
        /\ owner' = [x \in Coro |-> IF x \in gone THEN Null ELSE owner[x]]
        /\ refs' = [x \in Coro |-> IF x \in gone \/ [at EXCEPT ![c] = "final"][x] = "final"
                                   THEN {} ELSE refs[x]]
    BY <1>1, <1>3 DEF destroy
  <1>8. /\ at \in [Coro -> States]
        /\ \A x \in Coro : at'[x] = IF x \in gone THEN "free" ELSE IF x = c THEN "final" ELSE at[x]
    BY <1>7 DEF TypeOK
  <1>9. \A x \in Coro : x \notin gone /\ Pending(x) /\ x # c => refs'[x] = refs[x]
    BY <1>7, <1>8 DEF Pending
  <1>10. \A x \in Coro : x \notin gone /\ Pending(x) => refs[x] \cap gone = {}
    BY <1>1, <1>3 DEF MayDestroy, Live, Pending
  <1>11. /\ DOMAIN frame = Coro \cup {Main} /\ Main \notin Coro
         /\ \A x \in Coro : frame'[x] = IF at'[x] \in {"free", "final"} THEN Blank ELSE frame[x]
         /\ frame'[Main] = frame[Main] /\ frame' = [x \in Coro \cup {Main} |-> frame'[x]]
    <2>1. DOMAIN frame = Coro \cup {Main} /\ Main \notin Coro
      BY Names DEF TypeInv, FrameType
    <2> QED BY <1>2, <2>1
  <1>12. program \in Uniform => Owned(c) \subseteq gone
    <2>1. ASSUME program \in Uniform PROVE Owned(c) = Locals(c)
      <3>1. "task" \notin DOMAIN frame[c].env
        BY <2>1 DEF TypeInv, FrameType
      <3> QED BY <3>1 DEF Locals, Variables
    <2> QED BY <1>5, <2>1
  <1>13. /\ \A x \in Coro \ {c} : x \in threw' <=> x \in threw /\ at'[x] # "free"
         /\ AtEnd(c) => threw' = {x \in threw : at'[x] # "free"}
         /\ ~AtEnd(c) => c \in threw'
    BY <1>2
  <1> QED BY <1>1, <1>3, <1>5, <1>6, <1>7, <1>8, <1>9, <1>10, <1>11, <1>12, <1>13 DEF Leaves

LEMMA LeaveTypes ==
  ASSUME TypeOK, TypeInv, MainInv, UNCHANGED <<program, leftFirst>>,
         NEW c \in Coro, NEW gone, Leaves(c, gone)
  PROVE  /\ TypeInv' /\ MainInv'
         /\ \A q \in Coro : Pending(q)' => /\ Pending(q) /\ q # c /\ q \notin gone
                                           /\ frame'[q] = frame[q] /\ Body(q)' = Body(q)
  <1>1. \A q \in Coro : Pending(q)' => Pending(q) /\ q # c /\ q \notin gone /\ frame'[q] = frame[q]
    BY DEF Leaves, Pending
  <1>2. \A q \in Coro : Pending(q)' => Body(q)' = Body(q)
    BY <1>1, TextKept DEF Body
  <1>3. frame'[Main] = frame[Main] /\ Body(Main)' = Body(Main)
    <2>1. frame'[Main] = frame[Main]
      BY DEF Leaves
    <2> QED BY <2>1, TextKept DEF Body
  <1>4. /\ Blank \in FrameSet /\ Blank.fn = "none" /\ Blank.pc = 1 /\ DOMAIN Blank.env = {}
    <2>1. Blank.env \in Envs
      <3>1. <<>> \in [{} -> Coro] /\ {} \in SUBSET Idents
        OBVIOUS
      <3> QED BY <3>1 DEF Envs, Blank
    <2>2. DOMAIN Blank.env = {}
      BY DEF Blank
    <2> QED BY <2>1, <2>2 DEF Blank, FrameSet
  <1>5. frame \in [Coro \cup {Main} -> FrameSet] /\ FrameType
    BY DEF TypeInv, FrameType
  <1>6. \A q \in Coro \cup {Main} : frame'[q] = frame[q] \/ frame'[q] = Blank
    BY <1>3 DEF Leaves
  <1>7. frame' \in [Coro \cup {Main} -> FrameSet]
    <2>1. frame' = [x \in Coro \cup {Main} |-> frame'[x]]
      BY DEF Leaves
    <2> QED BY <1>4, <1>5, <1>6, <2>1
  <1>8. \A q \in Coro \cup {Main} : frame'[q].fn \in Functions => frame'[q].pc <= Len(Body(q)') + 1
    <2>1. ASSUME NEW q \in Coro \cup {Main}, frame'[q].fn \in Functions
          PROVE  frame'[q].pc <= Len(Body(q)') + 1
      <3>1. CASE frame'[q] = frame[q]
        <4>1. Body(q)' = Body(q)
          BY <3>1, TextKept DEF Body
        <4> QED BY <1>5, <2>1, <3>1, <4>1 DEF FrameType
      <3>2. CASE frame'[q] = Blank
        <4>1. Body(q)' = Text(0)["none"] /\ "none" \in Functions
          BY <1>4, <2>1, <3>2, TextKept DEF Body, Blank
        <4>2. Len(Text(0)["none"]) \in Nat
          BY <4>1, ProgramsLawful DEF TypeInv, TextLaw, Lawful
        <4> QED BY <1>4, <3>2, <4>1, <4>2
      <3> QED BY <1>6, <2>1, <3>1, <3>2
    <2> QED BY <2>1
  <1>9. /\ frame'[Main].fn = "main"
        /\ \A x \in Coro : /\ Pending(x)' => frame'[x].fn \in Functions \ {"main"}
                           /\ Done(x)' => frame'[x].fn = "none"
                           /\ program \in Uniform => "task" \notin DOMAIN frame'[x].env
    <2>1. \A x \in Coro : Done(x)' => frame'[x] = Blank
      BY DEF Leaves, Done
    <2> QED BY <1>1, <1>3, <1>4, <1>5, <1>6, <2>1 DEF FrameType
  <1>10. TypeInv'
    <2>1. Envs' = Envs /\ Uniform' = Uniform /\ Programs' = Programs
      BY DEF Envs, Idents, Uniform, Programs
    <2> QED BY <1>7, <1>8, <1>9, <2>1, TextKept DEF TypeInv, FrameType, FrameSet
  <1>11. MainInv'
    <2>1. Owned(Main)' = Owned(Main)
      BY Names DEF Leaves, Owned
    <2>2. JustCalled' <=> JustCalled
      BY <1>3 DEF JustCalled
    <2>3. \A k : Callee(Main, k)' = Callee(Main, k)
      BY <1>3 DEF Callee
    <2>4. ASSUME NEW k, IsCallee(Main, k) PROVE IsCallee(Main, k)'
      <3>1. PICK d \in Coro : d = Callee(Main, k)
        BY <2>4 DEF IsCallee, Owned
      <3>2. Pending(d)' => Pending(d) /\ frame'[d].fn = frame[d].fn
        BY <1>1
      <3> QED BY <1>3, <2>1, <2>3, <2>4, <3>1, <3>2 DEF IsCallee
    <2> QED BY <1>3, <2>1, <2>2, <2>3, <2>4 DEF MainInv
  <1> QED BY <1>1, <1>2, <1>10, <1>11

LEMMA LeaveKeeps ==
  ASSUME TypeOK, ClientInv, Rooted, threw # {} => program \in Throwing, NEW c \in Coro, Leave(c)
  PROVE  ClientInv'
  <1>1. UNCHANGED <<program, leftFirst>> /\ InControl(c) /\ Pending(c)
    BY InControlOnTop DEF Leave, Pending
  <1>2. PICK gone : gone = Frames(Locals(c))
    OBVIOUS
  <1>3. TypeInv /\ MainInv /\ Leaves(c, gone)
    BY <1>2, LeaveLeaves DEF ClientInv
  <1>4. /\ TypeInv' /\ MainInv'
        /\ \A q \in Coro : Pending(q)' => /\ Pending(q) /\ q # c /\ q \notin gone
                                          /\ frame'[q] = frame[q] /\ Body(q)' = Body(q)
    BY <1>1, <1>3, LeaveTypes
  <1>5. ASSUME program \in Lending PROVE AtEnd(c)
    <2>1. program \notin Throwing
      BY <1>5 DEF Throwing, Lending, Uncaught
    <2>2. ~Throws(c)
      <3>1. ASSUME NEW op \in {"check", "retry"}, About(c, op) PROVE FALSE
        BY <1>1, <1>3, <2>1, <3>1, AboutFacts, CoroText, Names DEF ThrowLaw
      <3> QED BY <3>1 DEF Throws
    <2>3. ~Rethrows(c)
      BY <2>1 DEF Rethrows, check_exception
    <2> QED BY <2>2, <2>3 DEF Leave
  <1>6. ASSUME program \in Uniform, NEW q \in Coro, Pending(q)' PROVE Undisturbed(q)
    <2>1. Pending(q) /\ q # c /\ q \notin gone /\ frame'[q] = frame[q] /\ Body(q)' = Body(q)
      BY <1>4, <1>6
    <2>2. \A k \in DOMAIN Body(q) : Called(q, k)' <=> Called(q, k)
      BY <2>1 DEF Called
    <2>3. Owned(q)' = Owned(q) /\ refs'[q] = refs[q] /\ Owned(q) \cap gone = {} /\ refs[q] \cap gone = {}
      BY <1>3, <2>1, Names DEF Leaves, Owned
    <2>4. Visible(q) \subseteq Coro \ gone /\ Owned(q) \subseteq Coro \ gone
      BY <2>3, VisibleType DEF Visible, Owned
    <2>5. \A x \in Visible(q) : Done(x) => Done(x)'
      BY <1>3, <2>4 DEF Leaves, Done
    <2>6. \A x \in Owned(q) : Pending(x)' => Pending(x) /\ frame'[x] = frame[x]
      BY <1>4, <2>4
    <2>7. ASSUME NEW x \in Owned(q), Done(x)', ~Done(x)
          PROVE  Pending(x) /\ \A y \in Params(frame[x].fn) : at'[frame[x].env[y]] = "final"
      <3>1. x = c
        BY <1>3, <2>4, <2>7 DEF Leaves, Done
      <3>2. ASSUME NEW y \in Params(frame[c].fn) PROVE at'[frame[c].env[y]] = "final"
        <4>1. program \in Lending
          BY <3>2 DEF Params, Lending
        <4>2. frame[c].env[y] \in refs[c] /\ Done(frame[c].env[y])
          BY <1>1, <1>5, <1>6, <2>1, <2>7, <3>1, <3>2, <4>1, ParamsEnded
        <4>3. refs[c] \subseteq Coro \ gone
          BY <1>1, <1>3 DEF Leaves, TypeOK
        <4> QED BY <1>3, <4>2, <4>3 DEF Leaves, Done
      <3> QED BY <1>1, <3>1, <3>2
    <2> QED BY <2>1, <2>2, <2>3, <2>5, <2>6, <2>7 DEF Undisturbed
  <1>7. ASSUME program \in Uniform PROVE KinInv' /\ ParamInv' /\ LentInv' /\ ParentInv'
    <2>1. KinInv /\ ParentInv /\ ParamInv /\ LentInv
      BY <1>7 DEF ClientInv, UniformInv
    <2>2. KinInv'
      BY <1>4, <1>6, <1>7, <2>1, KinKept DEF KinInv
    <2>3. ParamInv'
      BY <1>1, <1>4, <1>6, <1>7, <2>1, ParamKept DEF ParamInv
    <2>4. LentInv'
      BY <1>1, <1>3, <1>4, <1>6, <1>7, <2>1, LentKept DEF LentInv, KinInv
    <2>5. ASSUME NEW x \in Coro
          PROVE  /\ at'[x] # "free" => owner'[x] # Null
                 /\ owner'[x] \in Coro => at'[owner'[x]] \notin {"free", "final"}
      <3>1. CASE x \in gone
        BY <1>3, <3>1, Names DEF Leaves
      <3>2. CASE x \notin gone
        <4>1. owner'[x] = owner[x] /\ owner[x] \notin gone
          BY <1>3, <3>2 DEF Leaves
        <4>2. owner[x] # c
          BY <1>3, <1>7, <3>2 DEF Leaves, Owned
        <4>3. at'[x] # "free" => at[x] # "free"
          BY <1>3, <3>2 DEF Leaves
        <4>4. owner[x] \in Coro => at'[owner[x]] = at[owner[x]]
          BY <1>3, <4>1, <4>2 DEF Leaves
        <4> QED BY <2>1, <4>1, <4>3, <4>4 DEF ParentInv, Pending
      <3> QED BY <3>1, <3>2
    <2>6. ParentInv'
      BY <2>5 DEF ParentInv, Pending
    <2> QED BY <2>2, <2>3, <2>4, <2>6
  <1>8. ASSUME program \in Uniform \ {"select"} PROVE ReadInv'
    <2>1. ASSUME NEW q \in Coro, Pending(q)' PROVE ReadOf(q)'
      <3>1. Undisturbed(q) /\ ReadOf(q)
        BY <1>4, <1>6, <1>8, <2>1 DEF ClientInv, AwaitsReadInv, ReadInv
      <3>2. \A k \in DOMAIN Body(q), x \in Idents : HasRead(q, k, x)' => HasRead(q, k, x)
        BY <1>4, <2>1 DEF HasRead
      <3>3. \A x \in Visible(q) : Done(x) /\ x \notin threw => x \notin threw'
        BY <1>3, VisibleType DEF Leaves, Done
      <3> QED BY <3>1, <3>2, <3>3, ReadKept
    <2> QED BY <2>1 DEF ReadInv
  <1>9. Uniform' = Uniform
    BY DEF Uniform, Programs
  <1> QED BY <1>1, <1>4, <1>7, <1>8, <1>9 DEF ClientInv, UniformInv, AwaitsReadInv

----------------------------------------------------------------------------
(* An await that goes on at once has read its result.                        *)
LEMMA GoesOnReads ==
  ASSUME TypeOK, ClientInv, program \in Uniform \ {"select"}, NEW p \in Coro, GoOn(p),
         NEW x \in Idents, Awaits(Body(p), frame[p].pc, x)
  PROVE  ReadsNow(p, frame[p].pc, x)
  <1>1. PICK n : n = frame[p].pc
    OBVIOUS
  <1>2. /\ TypeInv /\ KinOf(p) /\ ParamOf(p) /\ Pending(p) /\ Body(p)[n] = Instruction(p)
        /\ frame[p].fn \in Functions /\ n \in DOMAIN Body(p)
    BY <1>1, AboutFacts, Names DEF GoOn, ClientInv, UniformInv, KinInv, ParamInv
  <1>3. /\ AwaitLaw(Body(p), frame[p].fn) /\ n \in Nat \ {0} /\ DOMAIN Body(p) = 1..Len(Body(p))
    BY <1>1, <1>2, CoroText, BodyLawful
  <1>4. Body(p)[n].op = "await" /\ Body(p)[n].names = {x}
    BY <1>1 DEF Awaits
  <1>5. Variables(p, Instruction(p).names) = {frame[p].env[x]}
    BY <1>2, <1>4 DEF Variables
  <1>6. Done(frame[p].env[x]) /\ (~Body(p)[n].caught => frame[p].env[x] \notin threw)
    BY <1>2, <1>5 DEF GoOn, await_ready, check_exception
  <1>7. x \in DOMAIN frame[p].env /\ frame[p].env[x] \in Visible(p)
    <2>1. /\ \A j \in DOMAIN Body(p) : Drops(Body(p), j, x) => j > n
          /\ x \in Params(frame[p].fn) \/ \E j \in 1..(n - 1) : Calls(Body(p), j, x)
      <3>1. PICK y : /\ Body(p)[n].names = {y}
                     /\ \A j \in DOMAIN Body(p) : Drops(Body(p), j, y) => j > n
                     /\ y \in Params(frame[p].fn) \/ \E j \in 1..(n - 1) : Calls(Body(p), j, y)
        BY <1>2, <1>3, <1>4 DEF AwaitLaw
      <3>2. y = x
        BY <1>4, <3>1
      <3> QED BY <3>1, <3>2
    <2>2. CASE x \in Params(frame[p].fn)
      BY <1>2, <2>2, Names DEF ParamOf, Visible
    <2>3. ASSUME NEW j \in 1..(n - 1), Calls(Body(p), j, x)
          PROVE  x \in DOMAIN frame[p].env /\ frame[p].env[x] \in Visible(p)
      <3>1. j \in DOMAIN Body(p) /\ \A m \in (j + 1)..(n - 1) : ~Drops(Body(p), m, x)
        BY <1>3, <2>1, <2>3 DEF Calls, Drops
      <3>2. Called(p, j)
        BY <1>1, <1>3, <2>3, <3>1 DEF Called, CalledAt, Calls
      <3> QED BY <1>2, <2>3, <3>1, <3>2 DEF KinOf, IsCallee, Callee, Calls, Visible
    <2> QED BY <2>1, <2>2, <2>3
  <1> QED BY <1>1, <1>6, <1>7 DEF ReadsNow

LEMMA ClientStep ==
  ASSUME TypeOK, ClientInv, FreeInv, Rooted, AllDoneInMain, ThrowInv, ExamplesNext
  PROVE  ClientInv'
  <1>1. TypeInv
    BY DEF ClientInv
  <1>2. ASSUME UNCHANGED <<program, leftFirst, frame, threw, at, owner, refs>> PROVE ClientInv'
    BY <1>2, Quiet DEF SameStatus
  <1>3. ASSUME UNCHANGED vars PROVE UNCHANGED <<at, owner, refs>> /\ SameStatus
    BY <1>3 DEF vars, coroutineVars, SameStatus
  <1>4. ASSUME NEW p \in Coro \cup {Main}, DoCall(p) PROVE ClientInv'
    BY <1>4, CallKeeps
  <1>5. ASSUME NEW p \in Coro \cup {Main}, DoAwait(p) PROVE ClientInv'
    <2>1. PICK D : Await(p, D)
      BY <1>5 DEF DoAwait
    <2>2. p \in Coro /\ at[p] = "running"
      BY <2>1, InControlOnTop DEF Await
    <2>3. SameStatus
      <3>1. at' = [at EXCEPT ![p] = Kind(D)] /\ Kind(D) \in {"promise", "select"}
        BY <2>1 DEF Await, Kind
      <3> QED BY <2>2, <3>1 DEF SameStatus, TypeOK
    <2> QED BY <1>5, <2>1, <2>3, Quiet DEF DoAwait, Await, exampleVars
  <1>6. ASSUME NEW p \in Coro \cup {Main}, GoOn(p) PROVE ClientInv'
    <2>1. About(p, "await") /\ p \in Coro /\ Advance(p) /\ UNCHANGED <<vars, program, leftFirst, threw>>
      BY <1>1, <1>6, WhoseInstruction DEF GoOn
    <2>2. program \in Uniform \ {"select"} => \A x \in Idents :
            Awaits(Body(p), frame[p].pc, x) => ReadsNow(p, frame[p].pc, x)
      BY <1>6, <2>1, GoesOnReads
    <2> QED BY <1>3, <2>1, <2>2, Advances
  <1>7. ASSUME NEW p \in Coro \cup {Main}, DoPerform(p) PROVE ClientInv'
    <2>1. About(p, "perform") /\ p \in Coro /\ Advance(p) /\ Perform(p)
          /\ UNCHANGED <<program, leftFirst, threw>>
      BY <1>1, <1>7, WhoseInstruction DEF DoPerform
    <2>2. SameStatus /\ UNCHANGED <<owner, refs>>
      <3>1. at[p] = "running" /\ at' = [at EXCEPT ![p] = "perform"]
        BY <2>1, InControlOnTop DEF Perform
      <3> QED BY <2>1, <3>1 DEF SameStatus, TypeOK, Perform
    <2>3. \A x : ~Awaits(Body(p), frame[p].pc, x)
      BY <1>1, <2>1, AboutFacts DEF Awaits
    <2> QED BY <2>1, <2>2, <2>3, Advances
  <1>8. ASSUME NEW p \in Coro \cup {Main}, TransferIsFine(p) PROVE ClientInv'
    <2>1. PICK op \in {"check", "retry"} : About(p, op)
      BY <1>8 DEF TransferIsFine
    <2>2. p \in Coro /\ Advance(p) /\ UNCHANGED <<vars, program, leftFirst, threw>>
      BY <1>1, <1>8, <2>1, WhoseInstruction DEF TransferIsFine
    <2>3. \A x : ~Awaits(Body(p), frame[p].pc, x)
      BY <1>1, <2>1, AboutFacts DEF Awaits
    <2> QED BY <1>3, <2>1, <2>2, <2>3, Advances
  <1>9. ASSUME NEW p \in Coro \cup {Main}, PerformAgain(p) PROVE ClientInv'
    BY <1>9, Again
  <1>10. ASSUME NEW p \in Coro \cup {Main}, DoDrop(p) PROVE ClientInv'
    BY <1>10, DropKeeps
  <1>11. ASSUME NEW c \in Coro, Resume(c) PROVE ClientInv'
    <2>1. /\ at[c] \in Awaiting /\ at' = [at EXCEPT ![c] = "running"] /\ UNCHANGED <<owner, refs>>
          /\ UNCHANGED <<program, leftFirst, frame, threw>>
      BY <1>11 DEF Resume, AwaitResume, exampleVars
    <2>2. SameStatus
      BY <2>1 DEF SameStatus, TypeOK, Awaiting
    <2> QED BY <2>1, <2>2, Quiet
  <1>12. ASSUME NEW c \in Coro, Leave(c) PROVE ClientInv'
    BY <1>12, LeaveKeeps DEF ThrowInv
  <1>13. ASSUME About(Main, "get"),
                Get(frame[Main].env[Instruction(Main).name], Instruction(Main).caught)
         PROVE  ClientInv'
    BY <1>13, MainLetsGo DEF Get
  <1>14. ASSUME NEW d, NEW t, Terminate(d, t) PROVE ClientInv'
    BY <1>2, <1>3, <1>14 DEF Terminate
  <1>15. ASSUME MainEnds PROVE ClientInv'
    BY <1>2, <1>3, <1>15 DEF MainEnds
  <1>16. ASSUME ProgramIsOver PROVE ClientInv'
    BY <1>2, <1>3, <1>16 DEF ProgramIsOver, exampleVars
  <1>17. ASSUME TransfersStep PROVE ClientInv'
    <2>1. UNCHANGED <<at, owner, refs, program, leftFirst, frame, threw>>
      BY <1>17 DEF TransfersStep, TransferEnds, CompleteSomething, NothingToComplete, coroutineVars,
                   exampleVars
    <2> QED BY <1>2, <2>1
  <1>18. Executing \subseteq Coro
    BY ExecutingType
  <1>19. ASSUME ProgramStep PROVE ClientInv'
    BY <1>4, <1>5, <1>6, <1>7, <1>8, <1>9, <1>10, <1>11, <1>12, <1>13, <1>14, <1>15, <1>18, <1>19
       DEF ProgramStep
  <1> QED BY <1>16, <1>17, <1>19 DEF ExamplesNext

----------------------------------------------------------------------------
(* The library keeps its invariants because the programs keep to one of its  *)
(* disciplines.                                                              *)
LEMMA EndsInLending ==
  ASSUME TypeInv, ThrowInv, program \in Lending, NEW c \in Coro, Leave(c)
  PROVE  AtEnd(c)
  <1>1. program \notin Throwing
    BY DEF Throwing, Lending, Uncaught
  <1>2. ~Throws(c)
    <2>1. ASSUME NEW op \in {"check", "retry"}, About(c, op) PROVE FALSE
      BY <1>1, <2>1, AboutFacts, CoroText, Names DEF ThrowLaw
    <2> QED BY <2>1 DEF Throws
  <1>3. ~Rethrows(c)
    BY <1>1 DEF Rethrows, check_exception, ThrowInv
  <1> QED BY <1>2, <1>3 DEF Leave

LEMMA LibraryStep ==
  ASSUME LibraryInv, ClientInv, ThrowInv, ExamplesNext
  PROVE  LibraryInv' /\ [Next]_vars
  <1>1. TypeOK /\ FreeInv /\ AllDoneInMain /\ TypeInv /\ MainInv
    BY LibraryFacts DEF IInv, ClientInv
  <1> DEFINE Keeps == /\ [Next]_vars
                      /\ program \in Lending => Lent!Next \/ UNCHANGED vars
                      /\ program \notin Lending => Own!Next \/ UNCHANGED vars
  <1>2. ASSUME UNCHANGED vars PROVE Keeps
    BY <1>2
  <1>3. program \in Lending => ParentInv
    BY DEF ClientInv, UniformInv, Lending, Uniform, Programs
  <1>4. ASSUME NEW p \in Coro \cup {Main}, DoCall(p) PROVE Keeps
    <2>1. PICK i : i = Instruction(p)
      OBVIOUS
    <2>2. PICK c \in Coro : Call(p, c, Variables(p, i.moves), Variables(p, i.lends))
      BY <1>4, <2>1 DEF DoCall
    <2>3. /\ frame[p].pc \in DOMAIN Body(p) /\ Body(p)[frame[p].pc] = i /\ i.op = "call"
          /\ p = Main \/ (p \in Coro /\ Pending(p))
      BY <1>1, <1>4, <2>1, AboutFacts DEF DoCall
    <2>4. i.lends = Params(i.fn)
      BY <1>1, <2>3, MainText, CoroText DEF MainLaw, CallLaw
    <2>5. program \notin Lending => Variables(p, i.lends) = {}
      BY <2>4 DEF Params, Lending, Variables
    <2> QED BY <2>2, <2>5, CallMaps
  <1>5. ASSUME NEW p \in Coro \cup {Main}, DoAwait(p) PROVE Keeps
    <2>1. PICK D : D = Variables(p, Instruction(p).names) /\ Await(p, D) /\ About(p, "await")
      BY <1>5 DEF DoAwait
    <2>2. ASSUME program \in Lending PROVE Cardinality(D) = 1
      <3>1. /\ p \in Coro /\ Pending(p) /\ frame[p].pc \in DOMAIN Body(p)
            /\ Body(p)[frame[p].pc] = Instruction(p) /\ Body(p)[frame[p].pc].op = "await"
        BY <1>1, <2>1, AboutFacts, WhoseInstruction
      <3>2. program \in Uniform \ {"select"}
        BY <2>2 DEF Lending, Uniform, Programs
      <3>3. PICK x : Instruction(p).names = {x}
        <4>1. AwaitLaw(Body(p), frame[p].fn)
          BY <1>1, <3>1, CoroText
        <4>2. \E x : Body(p)[frame[p].pc].names = {x}
          BY <3>1, <3>2, <4>1 DEF AwaitLaw
        <4> QED BY <3>1, <4>2
      <3>4. D = {frame[p].env[x]}
        BY <2>1, <3>3 DEF Variables
      <3> QED BY <3>4, FS_Singleton
    <2> QED BY <2>1, <2>2, AwaitMaps
  <1>6. ASSUME NEW p, GoOn(p) \/ TransferIsFine(p) \/ PerformAgain(p) PROVE Keeps
    BY <1>2, <1>6 DEF GoOn, TransferIsFine, PerformAgain
  <1>7. ASSUME NEW p, DoPerform(p) PROVE Keeps
    BY <1>7, PerformMaps DEF DoPerform
  <1>8. ASSUME NEW d, NEW op \in {"get", "drop"}, About(Main, op),
               d = frame[Main].env[Instruction(Main).name], Drop(Main, d)
        PROVE  Keeps
    <2>1. d \in Coro /\ Done(d)
      BY <1>1, <1>8, MainFinds DEF Owned
    <2>2. program \in Lending => \A x \in Frames({d}) : Done(x)
      BY <1>3, <2>1, FramesOfDone
    <2> QED BY <1>8, <2>2, DropMaps
  <1>9. ASSUME NEW p \in Coro \cup {Main}, DoDrop(p) PROVE Keeps
    <2>1. CASE p = Main
      BY <1>8, <1>9, <2>1 DEF DoDrop
    <2>2. CASE p # Main
      <3>1. program \notin Lending
        BY <1>1, <1>9, <2>2, DropsWhatWasRead DEF DoDrop, Lending
      <3> QED BY <1>9, <3>1, DropMaps DEF DoDrop
    <2> QED BY <2>1, <2>2
  <1>10. ASSUME NEW c, Resume(c) PROVE Keeps
    BY <1>10, AwaitResumeMaps DEF Resume
  <1>11. ASSUME NEW c \in Coro, Leave(c) PROVE Keeps
    <2>1. Return(c, Locals(c)) /\ Pending(c)
      BY <1>11, InControlOnTop DEF Leave, Pending
    <2>2. ASSUME program \in Lending PROVE \A x \in Frames(Locals(c)) : Done(x)
      <3>1. Locals(c) \subseteq Owned(c) /\ Owned(c) \subseteq Coro
        BY DEF Locals, Owned
      <3>2. \A x \in Locals(c) : Done(x)
        BY <1>1, <1>11, <2>1, <2>2, <3>1, EndsInLending, CalleesEnded
      <3> QED BY <1>3, <2>2, <3>1, <3>2, FramesOfDone
    <2> QED BY <2>1, <2>2, ReturnMaps
  <1>12. ASSUME NEW d, NEW t, Terminate(d, t) PROVE Keeps
    BY <1>2, <1>12 DEF Terminate
  <1>13. ASSUME MainEnds \/ ProgramIsOver PROVE Keeps
    BY <1>2, <1>13 DEF MainEnds, ProgramIsOver
  <1>14. ASSUME TransfersStep PROVE Keeps
    BY <1>14, CurlMaps DEF TransfersStep
  <1>15. ASSUME About(Main, "get"),
                Get(frame[Main].env[Instruction(Main).name], Instruction(Main).caught)
         PROVE  Keeps
    BY <1>8, <1>15 DEF Get
  <1>16. program' = program
    BY DEF ExamplesNext, ProgramStep, TransfersStep, ProgramIsOver, DoCall, DoAwait, GoOn, DoPerform,
           TransferIsFine, PerformAgain, DoDrop, Resume, Leave, Get, Terminate, MainEnds, exampleVars
  <1>17. Executing \subseteq Coro
    BY <1>1, ExecutingType
  <1> HIDE DEF Keeps
  <1>18. ASSUME ProgramStep PROVE Keeps
    BY <1>4, <1>5, <1>6, <1>7, <1>9, <1>10, <1>11, <1>12, <1>13, <1>15, <1>17, <1>18 DEF ProgramStep
  <1>19. Keeps
    BY <1>13, <1>14, <1>18 DEF ExamplesNext
  <1> QED BY <1>16, <1>19, LibraryNext DEF Keeps

----------------------------------------------------------------------------
(* Exceptions are where their coroutines ended, until they are read.         *)
LEMMA LeaveThrows ==
  ASSUME TypeOK, ClientInv, Rooted, ThrowInv, NEW c \in Coro, Leave(c)
  PROVE  ThrowInv'
  <1>1. /\ UNCHANGED <<program, leftFirst, crashed, over>> /\ thrown' = (thrown \/ Throws(c))
        /\ Pending(c) /\ TypeInv
    BY InControlOnTop DEF Leave, Pending, ClientInv
  <1>2. PICK gone : gone = Frames(Locals(c))
    OBVIOUS
  <1>3. Leaves(c, gone)
    BY <1>1, <1>2, LeaveLeaves
  <1>4. ~over /\ (AtEnd(c) \/ Throws(c) \/ Rethrows(c))
    BY DEF Leave, AtEnd, Throws, Rethrows, About
  <1>5. threw' \subseteq {x \in Coro : Done(x)'}
    <2>1. ASSUME NEW x \in threw' PROVE x \in Coro /\ at'[x] = "final"
      <3>1. CASE x = c
        BY <1>3, <3>1 DEF Leaves
      <3>2. CASE x # c
        <4>1. x \in threw /\ at'[x] # "free"
          BY <2>1, <3>2 DEF Leave
        <4> QED BY <1>3, <3>2, <4>1 DEF ThrowInv, Leaves, Done
      <3> QED BY <3>1, <3>2
    <2> QED BY <2>1 DEF Done
  <1>6. threw' # {} => thrown'
    <2>1. CASE AtEnd(c)
      BY <1>1, <1>3, <2>1 DEF Leaves, ThrowInv
    <2>2. CASE Throws(c)
      BY <1>1, <2>2
    <2>3. CASE Rethrows(c)
      BY <1>1, <2>3 DEF Rethrows, check_exception, ThrowInv
    <2> QED BY <1>4, <2>1, <2>2, <2>3
  <1>7. thrown' => program \in Throwing
    <2>1. ASSUME NEW op \in {"check", "retry"}, About(c, op) PROVE program \in Throwing
      BY <1>1, <2>1, AboutFacts, CoroText, Names DEF ThrowLaw
    <2>2. Throws(c) => program \in Throwing
      BY <2>1 DEF Throws
    <2> QED BY <1>1, <2>2 DEF ThrowInv
  <1>8. program \in Uncaught /\ thrown' /\ ~crashed => threw' # {}
    <2>1. CASE ~AtEnd(c)
      BY <1>3, <2>1 DEF Leaves
    <2>2. ASSUME AtEnd(c), program \in Uncaught, thrown', ~crashed PROVE threw' # {}
      <3>1. ~Throws(c)
        <4>1. ASSUME NEW op, About(c, op) PROVE FALSE
          <5>1. frame[c].pc \in DOMAIN Body(c) /\ frame[c].fn \in Functions /\ TypeInv
            BY <1>1, <4>1, AboutFacts
          <5>2. DOMAIN Body(c) = 1..Len(Body(c)) /\ Len(Body(c)) \in Nat
            BY <5>1, BodyLawful
          <5> QED BY <2>2, <5>1, <5>2 DEF AtEnd
        <4> QED BY <4>1 DEF Throws
      <3>2. thrown
        BY <1>1, <2>2, <3>1
      <3>3. threw # {}
        BY <2>2, <3>2 DEF ThrowInv
      <3>4. /\ Locals(c) \subseteq Coro /\ Locals(c) \subseteq Owned(c)
        BY DEF Locals, Owned
      <3>5. \A x \in Locals(c) : Done(x) /\ x \notin threw
        BY <1>1, <2>2, <3>4, CalleesEnded
      <3>6. ParentInv
        BY <2>2 DEF ClientInv, UniformInv, Uniform, Programs, Uncaught
      <3>7. gone = Locals(c)
        BY <1>2, <3>4, <3>5, <3>6, FramesOfDone
      <3>8. \A x \in threw : x \in Coro /\ Done(x) /\ x \notin gone
        BY <3>5, <3>7 DEF ThrowInv
      <3>9. \A x \in threw : at'[x] # "free"
        BY <1>3, <3>8 DEF Leaves, Done
      <3> QED BY <1>3, <2>2, <3>3, <3>9 DEF Leaves
    <2> QED BY <2>1, <2>2
  <1>9. Throwing' = Throwing
    BY DEF Throwing, Uncaught
  <1> QED BY <1>1, <1>4, <1>5, <1>6, <1>7, <1>8, <1>9 DEF ThrowInv, Uncaught

LEMMA DropThrows ==
  ASSUME TypeOK, ClientInv, FreeInv, AllDoneInMain, ThrowInv, NEW p \in Coro \cup {Main}, DoDrop(p)
  PROVE  ThrowInv'
  <1>1. /\ UNCHANGED <<program, leftFirst, crashed, over, thrown>> /\ About(p, "drop")
        /\ threw' = {c \in threw : at'[c] # "free"} /\ TypeInv /\ MainInv
    BY DEF DoDrop, ClientInv
  <1>2. PICK d : d = frame[p].env[Instruction(p).name]
    OBVIOUS
  <1>3. \A x \in Coro : at'[x] = "free" \/ at'[x] = at[x]
    BY DEF DoDrop, Drop, destroy
  <1>4. threw' \subseteq {x \in Coro : Done(x)'}
    BY <1>1, <1>3 DEF ThrowInv, Done
  <1>5. program \in Uncaught => threw' = threw
    <2>1. CASE p = Main
      BY <1>1, <2>1, MainFinds
    <2>2. CASE p # Main
      <3>1. p \in Coro /\ d \notin threw /\ Forgets(p, d)
        BY <1>1, <1>2, <2>2, DropsWhatWasRead, DropForgets
      <3>2. \A x \in threw : x \in Coro \ {d} /\ Done(x)
        BY <3>1 DEF ThrowInv
      <3> QED BY <1>1, <3>1, <3>2 DEF Forgets, Done
    <2> QED BY <2>1, <2>2
  <1> QED BY <1>1, <1>4, <1>5 DEF ThrowInv, Throwing, Uncaught

LEMMA GetThrows ==
  ASSUME TypeOK, ClientInv, FreeInv, AllDoneInMain, ThrowInv, About(Main, "get"),
         Get(frame[Main].env[Instruction(Main).name], Instruction(Main).caught)
  PROVE  ThrowInv'
  <1>1. PICK d : d = frame[Main].env[Instruction(Main).name]
    OBVIOUS
  <1>2. /\ UNCHANGED <<program, leftFirst, crashed, over, thrown>> /\ Drop(Main, d)
        /\ threw' = threw \ {d} /\ (d \in threw => Instruction(Main).caught) /\ TypeInv /\ MainInv
    BY <1>1 DEF Get, ClientInv, check_exception
  <1>3. /\ Done(d) /\ d \in Coro
        /\ (Instruction(Main).caught <=> program = "exception")
    BY <1>1, <1>2, MainFinds DEF Owned
  <1>4. threw' \subseteq {x \in Coro : Done(x)'}
    <2>1. CASE threw = {}
      BY <1>2, <2>1
    <2>2. CASE threw # {}
      <3>1. program \in Uniform
        BY <2>2 DEF ThrowInv, Throwing, Uncaught, Uniform, Programs
      <3>2. Frames({d}) = {d}
        BY <1>3, <3>1, FramesOfDone DEF ClientInv, UniformInv
      <3>3. \A x \in Coro : x # d => at'[x] = at[x]
        BY <1>2, <3>2 DEF Drop, destroy
      <3> QED BY <1>2, <3>3 DEF ThrowInv, Done
    <2> QED BY <2>1, <2>2
  <1>5. program \in Uncaught => threw' = threw
    BY <1>2, <1>3 DEF Uncaught
  <1> QED BY <1>2, <1>4, <1>5 DEF ThrowInv, Throwing, Uncaught

LEMMA TerminateThrows ==
  ASSUME TypeOK, ClientInv, FreeInv, AllDoneInMain, ThrowInv, About(Main, "get"),
         Terminate(frame[Main].env[Instruction(Main).name], Instruction(Main).caught)
  PROVE  ThrowInv'
  <1>1. PICK d : d = frame[Main].env[Instruction(Main).name]
    OBVIOUS
  <1>2. /\ UNCHANGED <<at, program, thrown, threw>> /\ crashed' /\ over'
        /\ (~Done(d) \/ (d \in threw /\ ~Instruction(Main).caught))
    BY <1>1 DEF Terminate, vars, coroutineVars, check_exception
  <1>3. TypeInv /\ MainInv
    BY DEF ClientInv
  <1>4. /\ Done(d)
        /\ (Instruction(Main).caught <=> program = "exception")
    BY <1>1, <1>3, MainFinds
  <1>5. thrown /\ program \in Uncaught
    BY <1>2, <1>4 DEF ThrowInv, Throwing
  <1> QED BY <1>2, <1>5 DEF ThrowInv, Throwing, Uncaught, Done

LEMMA EndThrows ==
  ASSUME TypeOK, ClientInv, AllDoneInMain, ThrowInv, MainEnds
  PROVE  ThrowInv'
  <1>1. /\ UNCHANGED <<at, program, thrown, threw, crashed>> /\ over' = TRUE /\ ~over
        /\ AtMain /\ frame[Main].pc > Len(Body(Main)) /\ TypeInv /\ MainInv
    BY DEF MainEnds, vars, coroutineVars, AtEnd, ClientInv
  <1>2. /\ MainLaw(Body(Main)) /\ frame[Main].pc \in Nat \ {0} /\ Len(Body(Main)) \in Nat
        /\ DOMAIN Body(Main) = 1..Len(Body(Main)) /\ frame[Main].pc <= Len(Body(Main)) + 1
    BY <1>1, MainText, BodyLawful
  <1>3. ~JustCalled
    <2>1. ASSUME JustCalled
          PROVE  frame[Main].pc - 1 = Len(Body(Main)) /\ Len(Body(Main)) \in DOMAIN Body(Main)
      BY <1>1, <1>2, <2>1 DEF JustCalled
    <2> QED BY <1>2, <2>1 DEF JustCalled, MainLaw
  <1>4. Owned(Main) = {}
    BY <1>1, <1>3 DEF MainInv
  <1>5. program \in Uncaught => threw = {}
    <2>1. ASSUME program \in Uncaught, NEW x \in threw PROVE FALSE
      <3>1. ParentInv
        BY <2>1 DEF ClientInv, UniformInv, Uniform, Programs, Uncaught
      <3>2. x \in Coro /\ Done(x)
        BY <2>1 DEF ThrowInv
      <3>3. owner[x] # Null /\ owner[x] \notin Coro
        BY <1>1, <3>1, <3>2 DEF ParentInv, AllDoneInMain, Live, Pending, Done
      <3>4. owner[x] = Main
        BY <3>2, <3>3 DEF TypeOK
      <3> QED BY <1>4, <3>2, <3>4 DEF Owned
    <2> QED BY <2>1
  <1> QED BY <1>1, <1>5 DEF ThrowInv, Throwing, Uncaught, Done

LEMMA ThrowStep ==
  ASSUME TypeOK, ClientInv, FreeInv, Rooted, AllDoneInMain, ThrowInv, ExamplesNext
  PROVE  ThrowInv'
  <1>1. ASSUME UNCHANGED <<program, threw, crashed, over, thrown>>,
               \A x \in threw : at[x] = "final" => at'[x] = "final"
        PROVE  ThrowInv'
    BY <1>1 DEF ThrowInv, Throwing, Uncaught, Done
  <1>2. ASSUME UNCHANGED <<at, program, threw, crashed, over, thrown>> PROVE ThrowInv'
    BY <1>1, <1>2
  <1>3. ASSUME UNCHANGED vars PROVE UNCHANGED at
    BY <1>3 DEF vars, coroutineVars
  <1>4. ASSUME NEW p \in Coro \cup {Main}, DoCall(p) PROVE ThrowInv'
    <2>1. PICK c \in Coro : at[c] = "free" /\ at' = [at EXCEPT ![c] = "running"]
      BY <1>4 DEF DoCall, Call
    <2>2. UNCHANGED <<program, threw, crashed, over, thrown>>
      BY <1>4 DEF DoCall
    <2>3. \A x \in threw : at[x] = "final" => at'[x] = "final"
      BY <2>1 DEF ThrowInv, TypeOK
    <2> QED BY <1>1, <2>2, <2>3
  <1>5. ASSUME NEW p \in Coro \cup {Main}, DoAwait(p) \/ DoPerform(p) \/ Resume(p) PROVE ThrowInv'
    <2>1. /\ UNCHANGED <<program, threw, crashed, over, thrown>>
          /\ \E v : at' = [at EXCEPT ![p] = v]
          /\ at[p] \in {"running"} \cup Awaiting
      BY <1>5, InControlOnTop DEF DoAwait, DoPerform, Resume, Await, Perform, AwaitResume, exampleVars
    <2>2. \A x \in threw : at[x] = "final" => at'[x] = "final"
      BY <2>1 DEF ThrowInv, TypeOK, Awaiting
    <2> QED BY <1>1, <2>1, <2>2
  <1>6. ASSUME NEW p, GoOn(p) \/ TransferIsFine(p) \/ PerformAgain(p) PROVE ThrowInv'
    BY <1>2, <1>3, <1>6 DEF GoOn, TransferIsFine, PerformAgain
  <1>7. ASSUME NEW p \in Coro \cup {Main}, DoDrop(p) PROVE ThrowInv'
    BY <1>7, DropThrows
  <1>8. ASSUME NEW c \in Coro, Leave(c) PROVE ThrowInv'
    BY <1>8, LeaveThrows
  <1>9. ASSUME About(Main, "get"),
               Get(frame[Main].env[Instruction(Main).name], Instruction(Main).caught)
        PROVE  ThrowInv'
    BY <1>9, GetThrows
  <1>10. ASSUME About(Main, "get"),
                Terminate(frame[Main].env[Instruction(Main).name], Instruction(Main).caught)
         PROVE  ThrowInv'
    BY <1>10, TerminateThrows
  <1>11. ASSUME MainEnds PROVE ThrowInv'
    BY <1>11, EndThrows
  <1>12. ASSUME ProgramIsOver PROVE ThrowInv'
    BY <1>2, <1>3, <1>12 DEF ProgramIsOver, exampleVars
  <1>13. ASSUME TransfersStep PROVE ThrowInv'
    <2>1. UNCHANGED <<at, program, threw, crashed, over, thrown>>
      BY <1>13 DEF TransfersStep, TransferEnds, CompleteSomething, NothingToComplete, coroutineVars,
                   exampleVars
    <2> QED BY <1>2, <2>1
  <1>14. Executing \subseteq Coro
    BY ExecutingType
  <1>15. ASSUME ProgramStep PROVE ThrowInv'
    BY <1>4, <1>5, <1>6, <1>7, <1>8, <1>9, <1>10, <1>11, <1>14, <1>15 DEF ProgramStep
  <1> QED BY <1>12, <1>13, <1>15 DEF ExamplesNext

----------------------------------------------------------------------------
(* The inductive invariant.                                                  *)
LEMMA ExamplesInitInv == ExamplesInit => ExamplesInv
  <1> SUFFICES ASSUME ExamplesInit PROVE ExamplesInv
    OBVIOUS
  <1>1. LibraryInv
    BY LibraryInit
  <1>2. /\ at = [c \in Coro |-> "free"] /\ owner = [c \in Coro |-> Null]
        /\ program \in Programs /\ leftFirst \in BOOLEAN
    BY DEF ExamplesInit, Init
  <1>3. \A c \in Coro : ~Pending(c) /\ ~Done(c)
    BY <1>2 DEF Pending, Done
  <1>4. /\ frame \in [Coro \cup {Main} -> FrameSet]
        /\ frame[Main] = [Blank EXCEPT !.fn = "main"]
        /\ \A c \in Coro : frame[c] = Blank
    <2>1. <<>> \in Envs
      <3>1. <<>> \in [{} -> Coro]
        OBVIOUS
      <3> QED BY <3>1 DEF Envs
    <2>2. "main" \in Functions
      BY <1>2, ProgramsLawful DEF TextLaw
    <2>3. Blank \in FrameSet /\ [Blank EXCEPT !.fn = "main"] \in FrameSet
      BY <2>1, <2>2 DEF Blank, FrameSet
    <2>4. frame = [p \in Coro \cup {Main} |->
                     IF p = Main THEN [Blank EXCEPT !.fn = "main"] ELSE Blank]
      BY DEF ExamplesInit
    <2> QED BY <2>3, <2>4, Names
  <1>5. /\ frame[Main].fn = "main" /\ frame[Main].pc = 1 /\ frame[Main].n = 0
        /\ \A c \in Coro : /\ frame[c].fn = "none" /\ frame[c].pc = 1 /\ frame[c].n = 0
                          /\ DOMAIN frame[c].env = {}
    BY <1>4 DEF Blank
  <1>6. TypeInv
    <2>1. TextLaw
      BY <1>2, ProgramsLawful
    <2>2. \A p \in Coro \cup {Main} : frame[p].fn \in Functions => Len(Body(p)) \in Nat
      <3>1. \A f \in Functions : Len(Text(0)[f]) \in Nat
        BY <2>1 DEF TextLaw, Lawful
      <3>2. \A p \in Coro \cup {Main} : frame[p].n = 0
        BY <1>5
      <3> QED BY <3>1, <3>2 DEF Body
    <2>3. \A p \in Coro \cup {Main} : frame[p].fn \in Functions => frame[p].pc <= Len(Body(p)) + 1
      BY <1>5, <2>1, <2>2
    <2> QED BY <1>2, <1>3, <1>4, <1>5, <2>3 DEF TypeInv, FrameType
  <1>7. MainInv
    BY <1>2, <1>5, Names DEF MainInv, JustCalled, Owned
  <1>8. KinInv /\ ParentInv /\ ParamInv /\ LentInv /\ ReadInv
    BY <1>2, <1>3, Names DEF KinInv, ParentInv, ParamInv, LentInv, ReadInv
  <1>9. ThrowInv
    BY DEF ExamplesInit, ThrowInv
  <1> QED BY <1>1, <1>6, <1>7, <1>8, <1>9 DEF ExamplesInv, UniformInv, AwaitsReadInv

LEMMA ExamplesNextInv ==
  ExamplesInv /\ [ExamplesNext]_<<vars, exampleVars>> => ExamplesInv' /\ [Next]_vars
  <1> SUFFICES ASSUME ExamplesInv, [ExamplesNext]_<<vars, exampleVars>>
               PROVE  ExamplesInv' /\ [Next]_vars
    OBVIOUS
  <1>1. TypeOK /\ FreeInv /\ Rooted /\ AllDoneInMain /\ ClientInv
    BY LibraryFacts DEF ExamplesInv, IInv, ClientInv
  <1>2. CASE ExamplesNext
    <2>1. ClientInv' /\ ThrowInv'
      BY <1>1, <1>2, ClientStep, ThrowStep DEF ExamplesInv
    <2>2. LibraryInv' /\ [Next]_vars
      BY <1>1, <1>2, LibraryStep DEF ExamplesInv
    <2> QED BY <2>1, <2>2 DEF ExamplesInv, ClientInv
  <1>3. CASE UNCHANGED <<vars, exampleVars>>
    <2>1. UNCHANGED vars /\ UNCHANGED exampleVars
      BY <1>3
    <2>3. ClientInv'
      BY <1>1, <2>1, Quiet DEF SameStatus, exampleVars, vars, coroutineVars
    <2>4. ThrowInv'
      BY <2>1 DEF ExamplesInv, ThrowInv, Throwing, Uncaught, Done, exampleVars, vars, coroutineVars
    <2>2. LibraryInv'
      BY <2>1, LibraryNext DEF ExamplesInv, exampleVars
    <2> QED BY <2>1, <2>2, <2>3, <2>4 DEF ExamplesInv, ClientInv
  <1> QED BY <1>2, <1>3

LEMMA ExamplesInvHolds == ExamplesSpec => []ExamplesInv
  <1>1. ExamplesInv /\ [ExamplesNext]_<<vars, exampleVars>> => ExamplesInv'
    BY ExamplesNextInv
  <1> QED BY <1>1, ExamplesInitInv, PTL DEF ExamplesSpec

----------------------------------------------------------------------------
(* What the library promises holds in each program, whichever way the        *)
(* program satisfies the discipline.                                         *)
LEMMA LibraryPromises ==
  ASSUME LibraryInv
  PROVE  /\ NoDanglingHandle /\ WokenOnce /\ NoLostWakeup /\ ResumedWithResult /\ OwnCode
         /\ DestroyedNeverRuns
  <1>1. CASE program \in Lending
    <2>1. Lent!WInv
      BY <1>1 DEF LibraryInv
    <2>2. /\ Lent!NoDanglingHandle /\ Lent!WokenOnce /\ Lent!NoLostWakeup
          /\ Lent!ResumedWithResult /\ Lent!OwnCode /\ Lent!DestroyedNeverRuns
      BY <2>1, Lent!NoneDangles, Lent!EachWokenOnce, Lent!NoneForgotten, Lent!ResumedInTime,
         Lent!RunsWhileAlive, Instances, BorrowableAssumption, SwitchAssumption, BudgetAssumption,
         NamesAssumption
    <2> QED BY <2>2 DEF NoDanglingHandle, Lent!NoDanglingHandle, WokenOnce, Lent!WokenOnce,
              NoLostWakeup, Lent!NoLostWakeup, ResumedWithResult, Lent!ResumedWithResult, OwnCode,
              Lent!OwnCode, DestroyedNeverRuns, Lent!DestroyedNeverRuns, Queued, Lent!Queued,
              Suspended, Lent!Suspended, Awaiting, Lent!Awaiting, OnStack, Lent!OnStack, Done,
              Lent!Done, Live, Lent!Live, WakesAtEnd, Lent!WakesAtEnd, OnTop, Lent!OnTop,
              Executing, Lent!Executing
  <1>2. CASE program \notin Lending
    <2>1. Own!WInv
      BY <1>2 DEF LibraryInv
    <2>2. /\ Own!NoDanglingHandle /\ Own!WokenOnce /\ Own!NoLostWakeup
          /\ Own!ResumedWithResult /\ Own!OwnCode /\ Own!DestroyedNeverRuns
      BY <2>1, Own!NoneDangles, Own!EachWokenOnce, Own!NoneForgotten, Own!ResumedInTime,
         Own!RunsWhileAlive, Instances, SwitchAssumption, BudgetAssumption, NamesAssumption
    <2> QED BY <2>2 DEF NoDanglingHandle, Own!NoDanglingHandle, WokenOnce, Own!WokenOnce,
              NoLostWakeup, Own!NoLostWakeup, ResumedWithResult, Own!ResumedWithResult, OwnCode,
              Own!OwnCode, DestroyedNeverRuns, Own!DestroyedNeverRuns, Queued, Own!Queued,
              Suspended, Own!Suspended, Awaiting, Own!Awaiting, OnStack, Own!OnStack, Done,
              Own!Done, Live, Own!Live, WakesAtEnd, Own!WakesAtEnd, OnTop, Own!OnTop,
              Executing, Own!Executing
  <1> QED BY <1>1, <1>2

(* The example programs are clients of the library: every step of theirs is  *)
(* one of its steps, or none.                                                *)
THEOREM ExamplesAreClients == ExamplesSpec => Spec
  <1>1. ExamplesInit => Init
    BY DEF ExamplesInit
  <1>2. ExamplesInv /\ [ExamplesNext]_<<vars, exampleVars>> => [Next]_vars
    BY ExamplesNextInv
  <1> QED BY <1>1, <1>2, ExamplesInvHolds, PTL DEF ExamplesSpec, Spec

(* No handle of theirs dangles, no wake-up of theirs is lost or comes twice, *)
(* each await finds a result, and its own; what is destroyed never runs.     *)
THEOREM ExamplesNoDanglingHandle == ExamplesSpec => []NoDanglingHandle
  <1>1. ExamplesInv => NoDanglingHandle
    BY LibraryPromises DEF ExamplesInv
  <1> QED BY <1>1, ExamplesInvHolds, PTL

THEOREM ExamplesWokenOnce == ExamplesSpec => []WokenOnce
  <1>1. ExamplesInv => WokenOnce
    BY LibraryPromises DEF ExamplesInv
  <1> QED BY <1>1, ExamplesInvHolds, PTL

THEOREM ExamplesNoLostWakeup == ExamplesSpec => []NoLostWakeup
  <1>1. ExamplesInv => NoLostWakeup
    BY LibraryPromises DEF ExamplesInv
  <1> QED BY <1>1, ExamplesInvHolds, PTL

THEOREM ExamplesResumedWithResult == ExamplesSpec => [](ResumedWithResult /\ OwnCode)
  <1>1. ExamplesInv => ResumedWithResult /\ OwnCode
    BY LibraryPromises DEF ExamplesInv
  <1> QED BY <1>1, ExamplesInvHolds, PTL

THEOREM ExamplesDestroyedNeverRuns == ExamplesSpec => []DestroyedNeverRuns
  <1>1. ExamplesInv => DestroyedNeverRuns
    BY LibraryPromises DEF ExamplesInv
  <1> QED BY <1>1, ExamplesInvHolds, PTL

(* main() reads, or lets go of, coroutines that have ended.                  *)
THEOREM MainFindsResultsCorrect == ExamplesSpec => []MainFindsResults
  <1>1. ASSUME ExamplesInv PROVE MainFindsResults
    <2>1. TypeOK /\ TypeInv /\ MainInv /\ FreeInv /\ AllDoneInMain
      BY <1>1, LibraryFacts DEF ExamplesInv, IInv
    <2> QED BY <2>1, MainFinds DEF MainFindsResults
  <1> QED BY <1>1, ExamplesInvHolds, PTL

(* A program that does not catch them crashes if and only if one of its      *)
(* coroutines has thrown.                                                    *)
THEOREM NoExceptionLostCorrect == ExamplesSpec => []NoExceptionLost
  <1>1. ASSUME ExamplesInv PROVE NoExceptionLost
    BY <1>1 DEF ExamplesInv, ThrowInv, NoExceptionLost
  <1> QED BY <1>1, ExamplesInvHolds, PTL

----------------------------------------------------------------------------
(* What a sleeping frame sleeps on, by its text; until the first transfer is *)
(* over nobody gets behind an await or a perform; while main() is not in     *)
(* control, its call has not returned.                                       *)
SleepOf(p) ==
  /\ at[p] \in {"promise", "select"} =>
       /\ frame[p].pc \in DOMAIN Body(p) /\ Instruction(p).op = "await"
       /\ awaits[p] = Variables(p, Instruction(p).names)
  /\ at[p] = "perform" => \E k \in DOMAIN Body(p) : Body(p)[k].op = "perform"
SleepInv == \A p \in Coro : SleepOf(p)

OnlyCalled(p) == \A k \in 1..(frame[p].pc - 1) : Body(p)[k].op = "call"
Early == ended = 0 /\ program \in DOMAIN Width
EarlyInv ==
  Early => /\ \A c \in Coro : ~Done(c)
           /\ \A c \in OnStack : at[c] = "running"
           /\ \A c \in Coro : at[c] = "running" => OnlyCalled(c)

CallingInv == AtMain \/ JustCalled

ParallelInv == ended \in Nat /\ SleepInv /\ EarlyInv /\ CallingInv

LEMMA SleepKept ==
  ASSUME UNCHANGED <<program, leftFirst>>, NEW q \in Coro, SleepOf(q),
         at'[q] \in Awaiting =>
           at'[q] = at[q] /\ frame'[q] = frame[q] /\ awaits'[q] = awaits[q]
  PROVE  SleepOf(q)'
  <1>1. CASE at'[q] \in Awaiting
    <2>1. Body(q)' = Body(q) /\ Instruction(q)' = Instruction(q)
      BY <1>1, TextKept DEF Body, Instruction
    <2>2. \A X : Variables(q, X)' = Variables(q, X)
      BY <1>1 DEF Variables
    <2>3. Variables(q, Instruction(q).names)' = Variables(q, Instruction(q).names)
      BY <1>1, <2>1 DEF Variables
    <2> QED BY <1>1, <2>1, <2>3 DEF SleepOf
  <1>2. CASE at'[q] \notin Awaiting
    BY <1>2 DEF SleepOf, Awaiting
  <1> QED BY <1>1, <1>2

LEMMA SleepStep ==
  ASSUME TypeOK, TypeInv, SleepInv, ExamplesNext
  PROVE  SleepInv'
  <1>1. UNCHANGED <<program, leftFirst>>
    BY DEF ExamplesNext, ProgramStep, TransfersStep, ProgramIsOver, DoCall, DoAwait, GoOn, DoPerform,
           TransferIsFine, PerformAgain, DoDrop, Resume, Leave, Get, Terminate, MainEnds, exampleVars
  <1>2. ASSUME \A q \in Coro : at'[q] \in Awaiting =>
                 at'[q] = at[q] /\ frame'[q] = frame[q] /\ awaits'[q] = awaits[q]
        PROVE  SleepInv'
    BY <1>1, <1>2, SleepKept DEF SleepInv
  <1>3. ASSUME NEW p \in Coro \cup {Main}, p \in Coro => at[p] = "running",
               UNCHANGED <<at, awaits>>, \A q \in Coro : q # p => frame'[q] = frame[q]
        PROVE  SleepInv'
    BY <1>2, <1>3 DEF Awaiting
  <1>4. ASSUME UNCHANGED vars PROVE UNCHANGED <<at, awaits>>
    BY <1>4 DEF vars, coroutineVars
  <1>5. ASSUME NEW p \in Coro \cup {Main}, Advance(p)
        PROVE  \A q \in Coro : q # p => frame'[q] = frame[q]
    BY <1>5 DEF Advance, TypeInv, FrameType
  <1>6. ASSUME NEW p \in Coro \cup {Main}, NEW d, Drop(p, d)
        PROVE  \A q \in Coro : at'[q] \in Awaiting => at'[q] = at[q] /\ awaits'[q] = awaits[q]
    BY <1>6 DEF Drop, destroy, Awaiting
  <1>7. ASSUME NEW p \in Coro \cup {Main}, DoCall(p) PROVE SleepInv'
    <2>1. PICK c \in Coro : at[c] = "free" /\ at' = [at EXCEPT ![c] = "running"]
                            /\ \A q \in Coro : q # p /\ q # c => frame'[q] = frame[q]
      <3>1. PICK c : /\ c = CHOOSE f \in Coro : at[f] = "free"
                     /\ c \in Coro /\ at[c] = "free"
        BY <1>7 DEF DoCall
      <3>2. at' = [at EXCEPT ![c] = "running"]
        BY <1>7, <3>1 DEF DoCall, Call
      <3>3. \A q \in Coro : q # p /\ q # c => frame'[q] = frame[q]
        BY <1>7, <3>1 DEF DoCall, TypeInv, FrameType
      <3> QED BY <3>1, <3>2, <3>3
    <2>2. awaits' = awaits
      BY <1>7 DEF DoCall, Call
    <2>3. p \in Coro => at[p] = "running"
      BY <1>7, AboutFacts, Names DEF DoCall
    <2> QED BY <1>2, <2>1, <2>2, <2>3 DEF TypeOK, Awaiting
  <1>8. ASSUME NEW p \in Coro \cup {Main}, DoAwait(p) PROVE SleepInv'
    <2>1. PICK D : D = Variables(p, Instruction(p).names) /\ Await(p, D)
      BY <1>8 DEF DoAwait
    <2>2. /\ p \in Coro /\ at' = [at EXCEPT ![p] = Kind(D)] /\ awaits' = [awaits EXCEPT ![p] = D]
          /\ Kind(D) \in {"promise", "select"} /\ frame' = frame
      BY <1>8, <2>1 DEF Await, Kind, DoAwait, exampleVars
    <2>3. ASSUME NEW q \in Coro, q # p PROVE SleepOf(q)'
      <3>1. at'[q] = at[q] /\ frame'[q] = frame[q] /\ awaits'[q] = awaits[q]
        BY <2>2, <2>3 DEF TypeOK
      <3> QED BY <1>1, <3>1, SleepKept DEF SleepInv
    <2>4. SleepOf(p)'
      <3>1. frame[p].pc \in DOMAIN Body(p) /\ Instruction(p).op = "await"
        BY <1>8, AboutFacts DEF DoAwait
      <3>2. Body(p)' = Body(p) /\ Instruction(p)' = Instruction(p)
        BY <1>1, <2>2, TextKept DEF Body, Instruction
      <3>3. awaits'[p] = Variables(p, Instruction(p).names)'
        BY <2>1, <2>2, <3>2 DEF Variables, TypeOK
      <3>4. at'[p] \in {"promise", "select"} /\ frame'[p] = frame[p]
        BY <2>2 DEF TypeOK
      <3> QED BY <3>1, <3>2, <3>3, <3>4 DEF SleepOf
    <2> QED BY <2>3, <2>4 DEF SleepInv
  <1>9. ASSUME NEW p \in Coro \cup {Main}, GoOn(p) \/ TransferIsFine(p) PROVE SleepInv'
    <2>1. (p \in Coro => at[p] = "running") /\ Advance(p) /\ UNCHANGED vars
      BY <1>9, AboutFacts, Names DEF GoOn, TransferIsFine
    <2> QED BY <1>3, <1>4, <1>5, <2>1
  <1>10. ASSUME NEW p \in Coro \cup {Main}, PerformAgain(p) PROVE SleepInv'
    <2>1. (p \in Coro => at[p] = "running") /\ UNCHANGED vars
      BY <1>10, AboutFacts, Names DEF PerformAgain
    <2>2. \A q \in Coro : q # p => frame'[q] = frame[q]
      BY <1>10 DEF PerformAgain, TypeInv, FrameType
    <2> QED BY <1>3, <1>4, <2>1, <2>2
  <1>11. ASSUME NEW p \in Coro \cup {Main}, DoPerform(p) PROVE SleepInv'
    <2>1. /\ p \in Coro /\ at' = [at EXCEPT ![p] = "perform"] /\ UNCHANGED awaits /\ Advance(p)
      BY <1>11 DEF DoPerform, Perform
    <2>2. ASSUME NEW q \in Coro, q # p PROVE SleepOf(q)'
      <3>1. at'[q] = at[q] /\ frame'[q] = frame[q] /\ awaits'[q] = awaits[q]
        BY <1>5, <2>1, <2>2 DEF TypeOK
      <3> QED BY <1>1, <3>1, SleepKept DEF SleepInv
    <2>3. SleepOf(p)'
      <3>1. frame[p].pc \in DOMAIN Body(p) /\ Body(p)[frame[p].pc].op = "perform"
        BY <1>11, AboutFacts DEF DoPerform
      <3>2. frame'[p].fn = frame[p].fn /\ frame'[p].n = frame[p].n
        <4>1. frame[p] \in FrameSet /\ frame \in [Coro \cup {Main} -> FrameSet]
          BY DEF TypeInv, FrameType
        <4> QED BY <2>1, <4>1 DEF Advance, FrameSet
      <3>3. Body(p)' = Body(p)
        BY <1>1, <3>2, TextKept DEF Body
      <3>4. at'[p] = "perform"
        BY <2>1 DEF TypeOK
      <3> QED BY <3>1, <3>3, <3>4 DEF SleepOf
    <2> QED BY <2>2, <2>3 DEF SleepInv
  <1>12. ASSUME NEW p \in Coro \cup {Main}, DoDrop(p) PROVE SleepInv'
    <2>1. p \in Coro => at[p] = "running"
      BY <1>12, AboutFacts, Names DEF DoDrop
    <2>2. \A q \in Coro : at'[q] \in Awaiting => at'[q] = at[q] /\ awaits'[q] = awaits[q]
      BY <1>6, <1>12 DEF DoDrop
    <2>3. \A q \in Coro : q # p => frame'[q] = frame[q]
      BY <1>5, <1>12 DEF DoDrop
    <2> QED BY <1>2, <2>1, <2>2, <2>3 DEF Awaiting
  <1>13. ASSUME NEW c \in Coro, Resume(c) PROVE SleepInv'
    <2>1. /\ at' = [at EXCEPT ![c] = "running"] /\ awaits' = [awaits EXCEPT ![c] = {}] /\ frame' = frame
      BY <1>13 DEF Resume, AwaitResume, exampleVars
    <2> QED BY <1>2, <2>1 DEF TypeOK, Awaiting
  <1>14. ASSUME NEW c \in Coro, Leave(c) PROVE SleepInv'
    <2>1. /\ destroy(Locals(c), [at EXCEPT ![c] = "final"])
          /\ frame' = [x \in DOMAIN frame |->
                         IF x \in Coro /\ at'[x] \in {"free", "final"} THEN Blank ELSE frame[x]]
      BY <1>14 DEF Leave, Return
    <2>2. \A q \in Coro : at'[q] \in Awaiting => at'[q] = at[q] /\ awaits'[q] = awaits[q]
      BY <2>1 DEF destroy, Awaiting, TypeOK
    <2>3. \A q \in Coro : at'[q] \in Awaiting => frame'[q] = frame[q]
      BY <2>1 DEF Awaiting, TypeInv, FrameType
    <2> QED BY <1>2, <2>2, <2>3
  <1>15. ASSUME NEW d, NEW t, Get(d, t) PROVE SleepInv'
    <2>1. Drop(Main, d) /\ Advance(Main)
      BY <1>15 DEF Get
    <2>2. \A q \in Coro : frame'[q] = frame[q]
      BY <1>5, <2>1, Names
    <2> QED BY <1>2, <1>6, <2>1, <2>2
  <1>16. ASSUME UNCHANGED <<at, awaits, frame>> PROVE SleepInv'
    BY <1>2, <1>16
  <1>17. ASSUME (\E d, t : Terminate(d, t)) \/ MainEnds \/ ProgramIsOver \/ TransfersStep PROVE SleepInv'
    <2>1. UNCHANGED <<at, awaits, frame>>
      BY <1>17 DEF Terminate, MainEnds, ProgramIsOver, TransfersStep, TransferEnds, CompleteSomething,
                   NothingToComplete, vars, coroutineVars, exampleVars
    <2> QED BY <1>16, <2>1
  <1>18. Executing \subseteq Coro
    BY ExecutingType
  <1>19. ASSUME ProgramStep PROVE SleepInv'
    BY <1>7, <1>8, <1>9, <1>10, <1>11, <1>12, <1>13, <1>14, <1>15, <1>17, <1>18, <1>19 DEF ProgramStep
  <1> QED BY <1>17, <1>19 DEF ExamplesNext

(* The shapes of the functions that DownloadsInParallel is about: two calls, *)
(* then awaits, and a transfer with what is done about its failure.          *)
Pairs(B, g, h) ==
  /\ Len(B) \in Nat \ {0, 1, 2} /\ DOMAIN B = 1..Len(B)
  /\ B[1].op = "call" /\ B[1].name = "a" /\ B[1].fn = g
  /\ B[2].op = "call" /\ B[2].name = "b" /\ B[2].fn = h
  /\ \A k \in DOMAIN B : k > 2 => B[k].op = "await" /\ B[k].names \subseteq {"a", "b"}
Fetches(B) ==
  /\ Len(B) \in {1, 2} /\ DOMAIN B = 1..Len(B) /\ B[1].op = "perform"
  /\ Len(B) = 2 => B[2].op \in {"check", "retry"}

LEMMA PairShape ==
  ASSUME NEW f, NEW g, NEW x \in {"a", "b"}, NEW y \in {"a", "b"}
  PROVE  Pairs(<<call("a", f), call("b", g), await(x), await(y)>>, f, g)
  <1> DEFINE B == <<call("a", f), call("b", g), await(x), await(y)>>
  <1>1. /\ Len(B) = 4 /\ DOMAIN B = 1..4 /\ B[3] = await(x) /\ B[4] = await(y)
        /\ B[1] = call("a", f) /\ B[2] = call("b", g)
    OBVIOUS
  <1> HIDE DEF B
  <1> QED BY <1>1 DEF Pairs, call, call_with, await, B

LEMMA FetchShape == Fetches(<<perform>>) /\ Fetches(fetch_or_throw) /\ Fetches(<<perform, retry>>)
  BY DEF Fetches, fetch_or_throw, perform, check, retry

(* Which function has which shape.                                           *)
LEMMA LazyPerformShapes ==
  ASSUME TypeInv, program = "lazy-perform", NEW p \in Coro, Pending(p)
  PROVE  /\ frame[p].fn \in {"download_four", "download_two", "download_two_b", "fetch"}
         /\ frame[p].fn = "fetch" => Fetches(Body(p))
         /\ frame[p].fn = "download_four" => Pairs(Body(p), "download_two", "download_two_b")
         /\ frame[p].fn \in {"download_two", "download_two_b"} => Pairs(Body(p), "fetch", "fetch")
  <1>1. \A n : Text(n) = lazy_perform
    BY DEF Text
  <1>2. frame[p].fn \in Functions \ {"main"} /\ Body(p) = lazy_perform[frame[p].fn]
    BY <1>1 DEF TypeInv, FrameType, Body
  <1>3. frame[p].fn \in {"download_four", "download_two", "download_two_b", "fetch"}
    BY <1>1, <1>2 DEF Functions, lazy_perform
  <1>4. sooner("a", "b") \in {"a", "b"} /\ later("a", "b") \in {"a", "b"}
    BY DEF sooner, later
  <1> DEFINE P(f, g) == <<call("a", f), call("b", g), await(sooner("a", "b")), await(later("a", "b"))>>
  <1>5. Pairs(P("download_two", "download_two_b"), "download_two", "download_two_b")
    BY <1>4, PairShape
  <1>6. Pairs(P("fetch", "fetch"), "fetch", "fetch")
    BY <1>4, PairShape
  <1> QED BY <1>2, <1>3, <1>5, <1>6, FetchShape DEF lazy_perform

LEMMA RandomShapes ==
  ASSUME TypeInv, program = "random", NEW p \in Coro, Pending(p)
  PROVE  /\ frame[p].fn \in {"select_first", "fetch"}
         /\ frame[p].fn = "fetch" => Fetches(Body(p))
         /\ frame[p].fn = "select_first" => Pairs(Body(p), "fetch", "fetch")
  <1>1. \A n : Text(n) = random
    BY DEF Text
  <1>2. frame[p].fn \in Functions \ {"main"} /\ Body(p) = random[frame[p].fn]
    BY <1>1 DEF TypeInv, FrameType, Body
  <1>3. frame[p].fn \in {"select_first", "fetch"}
    BY <1>1, <1>2 DEF Functions, random
  <1>4. Pairs(<<call("a", "fetch"), call("b", "fetch"), await("a"), await("b")>>, "fetch", "fetch")
    BY PairShape
  <1> QED BY <1>2, <1>3, <1>4, FetchShape DEF random

LEMMA SelectShapes ==
  ASSUME TypeInv, program = "select", NEW p \in Coro, Pending(p)
  PROVE  /\ frame[p].fn \in {"main_coroutine", "fetch"}
         /\ frame[p].fn = "fetch" => Fetches(Body(p))
         /\ frame[p].fn = "main_coroutine" => Pairs(Body(p), "fetch", "fetch")
  <1>1. \A n : Text(n) = select_cpp
    BY DEF Text
  <1>2. frame[p].fn \in Functions \ {"main"} /\ Body(p) = select_cpp[frame[p].fn]
    BY <1>1 DEF TypeInv, FrameType, Body
  <1>3. frame[p].fn \in {"main_coroutine", "fetch"}
    BY <1>1, <1>2 DEF Functions, select_cpp
  <1>4. Pairs(<<call("a", "fetch"), call("b", "fetch"), select({"a", "b"})>>, "fetch", "fetch")
    <2> DEFINE B == <<call("a", "fetch"), call("b", "fetch"), select({"a", "b"})>>
    <2>1. /\ Len(B) = 3 /\ DOMAIN B = 1..3 /\ B[3] = select({"a", "b"})
          /\ B[1] = call("a", "fetch") /\ B[2] = call("b", "fetch")
      OBVIOUS
    <2> HIDE DEF B
    <2> QED BY <2>1 DEF Pairs, call, call_with, select, B
  <1> QED BY <1>2, <1>3, <1>4, FetchShape DEF select_cpp

LEMMA AwaitAllShapes ==
  ASSUME TypeInv, program = "await-all", NEW p \in Coro, Pending(p)
  PROVE  /\ frame[p].fn \in {"main_coroutine", "all", "fetch"}
         /\ frame[p].fn = "fetch" => Fetches(Body(p))
         /\ frame[p].fn = "all" => Pairs(Body(p), "fetch", "fetch")
         /\ frame[p].fn = "main_coroutine" => Body(p) = <<call("r", "all"), await("r")>>
  <1>1. \A n : Text(n) = await_all
    BY DEF Text
  <1>2. frame[p].fn \in Functions \ {"main"} /\ Body(p) = await_all[frame[p].fn]
    BY <1>1 DEF TypeInv, FrameType, Body
  <1>3. frame[p].fn \in {"main_coroutine", "all", "fetch"}
    BY <1>1, <1>2 DEF Functions, await_all
  <1>4. all_range("fetch", 0) = <<call("a", "fetch"), call("b", "fetch"), await("a"), await("b")>>
    BY DEF all_range, call
  <1>5. Pairs(all_range("fetch", 0), "fetch", "fetch")
    BY <1>4, PairShape
  <1> QED BY <1>2, <1>3, <1>5, FetchShape DEF await_all

LEMMA AwaitAll2Shapes ==
  ASSUME TypeInv, program = "await-all2", NEW p \in Coro, Pending(p)
  PROVE  /\ frame[p].fn \in {"main_coroutine", "all", "fetch"}
         /\ frame[p].fn = "fetch" => Fetches(Body(p))
         /\ frame[p].fn = "all" => Body(p) = <<await("a"), await("b")>>
         /\ frame[p].fn = "main_coroutine" =>
              Body(p) = <<call("a", "fetch"), call("b", "fetch"),
                          call_with("r", "all", 0, {}, {"a", "b"}), await("r")>>
  <1>1. \A n : Text(n) = await_all2
    BY DEF Text
  <1>2. frame[p].fn \in Functions \ {"main"} /\ Body(p) = await_all2[frame[p].fn]
    BY <1>1 DEF TypeInv, FrameType, Body
  <1>3. frame[p].fn \in {"main_coroutine", "all", "fetch"}
    BY <1>1, <1>2 DEF Functions, await_all2
  <1> QED BY <1>2, <1>3, FetchShape DEF await_all2, all_promises

LEMMA ReturnShapes ==
  ASSUME TypeInv, program = "return", NEW p \in Coro, Pending(p)
  PROVE  /\ frame[p].fn \in {"fetch_all", "all", "fetch_with_name", "fetch"}
         /\ frame[p].fn = "fetch" => Fetches(Body(p))
         /\ frame[p].fn = "all" => Pairs(Body(p), "fetch_with_name", "fetch_with_name")
         /\ frame[p].fn = "fetch_with_name" =>
              Body(p) = <<call_with("r", "fetch", Attempts, {}, {}), await("r")>>
         /\ frame[p].fn = "fetch_all" =>
              Body(p) = <<call_with("index", "fetch", Attempts, {}, {}), await("index"),
                          drop("index"), call("r", "all"), await("r")>>
  <1>1. \A n : Text(n) = return_cpp
    BY DEF Text
  <1>2. frame[p].fn \in Functions \ {"main"} /\ Body(p) = return_cpp[frame[p].fn]
    BY <1>1 DEF TypeInv, FrameType, Body
  <1>3. frame[p].fn \in {"fetch_all", "all", "fetch_with_name", "fetch"}
    BY <1>1, <1>2 DEF Functions, return_cpp
  <1>4. /\ all_range("fetch_with_name", 0)
           = <<call("a", "fetch_with_name"), call("b", "fetch_with_name"), await("a"), await("b")>>
    BY DEF all_range, call
  <1>5. Pairs(all_range("fetch_with_name", 0), "fetch_with_name", "fetch_with_name")
    BY <1>4, PairShape
  <1> QED BY <1>2, <1>3, <1>5, FetchShape DEF return_cpp

LEMMA EarlyText ==
  ASSUME TypeInv, program \in DOMAIN Width, NEW p \in Coro, Pending(p)
  PROVE  Fetches(Body(p)) \/ \E g, h : Pairs(Body(p), g, h)
  <1>1. program \in {"lazy-perform", "select", "random"}
    BY DEF Width
  <1> QED BY <1>1, LazyPerformShapes, RandomShapes, SelectShapes

(* A pair behind its calls owns the two coroutines it has called.            *)
LEMMA PairCallees ==
  ASSUME TypeInv, NEW p \in Coro, Pending(p), KinOf(p), NEW g, NEW h, Pairs(Body(p), g, h),
         frame[p].pc > 2
  PROVE  LET A == frame[p].env["a"]
             B == frame[p].env["b"]
         IN /\ {"a", "b"} \subseteq DOMAIN frame[p].env
            /\ A # B /\ A \in Coro /\ B \in Coro /\ Owned(p) = {A, B}
            /\ Pending(A) => frame[A].fn = g
            /\ Pending(B) => frame[B].fn = h
  <1>1. frame[p].fn \in Functions
    BY DEF TypeInv, FrameType
  <1>2. /\ frame[p].pc \in Nat \ {0} /\ DOMAIN Body(p) = 1..Len(Body(p)) /\ Len(Body(p)) \in Nat
        /\ frame[p].pc <= Len(Body(p)) + 1
    BY <1>1, BodyLawful
  <1>3. /\ Body(p)[1].op = "call" /\ Body(p)[1].name = "a" /\ Body(p)[1].fn = g
        /\ Body(p)[2].op = "call" /\ Body(p)[2].name = "b" /\ Body(p)[2].fn = h
        /\ \A k \in DOMAIN Body(p) : k > 2 => Body(p)[k].op = "await"
        /\ 1 \in DOMAIN Body(p) /\ 2 \in DOMAIN Body(p)
    BY <1>2 DEF Pairs
  <1>4. \A j \in 1..(frame[p].pc - 1) : \A x : ~Drops(Body(p), j, x)
    <2>1. \A j \in 1..(frame[p].pc - 1) : j = 1 \/ j = 2 \/ (j \in DOMAIN Body(p) /\ j > 2)
      BY <1>2
    <2> QED BY <1>3, <2>1 DEF Drops
  <1>5. Called(p, 1) /\ Called(p, 2)
    BY <1>2, <1>3, <1>4 DEF Called, CalledAt
  <1>6. IsCallee(p, 1) /\ IsCallee(p, 2) /\ Callee(p, 1) # Callee(p, 2)
    BY <1>3, <1>5 DEF KinOf
  <1>7. Callee(p, 1) = frame[p].env["a"] /\ Callee(p, 2) = frame[p].env["b"]
    BY <1>3 DEF Callee
  <1>8. ASSUME NEW c \in Owned(p) PROVE c = Callee(p, 1) \/ c = Callee(p, 2)
    <2>1. PICK k \in DOMAIN Body(p) : Called(p, k) /\ c = Callee(p, k)
      BY DEF KinOf
    <2>2. Body(p)[k].op = "call"
      BY <2>1 DEF Called, CalledAt
    <2>3. k = 1 \/ k = 2
      BY <1>2, <1>3, <2>2
    <2> QED BY <2>1, <2>3
  <1>9. Owned(p) \subseteq Coro
    BY DEF Owned
  <1>10. Owned(p) = {frame[p].env["a"], frame[p].env["b"]}
    BY <1>6, <1>7, <1>8 DEF IsCallee
  <1> QED BY <1>3, <1>6, <1>7, <1>9, <1>10 DEF IsCallee

(* Whoever runs early is among its calls, or about to perform or to await.   *)
LEMMA EarlyBody ==
  ASSUME TypeInv, program \in DOMAIN Width, NEW p \in Coro, Pending(p), OnlyCalled(p)
  PROVE  /\ ~AtEnd(p)
         /\ \A op \in {"check", "retry", "drop"} : ~About(p, op)
  <1>1. frame[p].fn \in Functions
    BY DEF TypeInv, FrameType
  <1>2. /\ frame[p].pc \in Nat \ {0} /\ DOMAIN Body(p) = 1..Len(Body(p)) /\ Len(Body(p)) \in Nat
        /\ frame[p].pc <= Len(Body(p)) + 1
    BY <1>1, BodyLawful
  <1>3. CASE Fetches(Body(p))
    <2>1. frame[p].pc = 1
      BY <1>2, <1>3 DEF Fetches, OnlyCalled
    <2> QED BY <1>2, <1>3, <2>1 DEF Fetches, AtEnd, About, Instruction
  <1>4. ASSUME NEW g, NEW h, Pairs(Body(p), g, h)
        PROVE  ~AtEnd(p) /\ \A op \in {"check", "retry", "drop"} : ~About(p, op)
    <2>1. \A k \in DOMAIN Body(p) : Body(p)[k].op \in {"call", "await"}
      <3>1. \A k \in DOMAIN Body(p) : k = 1 \/ k = 2 \/ k > 2
        BY <1>2
      <3> QED BY <1>4, <3>1 DEF Pairs
    <2>2. frame[p].pc <= Len(Body(p))
      <3>1. Body(p)[3].op = "await" /\ Len(Body(p)) >= 3
        BY <1>2, <1>4 DEF Pairs
      <3> QED BY <1>2, <3>1 DEF OnlyCalled
    <2> QED BY <1>2, <2>1, <2>2 DEF AtEnd, About, Instruction
  <1> QED BY <1>3, <1>4, EarlyText

(* ... and what it awaits has not ended, since nobody has.                   *)
LEMMA EarlyAwait ==
  ASSUME TypeInv, KinInv, program \in DOMAIN Width, \A c \in Coro : ~Done(c),
         NEW p \in Coro, About(p, "await")
  PROVE  ~await_ready(Variables(p, Instruction(p).names))
  <1>1. /\ Pending(p) /\ frame[p].pc \in DOMAIN Body(p) /\ Body(p)[frame[p].pc] = Instruction(p)
        /\ Instruction(p).op = "await" /\ frame[p].fn \in Functions
    BY AboutFacts, Names
  <1>2. frame[p].pc \in Nat \ {0} /\ DOMAIN Body(p) = 1..Len(Body(p))
    BY <1>1, BodyLawful
  <1>3. ~Fetches(Body(p))
    <2>1. CASE frame[p].pc = 1
      BY <1>1, <2>1 DEF Fetches
    <2>2. CASE frame[p].pc # 1
      BY <1>1, <1>2, <2>2 DEF Fetches
    <2> QED BY <2>1, <2>2
  <1>4. PICK g, h : Pairs(Body(p), g, h)
    BY <1>1, <1>3, EarlyText
  <1>5. frame[p].pc > 2
    BY <1>1, <1>2, <1>4 DEF Pairs
  <1>6. Instruction(p).names \subseteq {"a", "b"}
    BY <1>1, <1>4, <1>5 DEF Pairs
  <1>7. frame[p].env["a"] \in Coro /\ frame[p].env["b"] \in Coro
    BY <1>1, <1>4, <1>5, PairCallees DEF KinInv
  <1>8. Variables(p, Instruction(p).names) \subseteq Coro
    BY <1>6, <1>7 DEF Variables
  <1> QED BY <1>8 DEF await_ready

LEMMA EarlyQueue ==
  ASSUME TypeOK, NoDanglingHandle, \A c \in Coro : ~Done(c)
  PROVE  ready = <<>>
  <1>1. ready \in Seq(Coro)
    BY DEF TypeOK, SchedulerType
  <1>2. Queued = {}
    <2>1. ASSUME NEW c \in Queued PROVE FALSE
      <3>1. PICK d \in awaits[c] : Done(d)
        BY <2>1 DEF NoDanglingHandle
      <3>2. c \in Coro
        BY <1>1, <2>1 DEF Queued
      <3> QED BY <3>1, <3>2 DEF TypeOK
    <2> QED BY <2>1
  <1>3. DOMAIN ready = {}
    BY <1>2 DEF Queued
  <1> QED BY <1>1, <1>3, LenProperties, EmptySeq

(* Whoever suspends early leaves the stack to those below.                   *)
LEMMA EarlySuspends ==
  ASSUME TypeOK, WokenOnce, ready = <<>>, NEW p \in Coro, InControl(p), suspend
  PROVE  OnStack' = OnStack \ {p}
  <1>1. stack # <<>> /\ p = Head(stack)
    BY InControlOnTop
  <1>2. stack \in Seq(Coro)
    BY DEF TypeOK, SchedulerType
  <1>3. IsInjective(stack)
    BY DEF WokenOnce, IsInjective
  <1>4. Range(Tail(stack)) = Range(stack) \ {p}
    BY <1>1, <1>2, <1>3, PopApart
  <1>5. stack' = Tail(stack)
    BY DEF suspend, select_next_coroutine
  <1> QED BY <1>4, <1>5 DEF OnStack, Range

LEMMA EarlyCall ==
  ASSUME TypeOK, TypeInv, \A c \in Coro : ~Done(c), \A c \in OnStack : at[c] = "running",
         \A c \in Coro : at[c] = "running" => OnlyCalled(c),
         UNCHANGED <<program, leftFirst>>, NEW p \in Coro \cup {Main}, DoCall(p)
  PROVE  /\ \A q \in Coro : ~Done(q)'
         /\ \A q \in OnStack' : at'[q] = "running"
         /\ \A q \in Coro : at'[q] = "running" => OnlyCalled(q)'
  <1>1. PICK c \in Coro : Spawns(p, c, Instruction(p))
    BY CallSpawnsFrame
  <1>2. /\ p # c /\ at'[c] = "running" /\ at[c] = "free"
        /\ \A x \in Coro \ {c} : at'[x] = at[x]
    BY <1>1 DEF Spawns
  <1>3. /\ frame'[p].fn = frame[p].fn /\ frame'[p].n = frame[p].n /\ frame'[p].pc = frame[p].pc + 1
        /\ frame'[c].pc = 1
        /\ \A q \in (Coro \cup {Main}) \ {p, c} : frame'[q] = frame[q]
    BY <1>1, SpawnedFrames
  <1>4. OnStack' \subseteq OnStack \cup {c}
    <2>1. PICK x \in Coro : stack' = <<x>> \o stack /\ at' = [at EXCEPT ![x] = "running"]
                             /\ at[x] = "free"
      BY DEF DoCall, Call
    <2>2. x = c
      BY <1>2, <2>1 DEF TypeOK
    <2>3. stack \in Seq(Coro)
      BY DEF TypeOK, SchedulerType
    <2>4. OnStack' = OnStack \cup {x}
      <3>1. /\ Len(stack) \in Nat /\ DOMAIN stack = 1..Len(stack)
            /\ DOMAIN stack' = 1..(Len(stack) + 1)
            /\ \A i \in DOMAIN stack' : stack'[i] = IF i = 1 THEN x ELSE stack[i - 1]
        BY <2>1, <2>3
      <3>2. ASSUME NEW y \in OnStack' PROVE y \in OnStack \cup {x}
        <4>1. PICK i \in DOMAIN stack' : y = stack'[i]
          BY DEF OnStack
        <4>2. CASE i # 1
          <5>1. i - 1 \in DOMAIN stack /\ y = stack[i - 1]
            BY <3>1, <4>1, <4>2
          <5> QED BY <5>1 DEF OnStack
        <4> QED BY <3>1, <4>1, <4>2
      <3>3. x \in OnStack'
        <4>1. 1 \in DOMAIN stack' /\ stack'[1] = x
          BY <3>1
        <4> QED BY <4>1 DEF OnStack
      <3>4. ASSUME NEW i \in DOMAIN stack PROVE stack[i] \in OnStack'
        <4>1. i + 1 \in DOMAIN stack' /\ stack'[i + 1] = stack[i]
          BY <3>1
        <4> QED BY <4>1 DEF OnStack
      <3> QED BY <3>2, <3>3, <3>4 DEF OnStack
    <2> QED BY <2>2, <2>4
  <1>5. \A q \in OnStack' : at'[q] = "running"
    <2>1. OnStack \subseteq Coro
      BY DEF TypeOK, SchedulerType, OnStack
    <2> QED BY <1>2, <1>4, <2>1
  <1>6. ASSUME NEW q \in Coro, at'[q] = "running" PROVE OnlyCalled(q)'
    <2>1. CASE q = c
      BY <1>3, <2>1 DEF OnlyCalled
    <2>2. CASE q = p
      <3>1. /\ OnlyCalled(p) /\ frame[p].pc \in Nat \ {0}
            /\ Body(p)[frame[p].pc].op = "call"
        BY <1>2, <1>6, <2>2, AboutFacts, BodyLawful DEF DoCall
      <3>2. Body(p)' = Body(p)
        BY <1>3, TextKept DEF Body
      <3>3. \A k \in 1..(frame[p].pc + 1 - 1) : Body(p)[k].op = "call"
        BY <3>1 DEF OnlyCalled
      <3>4. OnlyCalled(p)'
        BY <1>3, <3>1, <3>2, <3>3 DEF OnlyCalled
      <3> QED BY <2>2, <3>4
    <2>3. CASE q # p /\ q # c
      <3>1. OnlyCalled(q) /\ frame'[q] = frame[q]
        BY <1>2, <1>3, <1>6, <2>3
      <3>2. Body(q)' = Body(q)
        BY <3>1, TextKept DEF Body
      <3>3. /\ \A k \in 1..(frame[q].pc - 1) : Body(q)[k].op = "call"
            /\ frame'[q].pc = frame[q].pc
        BY <3>1 DEF OnlyCalled
      <3> QED BY <3>2, <3>3 DEF OnlyCalled
    <2> QED BY <2>1, <2>2, <2>3
  <1> QED BY <1>2, <1>5, <1>6 DEF Done

LEMMA EarlyStep ==
  ASSUME TypeOK, ClientInv, FreeInv, AllDoneInMain, NoDanglingHandle, WokenOnce,
         ended \in Nat, EarlyInv, ExamplesNext
  PROVE  ended' \in Nat /\ EarlyInv'
  <1>1. UNCHANGED <<program, leftFirst>>
    BY DEF ExamplesNext, ProgramStep, TransfersStep, ProgramIsOver, DoCall, DoAwait, GoOn, DoPerform,
           TransferIsFine, PerformAgain, DoDrop, Resume, Leave, Get, Terminate, MainEnds, exampleVars
  <1>2. \/ ended' = ended
        \/ ended' = ended + 1
    BY DEF ExamplesNext, ProgramStep, TransfersStep, ProgramIsOver, DoCall, DoAwait, GoOn, DoPerform,
           TransferIsFine, PerformAgain, DoDrop, Resume, Leave, Get, Terminate, MainEnds, exampleVars
  <1>3. ended' \in Nat
    BY <1>2
  <1> SUFFICES ASSUME Early'
               PROVE  /\ \A c \in Coro : ~Done(c)'
                      /\ \A c \in OnStack' : at'[c] = "running"
                      /\ \A c \in Coro : at'[c] = "running" => OnlyCalled(c)'
    BY <1>3 DEF EarlyInv, Done
  <1> DEFINE Goal == /\ \A c \in Coro : ~Done(c)'
                     /\ \A c \in OnStack' : at'[c] = "running"
                     /\ \A c \in Coro : at'[c] = "running" => OnlyCalled(c)'
  <1>4. Early /\ ended' = ended
    BY <1>1, <1>2 DEF Early
  <1>5. /\ \A c \in Coro : ~Done(c)
        /\ \A c \in OnStack : at[c] = "running"
        /\ \A c \in Coro : at[c] = "running" => OnlyCalled(c)
    BY <1>4 DEF EarlyInv
  <1>6. /\ TypeInv /\ program \in DOMAIN Width /\ KinInv /\ MainInv
    BY <1>4 DEF ClientInv, UniformInv, Early, Width, Uniform, Programs
  <1>7. ready = <<>>
    BY <1>5, EarlyQueue
  <1>8. \A p \in Coro : \A op : About(p, op) => Pending(p) /\ OnlyCalled(p)
    BY <1>5, <1>6, AboutFacts, Names
  <1>9. ASSUME UNCHANGED <<at, stack, frame>> PROVE Goal
    <2>1. \A c \in Coro : OnlyCalled(c)' <=> OnlyCalled(c)
      <3>1. \A c \in Coro : Body(c)' = Body(c)
        BY <1>1, <1>9, TextKept DEF Body
      <3> QED BY <1>9, <3>1 DEF OnlyCalled
    <2> QED BY <1>5, <1>9, <2>1 DEF Done, OnStack
  <1>10. ASSUME UNCHANGED vars PROVE UNCHANGED <<at, stack>>
    BY <1>10 DEF vars, coroutineVars, schedulerVars
  <1>11. ASSUME NEW p \in Coro, at[p] = "running", NEW k \in Awaiting, at' = [at EXCEPT ![p] = k],
                OnStack' = OnStack \ {p}, \A q \in Coro \ {p} : frame'[q] = frame[q]
         PROVE  Goal
    <2>1. OnStack \subseteq Coro
      BY DEF TypeOK, SchedulerType, OnStack
    <2>2. at'[p] = k /\ \A q \in Coro \ {p} : at'[q] = at[q]
      BY <1>11 DEF TypeOK
    <2>3. ASSUME NEW q \in Coro, at'[q] = "running" PROVE OnlyCalled(q)'
      <3>1. q # p /\ OnlyCalled(q)
        BY <1>5, <1>11, <2>2, <2>3 DEF Awaiting
      <3>2. Body(q)' = Body(q)
        BY <1>1, <1>11, <3>1, TextKept DEF Body
      <3>3. /\ \A i \in 1..(frame[q].pc - 1) : Body(q)[i].op = "call"
            /\ frame'[q].pc = frame[q].pc
        BY <1>11, <3>1 DEF OnlyCalled
      <3> QED BY <3>2, <3>3 DEF OnlyCalled
    <2> QED BY <1>5, <1>11, <2>1, <2>2, <2>3 DEF Done, Awaiting
  <1>12. ASSUME NEW p \in Coro \cup {Main}, DoCall(p) PROVE Goal
    BY <1>1, <1>5, <1>6, <1>12, EarlyCall
  <1>13. ASSUME NEW p \in Coro \cup {Main}, DoAwait(p) PROVE Goal
    <2>1. PICK D : Await(p, D)
      BY <1>13 DEF DoAwait
    <2>2. p \in Coro /\ InControl(p) /\ suspend /\ at' = [at EXCEPT ![p] = Kind(D)] /\ Kind(D) \in Awaiting
      BY <2>1 DEF Await, Kind, Awaiting
    <2>3. OnStack' = OnStack \ {p} /\ at[p] = "running"
      BY <1>7, <2>2, EarlySuspends, InControlOnTop
    <2>4. frame' = frame
      BY <1>13 DEF DoAwait, exampleVars
    <2> QED BY <1>11, <2>2, <2>3, <2>4
  <1>14. ASSUME NEW p \in Coro \cup {Main}, DoPerform(p) PROVE Goal
    <2>1. p \in Coro /\ InControl(p) /\ suspend /\ at' = [at EXCEPT ![p] = "perform"]
      BY <1>14 DEF DoPerform, Perform
    <2>2. OnStack' = OnStack \ {p} /\ at[p] = "running"
      BY <1>7, <2>1, EarlySuspends, InControlOnTop
    <2>3. \A q \in Coro \ {p} : frame'[q] = frame[q]
      BY <1>6, <1>14 DEF DoPerform, Advance, TypeInv, FrameType
    <2> QED BY <1>11, <2>1, <2>2, <2>3 DEF Awaiting
  <1>15. ASSUME NEW p \in Coro \cup {Main}, GoOn(p) PROVE FALSE
    <2>1. p \in Coro /\ About(p, "await") /\ await_ready(Variables(p, Instruction(p).names))
      BY <1>6, <1>15, WhoseInstruction DEF GoOn
    <2> QED BY <1>5, <1>6, <2>1, EarlyAwait
  <1>16. ASSUME NEW p \in Coro \cup {Main}, TransferIsFine(p) \/ PerformAgain(p) PROVE FALSE
    <2>1. PICK op \in {"check", "retry"} : About(p, op)
      BY <1>16 DEF TransferIsFine, PerformAgain
    <2>2. p \in Coro
      BY <1>6, <2>1, WhoseInstruction
    <2> QED BY <1>6, <1>8, <2>1, <2>2, EarlyBody
  <1>17. ASSUME NEW p \in Coro \cup {Main}, DoDrop(p) PROVE FALSE
    <2>1. About(p, "drop")
      BY <1>17 DEF DoDrop
    <2>2. p \notin Coro
      BY <1>6, <1>8, <2>1, EarlyBody
    <2> QED BY <1>5, <1>6, <2>1, <2>2, MainFinds DEF Owned
  <1>18. ASSUME NEW c \in Executing, Resume(c) PROVE FALSE
    <2>1. c = Head(stack) /\ stack # <<>> /\ at[c] \in Awaiting
      BY <1>18 DEF Executing, Resume, AwaitResume
    <2>2. c \in OnStack
      <3>1. stack \in Seq(Coro)
        BY DEF TypeOK, SchedulerType
      <3>2. 1 \in DOMAIN stack /\ Head(stack) = stack[1]
        BY <2>1, <3>1, LenProperties, EmptySeq
      <3> QED BY <2>1, <3>2 DEF OnStack
    <2> QED BY <1>5, <2>1, <2>2 DEF Awaiting
  <1>19. ASSUME NEW c \in Coro, Leave(c) PROVE FALSE
    <2>1. InControl(c) /\ (AtEnd(c) \/ Throws(c) \/ Rethrows(c))
      BY <1>19 DEF Leave
    <2>2. Pending(c) /\ OnlyCalled(c)
      BY <1>5, <2>1, InControlOnTop DEF Pending
    <2>3. ~AtEnd(c) /\ ~Throws(c)
      BY <1>6, <2>2, EarlyBody DEF Throws
    <2>4. ~Rethrows(c)
      BY <1>5, <1>6, EarlyAwait DEF Rethrows
    <2> QED BY <2>1, <2>3, <2>4
  <1>20. ASSUME NEW t, About(Main, "get"), Get(frame[Main].env[Instruction(Main).name], t) PROVE FALSE
    BY <1>5, <1>6, <1>20, MainFinds DEF Owned
  <1>21. ASSUME (\E d, t : Terminate(d, t)) \/ MainEnds \/ ProgramIsOver PROVE Goal
    <2>1. UNCHANGED <<at, stack, frame>>
      BY <1>10, <1>21 DEF Terminate, MainEnds, ProgramIsOver, exampleVars
    <2> QED BY <1>9, <2>1
  <1>22. ASSUME TransfersStep PROVE Goal
    <2>1. ~\E e \in Coro : CompleteSomething(e) /\ ended' = ended + 1
      BY <1>3, <1>4
    <2>2. UNCHANGED <<at, stack, frame>>
      BY <1>22, <2>1 DEF TransfersStep, TransferEnds, NothingToComplete, nothing_to_complete,
                   schedulerVars, coroutineVars, exampleVars
    <2> QED BY <1>9, <2>2
  <1>23. Executing \subseteq Coro
    BY ExecutingType
  <1> HIDE DEF Goal
  <1>24. ASSUME ProgramStep PROVE Goal
    BY <1>12, <1>13, <1>14, <1>15, <1>16, <1>17, <1>18, <1>19, <1>20, <1>21, <1>23, <1>24
       DEF ProgramStep
  <1>25. Goal
    BY <1>21, <1>22, <1>24 DEF ExamplesNext
  <1> QED BY <1>25 DEF Goal

(* Only main() itself gets behind its calls.                                 *)
LEMMA CallingStep ==
  ASSUME TypeOK, TypeInv, CounterIsStack, CallingInv, ExamplesNext
  PROVE  CallingInv'
  <1>1. UNCHANGED <<program, leftFirst>>
    BY DEF ExamplesNext, ProgramStep, TransfersStep, ProgramIsOver, DoCall, DoAwait, GoOn, DoPerform,
           TransferIsFine, PerformAgain, DoDrop, Resume, Leave, Get, Terminate, MainEnds, exampleVars
  <1>2. ASSUME frame'[Main] = frame[Main], ~AtMain PROVE CallingInv'
    <2>1. Body(Main)' = Body(Main)
      BY <1>1, <1>2, TextKept DEF Body
    <2> QED BY <1>2, <2>1 DEF CallingInv, JustCalled
  <1>3. ASSUME UNCHANGED <<stack, polling>>, AtMain PROVE CallingInv'
    BY <1>3 DEF CallingInv, AtMain
  <1>4. ASSUME UNCHANGED <<frame, stack, polling>> PROVE CallingInv'
    BY <1>2, <1>3, <1>4
  <1>5. ASSUME NEW p \in Coro, InControl(p) PROVE ~AtMain
    BY <1>5, InControlOnTop DEF AtMain
  <1>6. ASSUME InControl(Main) PROVE AtMain
    BY <1>6, Names DEF InControl
  <1>7. ASSUME NEW p \in Coro \cup {Main}, NEW op, About(p, op), op # "call" \/ p # Main,
               \A q \in Coro \cup {Main} : q # p => frame'[q] = frame[q],
               p = Main => UNCHANGED <<stack, polling>>
        PROVE  CallingInv'
    <2>1. InControl(p)
      BY <1>7, AboutFacts
    <2> QED BY <1>2, <1>3, <1>5, <1>6, <1>7, <2>1, Names
  <1>8. ASSUME NEW p \in Coro \cup {Main}, Advance(p)
        PROVE  \A q \in Coro \cup {Main} : q # p => frame'[q] = frame[q]
    BY <1>8 DEF Advance, TypeInv, FrameType
  <1>9. ASSUME UNCHANGED vars PROVE UNCHANGED <<stack, polling>>
    BY <1>9 DEF vars, schedulerVars
  <1>10. ASSUME NEW p \in Coro \cup {Main}, DoCall(p) PROVE CallingInv'
    <2>1. PICK c \in Coro : Spawns(p, c, Instruction(p))
      BY <1>10, CallSpawnsFrame
    <2>2. CASE p = Main
      <3>1. /\ frame'[p].pc = frame[p].pc + 1 /\ frame'[p].fn = frame[p].fn /\ frame'[p].n = frame[p].n
        BY <2>1, SpawnedFrames
      <3>2. Body(p)' = Body(p)
        BY <1>1, <3>1, TextKept DEF Body
      <3>3. frame[p].pc \in Nat \ {0} /\ Body(p)[frame[p].pc].op = "call"
        BY <1>10, AboutFacts, BodyLawful DEF DoCall
      <3> QED BY <2>2, <3>1, <3>2, <3>3 DEF CallingInv, JustCalled
    <2>3. CASE p # Main
      <3>0. frame'[Main] = frame[Main]
        BY <2>1, <2>3, Names DEF Spawns
      <3>1. frame'[Main] = frame[Main] /\ InControl(p)
        BY <1>10, <3>0, AboutFacts DEF DoCall
      <3> QED BY <1>2, <1>5, <2>3, <3>1
    <2> QED BY <2>2, <2>3
  <1>11. ASSUME NEW p \in Coro \cup {Main}, DoAwait(p) PROVE CallingInv'
    <2>1. About(p, "await") /\ p \in Coro /\ frame' = frame
      BY <1>11, WhoseInstruction DEF DoAwait, exampleVars
    <2> QED BY <1>7, <2>1, Names
  <1>12. ASSUME NEW p \in Coro \cup {Main}, GoOn(p) \/ TransferIsFine(p) \/ PerformAgain(p) PROVE CallingInv'
    <2>1. PICK op \in {"await", "check", "retry"} : About(p, op)
      BY <1>12 DEF GoOn, TransferIsFine, PerformAgain
    <2>2. UNCHANGED <<stack, polling>>
      BY <1>9, <1>12 DEF GoOn, TransferIsFine, PerformAgain
    <2>3. \A q \in Coro \cup {Main} : q # p => frame'[q] = frame[q]
      BY <1>8, <1>12 DEF GoOn, TransferIsFine, PerformAgain, TypeInv, FrameType
    <2> QED BY <1>7, <2>1, <2>2, <2>3
  <1>13. ASSUME NEW p \in Coro \cup {Main}, DoPerform(p) PROVE CallingInv'
    <2>1. About(p, "perform") /\ p \in Coro /\ Advance(p)
      BY <1>13, WhoseInstruction DEF DoPerform
    <2> QED BY <1>7, <1>8, <2>1, Names
  <1>14. ASSUME NEW p \in Coro \cup {Main}, DoDrop(p) PROVE CallingInv'
    <2>1. About(p, "drop") /\ Advance(p) /\ UNCHANGED <<stack, polling>>
      BY <1>14 DEF DoDrop, Drop, schedulerVars
    <2> QED BY <1>7, <1>8, <2>1
  <1>15. ASSUME NEW c \in Coro, Resume(c) PROVE CallingInv'
    <2>1. UNCHANGED <<frame, stack, polling>>
      BY <1>15 DEF Resume, AwaitResume, exampleVars
    <2> QED BY <1>4, <2>1
  <1>16. ASSUME NEW c \in Coro, Leave(c) PROVE CallingInv'
    <2>1. InControl(c) /\ frame'[Main] = frame[Main]
      BY <1>16, Names DEF Leave, TypeInv, FrameType
    <2> QED BY <1>2, <1>5, <2>1
  <1>17. ASSUME NEW d, NEW t, About(Main, "get"), Get(d, t) PROVE CallingInv'
    <2>1. Advance(Main) /\ UNCHANGED <<stack, polling>>
      BY <1>17 DEF Get, Drop, schedulerVars
    <2> QED BY <1>7, <1>8, <1>17, <2>1
  <1>18. ASSUME (\E d, t : Terminate(d, t)) \/ MainEnds \/ ProgramIsOver PROVE CallingInv'
    <2>1. UNCHANGED <<frame, stack, polling>>
      BY <1>9, <1>18 DEF Terminate, MainEnds, ProgramIsOver, exampleVars
    <2> QED BY <1>4, <2>1
  <1>19. ASSUME TransfersStep PROVE CallingInv'
    <2>1. polling /\ frame' = frame
      BY <1>19 DEF TransfersStep, TransferEnds, CompleteSomething, complete_something, NothingToComplete,
                   nothing_to_complete, exampleVars
    <2> QED BY <1>2, <2>1 DEF AtMain
  <1>20. Executing \subseteq Coro
    BY ExecutingType
  <1>21. ASSUME ProgramStep PROVE CallingInv'
    BY <1>10, <1>11, <1>12, <1>13, <1>14, <1>15, <1>16, <1>17, <1>18, <1>20, <1>21 DEF ProgramStep
  <1> QED BY <1>18, <1>19, <1>21 DEF ExamplesNext

----------------------------------------------------------------------------
(* While curl is polled everybody who has not ended sleeps: on a transfer,   *)
(* or at an await of what has not ended either.                              *)
LEMMA NobodyRuns ==
  ASSUME LibraryInv, polling
  PROVE  ready = <<>> /\ OnStack = {} /\ \A c \in Coro : at[c] # "running"
  <1>1. stack = <<>>
    BY DEF LibraryInv, IInv, CounterIsStack
  <1>2. OnStack = {}
    BY <1>1 DEF OnStack
  <1>3. CASE program \in Lending
    <2>1. Lent!RunningInv /\ Lent!IdleInv
      BY <1>3 DEF LibraryInv, Lent!GraphInv
    <2> QED BY <1>1, <1>2, <2>1 DEF Lent!RunningInv, Lent!IdleInv, Lent!OnStack, OnStack
  <1>4. CASE program \notin Lending
    <2>1. Own!RunningInv /\ Own!IdleInv
      BY <1>4 DEF LibraryInv, Own!GraphInv
    <2> QED BY <1>1, <1>2, <2>1 DEF Own!RunningInv, Own!IdleInv, Own!OnStack, OnStack
  <1> QED BY <1>3, <1>4

AtAwait(c) ==
  /\ frame[c].pc \in DOMAIN Body(c) /\ Body(c)[frame[c].pc].op = "await"
  /\ \A x \in Body(c)[frame[c].pc].names : ~Done(frame[c].env[x])
Performs(c) == \E k \in DOMAIN Body(c) : Body(c)[k].op = "perform"

Asleep ==
  /\ \A c \in Coro : Pending(c) => c \in handles \/ AtAwait(c)
  /\ \A c \in handles : c \in Coro /\ Pending(c) /\ Performs(c)

LEMMA AllAsleep ==
  ASSUME LibraryInv, SleepInv, polling
  PROVE  Asleep
  <1>1. ready = <<>> /\ OnStack = {} /\ \A c \in Coro : at[c] # "running"
    BY NobodyRuns
  <1>2. NoDanglingHandle /\ NoLostWakeup /\ TypeOK
    BY LibraryPromises DEF LibraryInv, IInv
  <1>3. Queued = {}
    BY <1>1 DEF Queued
  <1>4. ASSUME NEW c \in Coro, Pending(c) PROVE c \in handles \/ AtAwait(c)
    <2>1. at[c] \in Awaiting /\ Suspended(c)
      BY <1>1, <1>2, <1>4 DEF TypeOK, States, Pending, Suspended
    <2>2. CASE at[c] = "perform"
      BY <1>2, <1>3, <2>1, <2>2 DEF NoLostWakeup, TypeOK, CurlType
    <2>3. CASE at[c] # "perform"
      <3>1. \A d \in awaits[c] : ~Done(d)
        BY <1>2, <1>3, <2>1, <2>3 DEF NoLostWakeup
      <3>2. /\ frame[c].pc \in DOMAIN Body(c) /\ Body(c)[frame[c].pc].op = "await"
            /\ awaits[c] = Variables(c, Body(c)[frame[c].pc].names)
        BY <2>1, <2>3 DEF SleepInv, SleepOf, Awaiting, Instruction
      <3> QED BY <3>1, <3>2 DEF AtAwait, Variables
    <2> QED BY <2>2, <2>3
  <1>5. ASSUME NEW c \in handles PROVE c \in Coro /\ Pending(c) /\ Performs(c)
    <2>1. c \in Coro /\ at[c] = "perform"
      BY <1>2, <1>5 DEF NoDanglingHandle, TypeOK, CurlType
    <2> QED BY <2>1 DEF Pending, SleepInv, SleepOf, Performs
  <1> QED BY <1>4, <1>5 DEF Asleep

LEMMA FetchAsleep ==
  ASSUME Asleep, NEW c \in Coro, Pending(c), Fetches(Body(c))
  PROVE  c \in handles
  BY DEF Asleep, AtAwait, Fetches

LEMMA PairAsleep ==
  ASSUME TypeInv, Asleep, NEW c \in Coro, Pending(c), NEW g, NEW h, Pairs(Body(c), g, h)
  PROVE  c \notin handles /\ frame[c].pc > 2
  <1>1. \A k \in DOMAIN Body(c) : k = 1 \/ k = 2 \/ k > 2
    BY DEF Pairs
  <1>2. c \notin handles
    BY <1>1 DEF Asleep, Performs, Pairs
  <1>3. AtAwait(c)
    BY <1>2 DEF Asleep
  <1> QED BY <1>1, <1>2, <1>3 DEF AtAwait, Pairs

(* Who called whom.                                                          *)
Entry ==
  CASE program = "lazy-perform" -> "download_four"
    [] program = "random" -> "select_first"
    [] program = "return" -> "fetch_all"
    [] OTHER -> "main_coroutine"
Downloading == {"lazy-perform", "await-all", "await-all2", "select", "random", "return"}

LEMMA MainCallsEntry ==
  ASSUME TypeInv, program \in Downloading, NEW k \in DOMAIN Body(Main), Body(Main)[k].op = "call"
  PROVE  Body(Main)[k].fn = Entry
  <1>1. Body(Main) = Text(frame[Main].n)["main"]
    BY DEF TypeInv, FrameType, Body
  <1>2. \A f : DOMAIN <<call("r", f), get("r")>> = {1, 2}
    OBVIOUS
  <1>3. Body(Main) = <<call("r", Entry), get("r")>>
    BY <1>1 DEF Text, Downloading, Entry, lazy_perform, await_all, await_all2, select_cpp, random, return_cpp
  <1>4. k = 1 \/ k = 2
    BY <1>2, <1>3
  <1> QED BY <1>3, <1>4 DEF call, call_with, get

CalledBy(c, p, k) ==
  /\ owner[c] = p /\ Pending(p)
  /\ k \in DOMAIN Body(p) /\ Called(p, k) /\ c = Callee(p, k)
  /\ Body(p)[k].op = "call" /\ Body(p)[k].fn = frame[c].fn

LEMMA CallerOf ==
  ASSUME TypeOK, ClientInv, program \in Downloading, NEW c \in Coro, Pending(c)
  PROVE  \/ owner[c] = Main /\ frame[c].fn = Entry /\ c \in Owned(Main)
         \/ \E p \in Coro : \E k \in DOMAIN Body(p) : CalledBy(c, p, k)
  <1>1. TypeInv /\ MainInv /\ KinInv /\ ParentInv
    BY DEF ClientInv, UniformInv, Downloading, Uniform, Programs
  <1>2. owner[c] \in Coro \cup {Main}
    BY <1>1 DEF ParentInv, Pending, TypeOK
  <1>3. CASE owner[c] = Main
    <2>1. c \in Owned(Main)
      BY <1>3 DEF Owned
    <2>2. PICK k : k = frame[Main].pc - 1
      OBVIOUS
    <2>3. /\ frame[Main].pc > 1 /\ Body(Main)[k].op = "call" /\ IsCallee(Main, k)
          /\ c = Callee(Main, k)
      BY <1>1, <2>1, <2>2 DEF MainInv, JustCalled
    <2>4. k \in DOMAIN Body(Main)
      <3>1. frame[Main].fn \in Functions
        BY <1>1, MainText
      <3> QED BY <1>1, <2>2, <2>3, <3>1, BodyLawful
    <2>5. frame[c].fn = Body(Main)[k].fn
      BY <2>3 DEF IsCallee
    <2> QED BY <1>1, <1>3, <2>1, <2>3, <2>4, <2>5, MainCallsEntry
  <1>4. CASE owner[c] \in Coro
    <2>1. PICK p \in Coro : p = owner[c]
      BY <1>4
    <2>2. Pending(p) /\ KinOf(p) /\ c \in Owned(p)
      BY <1>1, <2>1 DEF ParentInv, KinInv, Owned
    <2>3. PICK k \in DOMAIN Body(p) : Called(p, k) /\ c = Callee(p, k)
      BY <2>2 DEF KinOf
    <2>4. IsCallee(p, k) /\ Body(p)[k].op = "call"
      BY <2>2, <2>3 DEF KinOf, Called, CalledAt
    <2>5. CalledBy(c, p, k)
      BY <2>1, <2>2, <2>3, <2>4 DEF CalledBy, IsCallee
    <2> QED BY <2>5
  <1> QED BY <1>2, <1>3, <1>4

LEMMA MainCalledOne ==
  ASSUME MainInv, NEW c \in Owned(Main), NEW d \in Owned(Main)
  PROVE  c = d
  BY DEF MainInv

LEMMA CardinalityTwo ==
  ASSUME NEW a, NEW b, a # b PROVE IsFiniteSet({a, b}) /\ Cardinality({a, b}) = 2
  <1>1. IsFiniteSet({a}) /\ Cardinality({a}) = 1
    BY FS_Singleton
  <1>2. {a, b} = {a} \cup {b} /\ b \notin {a}
    OBVIOUS
  <1> QED BY <1>1, <1>2, FS_AddElement

(* The two downloads of a pair: those that have not ended are with curl.     *)
LEMMA PairDownloads ==
  ASSUME TypeInv, KinInv, FreeInv, Asleep, NEW c \in Coro, Pending(c),
         Pairs(Body(c), "fetch", "fetch"),
         \A p \in Coro : Pending(p) /\ frame[p].fn = "fetch" => Fetches(Body(p))
  PROVE  LET A == frame[c].env["a"]
             B == frame[c].env["b"]
         IN /\ {"a", "b"} \subseteq DOMAIN frame[c].env /\ A # B /\ A \in Coro /\ B \in Coro
            /\ Owned(c) = {A, B} /\ Variables(c, {"a", "b"}) = {A, B}
            /\ \A d \in {A, B} : ~Done(d) => d \in handles
  <1>1. PICK A, B : A = frame[c].env["a"] /\ B = frame[c].env["b"]
    OBVIOUS
  <1>2. frame[c].pc > 2
    BY PairAsleep
  <1>3. /\ {"a", "b"} \subseteq DOMAIN frame[c].env
        /\ A # B /\ A \in Coro /\ B \in Coro /\ Owned(c) = {A, B}
        /\ Pending(A) => frame[A].fn = "fetch"
        /\ Pending(B) => frame[B].fn = "fetch"
    BY <1>1, <1>2, PairCallees DEF KinInv
  <1>4. ASSUME NEW d \in {A, B}, ~Done(d) PROVE d \in handles
    <2>1. owner[d] = c /\ d \in Coro
      BY <1>3 DEF Owned
    <2>2. Pending(d)
      BY <1>4, <2>1, Names DEF FreeInv, Pending, Done
    <2> QED BY <1>3, <1>4, <2>1, <2>2, FetchAsleep
  <1>5. Variables(c, {"a", "b"}) = {A, B}
    BY <1>1 DEF Variables
  <1> QED BY <1>1, <1>3, <1>4, <1>5

(* The invariants at hand while curl is polled.                              *)
Polled == TypeOK /\ ClientInv /\ FreeInv /\ Asleep

LEMMA PolledFacts ==
  ASSUME Polled, program \in Downloading PROVE TypeInv /\ MainInv /\ KinInv /\ ParamInv /\ LentInv
  BY DEF Polled, ClientInv, UniformInv, Downloading, Uniform, Programs

(* Shapes and callers.                                                       *)
LEMMA PairCalls ==
  ASSUME NEW B, NEW g, NEW h, Pairs(B, g, h), NEW k \in DOMAIN B, B[k].op = "call"
  PROVE  B[k].fn \in {g, h}
  <1>1. k = 1 \/ k = 2 \/ k > 2
    BY DEF Pairs
  <1> QED BY <1>1 DEF Pairs

LEMMA FetchCalls ==
  ASSUME NEW B, Fetches(B), NEW k \in DOMAIN B PROVE B[k].op # "call"
  <1>1. k = 1 \/ (k = 2 /\ Len(B) = 2)
    BY DEF Fetches
  <1> QED BY <1>1 DEF Fetches

NobodyCalls(f) ==
  \A p \in Coro : Pending(p) =>
    \A k \in DOMAIN Body(p) : Body(p)[k].op = "call" => Body(p)[k].fn # f

LEMMA OneEntry ==
  ASSUME Polled, program \in Downloading, NobodyCalls(Entry),
         NEW p \in Coro, Pending(p), frame[p].fn = Entry
  PROVE  p \in Owned(Main) /\ \A m \in Owned(Main) : p = m
  <1>1. TypeOK /\ ClientInv /\ MainInv
    BY PolledFacts DEF Polled
  <1>2. \A q \in Coro : \A k \in DOMAIN Body(q) : ~CalledBy(p, q, k)
    BY DEF NobodyCalls, CalledBy
  <1>3. p \in Owned(Main)
    BY <1>1, <1>2, CallerOf
  <1> QED BY <1>1, <1>3, MainCalledOne

(* The programs in which one coroutine starts two transfers.                 *)
TwoFetches(f) ==
  \A p \in Coro : Pending(p) =>
    /\ frame[p].fn \in {f, "fetch"}
    /\ frame[p].fn = "fetch" => Fetches(Body(p))
    /\ frame[p].fn = f => Pairs(Body(p), "fetch", "fetch")

LEMMA TwoInParallel ==
  ASSUME Polled, program \in Downloading, Entry # "fetch", TwoFetches(Entry),
         \A c \in Coro : ~Done(c), JustCalled
  PROVE  Cardinality(handles) = 2
  <1>1. TypeInv /\ MainInv /\ KinInv /\ FreeInv /\ Asleep /\ TypeOK /\ ClientInv
    BY PolledFacts DEF Polled
  <1>2. PICK m : m = Callee(Main, frame[Main].pc - 1)
    OBVIOUS
  <1>3. m \in Coro /\ m \in Owned(Main) /\ owner[m] = Main
    BY <1>1, <1>2 DEF MainInv, IsCallee, Owned
  <1>4. Pending(m)
    BY <1>1, <1>3, Names DEF FreeInv, Pending, Done
  <1>5. frame[m].fn = Entry
    <2>1. \/ owner[m] = Main /\ frame[m].fn = Entry /\ m \in Owned(Main)
          \/ \E p \in Coro : \E k \in DOMAIN Body(p) : CalledBy(m, p, k)
      BY <1>1, <1>3, <1>4, CallerOf
    <2> QED BY <1>3, <2>1, Names DEF CalledBy
  <1>6. Pairs(Body(m), "fetch", "fetch")
    BY <1>4, <1>3, <1>5 DEF TwoFetches
  <1>7. PICK A, B : A = frame[m].env["a"] /\ B = frame[m].env["b"]
    OBVIOUS
  <1>8. A # B /\ A \in handles /\ B \in handles /\ Owned(m) = {A, B}
    BY <1>1, <1>3, <1>4, <1>6, <1>7, PairDownloads DEF TwoFetches
  <1>9. NobodyCalls(Entry)
    <2>1. ASSUME NEW q \in Coro, Pending(q), NEW j \in DOMAIN Body(q), Body(q)[j].op = "call"
          PROVE  Body(q)[j].fn = "fetch"
      BY <2>1, FetchCalls, PairCalls DEF TwoFetches
    <2> QED BY <2>1 DEF NobodyCalls
  <1>10. ASSUME NEW e \in handles PROVE e \in {A, B}
    <2>1. e \in Coro /\ Pending(e) /\ Performs(e)
      BY <1>1, <1>10 DEF Asleep
    <2>2. frame[e].fn = "fetch"
      <3>1. frame[e].fn # Entry
        BY <1>1, <1>10, <2>1, PairAsleep DEF TwoFetches
      <3> QED BY <2>1, <3>1 DEF TwoFetches
    <2>3. \E q \in Coro : \E j \in DOMAIN Body(q) : CalledBy(e, q, j)
      BY <1>1, <2>1, <2>2, CallerOf
    <2>4. PICK p \in Coro : \E j \in DOMAIN Body(p) : CalledBy(e, p, j)
      BY <2>3
    <2>5. PICK k \in DOMAIN Body(p) : CalledBy(e, p, k)
      BY <2>4
    <2>6. Pending(p) /\ Body(p)[k].op = "call" /\ owner[e] = p
      BY <2>5 DEF CalledBy
    <2>7. frame[p].fn = Entry
      BY <2>5, <2>6, FetchCalls DEF TwoFetches
    <2>8. p = m
      BY <1>3, <1>9, <2>6, <2>7, OneEntry
    <2> QED BY <1>8, <2>1, <2>6, <2>8 DEF Owned
  <1>11. handles = {A, B}
    BY <1>8, <1>10
  <1> QED BY <1>8, <1>11, CardinalityTwo

LEMMA CardinalityFour ==
  ASSUME NEW a, NEW b, NEW c, NEW d, a # b, c \notin {a, b}, d \notin {a, b, c}
  PROVE  Cardinality({a, b, c, d}) = 4
  <1>1. IsFiniteSet({a, b}) /\ Cardinality({a, b}) = 2
    BY CardinalityTwo
  <1>2. {a, b, c} = {a, b} \cup {c} /\ {a, b, c, d} = {a, b, c} \cup {d}
    OBVIOUS
  <1>3. IsFiniteSet({a, b, c}) /\ Cardinality({a, b, c}) = 3
    BY <1>1, <1>2, FS_AddElement
  <1> QED BY <1>2, <1>3, FS_AddElement

LEMMA FourInParallel ==
  ASSUME Polled, program = "lazy-perform", \A c \in Coro : ~Done(c), JustCalled
  PROVE  Cardinality(handles) = 4
  <1> DEFINE Twos == {"download_two", "download_two_b"}
  <1>1. /\ TypeInv /\ MainInv /\ KinInv /\ FreeInv /\ Asleep /\ TypeOK /\ ClientInv
        /\ program \in Downloading /\ Entry = "download_four"
    BY PolledFacts DEF Polled, Downloading, Entry
  <1>2. \A p \in Coro : Pending(p) =>
          /\ frame[p].fn \in {"download_four", "fetch"} \cup Twos
          /\ frame[p].fn = "fetch" => Fetches(Body(p))
          /\ frame[p].fn = "download_four" => Pairs(Body(p), "download_two", "download_two_b")
          /\ frame[p].fn \in Twos => Pairs(Body(p), "fetch", "fetch")
    BY <1>1, LazyPerformShapes
  <1> HIDE DEF Twos
  <1>3. \A p \in Coro : Pending(p) => \A k \in DOMAIN Body(p) : Body(p)[k].op = "call" =>
          \/ frame[p].fn = "download_four" /\ Body(p)[k].fn \in Twos
          \/ frame[p].fn \in Twos /\ Body(p)[k].fn = "fetch"
    <2> SUFFICES ASSUME NEW p \in Coro, Pending(p), NEW k \in DOMAIN Body(p), Body(p)[k].op = "call"
                 PROVE  \/ frame[p].fn = "download_four" /\ Body(p)[k].fn \in Twos
                        \/ frame[p].fn \in Twos /\ Body(p)[k].fn = "fetch"
      OBVIOUS
    <2>1. ~Fetches(Body(p))
      BY FetchCalls
    <2>2. \A g, h : Pairs(Body(p), g, h) => Body(p)[k].fn \in {g, h}
      BY PairCalls
    <2> QED BY <1>2, <2>1, <2>2 DEF Twos
  <1>4. "fetch" \notin Twos /\ "download_four" \notin Twos
    BY DEF Twos
  <1>5. NobodyCalls(Entry)
    BY <1>1, <1>3, <1>4 DEF NobodyCalls
  <1>6. PICK m : m = Callee(Main, frame[Main].pc - 1)
    OBVIOUS
  <1>7. m \in Coro /\ m \in Owned(Main) /\ owner[m] = Main
    BY <1>1, <1>6 DEF MainInv, IsCallee, Owned
  <1>8. Pending(m)
    BY <1>1, <1>7, Names DEF FreeInv, Pending, Done
  <1>9. frame[m].fn = "download_four"
    <2>1. \/ owner[m] = Main /\ frame[m].fn = Entry /\ m \in Owned(Main)
          \/ \E p \in Coro : \E k \in DOMAIN Body(p) : CalledBy(m, p, k)
      BY <1>1, <1>7, <1>8, CallerOf
    <2> QED BY <1>1, <1>7, <2>1, Names DEF CalledBy
  <1>10. Pairs(Body(m), "download_two", "download_two_b")
    BY <1>2, <1>7, <1>8, <1>9
  <1>11. PICK P, Q : P = frame[m].env["a"] /\ Q = frame[m].env["b"]
    OBVIOUS
  <1>12. /\ P # Q /\ P \in Coro /\ Q \in Coro /\ Owned(m) = {P, Q}
         /\ Pending(P) => frame[P].fn = "download_two"
         /\ Pending(Q) => frame[Q].fn = "download_two_b"
    <2>1. frame[m].pc > 2 /\ KinOf(m)
      BY <1>1, <1>7, <1>8, <1>10, PairAsleep DEF KinInv
    <2> QED BY <1>1, <1>7, <1>8, <1>10, <1>11, <2>1, PairCallees
  <1>13. Pending(P) /\ Pending(Q)
    <2>1. owner[P] = m /\ owner[Q] = m
      BY <1>12 DEF Owned
    <2> QED BY <1>1, <1>7, <1>12, <2>1, Names DEF FreeInv, Pending, Done
  <1>14. ASSUME NEW p \in {P, Q}
         PROVE  \E A, B : A # B /\ A \in handles /\ B \in handles /\ Owned(p) = {A, B}
    <2>1. p \in Coro /\ Pending(p) /\ Pairs(Body(p), "fetch", "fetch")
      BY <1>2, <1>12, <1>13 DEF Twos
    <2>2. \A q \in Coro : Pending(q) /\ frame[q].fn = "fetch" => Fetches(Body(q))
      BY <1>2
    <2>3. PICK A, B : A = frame[p].env["a"] /\ B = frame[p].env["b"]
      OBVIOUS
    <2>4. A # B /\ A \in Coro /\ B \in Coro /\ Owned(p) = {A, B} /\ \A d \in {A, B} : ~Done(d) => d \in handles
      BY <1>1, <2>1, <2>2, <2>3, PairDownloads
    <2> QED BY <2>4
  <1>15. PICK A, B : A # B /\ A \in handles /\ B \in handles /\ Owned(P) = {A, B}
    BY <1>14
  <1>16. PICK C, D : C # D /\ C \in handles /\ D \in handles /\ Owned(Q) = {C, D}
    BY <1>14
  <1>17. C \notin {A, B} /\ D \notin {A, B, C}
    <2>1. owner[A] = P /\ owner[B] = P /\ owner[C] = Q /\ owner[D] = Q
      BY <1>15, <1>16 DEF Owned
    <2> QED BY <1>12, <1>16, <2>1
  <1>18. ASSUME NEW e \in handles PROVE e \in {A, B, C, D}
    <2>1. e \in Coro /\ Pending(e) /\ Performs(e)
      BY <1>1, <1>18 DEF Asleep
    <2>2. frame[e].fn = "fetch"
      <3>1. ~Pairs(Body(e), "fetch", "fetch") /\ ~Pairs(Body(e), "download_two", "download_two_b")
        BY <1>1, <1>18, <2>1, PairAsleep
      <3> QED BY <1>2, <2>1, <3>1
    <2>3. \E q \in Coro : \E j \in DOMAIN Body(q) : CalledBy(e, q, j)
      BY <1>1, <2>1, <2>2, CallerOf
    <2>4. PICK p \in Coro : \E j \in DOMAIN Body(p) : CalledBy(e, p, j)
      BY <2>3
    <2>5. Pending(p) /\ frame[p].fn \in Twos /\ owner[e] = p
      BY <1>3, <1>4, <2>2, <2>4 DEF CalledBy
    <2>6. \E q \in Coro : \E j \in DOMAIN Body(q) : CalledBy(p, q, j)
      BY <1>1, <1>4, <2>5, CallerOf
    <2>7. PICK q \in Coro : \E j \in DOMAIN Body(q) : CalledBy(p, q, j)
      BY <2>6
    <2>8. Pending(q) /\ frame[q].fn = "download_four" /\ owner[p] = q
      BY <1>3, <1>4, <2>5, <2>7 DEF CalledBy
    <2>9. q = m
      BY <1>1, <1>5, <1>7, <2>8, OneEntry DEF Polled
    <2> QED BY <1>12, <1>15, <1>16, <2>1, <2>5, <2>8, <2>9 DEF Owned
  <1>19. handles = {A, B, C, D}
    BY <1>15, <1>16, <1>18
  <1> QED BY <1>15, <1>17, <1>19, CardinalityFour

(* The programs with all(): it is called once, by the coroutine that main()  *)
(* has called.                                                               *)
WithAll == {"await-all", "await-all2", "return"}
AllText ==
  /\ NobodyCalls(Entry)
  /\ \A p \in Coro : Pending(p) =>
       \A k \in DOMAIN Body(p) : Body(p)[k].op = "call" /\ Body(p)[k].fn = "all" =>
         /\ frame[p].fn = Entry
         /\ \A j \in DOMAIN Body(p) : Body(p)[j].op = "call" /\ Body(p)[j].fn = "all" => j = k

LEMMA OneAll ==
  ASSUME Polled, program \in Downloading, Entry # "all", AllText,
         NEW c \in Coro, Pending(c), frame[c].fn = "all"
  PROVE  /\ \E q \in Coro : /\ frame[q].fn = Entry
                            /\ \E k \in DOMAIN Body(q) : CalledBy(c, q, k)
         /\ \A d \in Coro : Pending(d) /\ frame[d].fn = "all" => d = c
  <1>1. TypeOK /\ ClientInv
    BY DEF Polled
  <1>2. ASSUME NEW d \in Coro, Pending(d), frame[d].fn = "all"
        PROVE  \E q \in Coro : /\ Pending(q) /\ frame[q].fn = Entry
                               /\ \E k \in DOMAIN Body(q) : CalledBy(d, q, k)
    <2>1. \E q \in Coro : \E k \in DOMAIN Body(q) : CalledBy(d, q, k)
      BY <1>1, <1>2, CallerOf
    <2>2. PICK q \in Coro : \E k \in DOMAIN Body(q) : CalledBy(d, q, k)
      BY <2>1
    <2> QED BY <1>2, <2>2 DEF CalledBy, AllText
  <1>3. PICK q \in Coro : /\ Pending(q) /\ frame[q].fn = Entry
                          /\ \E k \in DOMAIN Body(q) : CalledBy(c, q, k)
    BY <1>2
  <1>4. PICK k \in DOMAIN Body(q) : CalledBy(c, q, k)
    BY <1>3
  <1>5. ASSUME NEW d \in Coro, Pending(d), frame[d].fn = "all" PROVE d = c
    <2>1. PICK p \in Coro : /\ Pending(p) /\ frame[p].fn = Entry
                            /\ \E j \in DOMAIN Body(p) : CalledBy(d, p, j)
      BY <1>2, <1>5
    <2>2. PICK j \in DOMAIN Body(p) : CalledBy(d, p, j)
      BY <2>1
    <2>3. p = q
      BY <1>3, <2>1, OneEntry DEF AllText
    <2>4. j = k
      BY <1>3, <1>4, <1>5, <2>2, <2>3 DEF AllText, CalledBy
    <2> QED BY <1>4, <2>2, <2>3, <2>4 DEF CalledBy
  <1> QED BY <1>3, <1>5

(* Where all() is called over a range, it downloads for itself, ...          *)
LEMMA AllOfRange ==
  ASSUME Polled, program = "await-all", NEW c \in Coro, Pending(c), frame[c].fn = "all"
  PROVE  /\ {"a", "b"} \subseteq DOMAIN frame[c].env
         /\ handles = {d \in Variables(c, {"a", "b"}) : ~Done(d)}
  <1>1. /\ TypeInv /\ KinInv /\ FreeInv /\ Asleep /\ TypeOK /\ ClientInv
        /\ program \in Downloading /\ Entry = "main_coroutine"
    BY PolledFacts DEF Polled, Downloading, Entry
  <1>2. \A p \in Coro : Pending(p) =>
          /\ frame[p].fn \in {"main_coroutine", "all", "fetch"}
          /\ frame[p].fn = "fetch" => Fetches(Body(p))
          /\ frame[p].fn = "all" => Pairs(Body(p), "fetch", "fetch")
          /\ frame[p].fn = "main_coroutine" =>
               /\ DOMAIN Body(p) = {1, 2} /\ Body(p)[1].op = "call" /\ Body(p)[1].fn = "all"
               /\ Body(p)[2].op = "await"
    <2>1. \A p \in Coro : Pending(p) =>
            /\ frame[p].fn \in {"main_coroutine", "all", "fetch"}
            /\ frame[p].fn = "fetch" => Fetches(Body(p))
            /\ frame[p].fn = "all" => Pairs(Body(p), "fetch", "fetch")
            /\ frame[p].fn = "main_coroutine" => Body(p) = <<call("r", "all"), await("r")>>
      BY <1>1, AwaitAllShapes
    <2>2. \A B : B = <<call("r", "all"), await("r")>> =>
            DOMAIN B = {1, 2} /\ B[1].op = "call" /\ B[1].fn = "all" /\ B[2].op = "await"
      BY DEF call, call_with, await
    <2> QED BY <2>1, <2>2
  <1>3. \A p \in Coro : Pending(p) => \A k \in DOMAIN Body(p) : Body(p)[k].op = "call" =>
          \/ frame[p].fn = "main_coroutine" /\ Body(p)[k].fn = "all" /\ k = 1
          \/ frame[p].fn = "all" /\ Body(p)[k].fn = "fetch"
    <2> SUFFICES ASSUME NEW p \in Coro, Pending(p), NEW k \in DOMAIN Body(p), Body(p)[k].op = "call"
                 PROVE  \/ frame[p].fn = "main_coroutine" /\ Body(p)[k].fn = "all" /\ k = 1
                        \/ frame[p].fn = "all" /\ Body(p)[k].fn = "fetch"
      OBVIOUS
    <2>1. ~Fetches(Body(p))
      BY FetchCalls
    <2>2. \A g, h : Pairs(Body(p), g, h) => Body(p)[k].fn \in {g, h}
      BY PairCalls
    <2> QED BY <1>2, <2>1, <2>2
  <1>4. AllText /\ Entry # "all"
    BY <1>1, <1>3 DEF AllText, NobodyCalls
  <1>5. /\ Pairs(Body(c), "fetch", "fetch")
        /\ \A p \in Coro : Pending(p) /\ frame[p].fn = "fetch" => Fetches(Body(p))
    BY <1>2
  <1>6. PICK A, B : A = frame[c].env["a"] /\ B = frame[c].env["b"]
    OBVIOUS
  <1>7. /\ {"a", "b"} \subseteq DOMAIN frame[c].env /\ A \in Coro /\ B \in Coro
        /\ Owned(c) = {A, B} /\ Variables(c, {"a", "b"}) = {A, B}
        /\ \A d \in {A, B} : ~Done(d) => d \in handles
    BY <1>1, <1>5, <1>6, PairDownloads
  <1>8. ASSUME NEW e \in handles PROVE e \in {A, B} /\ ~Done(e)
    <2>1. e \in Coro /\ Pending(e) /\ Performs(e)
      BY <1>1, <1>8 DEF Asleep
    <2>2. frame[e].fn = "fetch"
      <3>1. ~Pairs(Body(e), "fetch", "fetch")
        BY <1>1, <1>8, <2>1, PairAsleep
      <3>2. frame[e].fn # "main_coroutine"
        BY <1>2, <2>1 DEF Performs
      <3> QED BY <1>2, <2>1, <3>1, <3>2
    <2>3. \E q \in Coro : \E j \in DOMAIN Body(q) : CalledBy(e, q, j)
      BY <1>1, <2>1, <2>2, CallerOf
    <2>4. PICK p \in Coro : \E j \in DOMAIN Body(p) : CalledBy(e, p, j)
      BY <2>3
    <2>5. Pending(p) /\ frame[p].fn = "all" /\ owner[e] = p
      BY <1>3, <2>2, <2>4 DEF CalledBy
    <2>6. p = c
      BY <1>1, <1>4, <2>5, OneAll
    <2> QED BY <1>7, <2>1, <2>5, <2>6 DEF Owned, Pending, Done
  <1> QED BY <1>7, <1>8

(* ... where it is given promises, its caller has started them, ...          *)
LEMMA AllOfPromises ==
  ASSUME Polled, program = "await-all2", NEW c \in Coro, Pending(c), frame[c].fn = "all"
  PROVE  /\ {"a", "b"} \subseteq DOMAIN frame[c].env
         /\ handles = {d \in Variables(c, {"a", "b"}) : ~Done(d)}
  <1>1. /\ TypeInv /\ KinInv /\ FreeInv /\ Asleep /\ TypeOK /\ ClientInv /\ ParamInv /\ LentInv
        /\ program \in Downloading /\ Entry = "main_coroutine" /\ Params("all") = {"a", "b"}
    BY PolledFacts DEF Polled, Downloading, Entry, Params
  <1>2. \A p \in Coro : Pending(p) =>
          /\ frame[p].fn \in {"main_coroutine", "all", "fetch"}
          /\ frame[p].fn = "fetch" => Fetches(Body(p))
          /\ frame[p].fn = "all" => \A k \in DOMAIN Body(p) : Body(p)[k].op = "await"
          /\ frame[p].fn = "main_coroutine" =>
               /\ DOMAIN Body(p) = 1..4 /\ Body(p)[4].op = "await"
               /\ Body(p)[1].op = "call" /\ Body(p)[1].name = "a" /\ Body(p)[1].fn = "fetch"
               /\ Body(p)[2].op = "call" /\ Body(p)[2].name = "b" /\ Body(p)[2].fn = "fetch"
               /\ Body(p)[3].op = "call" /\ Body(p)[3].fn = "all"
    <2>1. \A p \in Coro : Pending(p) =>
            /\ frame[p].fn \in {"main_coroutine", "all", "fetch"}
            /\ frame[p].fn = "fetch" => Fetches(Body(p))
            /\ frame[p].fn = "all" => Body(p) = <<await("a"), await("b")>>
            /\ frame[p].fn = "main_coroutine" =>
                 Body(p) = <<call("a", "fetch"), call("b", "fetch"),
                             call_with("r", "all", 0, {}, {"a", "b"}), await("r")>>
      BY <1>1, AwaitAll2Shapes
    <2>2. \A B : B = <<await("a"), await("b")>> => \A k \in DOMAIN B : B[k].op = "await"
      BY DEF await
    <2>3. \A B : B = <<call("a", "fetch"), call("b", "fetch"),
                       call_with("r", "all", 0, {}, {"a", "b"}), await("r")>> =>
            /\ DOMAIN B = 1..4 /\ B[4].op = "await"
            /\ B[1].op = "call" /\ B[1].name = "a" /\ B[1].fn = "fetch"
            /\ B[2].op = "call" /\ B[2].name = "b" /\ B[2].fn = "fetch"
            /\ B[3].op = "call" /\ B[3].fn = "all"
      <3> SUFFICES ASSUME NEW B, B = <<call("a", "fetch"), call("b", "fetch"),
                                       call_with("r", "all", 0, {}, {"a", "b"}), await("r")>>
                   PROVE  /\ DOMAIN B = 1..4 /\ B[4].op = "await"
                          /\ B[1].op = "call" /\ B[1].name = "a" /\ B[1].fn = "fetch"
                          /\ B[2].op = "call" /\ B[2].name = "b" /\ B[2].fn = "fetch"
                          /\ B[3].op = "call" /\ B[3].fn = "all"
        OBVIOUS
      <3>1. /\ DOMAIN B = 1..4 /\ B[1] = call("a", "fetch") /\ B[2] = call("b", "fetch")
            /\ B[3] = call_with("r", "all", 0, {}, {"a", "b"}) /\ B[4] = await("r")
        OBVIOUS
      <3> QED BY <3>1 DEF call, call_with, await
    <2> QED BY <2>1, <2>2, <2>3
  <1>3. \A p \in Coro : Pending(p) => \A k \in DOMAIN Body(p) : Body(p)[k].op = "call" =>
          /\ frame[p].fn = "main_coroutine"
          /\ \/ (k = 1 \/ k = 2) /\ Body(p)[k].fn = "fetch"
             \/ k = 3 /\ Body(p)[k].fn = "all"
    <2> SUFFICES ASSUME NEW p \in Coro, Pending(p), NEW k \in DOMAIN Body(p), Body(p)[k].op = "call"
                 PROVE  /\ frame[p].fn = "main_coroutine"
                        /\ \/ (k = 1 \/ k = 2) /\ Body(p)[k].fn = "fetch"
                           \/ k = 3 /\ Body(p)[k].fn = "all"
      OBVIOUS
    <2>1. frame[p].fn = "main_coroutine"
      BY <1>2, FetchCalls
    <2>2. k = 1 \/ k = 2 \/ k = 3 \/ k = 4
      BY <1>2, <2>1
    <2> QED BY <1>2, <2>1, <2>2
  <1>4. AllText /\ Entry # "all"
    BY <1>1, <1>3 DEF AllText, NobodyCalls
  <1>5. PICK q \in Coro : /\ frame[q].fn = "main_coroutine"
                          /\ \E k \in DOMAIN Body(q) : CalledBy(c, q, k)
    BY <1>1, <1>4, OneAll
  <1>6. Pending(q) /\ Called(q, 3) /\ c = Callee(q, 3)
    <2>1. PICK k \in DOMAIN Body(q) : CalledBy(c, q, k)
      BY <1>5
    <2>2. k = 3
      BY <1>3, <2>1 DEF CalledBy
    <2> QED BY <2>1, <2>2 DEF CalledBy
  <1>7. /\ DOMAIN Body(q) = 1..4 /\ Body(q)[4].op = "await"
        /\ Body(q)[1].op = "call" /\ Body(q)[1].name = "a" /\ Body(q)[1].fn = "fetch"
        /\ Body(q)[2].op = "call" /\ Body(q)[2].name = "b" /\ Body(q)[2].fn = "fetch"
        /\ Body(q)[3].op = "call" /\ Body(q)[3].fn = "all"
    BY <1>2, <1>5, <1>6
  <1>8. IsCallee(q, 1) /\ IsCallee(q, 2)
    <2>1. frame[q].pc \in Nat /\ 3 < frame[q].pc /\ frame[q].pc <= 5
      <3>1. frame[q].pc \in Nat /\ frame[q].pc <= Len(Body(q)) + 1 /\ DOMAIN Body(q) = 1..Len(Body(q)) /\ Len(Body(q)) \in Nat
        <4>1. frame[q].fn \in Functions
          BY <1>1, <1>6 DEF TypeInv, FrameType
        <4> QED BY <1>1, <4>1, BodyLawful
      <3>2. Len(Body(q)) = 4
        BY <1>7, <3>1
      <3>3. 3 \in 1..(frame[q].pc - 1)
        BY <1>6 DEF Called, CalledAt
      <3> QED BY <3>1, <3>2, <3>3
    <2>2. \A j \in 1..(frame[q].pc - 1) : \A x : ~Drops(Body(q), j, x)
      <3>1. \A j \in 1..(frame[q].pc - 1) : j = 1 \/ j = 2 \/ j = 3 \/ j = 4
        BY <2>1
      <3> QED BY <1>7, <3>1 DEF Drops
    <2>3. Called(q, 1) /\ Called(q, 2)
      BY <1>7, <2>1, <2>2 DEF Called, CalledAt
    <2> QED BY <1>1, <1>6, <1>7, <2>3 DEF KinInv, KinOf
  <1>9. PICK A, B : A = frame[q].env["a"] /\ B = frame[q].env["b"]
    OBVIOUS
  <1>10. /\ A \in Owned(q) /\ B \in Owned(q) /\ A = Callee(q, 1) /\ B = Callee(q, 2)
         /\ Pending(A) => frame[A].fn = "fetch"
         /\ Pending(B) => frame[B].fn = "fetch"
    BY <1>7, <1>8, <1>9 DEF IsCallee, Callee
  <1>11. {"a", "b"} \subseteq DOMAIN frame[c].env
    BY <1>1 DEF ParamInv, ParamOf
  <1>12. frame[c].env["a"] = A /\ frame[c].env["b"] = B
    BY <1>1, <1>6, <1>7, <1>9 DEF LentInv, LentOf
  <1>13. Variables(c, {"a", "b"}) = {A, B}
    BY <1>12 DEF Variables
  <1>14. ASSUME NEW d \in {A, B}, ~Done(d) PROVE d \in handles
    <2>1. d \in Coro /\ owner[d] = q
      BY <1>10 DEF Owned
    <2>2. Pending(d)
      BY <1>1, <1>14, <2>1, Names DEF FreeInv, Pending, Done
    <2> QED BY <1>1, <1>2, <1>10, <2>1, <2>2, FetchAsleep
  <1>15. ASSUME NEW e \in handles PROVE e \in {A, B} /\ ~Done(e)
    <2>1. e \in Coro /\ Pending(e) /\ Performs(e)
      BY <1>1, <1>15 DEF Asleep
    <2>2. frame[e].fn = "fetch"
      <3>1. frame[e].fn # "all"
        BY <1>2, <2>1 DEF Performs
      <3>2. frame[e].fn # "main_coroutine"
        <4>1. PICK k \in DOMAIN Body(e) : Body(e)[k].op = "perform"
          BY <2>1 DEF Performs
        <4>2. ASSUME frame[e].fn = "main_coroutine" PROVE FALSE
          <5>1. k = 1 \/ k = 2 \/ k = 3 \/ k = 4
            BY <1>2, <2>1, <4>2
          <5> QED BY <1>2, <2>1, <4>1, <4>2, <5>1
        <4> QED BY <4>2
      <3> QED BY <1>2, <2>1, <3>1, <3>2
    <2>3. \E p \in Coro : \E j \in DOMAIN Body(p) : CalledBy(e, p, j)
      BY <1>1, <2>1, <2>2, CallerOf
    <2>4. PICK p \in Coro : \E j \in DOMAIN Body(p) : CalledBy(e, p, j)
      BY <2>3
    <2>5. PICK j \in DOMAIN Body(p) : CalledBy(e, p, j)
      BY <2>4
    <2>6. Pending(p) /\ frame[p].fn = Entry /\ e = Callee(p, j) /\ j \in {1, 2}
      BY <1>1, <1>3, <2>2, <2>5 DEF CalledBy
    <2>7. p = q
      <3>1. p \in Owned(Main) /\ q \in Owned(Main) /\ \A m \in Owned(Main) : p = m
        BY <1>1, <1>4, <1>5, <1>6, <2>6, OneEntry DEF AllText
      <3> QED BY <3>1
    <2> QED BY <1>10, <2>1, <2>6, <2>7 DEF Pending, Done
  <1> QED BY <1>11, <1>13, <1>14, <1>15

(* ... and where it downloads by way of coroutines, each of these waits for  *)
(* the one transfer it has started.                                          *)
LEMMA ReturnCallers ==
  ASSUME TypeInv, program = "return"
  PROVE  \A p \in Coro : Pending(p) =>
          /\ frame[p].fn \in {"fetch_all", "all", "fetch_with_name", "fetch"}
          /\ frame[p].fn = "fetch" => Fetches(Body(p))
          /\ frame[p].fn = "all" => Pairs(Body(p), "fetch_with_name", "fetch_with_name")
          /\ frame[p].fn = "fetch_with_name" =>
               /\ DOMAIN Body(p) = {1, 2} /\ Body(p)[2].op = "await" /\ Body(p)[2].names = {"r"}
               /\ Body(p)[1].op = "call" /\ Body(p)[1].name = "r" /\ Body(p)[1].fn = "fetch"
          /\ frame[p].fn = "fetch_all" =>
               /\ DOMAIN Body(p) = 1..5 /\ Body(p)[2].op = "await" /\ Body(p)[5].op = "await"
               /\ Body(p)[1].op = "call" /\ Body(p)[1].name = "index" /\ Body(p)[1].fn = "fetch"
               /\ Body(p)[3].op = "drop" /\ Body(p)[3].name = "index"
               /\ Body(p)[4].op = "call" /\ Body(p)[4].fn = "all"
  <1>1. \A p \in Coro : Pending(p) =>
          /\ frame[p].fn \in {"fetch_all", "all", "fetch_with_name", "fetch"}
          /\ frame[p].fn = "fetch" => Fetches(Body(p))
          /\ frame[p].fn = "all" => Pairs(Body(p), "fetch_with_name", "fetch_with_name")
          /\ frame[p].fn = "fetch_with_name" =>
               Body(p) = <<call_with("r", "fetch", Attempts, {}, {}), await("r")>>
          /\ frame[p].fn = "fetch_all" =>
               Body(p) = <<call_with("index", "fetch", Attempts, {}, {}), await("index"),
                           drop("index"), call("r", "all"), await("r")>>
    BY ReturnShapes
  <1>2. ASSUME NEW B, B = <<call_with("r", "fetch", Attempts, {}, {}), await("r")>>
        PROVE  /\ DOMAIN B = {1, 2} /\ B[2].op = "await" /\ B[2].names = {"r"}
               /\ B[1].op = "call" /\ B[1].name = "r" /\ B[1].fn = "fetch"
    <2>1. DOMAIN B = {1, 2} /\ B[1] = call_with("r", "fetch", Attempts, {}, {}) /\ B[2] = await("r")
      BY <1>2
    <2> QED BY <2>1 DEF call_with, await
  <1>3. ASSUME NEW B, B = <<call_with("index", "fetch", Attempts, {}, {}), await("index"),
                            drop("index"), call("r", "all"), await("r")>>
        PROVE  /\ DOMAIN B = 1..5 /\ B[2].op = "await" /\ B[5].op = "await"
               /\ B[1].op = "call" /\ B[1].name = "index" /\ B[1].fn = "fetch"
               /\ B[3].op = "drop" /\ B[3].name = "index"
               /\ B[4].op = "call" /\ B[4].fn = "all"
    <2>1. /\ DOMAIN B = 1..5 /\ B[1] = call_with("index", "fetch", Attempts, {}, {})
          /\ B[2] = await("index") /\ B[3] = drop("index") /\ B[4] = call("r", "all")
          /\ B[5] = await("r")
      BY <1>3
    <2> QED BY <2>1 DEF call, call_with, await, drop
  <1> QED BY <1>1, <1>2, <1>3

LEMMA AllOfCoroutines ==
  ASSUME Polled, program = "return", NEW c \in Coro, Pending(c), frame[c].fn = "all"
  PROVE  /\ {"a", "b"} \subseteq DOMAIN frame[c].env
         /\ Cardinality(handles) = Cardinality({d \in Variables(c, {"a", "b"}) : ~Done(d)})
  <1>1. /\ TypeInv /\ KinInv /\ FreeInv /\ Asleep /\ TypeOK /\ ClientInv
        /\ program \in Downloading /\ Entry = "fetch_all"
    BY PolledFacts DEF Polled, Downloading, Entry
  <1>2. \A p \in Coro : Pending(p) =>
          /\ frame[p].fn \in {"fetch_all", "all", "fetch_with_name", "fetch"}
          /\ frame[p].fn = "fetch" => Fetches(Body(p))
          /\ frame[p].fn = "all" => Pairs(Body(p), "fetch_with_name", "fetch_with_name")
          /\ frame[p].fn = "fetch_with_name" =>
               /\ DOMAIN Body(p) = {1, 2} /\ Body(p)[2].op = "await" /\ Body(p)[2].names = {"r"}
               /\ Body(p)[1].op = "call" /\ Body(p)[1].name = "r" /\ Body(p)[1].fn = "fetch"
          /\ frame[p].fn = "fetch_all" =>
               /\ DOMAIN Body(p) = 1..5 /\ Body(p)[2].op = "await" /\ Body(p)[5].op = "await"
               /\ Body(p)[1].op = "call" /\ Body(p)[1].name = "index" /\ Body(p)[1].fn = "fetch"
               /\ Body(p)[3].op = "drop" /\ Body(p)[3].name = "index"
               /\ Body(p)[4].op = "call" /\ Body(p)[4].fn = "all"
    BY <1>1, ReturnCallers
  <1>3. \A p \in Coro : Pending(p) => \A k \in DOMAIN Body(p) : Body(p)[k].op = "call" =>
          \/ frame[p].fn = "all" /\ Body(p)[k].fn = "fetch_with_name"
          \/ frame[p].fn = "fetch_with_name" /\ Body(p)[k].fn = "fetch" /\ k = 1
          \/ frame[p].fn = "fetch_all" /\ Body(p)[k].fn = "fetch" /\ k = 1
          \/ frame[p].fn = "fetch_all" /\ Body(p)[k].fn = "all" /\ k = 4
    <2> SUFFICES ASSUME NEW p \in Coro, Pending(p), NEW k \in DOMAIN Body(p), Body(p)[k].op = "call"
                 PROVE  \/ frame[p].fn = "all" /\ Body(p)[k].fn = "fetch_with_name"
                        \/ frame[p].fn = "fetch_with_name" /\ Body(p)[k].fn = "fetch" /\ k = 1
                        \/ frame[p].fn = "fetch_all" /\ Body(p)[k].fn = "fetch" /\ k = 1
                        \/ frame[p].fn = "fetch_all" /\ Body(p)[k].fn = "all" /\ k = 4
      OBVIOUS
    <2>1. ~Fetches(Body(p))
      BY FetchCalls
    <2>2. \A g, h : Pairs(Body(p), g, h) => Body(p)[k].fn \in {g, h}
      BY PairCalls
    <2>3. frame[p].fn = "fetch_all" => k = 1 \/ k = 2 \/ k = 3 \/ k = 4 \/ k = 5
      BY <1>2
    <2> QED BY <1>2, <2>1, <2>2, <2>3
  <1>4. AllText /\ Entry # "all"
    BY <1>1, <1>3 DEF AllText, NobodyCalls
  <1>5. Pairs(Body(c), "fetch_with_name", "fetch_with_name")
    BY <1>2
  <1>6. PICK A, B : A = frame[c].env["a"] /\ B = frame[c].env["b"]
    OBVIOUS
  <1>7. /\ {"a", "b"} \subseteq DOMAIN frame[c].env /\ A \in Coro /\ B \in Coro
        /\ Owned(c) = {A, B}
        /\ Pending(A) => frame[A].fn = "fetch_with_name"
        /\ Pending(B) => frame[B].fn = "fetch_with_name"
    <2>1. frame[c].pc > 2 /\ KinOf(c)
      BY <1>1, <1>5, PairAsleep DEF KinInv
    <2> QED BY <1>1, <1>5, <1>6, <2>1, PairCallees
  <1>8. Variables(c, {"a", "b"}) = {A, B}
    BY <1>6 DEF Variables
  <1> DEFINE D == {d \in {A, B} : ~Done(d)}
             f == [d \in D |-> frame[d].env["r"]]
  <1>9. ASSUME NEW d \in D PROVE f[d] \in handles /\ owner[f[d]] = d
    <2>1. d \in Coro /\ owner[d] = c /\ d \in {A, B} /\ ~Done(d)
      BY <1>7 DEF Owned
    <2>2. Pending(d)
      BY <1>1, <2>1, Names DEF FreeInv, Pending, Done
    <2>3. frame[d].fn = "fetch_with_name"
      BY <1>7, <2>1, <2>2
    <2>4. /\ DOMAIN Body(d) = {1, 2} /\ Body(d)[2].op = "await" /\ Body(d)[2].names = {"r"}
          /\ Body(d)[1].op = "call" /\ Body(d)[1].name = "r" /\ Body(d)[1].fn = "fetch"
      BY <1>2, <2>1, <2>2, <2>3
    <2>5. AtAwait(d)
      BY <1>1, <2>1, <2>2, <2>4 DEF Asleep, Performs
    <2>6. frame[d].pc = 2 /\ ~Done(frame[d].env["r"])
      BY <2>4, <2>5 DEF AtAwait
    <2>7. Called(d, 1)
      BY <2>4, <2>6 DEF Called, CalledAt
    <2>8. IsCallee(d, 1) /\ Callee(d, 1) = frame[d].env["r"]
      BY <1>1, <2>1, <2>2, <2>4, <2>7 DEF KinInv, KinOf, Callee
    <2>9. PICK e : e = frame[d].env["r"]
      OBVIOUS
    <2>10. e \in Coro /\ owner[e] = d /\ ~Done(e) /\ (Pending(e) => frame[e].fn = "fetch")
      BY <2>4, <2>6, <2>8, <2>9 DEF IsCallee, Owned
    <2>11. Pending(e)
      BY <1>1, <2>1, <2>10, Names DEF FreeInv, Pending, Done
    <2>12. e \in handles
      BY <1>1, <1>2, <2>10, <2>11, FetchAsleep
    <2> QED BY <2>9, <2>10, <2>12
  <1>10. ASSUME NEW e \in handles PROVE \E d \in D : f[d] = e
    <2>1. e \in Coro /\ Pending(e) /\ Performs(e)
      BY <1>1, <1>10 DEF Asleep
    <2>2. frame[e].fn = "fetch"
      <3>1. frame[e].fn # "all"
        BY <1>1, <1>2, <1>10, <2>1, PairAsleep
      <3>2. frame[e].fn # "fetch_with_name"
        BY <1>2, <2>1 DEF Performs
      <3>3. ASSUME frame[e].fn = "fetch_all" PROVE FALSE
        <4>1. PICK k \in DOMAIN Body(e) : Body(e)[k].op = "perform"
          BY <2>1 DEF Performs
        <4>2. k = 1 \/ k = 2 \/ k = 3 \/ k = 4 \/ k = 5
          BY <1>2, <2>1, <3>3
        <4> QED BY <1>2, <2>1, <3>3, <4>1, <4>2
      <3> QED BY <1>2, <2>1, <3>1, <3>2, <3>3
    <2>3. \E q \in Coro : \E j \in DOMAIN Body(q) : CalledBy(e, q, j)
      BY <1>1, <2>1, <2>2, CallerOf
    <2>4. PICK p \in Coro : \E j \in DOMAIN Body(p) : CalledBy(e, p, j)
      BY <2>3
    <2>5. PICK k \in DOMAIN Body(p) : CalledBy(e, p, k)
      BY <2>4
    <2>6. /\ Pending(p) /\ k = 1 /\ Called(p, 1) /\ e = Callee(p, 1)
          /\ frame[p].fn \in {"fetch_with_name", "fetch_all"}
      BY <1>3, <2>2, <2>5 DEF CalledBy
    <2>7. ASSUME frame[p].fn = "fetch_all" PROVE FALSE
      <3>1. PICK q \in Coro : frame[q].fn = Entry /\ \E j \in DOMAIN Body(q) : CalledBy(c, q, j)
        BY <1>1, <1>4, OneAll
      <3>2. Pending(q) /\ Called(q, 4)
        <4>1. PICK j \in DOMAIN Body(q) : CalledBy(c, q, j)
          BY <3>1
        <4>2. j = 4
          BY <1>3, <4>1 DEF CalledBy
        <4> QED BY <4>1, <4>2 DEF CalledBy
      <3>3. p = q
        <4>1. p \in Owned(Main) /\ q \in Owned(Main) /\ \A m \in Owned(Main) : p = m
          BY <1>1, <1>4, <2>6, <2>7, <3>1, <3>2, OneEntry DEF AllText
        <4> QED BY <4>1
      <3>4. 4 \in 1..(frame[p].pc - 1) /\ frame[p].pc \in Nat
        <4>1. frame[p].fn \in Functions
          BY <1>1, <2>6 DEF TypeInv, FrameType
        <4>2. frame[p].pc \in Nat
          BY <1>1, <4>1, BodyLawful
        <4> QED BY <3>2, <3>3, <4>2 DEF Called, CalledAt
      <3>5. 3 \in 2..(frame[p].pc - 1)
        BY <3>4
      <3>6. Drops(Body(p), 3, "index") /\ Body(p)[1].name = "index"
        BY <1>2, <2>6, <2>7 DEF Drops
      <3> QED BY <2>6, <3>5, <3>6 DEF Called, CalledAt
    <2>8. frame[p].fn = "fetch_with_name"
      BY <2>6, <2>7
    <2>9. e = frame[p].env["r"]
      BY <1>2, <2>6, <2>8 DEF Callee
    <2>10. \E q \in Coro : \E j \in DOMAIN Body(q) : CalledBy(p, q, j)
      BY <1>1, <2>6, <2>8, CallerOf
    <2>11. PICK q \in Coro : \E j \in DOMAIN Body(q) : CalledBy(p, q, j)
      BY <2>10
    <2>12. Pending(q) /\ frame[q].fn = "all" /\ owner[p] = q
      BY <1>3, <2>8, <2>11 DEF CalledBy
    <2>13. q = c
      BY <1>1, <1>4, <2>12, OneAll
    <2>14. p \in D
      BY <1>7, <2>6, <2>12, <2>13 DEF Owned, Pending, Done
    <2> QED BY <2>9, <2>14
  <1> HIDE DEF D, f
  <1>11. DOMAIN f = D /\ f = [d \in D |-> f[d]]
    BY DEF f
  <1>12. f \in Bijection(D, handles)
    <2>1. f \in [D -> handles]
      BY <1>9, <1>11
    <2>2. \A d, e \in D : f[d] = f[e] => d = e
      BY <1>9
    <2> QED BY <1>10, <2>1, <2>2 DEF Bijection, Injection, Surjection, IsInjective
  <1>13. IsFiniteSet(D)
    <2>1. IsFiniteSet({A}) /\ IsFiniteSet({A} \cup {B})
      BY FS_Singleton, FS_AddElement
    <2>2. D \in SUBSET ({A} \cup {B})
      BY DEF D
    <2> QED BY <2>1, <2>2, FS_Subset
  <1>14. Cardinality(handles) = Cardinality(D)
    BY <1>12, <1>13, FS_Bijection DEF ExistsBijection
  <1> QED BY <1>7, <1>8, <1>14 DEF D

LEMMA WhoHasAll ==
  ASSUME TypeInv, NEW c \in Coro, Pending(c), frame[c].fn = "all" PROVE program \in WithAll
  <1>1. program \in Programs /\ "all" \in DOMAIN Text(0)
    BY DEF TypeInv, FrameType, Functions
  <1>2. CASE program \in {"lazy-perform", "select", "exception", "hello-world"}
    BY <1>1, <1>2 DEF Text, lazy_perform, select_cpp, exception, hello_world
  <1>3. CASE program \in {"simplest-hello-world", "factorial", "lots-of-coroutines"}
    BY <1>1, <1>3 DEF Text, show_content, factorial, lots_of_coroutines
  <1>4. CASE program \in {"random", "multiple-awaits", "multi-failure-propagation"}
    BY <1>1, <1>4 DEF Text, random, multiple_awaits, multi_failure
  <1> QED BY <1>1, <1>2, <1>3, <1>4 DEF Programs, WithAll

LEMMA ParallelInit == ExamplesInit => ParallelInv
  <1> SUFFICES ASSUME ExamplesInit PROVE ParallelInv
    OBVIOUS
  <1>1. /\ at = [c \in Coro |-> "free"] /\ stack = <<>> /\ polling = FALSE /\ ended = 0
    BY DEF ExamplesInit, Init, SchedulerInit, CurlInit
  <1>2. SleepInv
    BY <1>1 DEF SleepInv, SleepOf
  <1>3. EarlyInv
    BY <1>1 DEF EarlyInv, Done, OnStack
  <1> QED BY <1>1, <1>2, <1>3 DEF ParallelInv, CallingInv, AtMain

LEMMA ParallelStep ==
  ExamplesInv /\ ParallelInv /\ [ExamplesNext]_<<vars, exampleVars>> => ParallelInv'
  <1> SUFFICES ASSUME ExamplesInv, ParallelInv, [ExamplesNext]_<<vars, exampleVars>>
               PROVE  ParallelInv'
    OBVIOUS
  <1>1. /\ TypeOK /\ CounterIsStack /\ FreeInv /\ AllDoneInMain /\ ClientInv /\ TypeInv
        /\ NoDanglingHandle /\ WokenOnce
    BY LibraryFacts, LibraryPromises DEF ExamplesInv, IInv, ClientInv
  <1>2. ended \in Nat /\ SleepInv /\ EarlyInv /\ CallingInv
    BY DEF ParallelInv
  <1>3. CASE ExamplesNext
    BY <1>1, <1>2, <1>3, SleepStep, EarlyStep, CallingStep DEF ParallelInv
  <1>4. CASE UNCHANGED <<vars, exampleVars>>
    <2>1. /\ UNCHANGED <<program, leftFirst>> /\ UNCHANGED <<frame, ended>>
          /\ UNCHANGED <<at, awaits>> /\ UNCHANGED <<stack, polling>>
      BY <1>4 DEF vars, coroutineVars, schedulerVars, exampleVars
    <2>2. \A p : Body(p)' = Body(p)
      BY <2>1, TextKept DEF Body
    <2>3. SleepInv'
      BY <1>2, <2>1, SleepKept DEF SleepInv
    <2>4. EarlyInv'
      BY <1>2, <2>1, <2>2 DEF EarlyInv, Early, Width, Done, OnStack, OnlyCalled
    <2>5. CallingInv'
      BY <1>2, <2>1, <2>2 DEF CallingInv, AtMain, JustCalled
    <2> QED BY <1>2, <2>1, <2>3, <2>4, <2>5 DEF ParallelInv
  <1> QED BY <1>3, <1>4

LEMMA AllInParallel ==
  ASSUME ExamplesInv, ParallelInv, polling PROVE DownloadsInParallel
  <1>1. Polled /\ TypeInv
    BY LibraryFacts, AllAsleep DEF ExamplesInv, IInv, ClientInv, ParallelInv, Polled
  <1>2. JustCalled
    BY DEF ParallelInv, CallingInv, AtMain
  <1>3. ASSUME ended = 0, program \in DOMAIN Width
        PROVE  Cardinality(handles) = Width[program]
    <2>1. \A c \in Coro : ~Done(c)
      BY <1>3 DEF ParallelInv, EarlyInv, Early
    <2>2. CASE program = "lazy-perform"
      <3>1. Width[program] = 4
        BY <2>2 DEF Width
      <3> QED BY <1>1, <1>2, <2>1, <2>2, <3>1, FourInParallel
    <2>3. CASE program = "select"
      <3>1. program \in Downloading /\ Entry = "main_coroutine" /\ Width[program] = 2
        BY <2>3 DEF Downloading, Entry, Width
      <3>2. TwoFetches(Entry)
        BY <1>1, <2>3, <3>1, SelectShapes DEF TwoFetches
      <3> QED BY <1>1, <1>2, <2>1, <3>1, <3>2, TwoInParallel
    <2>4. CASE program = "random"
      <3>1. program \in Downloading /\ Entry = "select_first" /\ Width[program] = 2
        BY <2>4 DEF Downloading, Entry, Width
      <3>2. TwoFetches(Entry)
        BY <1>1, <2>4, <3>1, RandomShapes DEF TwoFetches
      <3> QED BY <1>1, <1>2, <2>1, <3>1, <3>2, TwoInParallel
    <2> QED BY <1>3, <2>2, <2>3, <2>4 DEF Width
  <1>4. ASSUME NEW c \in Live, frame[c].fn = "all"
        PROVE  /\ {"a", "b"} \subseteq DOMAIN frame[c].env
               /\ Cardinality(handles) = Cardinality({d \in Variables(c, {"a", "b"}) : ~Done(d)})
    <2>1. c \in Coro /\ Pending(c)
      BY <1>1, <1>4 DEF Live, Pending, TypeInv, FrameType, Done
    <2>2. program \in WithAll
      BY <1>1, <1>4, <2>1, WhoHasAll
    <2>3. CASE program = "await-all"
      BY <1>1, <1>4, <2>1, <2>3, AllOfRange
    <2>4. CASE program = "await-all2"
      BY <1>1, <1>4, <2>1, <2>4, AllOfPromises
    <2>5. CASE program = "return"
      BY <1>1, <1>4, <2>1, <2>5, AllOfCoroutines
    <2> QED BY <2>2, <2>3, <2>4, <2>5 DEF WithAll
  <1> QED BY <1>3, <1>4 DEF DownloadsInParallel

(* What can be downloaded in parallel is: whenever curl is polled, all()'s   *)
(* unfinished downloads are with it and, the first time, those of the        *)
(* programs without all().                                                   *)
THEOREM DownloadsInParallelCorrect == ExamplesSpec => []DownloadsInParallel
  <1>1. ExamplesInv /\ ParallelInv => DownloadsInParallel
    BY AllInParallel DEF DownloadsInParallel
  <1>2. ExamplesSpec => []ParallelInv
    BY ParallelInit, ParallelStep, ExamplesInvHolds, PTL DEF ExamplesSpec
  <1> QED BY <1>1, <1>2, ExamplesInvHolds, PTL
=============================================================================
