---------------------------- MODULE WakeUpProofs ---------------------------
(* The scheduler resumes the right coroutines: for any number of coroutines  *)
(* and any client that shares promises or destroys unfinished ones, but not  *)
(* both, and selects only among promises nobody else awaits.                 *)
EXTENDS CoroutinesProofs

Discipline == (Borrowable = {} \/ ~DropUnfinished) /\ ~SelectBorrowable

Pending(c) == at[c] \notin {"free", "final"}

(* A frame that does not exist has no trace anywhere else.                   *)
FreeInv ==
  \A c \in Coro : at[c] = "free" =>
    /\ owner[c] = Null /\ awaiter[c] = Null /\ c \notin handles
    /\ refs[c] = {} /\ awaits[c] = {}
    /\ \A x \in Coro : owner[x] # c

(* Below the top of the stack everybody is in the middle of a call.          *)
StackInv ==
  /\ IsInjective(stack)
  /\ \A c \in OnStack : Pending(c) /\ (at[c] = "running" \/ OnTop(c))

QueueInv ==
  /\ IsInjective(ready)
  /\ \A c \in Queued :
       /\ c \notin OnStack
       /\ at[c] \in {"promise", "select"} /\ awaits[c] # {}
       /\ \A d \in awaits[c] : Done(d)

HandleInv == \A c \in handles : at[c] = "perform" /\ c \notin OnStack

(* A registration is of a coroutine that awaits what it is registered with.  *)
RegistrationInv == \A d, c \in Coro : Pending(d) /\ WakesAtEnd(d, c) => d \in awaits[c]

(* Additional awaiters exist only of promises that are lent.                 *)
MultimapInv ==
  \A d, c \in Coro : <<d, c>> \in waiting_for_someone_else =>
    Pending(d) /\ d \in Borrowable /\ awaiter[d] \notin {Null, c}

(* Whom a coroutine awaits it can see; only borrowed promises are shared.    *)
AwaitsInv ==
  \A c \in Coro :
    /\ awaits[c] \subseteq Owned(c) \cup refs[c]
    /\ awaits[c] # {} <=> at[c] \in {"promise", "select"}
    /\ at[c] = "promise" => \E d \in Coro : awaits[c] = {d}
    /\ at[c] = "select" => awaits[c] \cap Borrowable = {}

RefsInv == \A c \in Coro : refs[c] \subseteq Borrowable /\ \A d \in refs[c] : at[d] # "free"

WakeInv ==
  \A c \in Coro \ OnStack :
    /\ at[c] = "perform" => c \in running \cup finished
    /\ at[c] \in {"promise", "select"} =>
         c \in Queued \/ \A d \in awaits[c] : ~Done(d) /\ WakesAtEnd(d, c)

TopInv ==
  \A c \in Executing :
    /\ at[c] \in {"promise", "select"} => \E d \in awaits[c] : Done(d)
    /\ at[c] = "perform" => code = outcome[c]

(* Nobody owns himself, however indirectly.                                  *)
Rooted == \A S \in SUBSET Coro : S # {} => \E x \in S : owner[x] \notin S

(* When nothing is lent, a coroutine above another on the stack was called   *)
(* by it and has not suspended since.                                        *)
Chain ==
  \A i \in 1..(Len(stack) - 1) : owner[stack[i]] = stack[i + 1] /\ awaiter[stack[i]] = Null

OwnerInv == Rooted /\ (Borrowable = {} => Chain /\ ready = <<>>)

HandlesInv == FreeInv /\ StackInv /\ QueueInv /\ HandleInv /\ RegistrationInv /\ MultimapInv
AwaitingInv == AwaitsInv /\ RefsInv /\ WakeInv /\ TopInv /\ OwnerInv

WInv == IInv /\ HandlesInv /\ AwaitingInv

----------------------------------------------------------------------------
(* Sequences without repetition.                                             *)
LEMMA PushApart ==
  ASSUME NEW c \in Coro, NEW s \in Seq(Coro), IsInjective(s), c \notin Range(s)
  PROVE  LET r == <<c>> \o s IN
         /\ IsInjective(r) /\ Range(r) = {c} \cup Range(s)
         /\ r # <<>> /\ Head(r) = c /\ r \in Seq(Coro)
         /\ Len(r) = Len(s) + 1 /\ r[1] = c /\ \A i \in 1..Len(s) : r[i + 1] = s[i]
  <1> DEFINE r == <<c>> \o s
  <1>1. <<c>> \in Seq(Coro) /\ Len(<<c>>) = 1 /\ <<c>>[1] = c
    OBVIOUS
  <1>2. Len(s) \in Nat /\ DOMAIN s = 1..Len(s)
    BY LenProperties
  <1>3. /\ r \in Seq(Coro) /\ Len(r) = Len(s) + 1
        /\ \A i \in 1..Len(s) + 1 : r[i] = IF i = 1 THEN c ELSE s[i - 1]
    BY <1>1, <1>2, ConcatProperties
  <1>4. DOMAIN r = 1..(Len(s) + 1)
    BY <1>3, LenProperties
  <1> HIDE DEF r
  <1>5. r[1] = c /\ \A i \in 1..Len(s) : r[i + 1] = s[i]
    BY <1>2, <1>3
  <1>6. Range(r) = {c} \cup Range(s)
    <2>1. ASSUME NEW i \in DOMAIN r PROVE r[i] \in {c} \cup Range(s)
      BY <1>2, <1>3, <1>4, <2>1 DEF Range
    <2>2. c \in Range(r)
      BY <1>2, <1>4, <1>5 DEF Range
    <2>3. ASSUME NEW i \in DOMAIN s PROVE s[i] \in Range(r)
      BY <1>2, <1>4, <1>5, <2>3 DEF Range
    <2> QED BY <2>1, <2>2, <2>3 DEF Range
  <1>7. IsInjective(r)
    <2> SUFFICES ASSUME NEW i \in DOMAIN r, NEW j \in DOMAIN r, r[i] = r[j] PROVE i = j
      BY DEF IsInjective
    <2>1. CASE i = 1 \/ j = 1
      BY <1>2, <1>3, <1>4, <2>1 DEF Range
    <2>2. CASE i # 1 /\ j # 1
      <3>1. i - 1 \in DOMAIN s /\ j - 1 \in DOMAIN s /\ s[i - 1] = s[j - 1]
        BY <1>2, <1>3, <1>4, <2>2
      <3>2. i - 1 = j - 1
        BY <3>1 DEF IsInjective
      <3> QED BY <1>2, <1>4, <3>2
    <2> QED BY <2>1, <2>2
  <1>8. r # <<>> /\ Head(r) = c
    BY <1>2, <1>3, <1>5, EmptySeq
  <1> QED BY <1>3, <1>5, <1>6, <1>7, <1>8 DEF r

LEMMA PopApart ==
  ASSUME NEW s \in Seq(Coro), s # <<>>, IsInjective(s)
  PROVE  /\ IsInjective(Tail(s)) /\ Range(Tail(s)) = Range(s) \ {Head(s)}
         /\ Head(s) \in Range(s) /\ Head(s) = s[1]
         /\ Tail(s) \in Seq(Coro) /\ Len(Tail(s)) = Len(s) - 1 /\ Len(s) \in Nat \ {0}
         /\ \A i \in 1..(Len(s) - 1) : Tail(s)[i] = s[i + 1]
  <1>1. /\ Len(s) \in Nat \ {0} /\ DOMAIN s = 1..Len(s)
        /\ Tail(s) \in Seq(Coro) /\ Len(Tail(s)) = Len(s) - 1
        /\ DOMAIN Tail(s) = 1..(Len(s) - 1)
        /\ \A i \in 1..(Len(s) - 1) : Tail(s)[i] = s[i + 1]
        /\ Head(s) = s[1]
    BY LenProperties, EmptySeq, HeadTailProperties
  <1>2. IsInjective(Tail(s))
    <2> SUFFICES ASSUME NEW i \in 1..(Len(s) - 1), NEW j \in 1..(Len(s) - 1), s[i + 1] = s[j + 1]
                 PROVE  i = j
      BY <1>1 DEF IsInjective
    <2>1. i + 1 \in DOMAIN s /\ j + 1 \in DOMAIN s
      BY <1>1
    <2>2. i + 1 = j + 1
      BY <2>1 DEF IsInjective
    <2> QED BY <1>1, <2>2
  <1>3. Range(Tail(s)) = Range(s) \ {Head(s)}
    <2>1. ASSUME NEW i \in 1..(Len(s) - 1) PROVE s[i + 1] \in Range(s) /\ s[i + 1] # s[1]
      <3>1. i + 1 \in DOMAIN s /\ 1 \in DOMAIN s /\ i + 1 # 1
        BY <1>1
      <3> QED BY <3>1 DEF IsInjective, Range
    <2>2. ASSUME NEW i \in DOMAIN s, s[i] # s[1] PROVE s[i] \in Range(Tail(s))
      <3>1. i - 1 \in 1..(Len(s) - 1) /\ (i - 1) + 1 = i
        BY <1>1, <2>2
      <3>2. i - 1 \in DOMAIN Tail(s) /\ Tail(s)[i - 1] = s[i]
        BY <1>1, <3>1
      <3> QED BY <3>2 DEF Range
    <2>3. Range(Tail(s)) \subseteq Range(s) \ {Head(s)}
      BY <1>1, <2>1 DEF Range
    <2> QED BY <1>1, <2>2, <2>3 DEF Range
  <1>4. Head(s) \in Range(s)
    <2>1. 1 \in DOMAIN s
      BY <1>1
    <2> QED BY <1>1, <2>1 DEF Range
  <1> QED BY <1>1, <1>2, <1>3, <1>4

(* What SetToSeqs returns enumerates its argument without repetition.        *)
LEMMA EnumerationApart ==
  ASSUME NEW S \in SUBSET Coro, NEW s \in SetToSeqs(S)
  PROVE  s \in Seq(Coro) /\ IsInjective(s) /\ Range(s) = S
  <1>1. Cardinality(S) \in Nat
    BY FiniteAssumption, FS_Subset, FS_CardinalityType
  <1>2. s \in [1..Cardinality(S) -> S] /\ IsInjective(s)
    BY DEF SetToSeqs, IsInjective
  <1>3. s \in Seq(S)
    BY <1>1, <1>2, SeqDef
  <1>4. s \in Seq(Coro)
    BY <1>3, SeqMonotonic
  <1>5. s \in Surjection(1..Cardinality(S), S)
    <2>1. s \in Injection(1..Cardinality(S), S)
      BY <1>2 DEF Injection
    <2>2. IsFiniteSet(S)
      BY FiniteAssumption, FS_Subset
    <2> DEFINE n == Cardinality(S)
    <2>3. IsFiniteSet(1..n) /\ Cardinality(1..n) = IF 1 > n THEN 0 ELSE n - 1 + 1
      BY <1>1, FS_Interval
    <2>4. Cardinality(1..n) = n
      BY <1>1, <2>3
    <2> QED BY <2>1, <2>2, <2>3, <2>4, FS_Injection
  <1>6. Range(s) = S
    BY <1>2, <1>5 DEF Surjection, Range
  <1> QED BY <1>2, <1>4, <1>6

LEMMA AppendApart ==
  ASSUME NEW s \in Seq(Coro), NEW t \in Seq(Coro), IsInjective(s), IsInjective(t),
         Range(s) \cap Range(t) = {}
  PROVE  /\ s \o t \in Seq(Coro) /\ IsInjective(s \o t)
         /\ Range(s \o t) = Range(s) \cup Range(t)
  <1> DEFINE r == s \o t
  <1>1. /\ Len(s) \in Nat /\ DOMAIN s = 1..Len(s)
        /\ Len(t) \in Nat /\ DOMAIN t = 1..Len(t)
    BY LenProperties
  <1>2. /\ r \in Seq(Coro) /\ Len(r) = Len(s) + Len(t)
        /\ \A i \in 1..(Len(s) + Len(t)) : r[i] = IF i <= Len(s) THEN s[i] ELSE t[i - Len(s)]
    BY ConcatProperties
  <1>3. DOMAIN r = 1..(Len(s) + Len(t))
    BY <1>2, LenProperties
  <1> HIDE DEF r
  <1>4. ASSUME NEW i \in DOMAIN r
        PROVE  \/ i \in DOMAIN s /\ r[i] = s[i]
               \/ i - Len(s) \in DOMAIN t /\ r[i] = t[i - Len(s)]
    BY <1>1, <1>2, <1>3
  <1>5. IsInjective(r)
    <2> SUFFICES ASSUME NEW i \in DOMAIN r, NEW j \in DOMAIN r, r[i] = r[j] PROVE i = j
      BY DEF IsInjective
    <2>1. \/ i \in DOMAIN s /\ j \in DOMAIN s /\ s[i] = s[j]
          \/ /\ i - Len(s) \in DOMAIN t /\ j - Len(s) \in DOMAIN t
             /\ t[i - Len(s)] = t[j - Len(s)]
      BY <1>4 DEF Range
    <2>2. i = j \/ i - Len(s) = j - Len(s)
      BY <2>1 DEF IsInjective
    <2> QED BY <1>1, <1>3, <2>2
  <1>6. Range(r) \subseteq Range(s) \cup Range(t)
    BY <1>4 DEF Range
  <1>7. Range(s) \subseteq Range(r)
    BY <1>1, <1>2, <1>3 DEF Range
  <1>8. Range(t) \subseteq Range(r)
    <2>1. ASSUME NEW i \in DOMAIN t PROVE i + Len(s) \in DOMAIN r /\ r[i + Len(s)] = t[i]
      BY <1>1, <1>2, <1>3
    <2> QED BY <2>1 DEF Range
  <1> QED BY <1>2, <1>5, <1>6, <1>7, <1>8 DEF r

----------------------------------------------------------------------------
(* Frames(D) is the least set that holds D and whatever its members own.     *)
LEMMA FramesLeast ==
  ASSUME NEW D \in SUBSET Coro
  PROVE  /\ D \subseteq Frames(D) /\ Frames(D) \subseteq Coro
         /\ \A x \in Coro : owner[x] \in Frames(D) => x \in Frames(D)
         /\ \A x \in Frames(D) : x \in D \/ owner[x] \in Frames(D)
  <1>1. D \subseteq Frames(D) /\ Frames(D) \subseteq Coro
    BY DEF Frames
  <1>2. ASSUME NEW x \in Coro, owner[x] \in Frames(D)
        PROVE  x \in Frames(D)
    BY <1>2 DEF Frames
  <1>3. ASSUME NEW x \in Frames(D), x \notin D, owner[x] \notin Frames(D)
        PROVE  FALSE
    <2> DEFINE S == Frames(D) \ {x}
    <2>1. S \in SUBSET Coro /\ D \subseteq S
      BY <1>1, <1>3
    <2>2. \A y \in Coro : owner[y] \in S => y \in S
      BY <1>2, <1>3
    <2>3. x \in S
      BY <1>1, <2>1, <2>2 DEF Frames
    <2> QED BY <2>3
  <1> QED BY <1>1, <1>2, <1>3

LEMMA TopOfStack ==
  ASSUME WInv, stack # <<>>
  PROVE  /\ Head(stack) = stack[1] /\ Head(stack) \in OnStack /\ Head(stack) \in Coro
         /\ Executing = {Head(stack)}
         /\ Len(stack) \in Nat \ {0} /\ DOMAIN stack = 1..Len(stack)
         /\ stack[1] \in OnStack
  BY PopApart, LenProperties DEF WInv, IInv, TypeOK, SchedulerType, HandlesInv, StackInv,
       OnStack, Range, Executing

(* When nothing is lent, what the running coroutine owns cannot own it or    *)
(* anything below it on the stack.                                           *)
LEMMA OwnedNotOnStack ==
  ASSUME WInv, Borrowable = {}, NEW p \in Coro \cup {Main}, InControl(p),
         NEW D \in SUBSET Owned(p)
  PROVE  Frames(D) \cap OnStack = {}
  <1> SUFFICES ASSUME NEW i \in DOMAIN stack, stack[i] \in Frames(D)
               PROVE  FALSE
    BY DEF OnStack
  <1>1. D \in SUBSET Coro
    BY DEF Owned
  <1>2. stack # <<>>
    BY LenProperties, EmptySeq DEF WInv, IInv, TypeOK, SchedulerType
  <1>3. /\ p = stack[1] /\ DOMAIN stack = 1..Len(stack) /\ Len(stack) \in Nat
    BY <1>2, TopOfStack, InControlOnTop DEF InControl, AtMain
  <1>4. \A j \in DOMAIN stack : stack[j] \in Coro
    BY DEF WInv, IInv, TypeOK, SchedulerType
  <1> DEFINE T == Frames(D) \cup {stack[j] : j \in 1..i}
  <1>5. T \in SUBSET Coro /\ stack[i] \in T
    BY <1>1, <1>3, <1>4, FramesLeast
  <1>6. ASSUME NEW x \in T
        PROVE  owner[x] \in T
    <2>1. CASE x \in Frames(D)
      <3>1. owner[x] = stack[1] \/ owner[x] \in Frames(D)
        BY <1>1, <1>3, <2>1, FramesLeast DEF Owned
      <3> QED BY <1>3, <3>1
    <2>2. CASE x \notin Frames(D)
      <3>1. PICK j \in 1..i : x = stack[j]
        BY <2>2
      <3>2. j # i
        BY <2>2, <3>1
      <3>3. j \in 1..(Len(stack) - 1) /\ j + 1 \in 1..i
        BY <1>3, <3>2
      <3>4. owner[stack[j]] = stack[j + 1]
        BY <3>3 DEF WInv, AwaitingInv, OwnerInv, Chain
      <3> QED BY <3>1, <3>3, <3>4
    <2> QED BY <2>1, <2>2
  <1> HIDE DEF T
  <1>7. Rooted
    BY DEF WInv, AwaitingInv, OwnerInv
  <1> QED BY <1>5, <1>6, <1>7 DEF Rooted

(* What is destroyed is neither on the stack nor in the queue; nobody that   *)
(* stays awaits it and nothing that stays is awaited by it.                  *)
LEMMA GoneFacts ==
  ASSUME Discipline, WInv, NEW p \in Coro \cup {Main}, InControl(p),
         NEW D \in SUBSET Owned(p), MayDestroy(D)
  PROVE  /\ Frames(D) \subseteq Coro
         /\ Frames(D) \cap OnStack = {}
         /\ Frames(D) \cap Queued = {}
         /\ p \notin Frames(D)
         /\ \A y \in Coro \ Frames(D) :
              awaits[y] \cap Frames(D) = {} /\ refs[y] \cap Frames(D) = {}
         /\ \A x, y \in Coro : x \notin Frames(D) /\ x \in awaits[y] => y \notin Frames(D) \/ Done(x)
         /\ \A x, y \in Coro : <<x, y>> \in waiting_for_someone_else => x \notin Frames(D)
         /\ \A x \in Coro : owner[x] \in Frames(D) => x \in Frames(D)
  <1> DEFINE gone == Frames(D)
  <1> USE DEF WInv, HandlesInv, AwaitingInv, MayDestroy
  <1>1. D \in SUBSET Coro
    BY DEF Owned
  <1>2. /\ D \subseteq gone /\ gone \subseteq Coro
        /\ \A x \in Coro : owner[x] \in gone => x \in gone
        /\ \A x \in gone : x \in D \/ owner[x] \in gone
    BY <1>1, FramesLeast
  <1>3. Borrowable = {} \/ \A x \in gone : Done(x)
    BY DEF Discipline
  <1>4. \A x \in Live \ gone : refs[x] \cap gone = {}
    OBVIOUS
  <1>5. gone \cap OnStack = {}
    BY <1>3, OwnedNotOnStack DEF StackInv, Done, Pending
  <1> HIDE DEF gone, MayDestroy
  <1>6. gone \cap Queued = {}
    <2>1. CASE Borrowable = {}
      <3>1. ready = <<>>
        BY <2>1 DEF OwnerInv
      <3> QED BY <3>1 DEF Queued
    <2>2. CASE \A x \in gone : Done(x)
      BY <2>2 DEF QueueInv, Done
    <2> QED BY <1>3, <2>1, <2>2
  <1>7. p \notin gone
    BY <1>2, <1>5, Names, InControlOnTop, TopOfStack
  <1>8. ASSUME NEW y \in Coro, y \notin gone
        PROVE  awaits[y] \cap gone = {} /\ refs[y] \cap gone = {}
    <2>1. refs[y] \cap gone = {}
      BY <1>4, <1>8 DEF FreeInv, Live
    <2>2. ASSUME NEW x \in awaits[y], x \in gone
          PROVE  FALSE
      <3>1. owner[x] = y
        BY <2>1, <2>2 DEF AwaitsInv, Owned
      <3>2. x \in D
        BY <1>2, <1>8, <2>2, <3>1
      <3>3. y = p
        BY <3>1, <3>2 DEF Owned
      <3>4. at[y] = "running"
        BY <3>3, InControlOnTop
      <3> QED BY <2>2, <3>4 DEF AwaitsInv
    <2> QED BY <2>1, <2>2
  <1>9. ASSUME NEW x \in Coro, NEW y \in Coro, x \notin gone, x \in awaits[y], y \in gone, ~Done(x)
        PROVE  FALSE
    <2>1. ~Done(y)
      BY <1>9 DEF AwaitsInv, Done
    <2>2. Borrowable = {}
      BY <1>3, <1>9, <2>1
    <2>3. owner[x] = y
      BY <1>9, <2>2 DEF AwaitsInv, RefsInv, Owned
    <2> QED BY <1>2, <1>9, <2>3
  <1>10. ASSUME NEW x \in Coro, NEW y \in Coro, <<x, y>> \in waiting_for_someone_else
         PROVE  x \notin gone
    BY <1>3, <1>10 DEF MultimapInv, Pending, Done
  <1> QED BY <1>2, <1>5, <1>6, <1>7, <1>8, <1>9, <1>10 DEF gone

(* What the destruction of promises leaves of the invariant, whether p is in *)
(* the middle of its body or, with states[p] = "final", at its end.          *)
LEMMA DestroyKeeps ==
  ASSUME Discipline, WInv, NEW p \in Coro \cup {Main}, InControl(p),
         NEW D \in SUBSET Owned(p), MayDestroy(D),
         NEW states \in [Coro -> States], destroy(D, states),
         \A x \in Coro : states[x] = at[x] \/ (x = p /\ states[x] = "final"),
         waiting_for_someone_else' \subseteq waiting_for_someone_else,
         \A x, y \in Coro : states[x] = "final" => <<x, y>> \notin waiting_for_someone_else'
  PROVE  /\ FreeInv' /\ RefsInv' /\ AwaitsInv' /\ RegistrationInv' /\ MultimapInv'
         /\ Rooted'
         /\ \A x \in Coro \ Frames(D) :
              /\ at'[x] = states[x] /\ owner'[x] = owner[x]
              /\ awaits'[x] = awaits[x] /\ awaiter'[x] = awaiter[x]
              /\ outcome'[x] = outcome[x]
              /\ x \in handles' <=> x \in handles
              /\ x \in running' <=> x \in running
              /\ x \in finished' <=> x \in finished
         /\ \A x \in Frames(D) : at'[x] = "free" /\ x \notin handles'
  <1> DEFINE gone == Frames(D)
  <1> USE DEF WInv, HandlesInv, AwaitingInv
  <1>1. /\ gone \subseteq Coro
        /\ gone \cap OnStack = {}
        /\ p \notin gone
        /\ \A y \in Coro \ gone : awaits[y] \cap gone = {} /\ refs[y] \cap gone = {}
        /\ \A x, y \in Coro : x \notin gone /\ x \in awaits[y] => y \notin gone \/ Done(x)
        /\ \A x, y \in Coro : <<x, y>> \in waiting_for_someone_else => x \notin gone
        /\ \A x \in Coro : owner[x] \in gone => x \in gone
    BY GoneFacts
  <1>2. /\ at' = [c \in Coro |-> IF c \in gone THEN "free" ELSE states[c]]
        /\ owner' = [c \in Coro |-> IF c \in gone THEN Null ELSE owner[c]]
        /\ refs' = [c \in Coro |-> IF c \in gone \/ states[c] = "final" THEN {} ELSE refs[c]]
        /\ awaits' = [c \in Coro |-> IF c \in gone THEN {} ELSE awaits[c]]
        /\ awaiter' = [c \in Coro |-> IF c \in gone THEN Null ELSE awaiter[c]]
        /\ outcome' = [c \in Coro |-> IF c \in gone THEN Null ELSE outcome[c]]
        /\ handles' = handles \ gone /\ running' = running \ gone /\ finished' = finished \ gone
    BY DEF destroy, remove_handles
  <1> HIDE DEF gone
  <1>3. at[p] = "running" \/ p = Main
    BY InControlOnTop
  <1>4. p \in Coro => awaits[p] = {}
    BY <1>3, Names DEF AwaitsInv
  <1>5. FreeInv'
    <2> SUFFICES ASSUME NEW c \in Coro, at'[c] = "free"
                 PROVE  /\ owner'[c] = Null /\ awaiter'[c] = Null /\ c \notin handles'
                        /\ refs'[c] = {} /\ awaits'[c] = {}
                        /\ \A x \in Coro : owner'[x] # c
      BY DEF FreeInv
    <2>1. CASE c \in gone
      BY <1>1, <1>2, <2>1, Names
    <2>2. CASE c \notin gone
      <3>1. at[c] = "free"
        BY <1>2, <2>2
      <3> QED BY <1>2, <3>1, Names DEF FreeInv
    <2> QED BY <2>1, <2>2
  <1>6. RefsInv'
    <2> SUFFICES ASSUME NEW c \in Coro, NEW d \in refs'[c]
                 PROVE  d \in Borrowable /\ at'[d] # "free"
      BY DEF RefsInv
    <2>1. c \notin gone /\ d \in refs[c] /\ d \in Coro
      BY <1>2 DEF IInv, TypeOK
    <2>2. d \notin gone
      BY <1>1, <2>1
    <2>3. d \in Borrowable /\ at[d] # "free"
      BY <2>1 DEF RefsInv
    <2> QED BY <1>2, <2>1, <2>2, <2>3
  <1>7. AwaitsInv'
    <2> SUFFICES ASSUME NEW c \in Coro
                 PROVE  /\ awaits'[c] \subseteq Owned(c)' \cup refs'[c]
                        /\ awaits'[c] # {} <=> at'[c] \in {"promise", "select"}
                        /\ at'[c] = "promise" => \E d \in Coro : awaits'[c] = {d}
                        /\ at'[c] = "select" => awaits'[c] \cap Borrowable = {}
      BY DEF AwaitsInv
    <2>1. CASE c \in gone
      BY <1>2, <2>1
    <2>2. CASE c \notin gone /\ c = p
      BY <1>1, <1>2, <1>3, <1>4, <2>2, Names
    <2>3. CASE c \notin gone /\ c # p
      <3>1. at'[c] = at[c] /\ awaits'[c] = awaits[c]
        BY <1>2, <2>3
      <3>2. awaits[c] \subseteq Owned(c)' \cup refs'[c]
        <4> SUFFICES ASSUME NEW x \in awaits[c] PROVE x \in Owned(c)' \cup refs'[c]
          OBVIOUS
        <4>1. x \notin gone /\ x \in Coro
          BY <1>1, <2>3 DEF IInv, TypeOK
        <4>2. at[c] \in {"promise", "select"} /\ x \in Owned(c) \cup refs[c]
          BY DEF AwaitsInv
        <4>3. CASE x \in Owned(c)
          BY <1>2, <4>1, <4>3 DEF Owned
        <4>4. CASE x \in refs[c]
          BY <1>2, <2>3, <4>2, <4>4
        <4> QED BY <4>2, <4>3, <4>4
      <3> QED BY <3>1, <3>2 DEF AwaitsInv
    <2> QED BY <2>1, <2>2, <2>3
  <1>8. ASSUME NEW x \in Coro, Pending(x)'
        PROVE  x \notin gone /\ Pending(x) /\ awaiter'[x] = awaiter[x] /\ states[x] # "final"
               /\ at'[x] = at[x]
    BY <1>2, <1>8 DEF Pending
  <1>9. RegistrationInv'
    <2> SUFFICES ASSUME NEW d \in Coro, NEW c \in Coro, Pending(d)', WakesAtEnd(d, c)'
                 PROVE  d \in awaits'[c]
      BY DEF RegistrationInv
    <2>1. d \notin gone /\ Pending(d) /\ WakesAtEnd(d, c)
      BY <1>8 DEF WakesAtEnd
    <2>2. d \in awaits[c]
      BY <2>1 DEF RegistrationInv
    <2>3. c \notin gone
      BY <1>1, <2>1, <2>2 DEF Pending, Done
    <2> QED BY <1>2, <2>2, <2>3
  <1>10. MultimapInv'
    <2> SUFFICES ASSUME NEW d \in Coro, NEW c \in Coro, <<d, c>> \in waiting_for_someone_else'
                 PROVE  Pending(d)' /\ d \in Borrowable /\ awaiter'[d] \notin {Null, c}
      BY DEF MultimapInv
    <2>1. <<d, c>> \in waiting_for_someone_else /\ d \notin gone /\ states[d] # "final"
      BY <1>1
    <2>2. at'[d] = at[d] /\ awaiter'[d] = awaiter[d]
      BY <1>2, <2>1
    <2> QED BY <2>1, <2>2 DEF MultimapInv, Pending
  <1>11. Rooted'
    <2> SUFFICES ASSUME NEW S \in SUBSET Coro, S # {}
                 PROVE  \E x \in S : owner'[x] \notin S
      BY DEF Rooted
    <2>1. CASE S \cap gone # {}
      BY <1>2, <2>1, Names
    <2>2. CASE S \cap gone = {}
      <3>1. \A x \in S : owner'[x] = owner[x]
        BY <1>2, <2>2
      <3>2. PICK x \in S : owner[x] \notin S
        BY DEF OwnerInv, Rooted
      <3> QED BY <3>1, <3>2
    <2> QED BY <2>1, <2>2
  <1>12. \A x \in Coro \ gone :
              /\ at'[x] = states[x] /\ owner'[x] = owner[x]
              /\ awaits'[x] = awaits[x] /\ awaiter'[x] = awaiter[x]
              /\ outcome'[x] = outcome[x]
              /\ x \in handles' <=> x \in handles
              /\ x \in running' <=> x \in running
              /\ x \in finished' <=> x \in finished
    BY <1>2
  <1>13. \A x \in gone : at'[x] = "free" /\ x \notin handles'
    BY <1>1, <1>2
  <1> QED BY <1>5, <1>6, <1>7, <1>9, <1>10, <1>11, <1>12, <1>13 DEF gone

----------------------------------------------------------------------------
(* The answer of select_next_coroutine, as sets: x, if any, takes the place  *)
(* of the coroutine on top and leaves the queue.                             *)
Answer(x, queue) ==
  /\ stack' = IF x = Null THEN Tail(stack) ELSE <<x>> \o Tail(stack)
  /\ IsInjective(stack') /\ IsInjective(ready')
  /\ OnStack' = (OnStack \ Executing) \cup ({x} \ {Null})
  /\ Queued' = Range(queue) \ {x}
  /\ Executing' \subseteq IF x = Null THEN OnStack \ Executing ELSE {x}
  /\ x = Null => queue = <<>>
  /\ queue = <<>> => ready' = <<>>

LEMMA Resumes ==
  ASSUME WInv, stack # <<>>, NEW a \in Coro \cup {Null}, NEW queue \in Seq(Coro), NEW n,
         IsInjective(queue), Range(queue) \cap OnStack = {}, a \notin OnStack \cup Range(queue),
         select_next_coroutine(a, queue, n)
  PROVE  \E x \in Coro \cup {Null} :
           /\ Answer(x, queue)
           /\ IF a = Null THEN x \in Range(queue) \cup {Null} ELSE x = a
  <1>1. /\ stack \in Seq(Coro) /\ IsInjective(stack) /\ OnStack = Range(stack)
        /\ Executing = {Head(stack)}
    BY TopOfStack DEF WInv, IInv, TypeOK, SchedulerType, HandlesInv, StackInv, OnStack, Range
  <1>2. /\ IsInjective(Tail(stack)) /\ Range(Tail(stack)) = OnStack \ Executing
        /\ Tail(stack) \in Seq(Coro)
    BY <1>1, PopApart
  <1>3. /\ OnStack' = Range(stack') /\ Queued' = Range(ready')
        /\ Executing' = IF stack' = <<>> THEN {} ELSE {Head(stack')}
    BY DEF OnStack, Queued, Executing, Range
  <1>4. ASSUME NEW x \in Coro, x \notin OnStack, stack' = <<x>> \o Tail(stack)
        PROVE  IsInjective(stack') /\ OnStack' = (OnStack \ Executing) \cup {x} /\ Executing' = {x}
    BY <1>2, <1>3, <1>4, PushApart
  <1>5. CASE a # Null /\ stack' = <<a>> \o Tail(stack) /\ ready' = queue
    <2>1. a \in Coro
      BY <1>5
    <2> QED BY <1>3, <1>4, <1>5, <2>1, Names DEF Answer
  <1>6. CASE a = Null /\ queue # <<>> /\ stack' = <<Head(queue)>> \o Tail(stack)
             /\ ready' = Tail(queue)
    <2>1. /\ IsInjective(Tail(queue)) /\ Range(Tail(queue)) = Range(queue) \ {Head(queue)}
          /\ Head(queue) \in Range(queue) /\ Head(queue) \in Coro
      BY <1>6, PopApart, HeadTailProperties
    <2>2. Head(queue) # Null /\ Head(queue) \notin OnStack
      BY <2>1, Names
    <2>3. /\ IsInjective(stack') /\ OnStack' = (OnStack \ Executing) \cup {Head(queue)}
          /\ Executing' = {Head(queue)}
      BY <1>4, <1>6, <2>1, <2>2
    <2>4. Queued' = Range(queue) \ {Head(queue)} /\ IsInjective(ready')
      BY <1>3, <1>6, <2>1
    <2>5. {Head(queue)} \ {Null} = {Head(queue)}
      BY <2>2
    <2>6. Answer(Head(queue), queue)
      BY <1>6, <2>2, <2>3, <2>4, <2>5 DEF Answer
    <2> QED BY <1>6, <2>1, <2>6
  <1>7. CASE a = Null /\ queue = <<>> /\ stack' = Tail(stack) /\ ready' = queue
    <2>1. Executing' \subseteq OnStack \ Executing
      <3>1. CASE stack' = <<>>
        BY <1>3, <3>1
      <3>2. CASE stack' # <<>>
        <4>1. Head(stack') \in Range(stack')
          BY <1>2, <1>7, <3>2, PopApart
        <4> QED BY <1>2, <1>3, <1>7, <3>2, <4>1
      <3> QED BY <3>1, <3>2
    <2>2. Null \notin Range(queue) /\ Range(queue) \ {Null} = Range(queue)
      BY Names DEF Range
    <2> QED BY <1>2, <1>3, <1>7, <2>1, <2>2 DEF Answer
  <1> QED BY <1>5, <1>6, <1>7 DEF select_next_coroutine, take_one

(* The coroutine in control hands over: to a, to the head of the queue, or   *)
(* to its caller.                                                            *)
LEMMA HandsOver ==
  ASSUME WInv, NEW p \in Coro, InControl(p),
         NEW a \in Coro \cup {Null}, NEW queue \in Seq(Coro), NEW n,
         IsInjective(queue), Range(queue) \cap OnStack = {}, a \notin OnStack \cup Range(queue),
         select_next_coroutine(a, queue, n)
  PROVE  /\ IsInjective(stack') /\ IsInjective(ready')
         /\ p \notin OnStack' /\ Executing' \subseteq OnStack'
         /\ \A y \in OnStack' : \/ y \in OnStack /\ y # p /\ at[y] = "running"
                                \/ y \in Coro /\ y \in Range(queue) \cup {a} /\ Executing' = {y}
         /\ \A y \in Queued' : y \in Range(queue) /\ y \notin OnStack'
         /\ \A y \in Coro \ OnStack' : /\ y # p => y \notin OnStack
                                       /\ y \in Range(queue) => y \in Queued'
         /\ a # Null => a \in OnStack'
         /\ queue = <<>> =>
              ready' = <<>> /\ stack' = IF a = Null THEN Tail(stack) ELSE <<a>> \o Tail(stack)
  <1>1. stack # <<>> /\ Executing = {p} /\ p \in OnStack
    BY InControlOnTop, TopOfStack
  <1>2. PICK x \in Coro \cup {Null} :
           /\ Answer(x, queue)
           /\ IF a = Null THEN x \in Range(queue) \cup {Null} ELSE x = a
    BY <1>1, Resumes
  <1>3. \A y \in OnStack : y = p \/ at[y] = "running"
    BY <1>1 DEF WInv, HandlesInv, StackInv, OnTop
  <1>4. /\ IsInjective(stack') /\ IsInjective(ready')
        /\ OnStack' = (OnStack \ {p}) \cup ({x} \ {Null})
        /\ Queued' = Range(queue) \ {x}
        /\ Executing' \subseteq IF x = Null THEN OnStack \ {p} ELSE {x}
    BY <1>1, <1>2 DEF Answer
  <1>5. x # Null => x \in Coro /\ x \in Range(queue) \cup {a} /\ x \notin OnStack
    BY <1>2
  <1>6. Executing' \subseteq OnStack'
    BY <1>4
  <1>7. x # Null => Executing' = {x}
    <2> SUFFICES ASSUME x # Null PROVE Executing' # {}
      BY <1>4
    <2>1. stack' = <<x>> \o Tail(stack) /\ x \in Coro /\ Tail(stack) \in Seq(Coro)
      BY <1>1, <1>2, HeadTailProperties DEF Answer, WInv, IInv, TypeOK, SchedulerType
    <2>2. stack' \in Seq(Coro) /\ Len(stack') = Len(Tail(stack)) + 1
      BY <2>1, PushType
    <2>3. stack' # <<>>
      BY <2>1, <2>2, LenProperties, EmptySeq
    <2> QED BY <2>3 DEF Executing
  <1>8. \A y \in OnStack' : \/ y \in OnStack /\ y # p /\ at[y] = "running"
                            \/ y \in Coro /\ y \in Range(queue) \cup {a} /\ Executing' = {y}
    BY <1>3, <1>4, <1>5, <1>7
  <1>9. \A y \in Queued' : y \in Range(queue) /\ y \notin OnStack'
    BY <1>4
  <1>10. \A y \in Coro \ OnStack' : /\ y # p => y \notin OnStack
                                    /\ y \in Range(queue) => y \in Queued'
    BY <1>4, Names
  <1>11. p \notin OnStack' /\ (a # Null => a \in OnStack')
    BY <1>1, <1>2, <1>4, <1>5
  <1>12. ASSUME queue = <<>>
         PROVE  ready' = <<>> /\ stack' = IF a = Null THEN Tail(stack) ELSE <<a>> \o Tail(stack)
    <2>1. x = a
      BY <1>2, <1>12 DEF Range
    <2> QED BY <1>2, <1>12, <2>1 DEF Answer
  <1> QED BY <1>4, <1>6, <1>8, <1>9, <1>10, <1>11, <1>12

LEMMA Suspends ==
  ASSUME WInv, NEW p \in Coro, InControl(p), suspend
  PROVE  /\ IsInjective(stack') /\ IsInjective(ready')
         /\ p \in OnStack /\ p \notin OnStack' /\ p \notin Queued /\ Executing' \subseteq OnStack'
         /\ \A y \in OnStack' : \/ y \in OnStack /\ y # p /\ at[y] = "running"
                                \/ y \in Queued /\ y # p /\ Executing' = {y}
         /\ \A y \in Queued' : y \in Queued /\ y \notin OnStack'
         /\ \A y \in Coro \ OnStack' : y # p => /\ y \notin OnStack
                                                /\ y \in Queued => y \in Queued'
         /\ ready = <<>> => ready' = <<>> /\ stack' = Tail(stack)
  <1>1. /\ ready \in Seq(Coro) /\ IsInjective(ready) /\ Range(ready) = Queued
        /\ Queued \cap OnStack = {} /\ Queued \subseteq Coro /\ OnStack \subseteq Coro
    BY DEF WInv, HandlesInv, QueueInv, IInv, TypeOK, SchedulerType, Queued, OnStack, Range
  <1>2. Null \notin OnStack \cup Range(ready)
    BY <1>1, Names
  <1>3. select_next_coroutine(Null, ready, blocked(blocked_balance))
    BY DEF suspend
  <1>4. p \in OnStack
    BY InControlOnTop, TopOfStack
  <1> DEFINE a == Null
  <1>5. /\ a \in Coro \cup {Null} /\ a \notin OnStack \cup Range(ready)
        /\ Range(ready) \cap OnStack = {}
        /\ select_next_coroutine(a, ready, blocked(blocked_balance))
    BY <1>1, <1>2, <1>3
  <1> HIDE DEF a
  <1>6. /\ IsInjective(stack') /\ IsInjective(ready')
        /\ p \notin OnStack' /\ Executing' \subseteq OnStack'
        /\ \A y \in OnStack' : \/ y \in OnStack /\ y # p /\ at[y] = "running"
                               \/ y \in Coro /\ y \in Range(ready) \cup {a} /\ Executing' = {y}
        /\ \A y \in Queued' : y \in Range(ready) /\ y \notin OnStack'
        /\ \A y \in Coro \ OnStack' : /\ y # p => y \notin OnStack
                                      /\ y \in Range(ready) => y \in Queued'
        /\ ready = <<>> =>
             ready' = <<>> /\ stack' = IF a = Null THEN Tail(stack) ELSE <<a>> \o Tail(stack)
    BY <1>1, <1>5, HandsOver
  <1>7. a = Null
    BY DEF a
  <1> QED BY <1>1, <1>4, <1>6, <1>7, Names

(* The chain of callers survives while it keeps its owners and awaiters.     *)
LEMMA ChainKept ==
  ASSUME WInv, Chain, stack # <<>>,
         \A x \in OnStack \ Executing : owner'[x] = owner[x] /\ (awaiter[x] = Null => awaiter'[x] = Null),
         \/ stack' = Tail(stack)
         \/ \E x \in Coro : stack' = <<x>> \o Tail(stack) /\ Tail(stack) = <<>>
  PROVE  Chain'
  <1>1. /\ Len(stack) \in Nat \ {0} /\ Len(Tail(stack)) = Len(stack) - 1
        /\ \A i \in 1..(Len(stack) - 1) : Tail(stack)[i] = stack[i + 1]
        /\ Tail(stack) \in Seq(Coro) /\ IsInjective(stack)
        /\ Executing = {stack[1]} /\ DOMAIN stack = 1..Len(stack)
    BY PopApart, TopOfStack DEF WInv, IInv, TypeOK, SchedulerType, HandlesInv, StackInv
  <1>2. CASE stack' = Tail(stack)
    <2> SUFFICES ASSUME NEW i \in 1..(Len(stack) - 2)
                 PROVE  owner'[stack[i + 1]] = stack[i + 2] /\ awaiter'[stack[i + 1]] = Null
      BY <1>1, <1>2 DEF Chain
    <2>1. i + 1 \in 1..(Len(stack) - 1) /\ i + 1 \in DOMAIN stack /\ i + 1 # 1 /\ i + 1 + 1 = i + 2
          /\ 1 \in DOMAIN stack
      BY <1>1
    <2>2. owner[stack[i + 1]] = stack[i + 2] /\ awaiter[stack[i + 1]] = Null
      BY <2>1 DEF Chain
    <2>3. stack[i + 1] \in OnStack \ Executing
      BY <1>1, <2>1 DEF IsInjective, OnStack
    <2> QED BY <2>2, <2>3
  <1>3. CASE \E x \in Coro : stack' = <<x>> \o Tail(stack) /\ Tail(stack) = <<>>
    <2>1. PICK x \in Coro : stack' = <<x>> \o Tail(stack)
      BY <1>3
    <2>2. Len(Tail(stack)) = 0
      BY <1>3
    <2>3. Tail(stack) \in Seq(Coro)
      BY <1>1
    <2>4. Len(<<x>> \o Tail(stack)) = Len(Tail(stack)) + 1
      BY <2>3, PushType
    <2>5. Len(stack') = 1
      BY <2>1, <2>2, <2>4
    <2> QED BY <2>5 DEF Chain
  <1> QED BY <1>2, <1>3

----------------------------------------------------------------------------
(* One lemma per action.                                                     *)
LEMMA CallWakes ==
  ASSUME Discipline, WInv, NEW p \in Coro \cup {Main}, NEW c \in Coro,
         NEW M \in SUBSET Owned(p), NEW R \in SUBSET Borrowable, Call(p, c, M, R)
  PROVE  HandlesInv' /\ AwaitingInv'
  <1> USE DEF WInv, HandlesInv, AwaitingInv
  <1>1. /\ at[c] = "free" /\ at' = [at EXCEPT ![c] = "running"]
        /\ owner' = [x \in Coro |-> IF x = c THEN p ELSE IF x \in M THEN c ELSE owner[x]]
        /\ refs' = [refs EXCEPT ![c] = R] /\ R \subseteq Visible(p)
        /\ stack' = <<c>> \o stack
        /\ UNCHANGED <<handles, running, finished, outcome, polling, ready,
                       waiting_for_someone_else, code, awaits, awaiter>>
    BY DEF Call, curlVars
  <1>2. /\ at \in [Coro -> States] /\ owner \in [Coro -> Coro \cup {Main, Null}]
        /\ refs \in [Coro -> SUBSET Coro] /\ awaits \in [Coro -> SUBSET Coro]
        /\ stack \in Seq(Coro) /\ M \subseteq Coro
    BY DEF IInv, TypeOK, SchedulerType, Owned
  <1>3. IF p = Main THEN stack = <<>> ELSE stack # <<>> /\ p = stack[1] /\ at[p] = "running"
    BY InControlOnTop, TopOfStack, Names DEF Call, InControl, AtMain
  <1>4. \A x \in Coro : owner[x] = p => at[x] # "free"
    BY <1>3, Names DEF FreeInv
  <1>5. c \notin OnStack /\ OnStack = Range(stack)
    BY <1>1 DEF StackInv, Pending, OnStack, Range
  <1>6. /\ IsInjective(stack') /\ OnStack' = {c} \cup OnStack /\ Executing' = {c}
        /\ Len(stack') = Len(stack) + 1 /\ stack'[1] = c /\ Len(stack) \in Nat
        /\ \A i \in 1..Len(stack) : stack'[i + 1] = stack[i]
    <2>1. IsInjective(stack) /\ c \notin Range(stack)
      BY <1>5 DEF StackInv
    <2>2. /\ IsInjective(stack') /\ Range(stack') = {c} \cup Range(stack)
          /\ stack' # <<>> /\ Head(stack') = c
          /\ Len(stack') = Len(stack) + 1 /\ stack'[1] = c
          /\ \A i \in 1..Len(stack) : stack'[i + 1] = stack[i]
      BY <1>1, <1>2, <2>1, PushApart
    <2>3. OnStack' = Range(stack')
      BY DEF OnStack, Range
    <2>4. Executing' = {c}
      BY <2>2 DEF Executing
    <2> QED BY <1>2, <1>5, <2>2, <2>3, <2>4, LenProperties
  <1>7. Queued' = Queued
    BY <1>1 DEF Queued
  <1>8. \A x \in OnStack : at[x] = "running"
    BY <1>3, TopOfStack DEF StackInv, OnTop, Executing, OnStack
  <1>9. FreeInv'
    <2> SUFFICES ASSUME NEW y \in Coro, at'[y] = "free"
                 PROVE  /\ owner'[y] = Null /\ awaiter'[y] = Null /\ y \notin handles'
                        /\ refs'[y] = {} /\ awaits'[y] = {}
                        /\ \A x \in Coro : owner'[x] # y
      BY DEF FreeInv
    <2>1. y # c /\ at[y] = "free"
      BY <1>1, <1>2
    <2>2. y \notin M /\ y # p
      BY <1>3, <1>4, <2>1, Names DEF Owned
    <2> QED BY <1>1, <1>2, <2>1, <2>2 DEF FreeInv
  <1>10. StackInv'
    <2> SUFFICES ASSUME NEW x \in OnStack' PROVE Pending(x)' /\ (at'[x] = "running")
      BY <1>6 DEF StackInv
    <2> QED BY <1>1, <1>2, <1>6, <1>8 DEF Pending, OnStack
  <1>11. QueueInv'
    <2>1. IsInjective(ready')
      BY <1>1 DEF QueueInv
    <2>2. ASSUME NEW y \in Queued
          PROVE  /\ y \notin OnStack' /\ at'[y] \in {"promise", "select"} /\ awaits'[y] # {}
                 /\ \A d \in awaits'[y] : Done(d)'
      BY <1>1, <1>2, <1>6, <2>2 DEF QueueInv, Done
    <2> QED BY <1>7, <2>1, <2>2 DEF QueueInv
  <1>12. HandleInv'
    BY <1>1, <1>2, <1>6 DEF HandleInv, IInv, TypeOK, CurlType
  <1>13. ASSUME NEW d \in Coro, NEW y \in Coro, WakesAtEnd(d, y)', Pending(d)'
         PROVE  d # c /\ WakesAtEnd(d, y) /\ Pending(d)
    BY <1>1, <1>2, <1>13, Names DEF WakesAtEnd, Pending, FreeInv, MultimapInv
  <1>14. RegistrationInv'
    BY <1>1, <1>13 DEF RegistrationInv
  <1>15. MultimapInv'
    BY <1>1, <1>2 DEF MultimapInv, Pending
  <1>16. AwaitsInv'
    <2> SUFFICES ASSUME NEW y \in Coro
                 PROVE  /\ awaits'[y] \subseteq Owned(y)' \cup refs'[y]
                        /\ awaits'[y] # {} <=> at'[y] \in {"promise", "select"}
                        /\ at'[y] = "promise" => \E d \in Coro : awaits'[y] = {d}
                        /\ at'[y] = "select" => awaits'[y] \cap Borrowable = {}
      BY DEF AwaitsInv
    <2>1. CASE y = c
      BY <1>1, <1>2, <2>1 DEF FreeInv
    <2>2. CASE y # c
      <3>1. ASSUME NEW x \in awaits[y] PROVE x \in Owned(y)' \cup refs'[y]
        <4>1. x \in Coro /\ at[y] \in {"promise", "select"} /\ x \in Owned(y) \cup refs[y]
          BY <1>2 DEF AwaitsInv
        <4>2. CASE x \in refs[y]
          BY <1>1, <2>2, <4>2
        <4>3. CASE x \in Owned(y)
          <5>1. y # p
            BY <1>3, <4>1, Names
          <5>2. x \notin M /\ x # c
            BY <1>1, <2>2, <4>1, <4>3, <5>1, Names DEF Owned, FreeInv
          <5> QED BY <1>1, <4>1, <4>3, <5>2 DEF Owned
        <4> QED BY <4>1, <4>2, <4>3
      <3> QED BY <1>1, <2>2, <3>1 DEF AwaitsInv
    <2> QED BY <2>1, <2>2
  <1>17. RefsInv'
    <2> SUFFICES ASSUME NEW y \in Coro, NEW d \in refs'[y] PROVE d \in Borrowable /\ at'[d] # "free"
      BY DEF RefsInv
    <2>1. d \in Borrowable /\ at[d] # "free"
      <3>1. CASE y = c
        <4>1. d \in R
          BY <1>1, <1>2, <3>1
        <4>2. R \subseteq Visible(p)
          BY <1>1
        <4>3. d \in Coro
          BY <4>1, BorrowableAssumption
        <4>4. owner[d] = p \/ (d \in refs[p] /\ p \in Coro)
          BY <4>1, <4>2, <4>3 DEF Visible, Owned
        <4> QED BY <1>4, <4>1, <4>3, <4>4 DEF RefsInv
      <3>2. CASE y # c
        BY <1>1, <1>2, <3>2 DEF RefsInv
      <3> QED BY <3>1, <3>2
    <2> QED BY <1>1, <1>2, <2>1, BorrowableAssumption
  <1>18. WakeInv'
    <2> SUFFICES ASSUME NEW y \in Coro, y \notin OnStack'
                 PROVE  /\ at'[y] = "perform" => y \in running' \cup finished'
                        /\ at'[y] \in {"promise", "select"} =>
                             y \in Queued' \/ \A d \in awaits'[y] : ~(Done(d)') /\ WakesAtEnd(d, y)'
      BY DEF WakeInv
    <2>1. y # c /\ y \notin OnStack /\ at'[y] = at[y]
      BY <1>1, <1>6
    <2>2. \A d \in Coro : Done(d)' => Done(d)
      BY <1>1, <1>2 DEF Done
    <2> QED BY <1>1, <1>2, <1>7, <2>1, <2>2 DEF WakeInv, WakesAtEnd
  <1>19. TopInv'
    BY <1>1, <1>2, <1>6 DEF TopInv
  <1>20. Rooted'
    <2> SUFFICES ASSUME NEW S \in SUBSET Coro, S # {} PROVE \E x \in S : owner'[x] \notin S
      BY DEF Rooted
    <2>1. c # p /\ \A x \in M : owner[x] = p
      BY <1>1, <1>3, Names DEF Owned
    <2>2. CASE c \notin S
      <3>1. CASE S \cap M # {}
        BY <1>1, <2>2, <3>1
      <3>2. CASE S \cap M = {}
        <4>1. PICK x \in S : owner[x] \notin S
          BY DEF OwnerInv, Rooted
        <4> QED BY <1>1, <2>2, <3>2, <4>1
      <3> QED BY <3>1, <3>2
    <2>3. CASE c \in S /\ p \notin S
      BY <1>1, <2>3
    <2>4. CASE c \in S /\ p \in S
      <3>1. S \ {c} \in SUBSET Coro /\ S \ {c} # {}
        BY <2>1, <2>4
      <3>2. PICK x \in S \ {c} : owner[x] \notin S \ {c}
        BY <3>1 DEF OwnerInv, Rooted
      <3>3. owner[x] # c /\ x \notin M
        BY <1>1, <2>1, <2>4, <3>2 DEF FreeInv
      <3> QED BY <1>1, <3>2, <3>3
    <2> QED BY <2>2, <2>3, <2>4
  <1>21. ASSUME Borrowable = {}
         PROVE  Chain' /\ ready' = <<>>
    <2>1. ready' = <<>> /\ Chain
      BY <1>1, <1>21 DEF OwnerInv
    <2> SUFFICES ASSUME NEW i \in 1..Len(stack)
                 PROVE  owner'[stack'[i]] = stack'[i + 1] /\ awaiter'[stack'[i]] = Null
      BY <1>6, <2>1 DEF Chain
    <2>2. CASE i = 1
      <3>1. stack # <<>> /\ stack'[1] = c /\ stack'[1 + 1] = stack[1]
        BY <1>6, <2>2, EmptySeq
      <3>2. p = stack[1]
        BY <1>3, <3>1
      <3> QED BY <1>1, <2>2, <3>1, <3>2 DEF FreeInv
    <2>3. CASE i # 1
      <3>1. /\ i - 1 \in 1..(Len(stack) - 1) /\ i - 1 + 1 = i /\ i - 1 \in 1..Len(stack)
            /\ 1 \in 1..Len(stack) /\ i # 1
        BY <1>6, <2>3
      <3>2. stack'[i] = stack[i - 1] /\ stack'[i + 1] = stack[i]
        BY <1>6, <3>1
      <3>3. owner[stack[i - 1]] = stack[i] /\ awaiter[stack[i - 1]] = Null
        BY <2>1, <3>1 DEF Chain
      <3>4. stack[i] # stack[1] /\ stack[i - 1] \in OnStack
        BY <1>2, <3>1, LenProperties DEF StackInv, IsInjective, OnStack
      <3>5. stack # <<>>
        BY <3>1, <1>2, EmptySeq
      <3>6. stack[i - 1] \notin M /\ stack[i - 1] # c /\ stack[i - 1] \in Coro
        BY <1>3, <1>5, <3>3, <3>4, <3>5, <1>2, <3>1, LenProperties, ElementOfSeq, Names DEF Owned
      <3> QED BY <1>1, <3>2, <3>3, <3>6
    <2> QED BY <2>2, <2>3
  <1> QED BY <1>9, <1>10, <1>11, <1>12, <1>14, <1>15, <1>16, <1>17, <1>18, <1>19, <1>20, <1>21 DEF OwnerInv

LEMMA AwaitWakes ==
  ASSUME Discipline, WInv, NEW p \in Coro, NEW D \in SUBSET Coro, Await(p, D)
  PROVE  HandlesInv' /\ AwaitingInv'
  <1> USE DEF WInv, HandlesInv, AwaitingInv
  <1>1. /\ InControl(p) /\ at[p] = "running" /\ awaits[p] = {}
        /\ D # {} /\ D \subseteq Owned(p) \cup refs[p]
        /\ \A d \in D : ~Done(d)
        /\ Kind(D) = "select" => D \cap Borrowable = {}
        /\ at' = [at EXCEPT ![p] = Kind(D)]
        /\ awaits' = [awaits EXCEPT ![p] = D]
        /\ awaiter' = [d \in Coro |-> IF d \in D /\ awaiter[d] = Null THEN p ELSE awaiter[d]]
        /\ waiting_for_someone_else' =
             waiting_for_someone_else \cup {<<d, p>> : d \in {x \in D : awaiter[x] # Null}}
        /\ suspend
        /\ UNCHANGED <<handles, running, finished, outcome, code, owner, refs>>
    BY InControlOnTop, Names DEF Await, await_ready, Visible, Discipline, AwaiterAfterAdd,
         SleepingAfterAdd, curlVars, AwaitsInv
  <1>2. /\ IsInjective(stack') /\ IsInjective(ready')
        /\ p \in OnStack /\ p \notin OnStack' /\ p \notin Queued /\ Executing' \subseteq OnStack'
        /\ \A y \in OnStack' : \/ y \in OnStack /\ y # p /\ at[y] = "running"
                               \/ y \in Queued /\ y # p /\ Executing' = {y}
        /\ \A y \in Queued' : y \in Queued /\ y \notin OnStack'
        /\ \A y \in Coro \ OnStack' : y # p => /\ y \notin OnStack
                                               /\ y \in Queued => y \in Queued'
        /\ ready = <<>> => ready' = <<>> /\ stack' = Tail(stack)
    BY <1>1, Suspends
  <1>3. /\ at \in [Coro -> States] /\ awaits \in [Coro -> SUBSET Coro]
        /\ awaiter \in [Coro -> Coro \cup {Null}] /\ handles \subseteq Coro
        /\ OnStack \subseteq Coro /\ Queued \subseteq Coro
        /\ waiting_for_someone_else \subseteq Coro \X Coro
    BY DEF IInv, TypeOK, SchedulerType, CurlType, OnStack, Queued
  <1>4. Kind(D) \in {"promise", "select"}
    BY DEF Kind
  <1>5. /\ \A y \in Coro : y # p => at'[y] = at[y] /\ awaits'[y] = awaits[y]
        /\ at'[p] = Kind(D) /\ awaits'[p] = D
    BY <1>1, <1>3
  <1>6. \A y \in Coro : /\ Done(y)' <=> Done(y)
                        /\ Pending(y)' <=> Pending(y)
    BY <1>1, <1>4, <1>5 DEF Done, Pending
  <1>7. \A d \in D : Pending(d)
    BY <1>1, Names DEF Pending, Done, FreeInv, RefsInv, Owned
  <1>8. FreeInv'
    BY <1>1, <1>3, <1>4, <1>5, <1>7 DEF FreeInv, Pending
  <1>9. StackInv'
    <2> SUFFICES ASSUME NEW x \in OnStack'
                 PROVE  Pending(x)' /\ (at'[x] = "running" \/ x \in Executing')
      BY <1>2 DEF StackInv, OnTop
    <2> QED BY <1>2, <1>3, <1>5, <1>6 DEF StackInv, QueueInv, Pending
  <1>10. QueueInv'
    <2> SUFFICES ASSUME NEW y \in Queued'
                 PROVE  /\ y \notin OnStack' /\ at'[y] \in {"promise", "select"} /\ awaits'[y] # {}
                        /\ \A d \in awaits'[y] : Done(d)'
      BY <1>2 DEF QueueInv
    <2>1. y \in Queued /\ y # p
      BY <1>2
    <2> QED BY <1>2, <1>3, <1>5, <1>6, <2>1 DEF QueueInv
  <1>11. HandleInv'
    <2> SUFFICES ASSUME NEW y \in handles PROVE at'[y] = "perform" /\ y \notin OnStack'
      BY <1>1 DEF HandleInv
    <2>1. y \in Coro /\ y # p /\ at[y] = "perform" /\ y \notin OnStack
      BY <1>2, <1>3 DEF HandleInv
    <2> QED BY <1>2, <1>5, <2>1 DEF QueueInv
  <1>12. RegistrationInv'
    <2> SUFFICES ASSUME NEW d \in Coro, NEW y \in Coro, Pending(d)', WakesAtEnd(d, y)'
                 PROVE  d \in awaits'[y]
      BY DEF RegistrationInv
    <2>1. CASE WakesAtEnd(d, y)
      <3>1. d \in awaits[y]
        BY <1>6, <2>1 DEF RegistrationInv
      <3> QED BY <1>1, <1>5, <3>1
    <2>2. CASE ~WakesAtEnd(d, y)
      <3>1. y = p /\ d \in D
        BY <1>1, <2>2 DEF WakesAtEnd
      <3> QED BY <1>5, <3>1
    <2> QED BY <2>1, <2>2
  <1>13. MultimapInv'
    <2> SUFFICES ASSUME NEW d \in Coro, NEW y \in Coro, <<d, y>> \in waiting_for_someone_else'
                 PROVE  Pending(d) /\ d \in Borrowable /\ awaiter'[d] \notin {Null, y}
      BY <1>6 DEF MultimapInv
    <2>1. CASE <<d, y>> \in waiting_for_someone_else
      BY <1>1, <2>1 DEF MultimapInv
    <2>2. CASE <<d, y>> \notin waiting_for_someone_else
      <3>1. y = p /\ d \in D /\ awaiter[d] # Null
        BY <1>1, <2>2
      <3>2. awaiter[d] \in Coro /\ Pending(d)
        BY <1>3, <1>7, <3>1
      <3>3. d \in awaits[awaiter[d]]
        BY <3>2 DEF RegistrationInv, WakesAtEnd
      <3>4. awaiter[d] # p
        BY <1>1, <3>3
      <3>5. d \in Borrowable
        BY <1>1, <3>1, <3>2, <3>3, <3>4 DEF AwaitsInv, RefsInv, Owned
      <3>6. awaiter'[d] = awaiter[d]
        BY <1>1, <3>1
      <3> QED BY <3>1, <3>2, <3>4, <3>5, <3>6
    <2> QED BY <2>1, <2>2
  <1>14. AwaitsInv'
    <2> SUFFICES ASSUME NEW y \in Coro
                 PROVE  /\ awaits'[y] \subseteq Owned(y)' \cup refs'[y]
                        /\ awaits'[y] # {} <=> at'[y] \in {"promise", "select"}
                        /\ at'[y] = "promise" => \E d \in Coro : awaits'[y] = {d}
                        /\ at'[y] = "select" => awaits'[y] \cap Borrowable = {}
      BY DEF AwaitsInv
    <2>1. Owned(y)' = Owned(y) /\ refs'[y] = refs[y]
      BY <1>1 DEF Owned
    <2>2. CASE y # p
      BY <1>5, <2>1, <2>2 DEF AwaitsInv
    <2>3. CASE y = p
      <3>1. Kind(D) = "promise" => \E d \in Coro : D = {d}
        <4>1. IsFiniteSet(D)
          BY FiniteAssumption, FS_Subset
        <4>2. Kind(D) = "promise" => Cardinality(D) = 1
          BY DEF Kind
        <4>3. Cardinality(D) = 1 => \E d : D = {d}
          BY <4>1, FS_Singleton
        <4> QED BY <4>2, <4>3
      <3> QED BY <1>1, <1>4, <1>5, <2>1, <2>3, <3>1
    <2> QED BY <2>2, <2>3
  <1>15. RefsInv'
    BY <1>1, <1>4, <1>5, BorrowableAssumption DEF RefsInv
  <1>16. WakeInv'
    <2> SUFFICES ASSUME NEW y \in Coro, y \notin OnStack'
                 PROVE  /\ at'[y] = "perform" => y \in running \cup finished
                        /\ at'[y] \in {"promise", "select"} =>
                             y \in Queued' \/ \A d \in awaits'[y] : ~(Done(d)') /\ WakesAtEnd(d, y)'
      BY <1>1 DEF WakeInv
    <2>1. CASE y = p
      <3>1. \A d \in D : WakesAtEnd(d, p)'
        BY <1>1 DEF WakesAtEnd
      <3> QED BY <1>1, <1>4, <1>5, <1>6, <2>1, <3>1
    <2>2. CASE y # p
      <3>1. y \notin OnStack /\ (y \in Queued => y \in Queued')
        BY <1>2, <2>2
      <3>2. \A d \in Coro : WakesAtEnd(d, y) => WakesAtEnd(d, y)'
        BY <1>1, Names DEF WakesAtEnd
      <3> QED BY <1>3, <1>5, <1>6, <2>2, <3>1, <3>2 DEF WakeInv
    <2> QED BY <2>1, <2>2
  <1>17. TopInv'
    <2> SUFFICES ASSUME NEW y \in Executing'
                 PROVE  /\ at'[y] \in {"promise", "select"} => \E d \in awaits'[y] : Done(d)'
                        /\ at'[y] # "perform"
      BY DEF TopInv
    <2>1. \/ y \in OnStack /\ y # p /\ at[y] = "running"
          \/ y \in Queued /\ y # p
      BY <1>2
    <2> QED BY <1>3, <1>5, <1>6, <2>1 DEF QueueInv
  <1>18. OwnerInv'
    <2>1. Rooted'
      BY <1>1 DEF OwnerInv, Rooted
    <2>2. ASSUME Borrowable = {}
          PROVE  Chain' /\ ready' = <<>>
      <3>1. Chain /\ ready = <<>> /\ stack' = Tail(stack) /\ ready' = <<>>
        BY <1>2, <2>2 DEF OwnerInv
      <3>2. stack # <<>> /\ Executing = {p}
        BY <1>1, InControlOnTop, TopOfStack
      <3>3. D \subseteq Owned(p)
        BY <1>1, <2>2 DEF RefsInv
      <3>4. ASSUME NEW x \in OnStack \ Executing
            PROVE  owner'[x] = owner[x] /\ (awaiter[x] = Null => awaiter'[x] = Null)
        <4>1. x \notin D
          BY <1>1, <2>2, <3>3, <3>4, OwnedNotOnStack, FramesLeast
        <4> QED BY <1>1, <1>3, <4>1
      <3>5. Chain'
        BY <3>1, <3>2, <3>4, ChainKept
      <3> QED BY <3>1, <3>5
    <2> QED BY <2>1, <2>2 DEF OwnerInv
  <1> QED BY <1>8, <1>9, <1>10, <1>11, <1>12, <1>13, <1>14, <1>15, <1>16, <1>17, <1>18

LEMMA PerformWakes ==
  ASSUME Discipline, WInv, NEW p \in Coro, Perform(p)
  PROVE  HandlesInv' /\ AwaitingInv'
  <1> USE DEF WInv, HandlesInv, AwaitingInv
  <1>1. /\ InControl(p) /\ at[p] = "running" /\ awaits[p] = {}
        /\ at' = [at EXCEPT ![p] = "perform"]
        /\ add_handle(p) /\ suspend
        /\ UNCHANGED <<waiting_for_someone_else, code, owner, refs, awaits, awaiter>>
    BY InControlOnTop DEF Perform, AwaitsInv
  <1>2. /\ IsInjective(stack') /\ IsInjective(ready')
        /\ p \in OnStack /\ p \notin OnStack' /\ p \notin Queued /\ Executing' \subseteq OnStack'
        /\ \A y \in OnStack' : \/ y \in OnStack /\ y # p /\ at[y] = "running"
                               \/ y \in Queued /\ y # p /\ Executing' = {y}
        /\ \A y \in Queued' : y \in Queued /\ y \notin OnStack'
        /\ \A y \in Coro \ OnStack' : y # p => /\ y \notin OnStack
                                               /\ y \in Queued => y \in Queued'
        /\ ready = <<>> => ready' = <<>> /\ stack' = Tail(stack)
    BY <1>1, Suspends
  <1>3. /\ at \in [Coro -> States] /\ handles \subseteq Coro
        /\ outcome \in [Coro -> Codes \cup {Null}]
        /\ OnStack \subseteq Coro /\ Queued \subseteq Coro
    BY DEF IInv, TypeOK, SchedulerType, CurlType, OnStack, Queued
  <1>4. /\ handles' = handles \cup {p} /\ running' = running \cup {p} /\ UNCHANGED finished
    BY <1>1, <1>2 DEF add_handle, HandleInv
  <1>5. \A y \in Coro : y # p => at'[y] = at[y]
    BY <1>1, <1>3
  <1>6. \A y \in Coro : /\ Done(y)' <=> Done(y)
                        /\ Pending(y)' <=> Pending(y)
                        /\ at'[y] = "free" <=> at[y] = "free"
    BY <1>1, <1>3 DEF Done, Pending
  <1>7. \A d, y \in Coro : WakesAtEnd(d, y)' <=> WakesAtEnd(d, y)
    BY <1>1 DEF WakesAtEnd
  <1>8. FreeInv'
    BY <1>1, <1>3, <1>4, <1>5, <1>6 DEF FreeInv
  <1>9. StackInv'
    <2> SUFFICES ASSUME NEW x \in OnStack'
                 PROVE  Pending(x)' /\ (at'[x] = "running" \/ x \in Executing')
      BY <1>2 DEF StackInv, OnTop
    <2> QED BY <1>2, <1>3, <1>5, <1>6 DEF StackInv, QueueInv, Pending
  <1>10. QueueInv'
    <2> SUFFICES ASSUME NEW y \in Queued'
                 PROVE  /\ y \notin OnStack' /\ at'[y] \in {"promise", "select"} /\ awaits'[y] # {}
                        /\ \A d \in awaits'[y] : Done(d)'
      BY <1>2 DEF QueueInv
    <2>1. y \in Queued /\ y # p /\ y \in Coro /\ awaits[y] \subseteq Coro
      BY <1>2, <1>3 DEF IInv, TypeOK
    <2> QED BY <1>1, <1>2, <1>5, <1>6, <2>1 DEF QueueInv
  <1>11. HandleInv'
    <2> SUFFICES ASSUME NEW y \in handles' PROVE at'[y] = "perform" /\ y \notin OnStack'
      BY DEF HandleInv
    <2>1. CASE y = p
      BY <1>1, <1>2, <1>3, <2>1
    <2>2. CASE y # p
      BY <1>2, <1>3, <1>4, <1>5, <2>2 DEF HandleInv, QueueInv
    <2> QED BY <2>1, <2>2
  <1>12. RegistrationInv'
    BY <1>1, <1>6, <1>7 DEF RegistrationInv
  <1>13. MultimapInv'
    BY <1>1, <1>6 DEF MultimapInv
  <1>14. AwaitsInv'
    <2> SUFFICES ASSUME NEW y \in Coro
                 PROVE  /\ awaits[y] \subseteq Owned(y) \cup refs[y]
                        /\ awaits[y] # {} <=> at'[y] \in {"promise", "select"}
                        /\ at'[y] = "promise" => \E d \in Coro : awaits[y] = {d}
                        /\ at'[y] = "select" => awaits[y] \cap Borrowable = {}
      BY <1>1 DEF AwaitsInv, Owned
    <2>1. CASE y = p
      BY <1>1, <1>3, <2>1
    <2>2. CASE y # p
      BY <1>5, <2>2 DEF AwaitsInv
    <2> QED BY <2>1, <2>2
  <1>15. RefsInv'
    BY <1>1, <1>6, BorrowableAssumption DEF RefsInv
  <1>16. WakeInv'
    <2> SUFFICES ASSUME NEW y \in Coro, y \notin OnStack'
                 PROVE  /\ at'[y] = "perform" => y \in running' \cup finished'
                        /\ at'[y] \in {"promise", "select"} =>
                             y \in Queued' \/ \A d \in awaits[y] : ~(Done(d)') /\ WakesAtEnd(d, y)'
      BY <1>1 DEF WakeInv
    <2>1. CASE y = p
      BY <1>1, <1>3, <1>4, <2>1
    <2>2. CASE y # p
      <3>1. y \notin OnStack /\ (y \in Queued => y \in Queued') /\ awaits[y] \subseteq Coro
        BY <1>2, <2>2 DEF IInv, TypeOK
      <3> QED BY <1>4, <1>5, <1>6, <1>7, <2>2, <3>1 DEF WakeInv
    <2> QED BY <2>1, <2>2
  <1>17. TopInv'
    <2> SUFFICES ASSUME NEW y \in Executing'
                 PROVE  /\ at'[y] \in {"promise", "select"} => \E d \in awaits[y] : Done(d)'
                        /\ at'[y] # "perform"
      BY <1>1 DEF TopInv
    <2>1. \/ y \in OnStack /\ y # p /\ at[y] = "running"
          \/ y \in Queued /\ y # p
      BY <1>2
    <2>2. y \in Coro /\ awaits[y] \subseteq Coro
      BY <1>3, <2>1 DEF IInv, TypeOK
    <2> QED BY <1>5, <1>6, <2>1, <2>2 DEF QueueInv
  <1>18. OwnerInv'
    <2>1. Rooted'
      BY <1>1 DEF OwnerInv, Rooted
    <2>2. ASSUME Borrowable = {}
          PROVE  Chain' /\ ready' = <<>>
      <3>1. Chain /\ ready = <<>> /\ stack' = Tail(stack) /\ ready' = <<>>
        BY <1>2, <2>2 DEF OwnerInv
      <3>2. stack # <<>>
        BY <1>1, InControlOnTop
      <3>3. Chain'
        BY <1>1, <3>1, <3>2, ChainKept
      <3> QED BY <3>1, <3>3
    <2> QED BY <2>1, <2>2 DEF OwnerInv
  <1> QED BY <1>8, <1>9, <1>10, <1>11, <1>12, <1>13, <1>14, <1>15, <1>16, <1>17, <1>18

LEMMA AwaitResumeWakes ==
  ASSUME Discipline, WInv, NEW c \in Coro, AwaitResume(c)
  PROVE  HandlesInv' /\ AwaitingInv'
  <1> USE DEF WInv, HandlesInv, AwaitingInv
  <1>1. /\ OnTop(c) /\ at[c] \in Awaiting
        /\ at' = [at EXCEPT ![c] = "running"]
        /\ awaits' = [awaits EXCEPT ![c] = {}]
        /\ UNCHANGED <<handles, running, finished, outcome, stack, ready, code, owner, refs>>
    BY DEF AwaitResume, curlVars
  <1>2. /\ at \in [Coro -> States] /\ awaits \in [Coro -> SUBSET Coro]
        /\ awaiter \in [Coro -> Coro \cup {Null}]
        /\ waiting_for_someone_else \subseteq Coro \X Coro
    BY DEF IInv, TypeOK, SchedulerType
  <1>3. /\ OnStack' = OnStack /\ Queued' = Queued /\ Executing' = Executing /\ Executing = {c}
        /\ c \in OnStack /\ c \notin Queued /\ c \notin handles
    <2>1. OnStack' = OnStack /\ Queued' = Queued /\ Executing' = Executing
      BY <1>1 DEF OnStack, Queued, Executing
    <2>2. stack # <<>>
      BY <1>1 DEF OnTop, Executing
    <2> QED BY <1>1, <2>1, <2>2, TopOfStack DEF OnTop, QueueInv, HandleInv
  <1>4. /\ \A d \in Coro : awaiter'[d] # awaiter[d] =>
             awaiter[d] = c /\ awaiter'[d] = Null /\ d \in awaits[c] /\ at[c] = "select"
        /\ waiting_for_someone_else' \subseteq waiting_for_someone_else
        /\ \A d, y \in Coro : y # c /\ <<d, y>> \in waiting_for_someone_else =>
             <<d, y>> \in waiting_for_someone_else'
        /\ at[c] = "select" => \A d \in awaits[c] : awaiter'[d] # c
    <2>1. CASE at[c] = "select"
      <3>1. /\ awaiter' = [d \in Coro |-> IF d \in awaits[c] /\ awaiter[d] = c THEN Null ELSE awaiter[d]]
            /\ waiting_for_someone_else' = waiting_for_someone_else \
                 {<<d, c>> : d \in {x \in awaits[c] : awaiter[x] \notin {Null, c}}}
        BY <2>1 DEF AwaitResume, AwaiterAfterRemove, SleepingAfterRemove
      <3> QED BY <1>2, <2>1, <3>1, Names
    <2>2. CASE at[c] # "select"
      BY <2>2 DEF AwaitResume
    <2> QED BY <2>1, <2>2
  <1>5. /\ \A y \in Coro : y # c => at'[y] = at[y] /\ awaits'[y] = awaits[y]
        /\ at'[c] = "running" /\ awaits'[c] = {}
    BY <1>1, <1>2
  <1>6. \A y \in Coro : /\ Done(y)' <=> Done(y)
                        /\ Pending(y)' <=> Pending(y)
                        /\ at'[y] = "free" <=> at[y] = "free"
    BY <1>1, <1>5 DEF Done, Pending, Awaiting
  <1>7. \A d, y \in Coro : y # c => (WakesAtEnd(d, y)' <=> WakesAtEnd(d, y))
    BY <1>2, <1>4, Names DEF WakesAtEnd
  <1>8. ASSUME NEW d \in Coro, Pending(d)
        PROVE  ~WakesAtEnd(d, c)'
    <2> SUFFICES ASSUME WakesAtEnd(d, c)' PROVE FALSE
      OBVIOUS
    <2>1. WakesAtEnd(d, c)
      BY <1>2, <1>4, Names DEF WakesAtEnd
    <2>2. d \in awaits[c] /\ at[c] \in {"promise", "select"}
      BY <1>8, <2>1 DEF RegistrationInv, AwaitsInv
    <2>3. at[c] = "select"
      <3>1. PICK x \in awaits[c] : Done(x)
        BY <1>3, <2>2 DEF TopInv
      <3>2. x # d
        BY <1>8, <3>1 DEF Pending, Done
      <3> QED BY <2>2, <3>1, <3>2 DEF AwaitsInv
    <2>4. awaiter'[d] # c
      BY <1>4, <2>2, <2>3
    <2>5. <<d, c>> \in waiting_for_someone_else
      BY <1>4, <2>4 DEF WakesAtEnd
    <2> QED BY <2>2, <2>3, <2>5 DEF MultimapInv, AwaitsInv
  <1>9. FreeInv'
    <2> SUFFICES ASSUME NEW y \in Coro, at[y] = "free"
                 PROVE  /\ owner[y] = Null /\ awaiter'[y] = Null /\ y \notin handles
                        /\ refs[y] = {} /\ awaits'[y] = {}
                        /\ \A x \in Coro : owner[x] # y
      BY <1>1, <1>6 DEF FreeInv
    <2>1. y # c
      BY <1>1 DEF Awaiting
    <2> QED BY <1>4, <1>5, <2>1 DEF FreeInv
  <1>10. StackInv'
    <2> SUFFICES ASSUME NEW x \in OnStack
                 PROVE  Pending(x)' /\ (at'[x] = "running" \/ x \in Executing)
      BY <1>1, <1>3 DEF StackInv, OnTop
    <2>1. x \in Coro
      BY DEF OnStack, IInv, TypeOK, SchedulerType
    <2> QED BY <1>3, <1>5, <1>6, <2>1 DEF StackInv, OnTop
  <1>11. QueueInv'
    <2> SUFFICES ASSUME NEW y \in Queued
                 PROVE  /\ y \notin OnStack /\ at'[y] \in {"promise", "select"} /\ awaits'[y] # {}
                        /\ \A d \in awaits'[y] : Done(d)'
      BY <1>1, <1>3 DEF QueueInv
    <2>1. y # c /\ y \in Coro /\ awaits[y] \subseteq Coro
      BY <1>2, <1>3 DEF Queued, IInv, TypeOK, SchedulerType
    <2> QED BY <1>5, <1>6, <2>1 DEF QueueInv
  <1>12. HandleInv'
    BY <1>1, <1>3, <1>5 DEF HandleInv, IInv, TypeOK, CurlType
  <1>13. RegistrationInv'
    BY <1>5, <1>6, <1>7, <1>8 DEF RegistrationInv
  <1>14. MultimapInv'
    <2> SUFFICES ASSUME NEW d \in Coro, NEW y \in Coro, <<d, y>> \in waiting_for_someone_else'
                 PROVE  Pending(d)' /\ d \in Borrowable /\ awaiter'[d] \notin {Null, y}
      BY DEF MultimapInv
    <2>1. Pending(d) /\ d \in Borrowable /\ awaiter[d] \notin {Null, y}
      BY <1>4 DEF MultimapInv
    <2>2. awaiter'[d] = awaiter[d]
      BY <1>4, <2>1 DEF AwaitsInv
    <2> QED BY <1>6, <2>1, <2>2
  <1>15. AwaitsInv'
    <2> SUFFICES ASSUME NEW y \in Coro
                 PROVE  /\ awaits'[y] \subseteq Owned(y) \cup refs[y]
                        /\ awaits'[y] # {} <=> at'[y] \in {"promise", "select"}
                        /\ at'[y] = "promise" => \E d \in Coro : awaits'[y] = {d}
                        /\ at'[y] = "select" => awaits'[y] \cap Borrowable = {}
      BY <1>1 DEF AwaitsInv, Owned
    <2>1. CASE y = c
      BY <1>5, <2>1
    <2>2. CASE y # c
      BY <1>5, <2>2 DEF AwaitsInv
    <2> QED BY <2>1, <2>2
  <1>16. RefsInv'
    BY <1>1, <1>6, BorrowableAssumption DEF RefsInv
  <1>17. WakeInv'
    <2> SUFFICES ASSUME NEW y \in Coro, y \notin OnStack
                 PROVE  /\ at'[y] = "perform" => y \in running \cup finished
                        /\ at'[y] \in {"promise", "select"} =>
                             y \in Queued \/ \A d \in awaits'[y] : ~(Done(d)') /\ WakesAtEnd(d, y)'
      BY <1>1, <1>3 DEF WakeInv
    <2>1. y # c /\ awaits[y] \subseteq Coro
      BY <1>2, <1>3
    <2> QED BY <1>5, <1>6, <1>7, <2>1 DEF WakeInv
  <1>18. TopInv'
    BY <1>3, <1>5 DEF TopInv
  <1>19. OwnerInv'
    <2>1. Rooted'
      BY <1>1 DEF OwnerInv, Rooted
    <2>2. ASSUME Chain
          PROVE  Chain'
      <3> SUFFICES ASSUME NEW i \in 1..(Len(stack) - 1)
                   PROVE  owner[stack[i]] = stack[i + 1] /\ awaiter'[stack[i]] = Null
        BY <1>1 DEF Chain
      <3>1. owner[stack[i]] = stack[i + 1] /\ awaiter[stack[i]] = Null
        BY <2>2 DEF Chain
      <3>2. stack[i] \in Coro
        BY LenProperties, ElementOfSeq DEF IInv, TypeOK, SchedulerType
      <3> QED BY <1>4, <3>1, <3>2
    <2> QED BY <1>1, <2>1, <2>2 DEF OwnerInv
  <1> QED BY <1>9, <1>10, <1>11, <1>12, <1>13, <1>14, <1>15, <1>16, <1>17, <1>18, <1>19

(* The end of c, with which the frames gone are destroyed: the coroutine it  *)
(* resumes, if any, slept on something that has ended by now, and nobody     *)
(* else enters or leaves the stack.                                          *)
Returned(c, gone) ==
  /\ at'[c] = "final" /\ \A y \in gone : at'[y] = "free"
  /\ \A y \in Coro \ gone : awaits'[y] = awaits[y] /\ (y # c => at'[y] = at[y])
  /\ c \notin OnStack' /\ \A y \in OnStack : y # c => y \in OnStack'
  /\ \A y \in OnStack' \ OnStack :
       /\ y \in Coro \ gone /\ y # c /\ Executing' = {y}
       /\ at[y] \in {"promise", "select"}
       /\ \E d \in awaits[y] \ gone : d \in Coro /\ (Done(d) \/ d = c)

LEMMA ReturnWakes ==
  ASSUME Discipline, WInv, NEW c \in Coro, NEW L \in SUBSET Owned(c), Return(c, L)
  PROVE  HandlesInv' /\ AwaitingInv' /\ Returned(c, Frames(L))
  <1> DEFINE gone == Frames(L)
             states == [at EXCEPT ![c] = "final"]
  <1> USE DEF WInv, HandlesInv, AwaitingInv
  <1>1. /\ InControl(c) /\ at[c] = "running" /\ awaits[c] = {}
        /\ MayDestroy(L) /\ destroy(L, states) /\ states \in [Coro -> States]
        /\ waiting_for_someone_else' = {x \in waiting_for_someone_else : x[1] # c}
        /\ UNCHANGED code
    BY InControlOnTop DEF Return, AwaitsInv, IInv, TypeOK, States, forget_sleeping
  <1>2. /\ at \in [Coro -> States] /\ awaits \in [Coro -> SUBSET Coro]
        /\ awaiter \in [Coro -> Coro \cup {Null}]
        /\ waiting_for_someone_else \subseteq Coro \X Coro
        /\ ready \in Seq(Coro) /\ Queued = Range(ready) /\ Queued \subseteq Coro
        /\ OnStack \subseteq Coro /\ handles \subseteq Coro
    BY DEF IInv, TypeOK, SchedulerType, CurlType, Queued, OnStack, Range
  <1>3. /\ gone \subseteq Coro /\ gone \cap OnStack = {} /\ gone \cap Queued = {} /\ c \notin gone
        /\ \A y \in Coro \ gone : awaits[y] \cap gone = {} /\ refs[y] \cap gone = {}
        /\ \A x, y \in Coro : x \notin gone /\ x \in awaits[y] => y \notin gone \/ Done(x)
    BY <1>1, GoneFacts
  <1>4. \A x \in Coro : states[x] = IF x = c THEN "final" ELSE at[x]
    BY <1>2
  <1>5. /\ FreeInv' /\ RefsInv' /\ AwaitsInv' /\ RegistrationInv' /\ MultimapInv' /\ Rooted'
        /\ \A x \in Coro \ gone :
              /\ at'[x] = states[x] /\ owner'[x] = owner[x]
              /\ awaits'[x] = awaits[x] /\ awaiter'[x] = awaiter[x]
              /\ outcome'[x] = outcome[x]
              /\ x \in handles' <=> x \in handles
              /\ x \in running' <=> x \in running
              /\ x \in finished' <=> x \in finished
        /\ \A x \in gone : at'[x] = "free" /\ x \notin handles'
    <2>1. waiting_for_someone_else' \subseteq waiting_for_someone_else
      BY <1>1
    <2>2. \A x \in Coro : states[x] = at[x] \/ (x = c /\ states[x] = "final")
      BY <1>4
    <2>3. \A x, y \in Coro : states[x] = "final" => <<x, y>> \notin waiting_for_someone_else'
      BY <1>1, <1>4 DEF MultimapInv, Pending
    <2> HIDE DEF states
    <2> QED BY <1>1, <2>1, <2>2, <2>3, DestroyKeeps
  <1> HIDE DEF gone, states
  (* Whom c wakes: they sleep on c and on nothing else.                      *)
  <1>6. ASSUME NEW y \in Coro, y = awaiter[c] \/ y \in Sleeping(c)
        PROVE  /\ c \in awaits[y] /\ at[y] \in {"promise", "select"}
               /\ y \notin OnStack /\ y \notin Queued /\ y \notin gone /\ y # c
    <2>1. c \in awaits[y]
      BY <1>1, <1>6 DEF RegistrationInv, WakesAtEnd, Sleeping, Pending
    <2>2. at[y] \in {"promise", "select"} /\ y # c
      BY <1>1, <2>1 DEF AwaitsInv
    <2>3. y \notin OnStack
      <3>1. Executing = {c}
        BY <1>1, InControlOnTop, TopOfStack
      <3> QED BY <2>2, <3>1 DEF StackInv, OnTop
    <2>4. y \notin Queued /\ y \notin gone
      BY <1>1, <1>3, <2>1 DEF QueueInv, Done
    <2> QED BY <2>1, <2>2, <2>3, <2>4
  <1>7. ASSUME NEW y \in Sleeping(c)
        PROVE  awaits[y] = {c} /\ y # awaiter[c] /\ y \in Coro
    <2>1. y \in Coro /\ <<c, y>> \in waiting_for_someone_else
      BY DEF Sleeping
    <2> QED BY <1>6, <2>1 DEF MultimapInv, AwaitsInv
  <1>8. PICK queue \in QueuedWith(c) :
          select_next_coroutine(awaiter[c], queue, finish(blocked_balance))
    BY DEF Return
  <1>9. /\ queue \in Seq(Coro) /\ IsInjective(queue)
        /\ Range(queue) = Queued \cup Sleeping(c)
        /\ Borrowable = {} => queue = <<>>
    <2>1. PICK woken \in SetToSeqs(Sleeping(c)) : queue = ready \o woken
      BY <1>8 DEF QueuedWith
    <2>2. Sleeping(c) \in SUBSET Coro
      BY DEF Sleeping
    <2>3. woken \in Seq(Coro) /\ IsInjective(woken) /\ Range(woken) = Sleeping(c)
      BY <2>1, <2>2, EnumerationApart
    <2>4. Range(ready) \cap Range(woken) = {}
      BY <1>2, <1>6, <2>2, <2>3
    <2>5. queue \in Seq(Coro) /\ IsInjective(queue) /\ Range(queue) = Queued \cup Sleeping(c)
      BY <1>2, <2>1, <2>3, <2>4, AppendApart DEF QueueInv
    <2>6. ASSUME Borrowable = {}
          PROVE  queue = <<>>
      <3>1. ready = <<>> /\ Sleeping(c) = {}
        BY <2>6 DEF OwnerInv, MultimapInv, Sleeping
      <3>2. Range(queue) = {}
        BY <2>5, <3>1 DEF Queued
      <3>3. DOMAIN queue = 1..Len(queue) /\ Len(queue) \in Nat
        BY <2>5, LenProperties
      <3>4. DOMAIN queue = {}
        BY <3>2 DEF Range
      <3> QED BY <2>5, <3>3, <3>4, EmptySeq
    <2> QED BY <2>5, <2>6
  <1> DEFINE a == awaiter[c]
  <1>10. /\ a \in Coro \cup {Null} /\ a \notin OnStack \cup Range(queue)
         /\ Range(queue) \cap OnStack = {}
         /\ \A y \in Range(queue) \cup ({a} \ {Null}) :
              /\ y \in Coro /\ y \notin OnStack /\ y \notin gone /\ y # c
              /\ at[y] \in {"promise", "select"} /\ awaits[y] # {}
         /\ \A y \in Range(queue) : \A d \in awaits[y] : d \in Coro /\ (Done(d) \/ d = c)
         /\ a # Null => c \in awaits[a]
    <2>1. a \in Coro \cup {Null}
      BY <1>2
    <2>2. ASSUME NEW y \in Queued
          PROVE  /\ y \in Coro /\ y \notin OnStack /\ y \notin gone /\ y # c
                 /\ at[y] \in {"promise", "select"} /\ awaits[y] # {}
                 /\ \A d \in awaits[y] : d \in Coro /\ Done(d)
      BY <1>1, <1>2, <1>3 DEF QueueInv
    <2>3. ASSUME NEW y \in Sleeping(c)
          PROVE  /\ y \in Coro /\ y \notin OnStack /\ y \notin gone /\ y # c /\ y # a
                 /\ at[y] \in {"promise", "select"} /\ awaits[y] # {}
                 /\ \A d \in awaits[y] : d \in Coro /\ d = c
      BY <1>6, <1>7
    <2>4. a # Null => /\ a \notin OnStack /\ a \notin Queued /\ a \notin gone /\ a # c
                      /\ at[a] \in {"promise", "select"} /\ awaits[a] # {} /\ c \in awaits[a]
      BY <1>6, <2>1
    <2>5. Null \notin OnStack \cup Queued \cup Sleeping(c)
      BY <1>2, <2>3, Names
    <2> HIDE DEF a
    <2> QED BY <1>9, <2>1, <2>2, <2>3, <2>4, <2>5
  <1>11. select_next_coroutine(a, queue, finish(blocked_balance))
    BY <1>8
  <1> HIDE DEF a
  <1>12. /\ IsInjective(stack') /\ IsInjective(ready')
         /\ c \notin OnStack' /\ Executing' \subseteq OnStack'
         /\ \A y \in OnStack' : \/ y \in OnStack /\ y # c /\ at[y] = "running"
                                \/ y \in Coro /\ y \in Range(queue) \cup {a} /\ Executing' = {y}
         /\ \A y \in Queued' : y \in Range(queue) /\ y \notin OnStack'
         /\ \A y \in Coro \ OnStack' : /\ y # c => y \notin OnStack
                                       /\ y \in Range(queue) => y \in Queued'
         /\ a # Null => a \in OnStack'
         /\ queue = <<>> =>
              ready' = <<>> /\ stack' = IF a = Null THEN Tail(stack) ELSE <<a>> \o Tail(stack)
    BY <1>1, <1>9, <1>10, <1>11, HandsOver
  <1>13. \A y \in Coro : y \notin gone /\ y # c => at'[y] = at[y]
    BY <1>4, <1>5
  <1>14. at'[c] = "final"
    BY <1>3, <1>4, <1>5
  <1>15. \A d \in Coro : d \notin gone => (Done(d)' <=> Done(d) \/ d = c)
    BY <1>13, <1>14 DEF Done
  <1>16. \A y \in OnStack' : \/ y \in OnStack /\ y # c /\ at[y] = "running"
                             \/ y \in Range(queue) \cup ({a} \ {Null}) /\ Executing' = {y}
    BY <1>12, Names
  <1>17. StackInv'
    <2> SUFFICES ASSUME NEW x \in OnStack'
                 PROVE  Pending(x)' /\ (at'[x] = "running" \/ x \in Executing')
      BY <1>12 DEF StackInv, OnTop
    <2>1. x \in Coro /\ x \notin gone /\ x # c /\ at[x] \in {"running", "promise", "select"}
      BY <1>2, <1>3, <1>10, <1>16
    <2>2. at'[x] = at[x]
      BY <1>13, <2>1
    <2> QED BY <1>16, <2>1, <2>2 DEF Pending
  <1>18. QueueInv'
    <2> SUFFICES ASSUME NEW y \in Queued'
                 PROVE  /\ y \notin OnStack' /\ at'[y] \in {"promise", "select"} /\ awaits'[y] # {}
                        /\ \A d \in awaits'[y] : Done(d)'
      BY <1>12 DEF QueueInv
    <2>1. y \in Range(queue) /\ y \notin OnStack' /\ y \in Coro /\ y \notin gone /\ y # c
      BY <1>10, <1>12
    <2>2. at'[y] = at[y] /\ awaits'[y] = awaits[y] /\ awaits[y] \cap gone = {}
      BY <1>3, <1>5, <1>13, <2>1
    <2> QED BY <1>10, <1>15, <2>1, <2>2
  <1>19. HandleInv'
    <2> SUFFICES ASSUME NEW y \in handles' PROVE at'[y] = "perform" /\ y \notin OnStack'
      BY DEF HandleInv
    <2>1. y \in Coro /\ y \notin gone /\ y \in handles
      BY <1>1, <1>2, <1>5 DEF destroy, remove_handles
    <2>2. at[y] = "perform" /\ y \notin OnStack /\ y # c
      BY <1>1, <2>1 DEF HandleInv
    <2> QED BY <1>10, <1>13, <1>16, <2>1, <2>2
  <1>20. WakeInv'
    <2> SUFFICES ASSUME NEW y \in Coro, y \notin OnStack'
                 PROVE  /\ at'[y] = "perform" => y \in running' \cup finished'
                        /\ at'[y] \in {"promise", "select"} =>
                             y \in Queued' \/ \A d \in awaits'[y] : ~(Done(d)') /\ WakesAtEnd(d, y)'
      BY DEF WakeInv
    <2>1. CASE y \in gone \/ y = c
      BY <1>5, <1>14, <2>1
    <2>2. CASE y \notin gone /\ y # c
      <3>1. /\ y \notin OnStack /\ at'[y] = at[y] /\ awaits'[y] = awaits[y]
            /\ awaits[y] \cap gone = {} /\ awaits[y] \subseteq Coro
            /\ y \in Range(queue) => y \in Queued'
        BY <1>2, <1>3, <1>5, <1>12, <1>13, <2>2
      <3>2. ASSUME at[y] = "perform" PROVE y \in running' \cup finished'
        BY <1>5, <2>2, <3>1, <3>2 DEF WakeInv
      <3>3. ASSUME at[y] \in {"promise", "select"}, y \notin Queued', NEW d \in awaits[y]
            PROVE  ~(Done(d)') /\ WakesAtEnd(d, y)'
        <4>1. y \notin Range(queue)
          BY <3>1, <3>3
        <4>2. ~Done(d) /\ WakesAtEnd(d, y)
          BY <1>9, <3>1, <3>3, <4>1 DEF WakeInv
        <4>3. d # c
          BY <1>9, <1>12, <2>2, <4>1, <4>2, Names DEF WakesAtEnd, Sleeping, a
        <4>4. d \in Coro /\ d \notin gone
          BY <3>1
        <4>5. WakesAtEnd(d, y)'
          <5>1. awaiter'[d] = awaiter[d]
            BY <1>5, <4>4
          <5>2. <<d, y>> \in waiting_for_someone_else => <<d, y>> \in waiting_for_someone_else'
            BY <1>1, <4>3
          <5> QED BY <4>2, <5>1, <5>2 DEF WakesAtEnd
        <4> QED BY <1>15, <4>2, <4>3, <4>4, <4>5
      <3> QED BY <3>1, <3>2, <3>3
    <2> QED BY <2>1, <2>2
  <1>21. TopInv'
    <2> SUFFICES ASSUME NEW y \in Executing'
                 PROVE  /\ at'[y] \in {"promise", "select"} => \E d \in awaits'[y] : Done(d)'
                        /\ at'[y] # "perform"
      BY DEF TopInv
    <2>1. y \in OnStack'
      BY <1>12
    <2>2. CASE y \in OnStack /\ y # c /\ at[y] = "running"
      BY <1>2, <1>3, <1>13, <2>2
    <2>3. CASE y \in Range(queue) \cup ({a} \ {Null})
      <3>1. y \in Coro /\ y \notin gone /\ y # c /\ at[y] \in {"promise", "select"} /\ awaits[y] # {}
        BY <1>10, <2>3
      <3>2. at'[y] = at[y] /\ awaits'[y] = awaits[y] /\ awaits[y] \cap gone = {}
        BY <1>3, <1>5, <1>13, <3>1
      <3>3. \E d \in awaits[y] : d \in Coro /\ (Done(d) \/ d = c)
        BY <1>10, <2>3, <3>1
      <3> QED BY <1>15, <3>1, <3>2, <3>3
    <2> QED BY <1>16, <2>1, <2>2, <2>3
  <1>22. ASSUME Borrowable = {}
         PROVE  Chain' /\ ready' = <<>>
    <2>1. /\ Chain /\ queue = <<>> /\ ready' = <<>>
          /\ stack' = IF a = Null THEN Tail(stack) ELSE <<a>> \o Tail(stack)
      BY <1>9, <1>12, <1>22 DEF OwnerInv
    <2>2. stack # <<>> /\ Executing = {c} /\ c = stack[1]
      BY <1>1, InControlOnTop, TopOfStack
    <2>3. \A x \in OnStack \ Executing : owner'[x] = owner[x] /\ (awaiter[x] = Null => awaiter'[x] = Null)
      BY <1>2, <1>3, <1>5
    <2>4. a # Null => Tail(stack) = <<>>
      <3> SUFFICES ASSUME a # Null, Tail(stack) # <<>> PROVE FALSE
        OBVIOUS
      <3>1. /\ Len(stack) \in Nat \ {0} /\ Tail(stack) \in Seq(Coro)
            /\ Len(Tail(stack)) = Len(stack) - 1
        BY <2>2, PopApart DEF IInv, TypeOK, SchedulerType, StackInv
      <3>2. Len(Tail(stack)) # 0
        BY <3>1, EmptySeq
      <3>3. 1 \in 1..(Len(stack) - 1)
        BY <3>1, <3>2
      <3>4. awaiter[stack[1]] = Null
        BY <2>1, <3>3 DEF Chain
      <3> QED BY <2>2, <3>4 DEF a
    <2>5. a \in Coro \cup {Null}
      BY <1>10
    <2>6. Chain'
      BY <2>1, <2>2, <2>3, <2>4, <2>5, ChainKept
    <2> QED BY <2>1, <2>6
  <1>23. Returned(c, gone)
    <2>1. ASSUME NEW y \in OnStack', y \notin OnStack
          PROVE  /\ y \in Coro \ gone /\ y # c /\ Executing' = {y}
                 /\ at[y] \in {"promise", "select"}
                 /\ \E d \in awaits[y] \ gone : d \in Coro /\ (Done(d) \/ d = c)
      <3>1. y \in Range(queue) \cup ({a} \ {Null}) /\ Executing' = {y}
        BY <1>16, <2>1
      <3>2. y \in Coro \ gone /\ y # c /\ at[y] \in {"promise", "select"} /\ awaits[y] # {}
        BY <1>10, <3>1
      <3>3. awaits[y] \cap gone = {}
        BY <1>3, <3>2
      <3>4. \E d \in awaits[y] : d \in Coro /\ (Done(d) \/ d = c)
        BY <1>10, <3>1, <3>2
      <3> QED BY <3>1, <3>2, <3>3, <3>4
    <2>2. \A y \in OnStack : y # c => y \in OnStack'
      BY <1>2, <1>12
    <2>3. \A y \in Coro \ gone : awaits'[y] = awaits[y] /\ (y # c => at'[y] = at[y])
      BY <1>5, <1>13
    <2> QED BY <1>5, <1>12, <1>14, <2>1, <2>2, <2>3 DEF Returned
  <1> QED BY <1>5, <1>17, <1>18, <1>19, <1>20, <1>21, <1>22, <1>23 DEF OwnerInv, gone

LEMMA DropWakes ==
  ASSUME Discipline, WInv, NEW p \in Coro \cup {Main}, NEW e \in Coro, Drop(p, e)
  PROVE  HandlesInv' /\ AwaitingInv'
  <1> DEFINE gone == Frames({e})
  <1> USE DEF WInv, HandlesInv, AwaitingInv
  <1>1. /\ InControl(p) /\ {e} \in SUBSET Owned(p) /\ MayDestroy({e}) /\ destroy({e}, at)
        /\ UNCHANGED <<stack, ready, waiting_for_someone_else, code>>
    BY DEF Drop, schedulerVars
  <1>2. /\ at \in [Coro -> States] /\ awaits \in [Coro -> SUBSET Coro]
        /\ OnStack \subseteq Coro /\ Queued \subseteq Coro /\ handles \subseteq Coro
        /\ stack \in Seq(Coro)
    BY DEF IInv, TypeOK, SchedulerType, CurlType, Queued, OnStack
  <1>3. /\ gone \subseteq Coro /\ gone \cap OnStack = {} /\ gone \cap Queued = {}
        /\ \A y \in Coro \ gone : awaits[y] \cap gone = {}
    BY <1>1, GoneFacts
  <1>4. /\ FreeInv' /\ RefsInv' /\ AwaitsInv' /\ RegistrationInv' /\ MultimapInv' /\ Rooted'
        /\ \A x \in Coro \ gone :
              /\ at'[x] = at[x] /\ owner'[x] = owner[x]
              /\ awaits'[x] = awaits[x] /\ awaiter'[x] = awaiter[x]
              /\ outcome'[x] = outcome[x]
              /\ x \in handles' <=> x \in handles
              /\ x \in running' <=> x \in running
              /\ x \in finished' <=> x \in finished
        /\ \A x \in gone : at'[x] = "free" /\ x \notin handles'
    <2> DEFINE states == at
               D == {e}
    <2>1. \A x, y \in Coro : states[x] = "final" => <<x, y>> \notin waiting_for_someone_else'
      BY <1>1 DEF MultimapInv, Pending
    <2>2. /\ D \in SUBSET Owned(p) /\ InControl(p) /\ MayDestroy(D)
          /\ states \in [Coro -> States] /\ destroy(D, states)
          /\ \A x \in Coro : states[x] = at[x] \/ (x = p /\ states[x] = "final")
      BY <1>1, <1>2
    <2>3. waiting_for_someone_else' \subseteq waiting_for_someone_else
      BY <1>1
    <2>4. gone = Frames(D)
      OBVIOUS
    <2> HIDE DEF states, D, gone
    <2>5. /\ FreeInv' /\ RefsInv' /\ AwaitsInv' /\ RegistrationInv' /\ MultimapInv' /\ Rooted'
          /\ \A x \in Coro \ gone :
                /\ at'[x] = states[x] /\ owner'[x] = owner[x]
                /\ awaits'[x] = awaits[x] /\ awaiter'[x] = awaiter[x]
                /\ outcome'[x] = outcome[x]
                /\ x \in handles' <=> x \in handles
                /\ x \in running' <=> x \in running
                /\ x \in finished' <=> x \in finished
          /\ \A x \in gone : at'[x] = "free" /\ x \notin handles'
      BY <2>1, <2>2, <2>3, <2>4, DestroyKeeps
    <2> QED BY <2>5 DEF states
  <1>5. handles' = handles \ gone
    BY <1>1 DEF destroy, remove_handles
  <1> HIDE DEF gone
  <1>6. OnStack' = OnStack /\ Queued' = Queued /\ Executing' = Executing /\ Executing \subseteq OnStack
    <2>1. OnStack' = OnStack /\ Queued' = Queued /\ Executing' = Executing
      BY <1>1 DEF OnStack, Queued, Executing
    <2>2. Executing \subseteq OnStack
      <3>1. CASE stack = <<>>
        BY <3>1 DEF Executing
      <3>2. CASE stack # <<>>
        BY <3>2, TopOfStack
      <3> QED BY <3>1, <3>2
    <2> QED BY <2>1, <2>2
  <1>7. ASSUME NEW y \in Coro, y \notin gone
        PROVE  /\ at'[y] = at[y] /\ awaits'[y] = awaits[y] /\ awaiter'[y] = awaiter[y]
               /\ \A d \in awaits[y] : d \in Coro /\ d \notin gone /\ at'[d] = at[d]
                                       /\ awaiter'[d] = awaiter[d]
    BY <1>2, <1>3, <1>4, <1>7
  <1>8. StackInv'
    <2> SUFFICES ASSUME NEW x \in OnStack
                 PROVE  Pending(x)' /\ (at'[x] = "running" \/ x \in Executing)
      BY <1>1, <1>6 DEF StackInv, OnTop
    <2>1. x \in Coro /\ x \notin gone
      BY <1>2, <1>3
    <2> QED BY <1>7, <2>1 DEF StackInv, OnTop, Pending
  <1>9. QueueInv'
    <2> SUFFICES ASSUME NEW y \in Queued
                 PROVE  /\ y \notin OnStack /\ at'[y] \in {"promise", "select"} /\ awaits'[y] # {}
                        /\ \A d \in awaits'[y] : Done(d)'
      BY <1>1, <1>6 DEF QueueInv
    <2>1. y \in Coro /\ y \notin gone
      BY <1>2, <1>3
    <2> QED BY <1>7, <2>1 DEF QueueInv, Done
  <1>10. HandleInv'
    BY <1>2, <1>4, <1>5, <1>6 DEF HandleInv
  <1>11. WakeInv'
    <2> SUFFICES ASSUME NEW y \in Coro, y \notin OnStack
                 PROVE  /\ at'[y] = "perform" => y \in running' \cup finished'
                        /\ at'[y] \in {"promise", "select"} =>
                             y \in Queued \/ \A d \in awaits'[y] : ~(Done(d)') /\ WakesAtEnd(d, y)'
      BY <1>6 DEF WakeInv
    <2>1. CASE y \in gone
      BY <1>4, <2>1
    <2>2. CASE y \notin gone
      <3>1. \A d \in awaits[y] : /\ Done(d)' <=> Done(d)
                                 /\ WakesAtEnd(d, y) => WakesAtEnd(d, y)'
        BY <1>1, <1>7, <2>2 DEF Done, WakesAtEnd
      <3>2. y \in running \cup finished => y \in running' \cup finished'
        BY <1>4, <2>2
      <3> QED BY <1>7, <2>2, <3>1, <3>2 DEF WakeInv
    <2> QED BY <2>1, <2>2
  <1>12. TopInv'
    <2> SUFFICES ASSUME NEW y \in Executing
                 PROVE  /\ at'[y] \in {"promise", "select"} => \E d \in awaits'[y] : Done(d)'
                        /\ at'[y] = "perform" => code = outcome'[y]
      BY <1>1, <1>6 DEF TopInv
    <2>1. y \in Coro /\ y \notin gone
      BY <1>2, <1>3, <1>6
    <2> QED BY <1>4, <1>7, <2>1 DEF TopInv, Done
  <1>13. ASSUME Borrowable = {}
         PROVE  Chain' /\ ready' = <<>>
    <2>1. Chain /\ ready' = <<>>
      BY <1>1, <1>13 DEF OwnerInv
    <2> SUFFICES ASSUME NEW i \in 1..(Len(stack) - 1)
                 PROVE  owner'[stack[i]] = stack[i + 1] /\ awaiter'[stack[i]] = Null
      BY <1>1, <2>1 DEF Chain
    <2>2. stack[i] \in OnStack
      BY <1>2, LenProperties DEF OnStack
    <2>3. stack[i] \in Coro /\ stack[i] \notin gone
      BY <1>2, <1>3, <2>2
    <2> QED BY <1>4, <2>1, <2>3 DEF Chain
  <1> QED BY <1>4, <1>8, <1>9, <1>10, <1>11, <1>12, <1>13 DEF OwnerInv

LEMMA CurlWakes ==
  ASSUME Discipline, WInv, CurlStep
  PROVE  HandlesInv' /\ AwaitingInv'
  <1> USE DEF WInv, HandlesInv, AwaitingInv
  <1>1. polling /\ stack = <<>> /\ UNCHANGED coroutineVars
    BY DEF CurlStep, TransferEnds, CompleteSomething, NothingToComplete, PerformFails,
           complete_something, nothing_to_complete, perform_fails, IInv, CounterIsStack
  <1>2. UNCHANGED <<at, owner, refs, awaits, awaiter>>
    BY <1>1 DEF coroutineVars
  <1>3. OnStack = {} /\ Executing = {}
    BY <1>1, EmptySeq DEF OnStack, Executing
  <1>4. UNCHANGED <<ready, waiting_for_someone_else>> /\ Queued' = Queued
    BY DEF CurlStep, TransferEnds, CompleteSomething, NothingToComplete, PerformFails,
           complete_something, nothing_to_complete, perform_fails, schedulerVars, Queued
  <1>5. /\ RegistrationInv' /\ MultimapInv' /\ AwaitsInv' /\ RefsInv' /\ Rooted'
        /\ \A x \in Coro : (Pending(x)' <=> Pending(x)) /\ (Done(x)' <=> Done(x))
        /\ \A d, c \in Coro : WakesAtEnd(d, c)' <=> WakesAtEnd(d, c)
    BY <1>2, <1>4 DEF RegistrationInv, MultimapInv, AwaitsInv, RefsInv, OwnerInv, Rooted, Pending,
                      Done, WakesAtEnd, Owned
  <1>6. CASE \E e \in Coro : CompleteSomething(e)
    <2>1. PICK e \in Coro : CompleteSomething(e)
      BY <1>6
    <2>2. /\ e \in finished /\ code' = outcome[e] /\ outcome' = outcome
          /\ handles' = handles \ {e} /\ running' = running \ {e} /\ finished' = finished \ {e}
          /\ stack' = <<e>> \o stack
      BY <2>1 DEF CompleteSomething, complete_something, remove_handles
    <2>3. e \in handles /\ at[e] = "perform"
      BY <2>2 DEF IInv, TypeOK, CurlType, HandleInv
    <2>4. IsInjective(stack') /\ OnStack' = {e} /\ Executing' = {e} /\ Len(stack') = 1
      <3>1. /\ stack \in Seq(Coro) /\ IsInjective(stack) /\ Range(stack) = {} /\ Len(stack) = 0
        BY <1>1, <1>3 DEF IInv, TypeOK, SchedulerType, StackInv, OnStack, Range
      <3>2. /\ IsInjective(stack') /\ Range(stack') = {e} \cup Range(stack)
            /\ stack' # <<>> /\ Head(stack') = e /\ Len(stack') = Len(stack) + 1
        BY <2>2, <3>1, PushApart
      <3> QED BY <3>1, <3>2 DEF OnStack, Executing, Range
    <2>5. FreeInv' /\ HandleInv'
      BY <1>2, <2>2, <2>4 DEF FreeInv, HandleInv
    <2>6. StackInv'
      BY <1>2, <2>3, <2>4 DEF StackInv, OnTop, Pending
    <2>7. QueueInv'
      BY <1>2, <1>4, <2>3, <2>4 DEF QueueInv, Done
    <2>8. WakeInv'
      BY <1>2, <1>3, <1>4, <1>5, <2>2, <2>4 DEF WakeInv, Done, WakesAtEnd
    <2>9. TopInv'
      BY <1>2, <2>2, <2>3, <2>4 DEF TopInv
    <2>10. OwnerInv'
      <3>1. Chain'
        BY <2>4 DEF Chain
      <3> QED BY <1>4, <1>5, <3>1 DEF OwnerInv
    <2> QED BY <1>5, <2>5, <2>6, <2>7, <2>8, <2>9, <2>10
  <1>7. CASE ~ \E e \in Coro : CompleteSomething(e)
    <2>1. UNCHANGED <<handles, stack, code>> /\ running' \cup finished' = running \cup finished
      BY <1>7 DEF CurlStep, TransferEnds, transfer_ends, NothingToComplete, PerformFails,
                  nothing_to_complete, perform_fails, curlVars, schedulerVars
    <2>2. OnStack' = {} /\ Executing' = {} /\ \A c \in Coro : ~OnTop(c)' /\ ~OnTop(c)
      BY <1>3, <2>1 DEF OnStack, Executing, OnTop
    <2>3. FreeInv' /\ HandleInv' /\ StackInv'
      BY <1>2, <1>3, <2>1, <2>2 DEF FreeInv, HandleInv, StackInv
    <2>4. QueueInv'
      BY <1>2, <1>3, <1>4, <2>2 DEF QueueInv, Done
    <2>5. WakeInv' /\ TopInv'
      BY <1>2, <1>3, <1>4, <2>1, <2>2 DEF WakeInv, TopInv, Done, WakesAtEnd
    <2>6. OwnerInv'
      BY <1>2, <1>4, <1>5, <2>1 DEF OwnerInv, Chain
    <2> QED BY <1>5, <2>3, <2>4, <2>5, <2>6
  <1> QED BY <1>6, <1>7

----------------------------------------------------------------------------
LEMMA InitWakes == Init => WInv
  <1> SUFFICES ASSUME Init PROVE WInv
    OBVIOUS
  <1>1. IInv
    BY InitIInv
  <1>2. /\ at = [c \in Coro |-> "free"] /\ owner = [c \in Coro |-> Null]
        /\ refs = [c \in Coro |-> {}] /\ awaits = [c \in Coro |-> {}]
        /\ awaiter = [c \in Coro |-> Null] /\ handles = {}
        /\ stack = <<>> /\ ready = <<>> /\ waiting_for_someone_else = {}
    BY DEF Init, CurlInit, SchedulerInit
  <1>3. /\ OnStack = {} /\ Queued = {} /\ Executing = {} /\ Len(stack) = 0
        /\ IsInjective(stack) /\ IsInjective(ready)
    BY <1>2, EmptySeq DEF OnStack, Queued, Executing, IsInjective
  <1>4. FreeInv /\ StackInv /\ QueueInv /\ HandleInv /\ RegistrationInv /\ MultimapInv
    BY <1>2, <1>3, Names DEF FreeInv, StackInv, QueueInv, HandleInv, RegistrationInv, MultimapInv,
                             Pending
  <1>5. AwaitsInv /\ RefsInv /\ WakeInv /\ TopInv
    BY <1>2, <1>3 DEF AwaitsInv, RefsInv, WakeInv, TopInv
  <1>6. OwnerInv
    BY <1>2, <1>3, Names DEF OwnerInv, Rooted, Chain
  <1> QED BY <1>1, <1>4, <1>5, <1>6 DEF WInv, HandlesInv, AwaitingInv

LEMMA NextWakes == Discipline /\ WInv /\ [Next]_vars => WInv'
  <1> SUFFICES ASSUME Discipline, WInv, [Next]_vars PROVE WInv'
    OBVIOUS
  <1>1. IInv'
    BY NextIInv DEF WInv
  <1>2. HandlesInv' /\ AwaitingInv'
    <2>1. CASE MainStep
      <3>1. Main \in Coro \cup {Main}
        OBVIOUS
      <3> QED BY <2>1, <3>1, CallWakes, DropWakes DEF MainStep
    <2>2. CASE CoroutineStep
      <3>1. PICK p \in Coro :
              \/ \E c \in Coro, M \in SUBSET Owned(p), R \in SUBSET Borrowable : Call(p, c, M, R)
              \/ \E D \in SUBSET Coro : Await(p, D)
              \/ Perform(p)
              \/ AwaitResume(p)
              \/ \E L \in SUBSET Owned(p) : Return(p, L)
              \/ \E d \in Coro : Drop(p, d)
        BY <2>2, VisibleType, ExecutingType DEF CoroutineStep, WInv, IInv
      <3>2. p \in Coro \cup {Main}
        OBVIOUS
      <3> QED BY <3>1, <3>2, CallWakes, AwaitWakes, PerformWakes, AwaitResumeWakes, ReturnWakes,
                 DropWakes
    <2>3. CASE CurlStep
      BY <2>3, CurlWakes
    <2>4. CASE UNCHANGED vars
      BY <2>4 DEF WInv, HandlesInv, AwaitingInv, FreeInv, StackInv, QueueInv, HandleInv,
           RegistrationInv, MultimapInv, AwaitsInv, RefsInv, WakeInv, TopInv, OwnerInv, Rooted,
           Chain, OnStack, Queued, Executing, OnTop, Owned, Pending, Done, WakesAtEnd, vars,
           curlVars, schedulerVars, coroutineVars
    <2> QED BY <2>1, <2>2, <2>3, <2>4 DEF Next, Terminated
  <1> QED BY <1>1, <1>2 DEF WInv

LEMMA WInvHolds == ASSUME Discipline PROVE Spec => []WInv
  <1>1. Init => WInv
    BY InitWakes
  <1>2. WInv /\ [Next]_vars => WInv'
    BY NextWakes
  <1> QED BY <1>1, <1>2, PTL DEF Spec

(* What the invariant says of the properties, one by one.                    *)
LEMMA NoneDangles == ASSUME WInv PROVE NoDanglingHandle
  <1> USE DEF WInv, HandlesInv, AwaitingInv
  <1>1. ASSUME NEW c \in Queued PROVE Suspended(c) /\ \E d \in awaits[c] : Done(d)
    BY DEF QueueInv, Suspended, Awaiting
  <1>2. ASSUME NEW c \in handles PROVE Suspended(c) /\ at[c] = "perform"
    BY DEF HandleInv, Suspended, Awaiting
  <1>3. ASSUME NEW d \in Live, NEW c \in Coro, ~Done(d), WakesAtEnd(d, c)
        PROVE  d \in awaits[c] /\ (Suspended(c) \/ OnTop(c))
    <2>1. d \in Coro /\ Pending(d)
      BY <1>3 DEF Live, Pending, Done
    <2>2. d \in awaits[c] /\ at[c] \in {"promise", "select"}
      BY <1>3, <2>1 DEF RegistrationInv, AwaitsInv
    <2> QED BY <2>2 DEF StackInv, Suspended, Awaiting
  <1>4. ASSUME NEW p \in waiting_for_someone_else PROVE p[1] \in Live /\ ~Done(p[1])
    <2>1. PICK d \in Coro, c \in Coro : p = <<d, c>>
      BY DEF IInv, TypeOK, SchedulerType
    <2>2. Pending(d) /\ p[1] = d
      BY <2>1 DEF MultimapInv
    <2> QED BY <2>1, <2>2 DEF Pending, Live, Done
  <1>5. ASSUME NEW i \in DOMAIN stack PROVE at[stack[i]] \notin {"free", "final"}
    BY DEF StackInv, OnStack, Pending
  <1> QED BY <1>1, <1>2, <1>3, <1>4, <1>5 DEF NoDanglingHandle

LEMMA EachWokenOnce == ASSUME WInv PROVE WokenOnce
  <1>1. \A i, j \in DOMAIN ready : ready[i] = ready[j] => i = j
    BY DEF WInv, HandlesInv, QueueInv, IsInjective
  <1>2. \A i, j \in DOMAIN stack : stack[i] = stack[j] => i = j
    BY DEF WInv, HandlesInv, StackInv, IsInjective
  <1>3. \A d, c \in Coro : ~(awaiter[d] = c /\ <<d, c>> \in waiting_for_someone_else)
    <2>1. MultimapInv
      BY DEF WInv, HandlesInv
    <2>2. ASSUME NEW d \in Coro, NEW c \in Coro, <<d, c>> \in waiting_for_someone_else
          PROVE  awaiter[d] # c
      BY <2>1, <2>2 DEF MultimapInv
    <2> QED BY <2>2, Zenon
  <1>4. \A c \in Queued : \A d \in awaits[c] : Done(d)
    BY DEF WInv, HandlesInv, QueueInv
  <1> QED BY <1>1, <1>2, <1>3, <1>4 DEF WokenOnce

LEMMA NoneForgotten == ASSUME WInv PROVE NoLostWakeup
  <1> SUFFICES ASSUME NEW c \in Coro, Suspended(c)
               PROVE  \/ at[c] = "perform" /\ c \in running \cup finished
                      \/ at[c] # "perform" /\ c \in Queued
                      \/ at[c] # "perform" /\ \A d \in awaits[c] : ~Done(d) /\ WakesAtEnd(d, c)
    BY DEF NoLostWakeup
  <1>1. c \notin OnStack /\ at[c] \in {"promise", "select", "perform"}
    BY DEF Suspended, Awaiting
  <1> QED BY <1>1 DEF WInv, AwaitingInv, WakeInv

LEMMA ResumedInTime == ASSUME WInv PROVE ResumedWithResult /\ OwnCode
  BY DEF WInv, AwaitingInv, TopInv, ResumedWithResult, OwnCode, OnTop

LEMMA RunsWhileAlive == ASSUME WInv PROVE DestroyedNeverRuns /\ SelectAwakensOnce
  BY DEF WInv, HandlesInv, StackInv, Pending, Done, DestroyedNeverRuns, SelectAwakensOnce

(* Each handle kept anywhere is of a coroutine that exists and sleeps on     *)
(* that very thing: nothing resumes a destroyed, finished or running one.    *)
THEOREM NoDanglingHandleCorrect == ASSUME Discipline PROVE Spec => []NoDanglingHandle
  BY WInvHolds, NoneDangles, PTL

(* A coroutine is resumed once per await: it is queued at most once, and not *)
(* while something it awaits still has it registered.                        *)
THEOREM WokenOnceCorrect == ASSUME Discipline PROVE Spec => []WokenOnce
  BY WInvHolds, EachWokenOnce, PTL

(* A suspended coroutine is registered with everything it awaits, or queued, *)
(* or its transfer is with curl: no wake-up is lost.                         *)
THEOREM NoLostWakeupCorrect == ASSUME Discipline PROVE Spec => []NoLostWakeup
  BY WInvHolds, NoneForgotten, PTL

(* A coroutine resumed from an await or a select finds a result.             *)
THEOREM ResumedWithResultCorrect == ASSUME Discipline PROVE Spec => []ResumedWithResult
  BY WInvHolds, ResumedInTime, PTL

(* A coroutine resumed from a perform reads its own transfer's code.         *)
THEOREM OwnCodeCorrect == ASSUME Discipline PROVE Spec => []OwnCode
  BY WInvHolds, ResumedInTime, PTL

(* Within the discipline the two lifetime errors of the examples of misuse   *)
(* cannot happen: what ~promise_type destroyed is never on the call stack    *)
(* again, and a select resumes its coroutine no second time after its end.   *)
THEOREM DestroyedNeverRunsCorrect == ASSUME Discipline PROVE Spec => []DestroyedNeverRuns
  BY WInvHolds, RunsWhileAlive, PTL

THEOREM SelectAwakensOnceCorrect == ASSUME Discipline PROVE Spec => []SelectAwakensOnce
  BY WInvHolds, RunsWhileAlive, PTL
=============================================================================
