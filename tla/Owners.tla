------------------------------- MODULE Owners -------------------------------
(* The wrappers of libcurl's objects: easy_handle, multi_handle, list and    *)
(* url are variables that hold a pointer to an object of the library, which  *)
(* a constructor, assignment or destructor creates, hands over, copies or    *)
(* frees.  Wrappers are moved and copied, and go, in any order.              *)

CONSTANTS
  Wrapper,     \* variables of a wrapper type
  Url,         \* those of type url, which is copied; the others are moved
  Object,      \* objects libcurl may allocate
  Null         \* nullptr

ASSUME OwnersAssumption ==
  /\ Url \subseteq Wrapper
  /\ Null \notin Object

VARIABLES
  alive,     \* wrappers in scope
  pointer,   \* native_handle, data, handle
  allocated, \* objects libcurl has allocated and nobody has freed
  freed,     \* objects freed so far; their addresses are not used again
  copied     \* objects that an assignment between urls concerned (history)

ownerVars == <<alive, pointer, allocated, freed, copied>>

OwnersType ==
  /\ alive \subseteq Wrapper
  /\ pointer \in [Wrapper -> Object \cup {Null}]
  /\ allocated \subseteq Object /\ freed \subseteq Object
  /\ copied \subseteq Object

OwnersInit ==
  /\ alive = {} /\ allocated = {} /\ freed = {} /\ copied = {}
  /\ pointer = [w \in Wrapper |-> Null]

----------------------------------------------------------------------------
Unused == Object \ (allocated \cup freed)

(* Plausible bug, used by no specification (see Scheduler).                  *)
move_without_exchange(v, w) == [pointer EXCEPT ![v] = pointer[w]]

(* curl_easy_init, curl_multi_init, curl_url.                                *)
Construct(w, o) ==
  /\ w \notin alive /\ o \in Unused
  /\ alive' = alive \cup {w}
  /\ allocated' = allocated \cup {o}
  /\ pointer' = [pointer EXCEPT ![w] = o]
  /\ UNCHANGED <<freed, copied>>

(* easy_handle{nullptr}, list{}.                                             *)
ConstructEmpty(w) ==
  /\ w \notin alive \cup Url
  /\ alive' = alive \cup {w}
  /\ UNCHANGED <<pointer, allocated, freed, copied>>

(* The first append() to a list that holds nothing.                          *)
append(w, o) ==
  /\ w \in alive \ Url /\ pointer[w] = Null /\ o \in Unused
  /\ allocated' = allocated \cup {o}
  /\ pointer' = [pointer EXCEPT ![w] = o]
  /\ UNCHANGED <<alive, freed, copied>>

(* std::exchange(other.native_handle, nullptr)                               *)
exchange(v, w) == [pointer EXCEPT ![v] = pointer[w], ![w] = Null]

MoveConstruct(v, w) ==
  /\ v \notin alive \cup Url /\ w \in alive \ Url
  /\ alive' = alive \cup {v}
  /\ pointer' = exchange(v, w)
  /\ UNCHANGED <<allocated, freed, copied>>

(* std::swap: what v held goes with the other one.                           *)
swap(v, w) == [pointer EXCEPT ![v] = pointer[w], ![w] = pointer[v]]

MoveAssign(v, w) ==
  /\ v \in alive \ Url /\ w \in alive \ Url
  /\ pointer' = swap(v, w)
  /\ UNCHANGED <<alive, allocated, freed, copied>>

(* url(const url &), easy_handle::duplicate(): curl_url_dup,                 *)
(* curl_easy_duphandle.                                                      *)
Duplicate(v, w, o) ==
  /\ v \notin alive /\ w \in alive /\ (v \in Url <=> w \in Url)
  /\ pointer[w] # Null /\ o \in Unused
  /\ alive' = alive \cup {v}
  /\ allocated' = allocated \cup {o}
  /\ pointer' = [pointer EXCEPT ![v] = o]
  /\ UNCHANGED <<freed, copied>>

(* url declares a destructor and a copy constructor, and only an assignment  *)
(* from const char *: the compiler adds one that copies the pointer.         *)
CopyAssign(v, w) ==
  /\ v \in alive \cap Url /\ w \in alive \cap Url /\ v # w
  /\ pointer' = [pointer EXCEPT ![v] = pointer[w]]
  /\ copied' = copied \cup {pointer[v], pointer[w]}
  /\ UNCHANGED <<alive, allocated, freed>>

(* The destructor frees what the wrapper holds, if anything.                 *)
Destruct(w) ==
  /\ w \in alive
  /\ alive' = alive \ {w}
  /\ allocated' = allocated \ {pointer[w]}
  /\ freed' = IF pointer[w] = Null THEN freed ELSE freed \cup {pointer[w]}
  /\ pointer' = [pointer EXCEPT ![w] = Null]
  /\ UNCHANGED copied

OwnersNext ==
  \E v, w \in Wrapper, o \in Object :
    \/ Construct(w, o) \/ ConstructEmpty(w) \/ append(w, o)
    \/ MoveConstruct(v, w) \/ MoveAssign(v, w) \/ Duplicate(v, w, o)
    \/ CopyAssign(v, w) \/ Destruct(w)

OwnersSpec == OwnersInit /\ [][OwnersNext]_ownerVars
----------------------------------------------------------------------------
Holders(o) == {w \in alive : pointer[w] = o}

(* "RAII": whatever is moved, swapped or duplicated, every object that       *)
(* exists is held by exactly one wrapper, whose destructor will free it, and *)
(* no wrapper holds one that is gone; only the objects of urls that were     *)
(* assigned to each other are excepted (two hold one, nobody the other).     *)
OneOwner ==
  /\ \A o \in allocated \ copied : \E w \in alive : Holders(o) = {w}
  /\ \A o \in freed \ copied : Holders(o) = {}
=============================================================================
