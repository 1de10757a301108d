----------------------------- MODULE CurlMulti -----------------------------
(* The part of libcurl's multi interface the scheduler relies on, as         *)
(* multi_handle (multi.hpp, multi.cpp) uses it.  A coroutine performs its    *)
(* own easy handle, so an easy handle is named by its coroutine and its      *)
(* CURLOPT_PRIVATE pointer, which schedule_later sets to that coroutine, is   *)
(* the name itself.  libcurl works only inside curl_multi_perform: a         *)
(* transfer ends between two steps of the loop in complete_something, never  *)
(* while a coroutine runs.                                                   *)
EXTENDS FiniteSets

CONSTANTS
  Coro,     \* coroutine frames, and the easy handle each of them performs
  Codes,    \* CURLcode values a transfer can end with
  Null      \* the empty handle; no transfer has ended yet

VARIABLES
  handles,  \* easy handles added to the multi handle
  running,  \* those whose transfer is still in progress
  finished, \* those with a CURLMSG_DONE message nobody has read
  outcome   \* the CURLcode the last transfer of the handle ended with

curlVars == <<handles, running, finished, outcome>>

CurlType ==
  /\ handles \subseteq Coro
  /\ running \subseteq handles
  /\ finished \subseteq handles
  /\ outcome \in [Coro -> Codes \cup {Null}]

CurlInit ==
  /\ handles = {}
  /\ running = {}
  /\ finished = {}
  /\ outcome = [e \in Coro |-> Null]

(* curl_multi_add_handle of a handle that is already added fails and changes *)
(* nothing; insert() ignores the error.                                      *)
add_handle(e) ==
  /\ handles' = handles \cup {e}
  /\ running' = IF e \in handles THEN running ELSE running \cup {e}
  /\ outcome' = IF e \in handles THEN outcome ELSE [outcome EXCEPT ![e] = Null]
  /\ UNCHANGED finished

(* Removing a handle stops its transfer and drops its unread message.        *)
(* curl_easy_cleanup of a handle still added to a multi handle does the same *)
(* (that is what ~easy_handle does when a coroutine frame is destroyed).     *)
remove_handles(E) ==
  /\ handles' = handles \ E
  /\ running' = running \ E
  /\ finished' = finished \ E

(* A transfer ends, with one of the codes, and its message is queued.        *)
transfer_ends(e, k) ==
  /\ e \in running
  /\ running' = running \ {e}
  /\ finished' = finished \cup {e}
  /\ outcome' = [outcome EXCEPT ![e] = k]
  /\ UNCHANGED handles
=============================================================================
