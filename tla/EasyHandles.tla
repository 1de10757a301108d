---------------------------- MODULE EasyHandles ----------------------------
(* Easy handles as objects of their own.  A coroutine performs a handle that *)
(* is its local variable or that somebody lends it; curl_multi knows the     *)
(* handle, and the scheduler finds the coroutine again through the private   *)
(* pointer of the handle.  CurlMulti names a handle by its coroutine;        *)
(* NamedByCoroutine says when that is right.                                 *)
EXTENDS FiniteSets

CONSTANTS
  Task,       \* coroutines, by the address of their frame
  Easy,       \* easy handles
  Codes,      \* CURLcode values a transfer ends with
  Busy,       \* what curl_easy_perform returns for a handle that is in use
  Main,       \* main(), or any owner that outlives the coroutines
  Null,
  AbandonLent \* clients destroy a coroutine that performs a lent handle?

ASSUME EasyAssumption ==
  /\ Null \notin Task \cup Easy \cup Codes \cup {Main}
  /\ Main \notin Task
  /\ AbandonLent \in BOOLEAN

VARIABLES
  alive,      \* coroutines that exist
  holder,     \* whose variable the easy_handle is; Null: it does not exist
  private,    \* CURLOPT_PRIVATE
  added,      \* handles in the multi handle
  busy,       \* those whose transfer is in progress
  messages,   \* those with an unread CURLMSG_DONE
  result,     \* the code the last transfer of the handle ended with
  waits,      \* the handle a coroutine sleeps on in perform_later
  got,        \* the code its last perform returned
  code,       \* waiting_coroutines_for_curl_finished::code
  resumed,    \* the coroutine trigger() returned, before its await_resume()
  superseded  \* performs of coroutines whose handle another performed (history)

easyVars == <<alive, holder, private, added, busy, messages, result, waits,
              got, code, resumed, superseded>>

EasyType ==
  /\ alive \subseteq Task
  /\ holder \in [Easy -> Task \cup {Main, Null}]
  /\ private \in [Easy -> Task \cup {Null}]
  /\ added \subseteq Easy /\ busy \subseteq added /\ messages \subseteq added
  /\ result \in [Easy -> Codes \cup {Null}]
  /\ waits \in [Task -> Easy \cup {Null}]
  /\ got \in [Task -> Codes \cup {Busy, Null}]
  /\ code \in Codes \cup {Null}
  /\ resumed \in Task \cup {Null}
  /\ superseded \subseteq Task

EasyInit ==
  /\ alive = {} /\ superseded = {}
  /\ holder = [e \in Easy |-> Null] /\ private = [e \in Easy |-> Null]
  /\ added = {} /\ busy = {} /\ messages = {}
  /\ result = [e \in Easy |-> Null]
  /\ waits = [t \in Task |-> Null] /\ got = [t \in Task |-> Null]
  /\ code = Null /\ resumed = Null

----------------------------------------------------------------------------
Start(t) ==
  /\ resumed = Null /\ t \notin alive
  /\ alive' = alive \cup {t}
  /\ UNCHANGED <<holder, private, added, busy, messages, result, waits, got,
                 code, resumed, superseded>>

(* easy_handle{url}, a variable of p.                                        *)
NewHandle(p, e) ==
  /\ resumed = Null /\ p \in alive \cup {Main}
  /\ holder[e] = Null
  /\ holder' = [holder EXCEPT ![e] = p]
  /\ UNCHANGED <<alive, private, added, busy, messages, result, waits, got,
                 code, resumed, superseded>>

(* A rule about the client: a coroutine that runs performs a handle that     *)
(* exists.                                                                   *)
MayUse(t, e) ==
  /\ resumed = Null
  /\ t \in alive /\ waits[t] = Null
  /\ holder[e] # Null

(* Plausible bugs, used by no specification (see Scheduler).                 *)
insert_keeps_private(t, e) == IF private[e] = Null THEN t ELSE private[e]
trigger_leaves_handle(e) == UNCHANGED <<added, busy>> /\ messages' = messages \ {e}

(* waiting_coroutines_for_curl_finished::insert: the private pointer is set  *)
(* whatever the state of the handle ...                                      *)
set_coroutine_handle(t, e) == t

(* ... and the error of curl_multi_add_handle, which does nothing with a     *)
(* handle it already has, is ignored.                                        *)
Perform(t, e) ==
  /\ MayUse(t, e)
  /\ private' = [private EXCEPT ![e] = set_coroutine_handle(t, e)]
  /\ added' = added \cup {e}
  /\ busy' = IF e \in added THEN busy ELSE busy \cup {e}
  /\ result' = IF e \in added THEN result ELSE [result EXCEPT ![e] = Null]
  /\ waits' = [waits EXCEPT ![t] = e]
  /\ superseded' = superseded \cup {x \in Task : waits[x] = e}
  /\ UNCHANGED <<alive, holder, messages, got, code, resumed>>

(* The blocking perform (curl_easy_perform).                                 *)
SyncPerform(t, e, k) ==
  /\ MayUse(t, e)
  /\ got' = [got EXCEPT ![t] = IF e \in added THEN Busy ELSE k]
  /\ result' = IF e \in added THEN result ELSE [result EXCEPT ![e] = k]
  /\ UNCHANGED <<alive, holder, private, added, busy, messages, waits, code,
                 resumed, superseded>>

TransferEnds(e, k) ==
  /\ resumed = Null /\ e \in busy
  /\ busy' = busy \ {e}
  /\ messages' = messages \cup {e}
  /\ result' = [result EXCEPT ![e] = k]
  /\ UNCHANGED <<alive, holder, private, added, waits, got, code, resumed,
                 superseded>>

(* curl_multi_remove_handle, and the part of curl_easy_cleanup that matters  *)
(* to the multi handle.                                                      *)
remove_handle(e) ==
  /\ added' = added \ {e}
  /\ busy' = busy \ {e}
  /\ messages' = messages \ {e}

remove_all(E) ==
  /\ added' = added \ E
  /\ busy' = busy \ E
  /\ messages' = messages \ E

(* get_finished() and trigger(): the coroutine that the private pointer      *)
(* names now is resumed.                                                     *)
CompleteSomething(e) ==
  /\ resumed = Null /\ e \in messages
  /\ code' = result[e]
  /\ resumed' = private[e]
  /\ remove_handle(e)
  /\ UNCHANGED <<alive, holder, private, result, waits, got, superseded>>

(* perform_later::await_resume in the resumed coroutine.                     *)
AwaitResume(t) ==
  /\ resumed = t /\ t \in alive
  /\ got' = [got EXCEPT ![t] = code]
  /\ waits' = [waits EXCEPT ![t] = Null]
  /\ superseded' = superseded \ {t}
  /\ resumed' = Null
  /\ UNCHANGED <<alive, holder, private, added, busy, messages, result, code>>

(* The frame goes, with the easy handles in it.  No other coroutine sleeps   *)
(* on one of them: a reference does not outlive its object.                  *)
Destroy(t) ==
  LET own == {e \in Easy : holder[e] = t} IN
  /\ resumed = Null /\ t \in alive
  /\ \A x \in Task \ {t} : waits[x] \notin own
  /\ waits[t] = Null \/ waits[t] \in own \/ AbandonLent
  /\ alive' = alive \ {t}
  /\ waits' = [waits EXCEPT ![t] = Null]
  /\ got' = [got EXCEPT ![t] = Null]
  /\ superseded' = superseded \ {t}
  /\ holder' = [e \in Easy |-> IF e \in own THEN Null ELSE holder[e]]
  /\ private' = [e \in Easy |-> IF e \in own THEN Null ELSE private[e]]
  /\ result' = [e \in Easy |-> IF e \in own THEN Null ELSE result[e]]
  /\ remove_all(own)
  /\ UNCHANGED <<code, resumed>>

ClientStep ==
  \/ \E t \in Task : Start(t) \/ Destroy(t)
  \/ \E p \in Task \cup {Main}, e \in Easy : NewHandle(p, e)
  \/ \E t \in Task, e \in Easy : Perform(t, e)
  \/ \E t \in Task, e \in Easy, k \in Codes : SyncPerform(t, e, k)

CurlStep ==
  \/ \E e \in Easy, k \in Codes : TransferEnds(e, k)
  \/ \E e \in Easy : CompleteSomething(e)

EasyNext == ClientStep \/ CurlStep \/ \E t \in Task : AwaitResume(t)

EasySpec == EasyInit /\ [][EasyNext]_easyVars

(* Every transfer ends and its message is read, however often coroutines run *)
(* between two turns of the completion loop; a resumed coroutine goes on.    *)
FairEasySpec ==
  /\ EasySpec
  /\ \A e \in Easy : SF_easyVars(\E k \in Codes : TransferEnds(e, k))
  /\ \A e \in Easy : SF_easyVars(CompleteSomething(e))
  /\ \A t \in Task : WF_easyVars(AwaitResume(t))
----------------------------------------------------------------------------
(* The private pointer leads back to a coroutine that exists and sleeps on   *)
(* the very handle whose transfer has ended, and the scheduler's only code   *)
(* is the one of that transfer; by then the handle has left the multi handle *)
(* and may be performed again.                                               *)
OwnTransfer ==
  resumed # Null =>
    /\ resumed \in alive /\ waits[resumed] # Null
    /\ waits[resumed] \notin added
    /\ code = result[waits[resumed]]

(* A coroutine is left asleep for one reason only: another one performed the *)
(* same handle before its transfer had ended.                                *)
OnlySupersededSleep ==
  \A t \in Task \ superseded :
    waits[t] # Null /\ resumed # t =>
      waits[t] \in busy \cup messages /\ private[waits[t]] = t

(* The perform of the last coroutine that performed a handle ends; hence     *)
(* every perform ends, if handles are not shared.                            *)
LastPerformEnds ==
  \A t \in Task :
    (waits[t] # Null /\ t \notin superseded) ~> (waits[t] = Null \/ t \in superseded)

(* Seen through the coroutines that sleep on them: the code of a coroutine   *)
(* is that of the handle it sleeps on, then what its last perform returned.  *)
Sleeping(E) == {t \in Task : waits[t] \in E}
Outcome == [t \in Task |-> IF waits[t] = Null THEN got[t] ELSE result[waits[t]]]
Multi == INSTANCE CurlMulti WITH
  Coro <- Task,
  Codes <- Codes \cup {Busy},
  handles <- Sleeping(added),
  running <- Sleeping(busy),
  finished <- Sleeping(messages),
  outcome <- Outcome

(* The operations of CurlMulti as Scheduler and Coroutines use them, and the *)
(* blocking perform, which they do not have: it concerns neither the multi   *)
(* handle nor any coroutine asleep.                                          *)
Completed(t) ==
  t \in Sleeping(messages) /\ Multi!remove_handles({t}) /\ UNCHANGED Outcome
Destroyed(t) ==
  Multi!remove_handles({t}) /\ Outcome' = [Outcome EXCEPT ![t] = Null]
PerformedAtOnce(t, k) ==
  /\ t \notin Sleeping(Easy)
  /\ Outcome' = [Outcome EXCEPT ![t] = k]
  /\ UNCHANGED <<Sleeping(added), Sleeping(busy), Sleeping(messages)>>

MultiNext ==
  \E t \in Task :
    \/ Multi!add_handle(t)
    \/ \E k \in Codes : Multi!transfer_ends(t, k)
    \/ Completed(t) \/ Destroyed(t)
    \/ \E k \in Codes \cup {Busy} : PerformedAtOnce(t, k)

MultiVars == Multi!curlVars
Exclusive == superseded = {}

(* What CurlMulti assumes: as long as no handle is performed while another   *)
(* coroutine waits for it, every handle does what one named by the coroutine *)
(* that sleeps on it does, and await_resume() changes nothing: the code it   *)
(* reads from the scheduler is that of its handle.                           *)
NamedByCoroutine ==
  Multi!CurlInit /\ [][Exclusive /\ Exclusive' => MultiNext]_MultiVars
=============================================================================
