------------------------- MODULE EasyHandlesProofs -------------------------
(* Theorems about EasyHandles, for any number of coroutines and handles.     *)
EXTENDS EasyHandles, TLAPS

(* A handle in the multi handle leads to a coroutine that sleeps on it.      *)
LeadsToSleeper == \A e \in added : private[e] \in Task /\ waits[private[e]] = e

(* Who sleeps exists, on a handle that exists; and unless another performed  *)
(* its handle, that handle leads to it.                                      *)
SleepersAlive == \A t \in Task : waits[t] # Null => t \in alive /\ holder[waits[t]] # Null

SleepersNamed ==
  \A t \in Task \ superseded :
    waits[t] # Null /\ resumed # t => waits[t] \in added /\ private[waits[t]] = t

EasyInv ==
  /\ EasyType
  /\ added = busy \cup messages
  /\ LeadsToSleeper
  /\ SleepersAlive
  /\ SleepersNamed
  /\ OwnTransfer

LEMMA EasyInitInv == ASSUME EasyInit PROVE EasyInv
  BY EasyAssumption
  DEF EasyInit, EasyInv, EasyType, LeadsToSleeper, SleepersAlive, SleepersNamed, OwnTransfer

LEMMA EasyStep ==
  ASSUME EasyInv, ~AbandonLent, [EasyNext]_easyVars PROVE EasyInv'
<1> USE EasyAssumption
<1> USE DEF EasyInv, EasyType, LeadsToSleeper, SleepersAlive, SleepersNamed, OwnTransfer
<1>1. ASSUME NEW t \in Task, Start(t) PROVE EasyInv'
  BY <1>1 DEF Start
<1>2. ASSUME NEW t \in Task, Destroy(t) PROVE EasyInv'
  BY <1>2 DEF Destroy, remove_all
<1>3. ASSUME NEW p \in Task \cup {Main}, NEW e \in Easy, NewHandle(p, e) PROVE EasyInv'
  BY <1>3 DEF NewHandle
<1>4. ASSUME NEW t \in Task, NEW e \in Easy, Perform(t, e) PROVE EasyInv'
  BY <1>4 DEF Perform, MayUse, set_coroutine_handle
<1>5. ASSUME NEW t \in Task, NEW e \in Easy, NEW k \in Codes, SyncPerform(t, e, k)
      PROVE EasyInv'
  BY <1>5 DEF SyncPerform, MayUse
<1>6. ASSUME NEW e \in Easy, NEW k \in Codes, TransferEnds(e, k) PROVE EasyInv'
  BY <1>6 DEF TransferEnds
<1>7. ASSUME NEW e \in Easy, CompleteSomething(e) PROVE EasyInv'
  BY <1>7 DEF CompleteSomething, remove_handle
<1>8. ASSUME NEW t \in Task, AwaitResume(t) PROVE EasyInv'
  BY <1>8 DEF AwaitResume
<1>9. CASE UNCHANGED easyVars
  BY <1>9 DEF easyVars
<1> QED
  BY <1>1, <1>2, <1>3, <1>4, <1>5, <1>6, <1>7, <1>8, <1>9
  DEF EasyNext, ClientStep, CurlStep

LEMMA EasyInvariant ==
  ASSUME ~AbandonLent PROVE EasySpec => []EasyInv
<1>1. EasyInit => EasyInv
  BY EasyInitInv
<1>2. EasyInv /\ [EasyNext]_easyVars => EasyInv'
  BY EasyStep
<1> QED BY <1>1, <1>2, PTL DEF EasySpec

(* Unless a coroutine is destroyed while it performs a handle that outlives  *)
(* it, the private pointer leads to a live coroutine that sleeps on the very *)
(* transfer that has ended, shared handles included.                         *)
THEOREM OwnTransferCorrect ==
  ASSUME ~AbandonLent PROVE EasySpec => []OwnTransfer
<1>1. EasyInv => OwnTransfer
  BY DEF EasyInv
<1> QED BY <1>1, EasyInvariant, PTL

(* Under the same condition only a coroutine whose handle another performed  *)
(* meanwhile can be left asleep.                                             *)
THEOREM OnlySupersededSleepCorrect ==
  ASSUME ~AbandonLent PROVE EasySpec => []OnlySupersededSleep
<1>1. EasyInv => OnlySupersededSleep
  BY DEF EasyInv, SleepersNamed, OnlySupersededSleep
<1> QED BY <1>1, EasyInvariant, PTL

----------------------------------------------------------------------------
(* Two coroutines sleep on one handle only if one of them is superseded.     *)
LEMMA OneSleeper ==
  ASSUME EasyInv, Exclusive,
         NEW t \in Task, NEW u \in Task, waits[t] = waits[u], waits[t] # Null
  PROVE  t = u
  BY EasyAssumption
  DEF EasyInv, EasyType, LeadsToSleeper, SleepersNamed, OwnTransfer, Exclusive

LEMMA NamedStep ==
  ASSUME EasyInv, Exclusive, Exclusive', ~AbandonLent, [EasyNext]_easyVars
  PROVE MultiNext \/ UNCHANGED MultiVars
<1> USE EasyAssumption
<1> USE DEF EasyInv, EasyType, Exclusive
<1> USE DEF Sleeping
<1>1. ASSUME NEW t \in Task, Start(t) PROVE UNCHANGED MultiVars
  BY <1>1 DEF Start, MultiVars, Multi!curlVars, Outcome
<1>2. ASSUME NEW t \in Task, Destroy(t) PROVE Destroyed(t)
  <2>1. Multi!remove_handles({t})
    BY <1>2 DEF Destroy, remove_all, Multi!remove_handles
  <2>2. Outcome' = [Outcome EXCEPT ![t] = Null]
    BY <1>2 DEF Destroy, Outcome
  <2> QED BY <2>1, <2>2 DEF Destroyed
<1>3. ASSUME NEW p \in Task \cup {Main}, NEW e \in Easy, NewHandle(p, e)
      PROVE UNCHANGED MultiVars
  BY <1>3 DEF NewHandle, MultiVars, Multi!curlVars, Outcome
<1>4. ASSUME NEW t \in Task, NEW e \in Easy, Perform(t, e) PROVE Multi!add_handle(t)
  <2>1. e \notin added /\ waits[t] = Null /\ \A x \in Task : waits[x] # e
    BY <1>4 DEF Perform, MayUse, LeadsToSleeper
  <2>2. /\ Sleeping(added)' = Sleeping(added) \cup {t}
        /\ Sleeping(busy)' = Sleeping(busy) \cup {t}
        /\ UNCHANGED Sleeping(messages)
        /\ t \notin Sleeping(added)
    BY <1>4, <2>1 DEF Perform
  <2>3. Outcome' = [Outcome EXCEPT ![t] = Null]
    BY <1>4, <2>1 DEF Perform, Outcome
  <2> QED BY <2>2, <2>3 DEF Multi!add_handle, Outcome
<1>5. ASSUME NEW t \in Task, NEW e \in Easy, NEW k \in Codes, SyncPerform(t, e, k)
      PROVE \E c \in Codes \cup {Busy} : PerformedAtOnce(t, c)
  <2> DEFINE c == IF e \in added THEN Busy ELSE k
  <2>1. /\ resumed = Null /\ waits[t] = Null /\ got' = [got EXCEPT ![t] = c]
        /\ result' = IF e \in added THEN result ELSE [result EXCEPT ![e] = k]
        /\ UNCHANGED <<waits, added, busy, messages>>
    BY <1>5 DEF SyncPerform, MayUse
  <2>2. e \notin added => \A x \in Task : waits[x] # e
    BY <2>1 DEF SleepersNamed
  <2>3. Outcome' = [Outcome EXCEPT ![t] = c]
    BY <2>1, <2>2 DEF Outcome
  <2>4. t \notin Sleeping(Easy) /\ UNCHANGED <<Sleeping(added), Sleeping(busy), Sleeping(messages)>>
    BY <2>1
  <2>5. PerformedAtOnce(t, c) /\ c \in Codes \cup {Busy}
    BY <2>3, <2>4 DEF PerformedAtOnce
  <2> QED BY <2>5
<1>6. ASSUME NEW e \in Easy, NEW k \in Codes, TransferEnds(e, k)
      PROVE \E t \in Task : Multi!transfer_ends(t, k)
  <2> DEFINE t == private[e]
  <2>1. t \in Task /\ waits[t] = e /\ e \in added
    BY <1>6 DEF TransferEnds, LeadsToSleeper
  <2>2. \A x \in Task : waits[x] = e <=> x = t
    BY <2>1, OneSleeper
  <2>3. /\ t \in Sleeping(busy)
        /\ Sleeping(busy)' = Sleeping(busy) \ {t}
        /\ Sleeping(messages)' = Sleeping(messages) \cup {t}
        /\ UNCHANGED Sleeping(added)
    BY <1>6, <2>1, <2>2 DEF TransferEnds
  <2>4. Outcome' = [Outcome EXCEPT ![t] = k]
    <3>1. result' = [result EXCEPT ![e] = k] /\ UNCHANGED <<waits, got>>
      BY <1>6 DEF TransferEnds
    <3> HIDE DEF t
    <3>2. \A x \in Task : Outcome'[x] = IF x = t THEN k ELSE Outcome[x]
      BY <2>1, <2>2, <3>1 DEF Outcome
    <3> QED BY <3>2 DEF Outcome
  <2> QED BY <2>1, <2>3, <2>4 DEF Multi!transfer_ends, Outcome
<1>7. ASSUME NEW e \in Easy, CompleteSomething(e)
      PROVE \E t \in Task : Completed(t)
  <2> DEFINE t == private[e]
  <2>1. t \in Task /\ waits[t] = e /\ e \in added
    BY <1>7 DEF CompleteSomething, LeadsToSleeper
  <2>2. \A x \in Task : waits[x] = e <=> x = t
    BY <2>1, OneSleeper
  <2>3. /\ Sleeping(added)' = Sleeping(added) \ {t}
        /\ Sleeping(busy)' = Sleeping(busy) \ {t}
        /\ Sleeping(messages)' = Sleeping(messages) \ {t}
    BY <1>7, <2>2 DEF CompleteSomething, remove_handle
  <2>4. t \in Sleeping(messages) /\ UNCHANGED Outcome
    BY <1>7, <2>1 DEF CompleteSomething, Outcome
  <2> QED BY <2>1, <2>3, <2>4 DEF Multi!remove_handles, Completed
<1>8. ASSUME NEW t \in Task, AwaitResume(t)
      PROVE UNCHANGED MultiVars
  <2>1. /\ waits[t] \in Easy /\ waits[t] \notin added /\ code = result[waits[t]]
        /\ waits' = [waits EXCEPT ![t] = Null] /\ got' = [got EXCEPT ![t] = code]
        /\ UNCHANGED <<added, busy, messages, result>>
    BY <1>8 DEF AwaitResume, OwnTransfer
  <2>2. UNCHANGED <<Sleeping(added), Sleeping(busy), Sleeping(messages)>>
    BY <2>1
  <2>3. UNCHANGED Outcome
    BY <2>1 DEF Outcome
  <2> QED BY <2>2, <2>3 DEF MultiVars, Multi!curlVars, Outcome
<1>9. CASE UNCHANGED easyVars
  BY <1>9 DEF easyVars, MultiVars, Multi!curlVars, Outcome
<1> QED
  BY <1>1, <1>2, <1>3, <1>4, <1>5, <1>6, <1>7, <1>8, <1>9
  DEF EasyNext, ClientStep, CurlStep, MultiNext

LEMMA NamedInit == ASSUME EasyInit PROVE Multi!CurlInit
  BY EasyAssumption DEF EasyInit, Multi!CurlInit, Sleeping, Outcome

(* CurlMulti may name a handle by the coroutine that performs it: if no      *)
(* coroutine is destroyed while it performs a handle that outlives it, every *)
(* step taken while handles are not shared is, seen through the coroutines   *)
(* that sleep on them, an operation of CurlMulti or changes nothing it knows *)
(* of.                                                                       *)
THEOREM NamedByCoroutineCorrect ==
  ASSUME ~AbandonLent PROVE EasySpec => NamedByCoroutine
<1>1. EasyInit => Multi!CurlInit
  BY NamedInit
<1>2. EasyInv /\ [EasyNext]_easyVars
        => [Exclusive /\ Exclusive' => MultiNext]_MultiVars
  BY NamedStep
<1> QED BY <1>1, <1>2, EasyInvariant, PTL DEF EasySpec, NamedByCoroutine
=============================================================================
