------------------------------- MODULE Fetch -------------------------------
(* fetch() (fetch.hpp): download a resource into a container, and when a     *)
(* transfer fails try again from where the output ends, or from the start    *)
(* when the server refuses ranges.  A byte of the resource is its position.  *)
EXTENDS Integers, Sequences

CONSTANTS
  Size,     \* bytes of the resource
  Attempts  \* the argument: failures that are tried again

ASSUME FetchAssumption == Size \in Nat /\ Attempts \in Nat

VARIABLES
  output,    \* the container libcurl writes into
  offset,    \* CURLOPT_RESUME_FROM_LARGE of the handle
  position,  \* bytes of the resource before the next one libcurl delivers
  attempts,  \* the local copy of the argument
  at,        \* "perform", "transfer", "returned", "thrown"
  performs   \* co_awaits of handle.perform() so far (history)

fetchVars == <<output, offset, position, attempts, at, performs>>

FetchType ==
  /\ output \in Seq(1..Size)
  /\ offset \in 0..Size /\ position \in 0..Size
  /\ attempts \in -1..Attempts
  /\ at \in {"perform", "transfer", "returned", "thrown"}
  /\ performs \in Nat

FetchInit ==
  /\ output = <<>>
  /\ offset = 0 /\ position = 0
  /\ attempts = Attempts
  /\ at = "perform"
  /\ performs = 0

(* Plausible bugs.  No specification uses them: each replaces a definition   *)
(* below, to see that the properties notice.                                 *)
attempts_last_unused == attempts > 1
resume_past_end == IF output = <<>> THEN 0 ELSE Len(output) + 1

range_error_keeps_offset ==
  /\ output' = <<>>
  /\ UNCHANGED offset

(* performs is counted up to one above the bound it is compared with.        *)
MaxPerforms == 2 * Attempts + 1

(* co_await handle.perform(): the transfer starts at the handle's offset.    *)
StartPerform ==
  /\ at = "perform"
  /\ at' = "transfer"
  /\ position' = offset
  /\ performs' = IF performs > MaxPerforms THEN performs ELSE performs + 1
  /\ UNCHANGED <<output, offset, attempts>>

(* The write callback appends what libcurl delivers.                         *)
write_into ==
  /\ at = "transfer" /\ position < Size
  /\ output' = Append(output, position + 1)
  /\ position' = position + 1
  /\ UNCHANGED <<offset, attempts, at, performs>>

(* The transfer succeeded: the output is returned.                           *)
Succeed ==
  /\ at = "transfer" /\ position = Size
  /\ at' = "returned"
  /\ UNCHANGED <<output, offset, position, attempts, performs>>

(* output.clear(), handle.disable_resume(): the next transfer starts afresh. *)
start_afresh ==
  /\ output' = <<>>
  /\ offset' = 0

(* The server refuses the range: libcurl says so before it delivers a byte,  *)
(* and only of a transfer that asked for one.                                *)
RangeError ==
  /\ at = "transfer" /\ offset # 0 /\ position = offset
  /\ at' = "perform"
  /\ start_afresh
  /\ UNCHANGED <<position, attempts, performs>>

attempts_left == attempts > 0
resume_position == Len(output)

(* The transfer fails, at any point: attempts-- > 0, resume, or throw.       *)
Fail ==
  /\ at = "transfer"
  /\ attempts' = attempts - 1
  /\ IF attempts_left
       THEN at' = "perform" /\ offset' = resume_position
       ELSE at' = "thrown" /\ UNCHANGED offset
  /\ UNCHANGED <<output, position, performs>>

Ended == at \in {"returned", "thrown"}

FetchNext ==
  \/ StartPerform \/ write_into \/ Succeed \/ RangeError \/ Fail
  \/ Ended /\ UNCHANGED fetchVars

FetchSpec == FetchInit /\ [][FetchNext]_fetchVars

(* Transfers end: connection_timeout and low_speed_timeout end those that    *)
(* stall.                                                                    *)
FetchFairSpec == FetchSpec /\ WF_fetchVars(FetchNext)

----------------------------------------------------------------------------
Prefix(n) == [i \in 1..n |-> i]

(* However the transfers were cut, the output is a prefix of the resource:   *)
(* no byte twice, none missing, ...                                          *)
OutputIsPrefix ==
  /\ output = Prefix(Len(output))
  /\ at = "transfer" => position = Len(output)

(* ... and what is returned is all of it.                                    *)
ReturnsWhole == at = "returned" => output = Prefix(Size)

(* The loop ends: each retry is paid by an attempt, and a refused range only *)
(* follows a retry.                                                          *)
PerformsBounded == performs <= MaxPerforms

(* An attempt left is an attempt made: it throws after Attempts + 1 failures *)
(* and not before.                                                           *)
ThrowsAfterLastAttempt == at = "thrown" => attempts = -1 /\ performs > Attempts

FetchEnds == <>Ended
=============================================================================
