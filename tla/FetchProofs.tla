---------------------------- MODULE FetchProofs ----------------------------
(* Theorems about fetch(), for a resource of any size and any number of      *)
(* attempts.                                                                 *)
EXTENDS Fetch, SequenceTheorems, TLAPS

(* Failures so far, and what a pending resume adds to the performs a failure *)
(* has paid for: a failure pays for its retry and for one refused range.     *)
Failures == Attempts - attempts
Resuming == IF offset # 0 THEN 1 ELSE 0

(* attempts counts failures, offset is where the output ends between two     *)
(* transfers, and performs keeps pace with the failures.                     *)
LoopInv ==
  /\ at \in {"perform", "transfer"} => attempts >= 0
  /\ at = "perform" => /\ offset = Len(output)
                       /\ performs >= Failures
                       /\ performs + Resuming <= 2 * Failures
  /\ at = "transfer" => /\ performs > Failures
                        /\ performs + Resuming <= 2 * Failures + 1
  /\ at = "returned" => position = Size /\ position = Len(output)
  /\ PerformsBounded
  /\ ThrowsAfterLastAttempt

FetchIInv == FetchType /\ OutputIsPrefix /\ LoopInv

(* Appending the next byte to a prefix of the resource gives a prefix.       *)
LEMMA PrefixGrows ==
  ASSUME output \in Seq(1..Size), OutputIsPrefix, at = "transfer", position < Size,
         position \in 0..Size
  PROVE  /\ Append(output, position + 1) = Prefix(position + 1)
         /\ Len(Append(output, position + 1)) = position + 1
         /\ Append(output, position + 1) \in Seq(1..Size)
  <1>1. output = Prefix(position) /\ Len(output) = position
    BY DEF OutputIsPrefix
  <1>2. position + 1 \in 1..Size
    BY FetchAssumption
  <1>3. Append(output, position + 1) \in Seq(1..Size)
        /\ Len(Append(output, position + 1)) = position + 1
    BY <1>1, <1>2
  <1>4. Append(output, position + 1) = Prefix(position + 1)
    BY <1>1 DEF Prefix
  <1> QED BY <1>3, <1>4

LEMMA FetchInitIInv == FetchInit => FetchIInv
  <1> SUFFICES ASSUME FetchInit PROVE FetchIInv
    OBVIOUS
  <1>1. output = <<>> /\ <<>> \in Seq(1..Size) /\ Len(output) = 0
    BY EmptySeq DEF FetchInit
  <1>2. FetchType
    BY <1>1, FetchAssumption DEF FetchInit, FetchType
  <1>3. output = Prefix(Len(output))
    BY <1>1 DEF Prefix
  <1>4. OutputIsPrefix
    BY <1>1, <1>3 DEF OutputIsPrefix, FetchInit
  <1>5. LoopInv
    BY <1>1, FetchAssumption DEF LoopInv, FetchInit, PerformsBounded,
       ThrowsAfterLastAttempt, MaxPerforms, Failures, Resuming
  <1> QED BY <1>2, <1>4, <1>5 DEF FetchIInv

LEMMA FetchNextIInv == FetchIInv /\ [FetchNext]_fetchVars => FetchIInv'
  <1> SUFFICES ASSUME FetchIInv, [FetchNext]_fetchVars PROVE FetchIInv'
    OBVIOUS
  <1> USE FetchAssumption DEF FetchIInv, FetchType, LoopInv, PerformsBounded,
          ThrowsAfterLastAttempt, MaxPerforms, Failures, Resuming
  <1>1. CASE StartPerform
    <2>1. FetchType'
      BY <1>1 DEF StartPerform
    <2>2. OutputIsPrefix'
      BY <1>1 DEF StartPerform, OutputIsPrefix
    <2> QED BY <1>1, <2>1, <2>2 DEF StartPerform
  <1>2. CASE write_into
    <2>1. /\ output' = Prefix(position') /\ Len(output') = position'
          /\ output' \in Seq(1..Size)
      BY <1>2, PrefixGrows DEF write_into
    <2>2. FetchType'
      BY <1>2, <2>1 DEF write_into
    <2>3. OutputIsPrefix'
      BY <2>1 DEF OutputIsPrefix
    <2> QED BY <1>2, <2>2, <2>3 DEF write_into
  <1>3. CASE Succeed
    BY <1>3 DEF Succeed, OutputIsPrefix
  <1>4. CASE RangeError
    <2>1. output' = <<>> /\ Len(output') = 0 /\ output' \in Seq(1..Size)
      BY <1>4, EmptySeq DEF RangeError, start_afresh
    <2>2. output' = Prefix(Len(output'))
      BY <2>1 DEF Prefix
    <2>3. FetchType'
      BY <1>4, <2>1 DEF RangeError, start_afresh
    <2>4. OutputIsPrefix'
      BY <1>4, <2>2 DEF OutputIsPrefix, RangeError, start_afresh
    <2> QED BY <1>4, <2>1, <2>3, <2>4 DEF RangeError, start_afresh
  <1>5. CASE Fail
    <2>1. Len(output) = position
      BY <1>5 DEF Fail, OutputIsPrefix
    <2>2. FetchType'
      BY <1>5, <2>1 DEF Fail, attempts_left, resume_position
    <2>3. OutputIsPrefix'
      BY <1>5 DEF Fail, OutputIsPrefix
    <2> QED BY <1>5, <2>1, <2>2, <2>3 DEF Fail, attempts_left, resume_position
  <1>6. CASE UNCHANGED fetchVars
    BY <1>6 DEF fetchVars, OutputIsPrefix
  <1> QED BY <1>1, <1>2, <1>3, <1>4, <1>5, <1>6 DEF FetchNext

LEMMA FetchIInvHolds == FetchSpec => []FetchIInv
  BY FetchInitIInv, FetchNextIInv, PTL DEF FetchSpec

(* However the transfers are cut and resumed, the output never has a hole, a *)
(* repeated or a misplaced byte.                                             *)
THEOREM FetchPrefix == FetchSpec => []OutputIsPrefix
  <1>1. FetchIInv => OutputIsPrefix
    BY DEF FetchIInv
  <1> QED BY FetchIInvHolds, <1>1, PTL

(* fetch() returns nothing but the whole resource.                           *)
THEOREM FetchWhole == FetchSpec => []ReturnsWhole
  <1>1. FetchIInv => ReturnsWhole
    BY DEF FetchIInv, ReturnsWhole, LoopInv, OutputIsPrefix
  <1> QED BY FetchIInvHolds, <1>1, PTL

(* The retry loop performs at most 2 * Attempts + 1 times.                   *)
THEOREM FetchBounded == FetchSpec => []PerformsBounded
  <1>1. FetchIInv => PerformsBounded
    BY DEF FetchIInv, LoopInv
  <1> QED BY FetchIInvHolds, <1>1, PTL

(* It gives up after Attempts + 1 failures, no sooner.                       *)
THEOREM FetchThrowsLast == FetchSpec => []ThrowsAfterLastAttempt
  <1>1. FetchIInv => ThrowsAfterLastAttempt
    BY DEF FetchIInv, LoopInv
  <1> QED BY FetchIInvHolds, <1>1, PTL
=============================================================================
