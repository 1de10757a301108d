---------------------------- MODULE PartsProofs ----------------------------
(* Theorems about All, Counters, Format, Owners and Upload, for every value  *)
(* of their constants.                                                       *)
EXTENDS All, Counters, Format, Owners, Upload, SequenceTheorems,
  FiniteSetTheorems, TLAPS

(* The debug counters differ by the height of the stack, modulo wrapping.    *)
CounterInv ==
  /\ CounterType
  /\ blocked_balance = height
  /\ \/ tasks_in_running = tasks_blocked + height
     \/ tasks_in_running = tasks_blocked + height - Modulus

LEMMA CounterInitInv == ASSUME CounterInit PROVE CounterInv
  BY ModulusAssumption DEF CounterInit, CounterInv, CounterType, Unsigned

LEMMA CounterStep ==
  ASSUME CounterInv, [CounterNext]_counterVars PROVE CounterInv'
<1> USE ModulusAssumption DEF CounterInv, CounterType, Unsigned, increment, decrement
<1>1. CASE Start
  BY <1>1 DEF Start
<1>2. CASE FinishAlone
  BY <1>2 DEF FinishAlone
<1>3. CASE FinishAndResume
  BY <1>3 DEF FinishAndResume
<1>4. CASE BlockAlone
  BY <1>4 DEF BlockAlone, balance_if_blocked
<1>5. CASE BlockAndResume
  BY <1>5 DEF BlockAndResume, balance_if_blocked
<1>6. CASE Unblock
  BY <1>6 DEF Unblock, graph_blocked_debug
<1>7. CASE DestroySleeping
  BY <1>7 DEF DestroySleeping
<1>8. CASE UNCHANGED counterVars
  BY <1>8 DEF counterVars
<1> QED BY <1>1, <1>2, <1>3, <1>4, <1>5, <1>6, <1>7, <1>8 DEF CounterNext

LEMMA CounterInvAgree == ASSUME CounterInv PROVE BuildsAgree
  BY ModulusAssumption DEF CounterInv, CounterType, Unsigned, BuildsAgree,
     graph_blocked_debug, graph_blocked_release

(* For counters of any width both builds agree on whether the graph is       *)
(* blocked, and are right, in every state the scheduler can reach.           *)
THEOREM BuildsAgreeCorrect == CounterSpec => []BuildsAgree
  BY CounterInitInv, CounterStep, CounterInvAgree, PTL DEF CounterSpec
----------------------------------------------------------------------------
(* What is held exists, unless urls were assigned; and urls are the only     *)
(* wrappers that hold such an object.                                        *)
OwnersInv ==
  /\ OwnersType
  /\ allocated \cap freed = {}
  /\ copied \subseteq allocated \cup freed
  /\ \A w \in alive : pointer[w] # Null => pointer[w] \in allocated \cup freed
  /\ \A w \in alive \cap Url : pointer[w] # Null
  /\ \A w \in Wrapper \ alive : pointer[w] = Null
  /\ OneOwner

LEMMA OwnersInitInv == ASSUME OwnersInit PROVE OwnersInv
  BY DEF OwnersInit, OwnersInv, OwnersType, OneOwner, Holders

LEMMA OwnersStep ==
  ASSUME OwnersInv, [OwnersNext]_ownerVars PROVE OwnersInv'
<1> USE OwnersAssumption DEF OwnersInv, OwnersType, OneOwner, Holders, Unused
<1> SUFFICES ASSUME OwnersNext PROVE OwnersInv'
  BY DEF ownerVars
<1> PICK v \in Wrapper, w \in Wrapper, o \in Object :
      \/ Construct(w, o) \/ ConstructEmpty(w) \/ append(w, o)
      \/ MoveConstruct(v, w) \/ MoveAssign(v, w) \/ Duplicate(v, w, o)
      \/ CopyAssign(v, w) \/ Destruct(w)
  BY DEF OwnersNext
<1>1. CASE Construct(w, o)
  BY <1>1 DEF Construct
<1>2. CASE ConstructEmpty(w)
  BY <1>2 DEF ConstructEmpty
<1>3. CASE append(w, o)
  BY <1>3 DEF append
<1>4. CASE MoveConstruct(v, w)
  BY <1>4 DEF MoveConstruct, exchange
<1>5. CASE MoveAssign(v, w)
  BY <1>5 DEF MoveAssign, swap
<1>6. CASE Duplicate(v, w, o)
  BY <1>6 DEF Duplicate
<1>7. CASE CopyAssign(v, w)
  BY <1>7 DEF CopyAssign
<1>8. CASE Destruct(w)
  BY <1>8 DEF Destruct
<1> QED BY <1>1, <1>2, <1>3, <1>4, <1>5, <1>6, <1>7, <1>8

(* Every object of libcurl is held by exactly one wrapper in scope, for any  *)
(* number of wrappers, moved, duplicated and destroyed in any order, unless  *)
(* urls that held it were assigned to each other.                            *)
THEOREM OneOwnerCorrect == OwnersSpec => []OneOwner
<1>1. OwnersInit => OwnersInv
  BY OwnersInitInv
<1>2. OwnersInv /\ [OwnersNext]_ownerVars => OwnersInv'
  BY OwnersStep
<1>3. OwnersInv => OneOwner
  BY DEF OwnersInv
<1> QED BY <1>1, <1>2, <1>3, PTL DEF OwnersSpec
----------------------------------------------------------------------------
(* While a file is sent, what the server has and what the reader has yet to  *)
(* copy make up the file; final changes only in the rename, and only to it.  *)
UploadInv ==
  /\ local \in Versions \cup {Missing}
  /\ filedata \in Seq(Byte) /\ content \in Seq(Byte)
  /\ at \in {"idle", "loaded", "sending", "sent", "renaming", "ended", "over"}
  /\ at = "idle" => status = "none"
  /\ at = "loaded" => content = filedata
  /\ at = "sending" => temporary \in Seq(Byte) /\ temporary \o content = filedata
  /\ at \in {"sent", "renaming"} => temporary = filedata
  /\ at \in {"loaded", "sending", "sent", "renaming"} => final = before
  /\ at \in {"loaded", "sending", "sent", "renaming", "ended"} => status = "none"
  /\ at = "ended" /\ ok => final = filedata
  /\ NeverPartial
  /\ SuccessMeansUploaded

LEMMA UploadInitInv == ASSUME UploadInit PROVE UploadInv
  BY DEF UploadInit, UploadInv, NeverPartial, SuccessMeansUploaded

(* What is cut in two and appended to another sequence is appended whole.    *)
LEMMA AppendInTwo ==
  ASSUME NEW S, NEW s \in Seq(S), NEW t \in Seq(S), NEW n \in 0..Len(t)
  PROVE  (s \o SubSeq(t, 1, n)) \o SubSeq(t, n + 1, Len(t)) = s \o t
<1>1. Len(t) \in Nat
  OBVIOUS
<1>2. SubSeq(t, 1, n) \in Seq(S) /\ SubSeq(t, n + 1, Len(t)) \in Seq(S)
  BY <1>1, SubSeqProperties
<1>3. SubSeq(t, 1, n) \o SubSeq(t, n + 1, Len(t)) = SubSeq(t, 1, Len(t))
  <2>1. 1 \in 1 .. Len(t) + 1 /\ n \in 1 - 1 .. Len(t) /\ Len(t) \in n .. Len(t)
    BY <1>1
  <2> QED BY ONLY <2>1, t \in Seq(S), ConcatAdjacentSubSeq, Zenon
<1>4. SubSeq(t, 1, Len(t)) = t
  BY SubSeqFull
<1>5. \A u, v \in Seq(S) : (s \o u) \o v = s \o (u \o v)
  BY ConcatAssociative
<1>6. (s \o SubSeq(t, 1, n)) \o SubSeq(t, n + 1, Len(t))
        = s \o (SubSeq(t, 1, n) \o SubSeq(t, n + 1, Len(t)))
  BY ONLY <1>2, <1>5, Zenon
<1> QED BY <1>3, <1>4, <1>6

(* The reader loses no byte and sends none twice, however much is asked for. *)
LEMMA ReaderKeepsFile ==
  ASSUME UploadInv, NEW size \in 1..Chunk, read_callback(size)
  PROVE  temporary' \in Seq(Byte) /\ content' \in Seq(Byte) /\ temporary' \o content' = filedata
<1> DEFINE n == IF size < Len(content) THEN size ELSE Len(content)
<1>1. /\ content \in Seq(Byte) /\ temporary \in Seq(Byte)
      /\ temporary \o content = filedata
      /\ temporary' = temporary \o SubSeq(content, 1, n)
      /\ content' = SubSeq(content, n + 1, Len(content))
  BY DEF UploadInv, read_callback, rest_of
<1>2. n \in Nat /\ n <= Len(content) /\ Len(content) \in Nat
  BY <1>1, UploadAssumption
<1> HIDE DEF n
<1>3. SubSeq(content, 1, n) \in Seq(Byte) /\ SubSeq(content, n + 1, Len(content)) \in Seq(Byte)
  BY <1>1, <1>2, SubSeqProperties
<1>4. n \in 0..Len(content)
  BY <1>2
<1>5. temporary' \o content' = temporary \o content
  BY <1>1, <1>4, AppendInTwo
<1>6. temporary' \in Seq(Byte)
  BY <1>1, <1>3, ConcatProperties
<1> QED BY <1>1, <1>3, <1>5, <1>6

(* Once as many bytes have arrived as the file has, it is the file.          *)
LEMMA SentIsWhole == ASSUME UploadInv, all_sent PROVE temporary = filedata
<1>1. /\ content \in Seq(Byte) /\ temporary \in Seq(Byte)
      /\ temporary \o content = filedata /\ Len(temporary) = Len(filedata)
  BY DEF UploadInv, all_sent
<1>2. Len(content) = 0
  BY <1>1, ConcatProperties
<1>3. content = <<>>
  BY <1>1, <1>2, EmptySeq
<1> QED BY <1>1, <1>3, ConcatEmptySeq

LEMMA UploadStep == ASSUME UploadInv, [UploadNext]_uploadVars PROVE UploadInv'
<1> USE DEF UploadInv, NeverPartial, SuccessMeansUploaded
<1>1. CASE Edit
  BY <1>1 DEF Edit, programVars
<1>2. CASE LoadFile
  BY <1>2, UploadAssumption DEF LoadFile
<1>3. CASE StartTransfer
  BY <1>3, ConcatEmptySeq DEF StartTransfer
<1>4. ASSUME NEW size \in 1..Chunk, read_callback(size) PROVE UploadInv'
  <2>1. temporary' \in Seq(Byte) /\ content' \in Seq(Byte) /\ temporary' \o content' = filedata
    BY <1>4, ReaderKeepsFile
  <2>2. /\ at = "sending" /\ at' = at
        /\ UNCHANGED <<local, final, before, filedata, ok, status>>
    BY <1>4 DEF read_callback
  <2> QED BY <2>1, <2>2
<1>5. CASE Sent
  BY <1>5, SentIsWhole DEF Sent, all_sent, fileVars
<1>6. CASE RenameFrom
  BY <1>6 DEF RenameFrom, fileVars
<1>7. CASE RenameTo
  BY <1>7 DEF RenameTo
<1>8. CASE Fails
  BY <1>8 DEF Fails, fileVars
<1>9. CASE Exit
  BY <1>9 DEF Exit, fileVars, bool_result
<1>10. CASE Crash
  BY <1>10 DEF Crash, fileVars
<1>11. CASE UNCHANGED uploadVars
  BY <1>11 DEF uploadVars, fileVars, programVars
<1> QED
  BY <1>1, <1>2, <1>3, <1>4, <1>5, <1>6, <1>7, <1>8, <1>9, <1>10, <1>11 DEF UploadNext

LEMMA UploadInvariant == UploadSpec => []UploadInv
  BY UploadInitInv, UploadStep, PTL DEF UploadSpec

(* For files of any size and chunks of any size, the name on the server      *)
(* stands for what it was before the run or for the whole file, whenever the *)
(* program is killed or fails and however often it is run.                   *)
THEOREM NeverPartialCorrect == UploadSpec => []NeverPartial
<1>1. UploadInv => NeverPartial
  BY DEF UploadInv
<1> QED BY <1>1, UploadInvariant, PTL

(* Under the same conditions exit status 0 means that the file is there.     *)
THEOREM SuccessMeansUploadedCorrect == UploadSpec => []SuccessMeansUploaded
<1>1. UploadInv => SuccessMeansUploaded
  BY DEF UploadInv
<1> QED BY <1>1, UploadInvariant, PTL
----------------------------------------------------------------------------
(* Rounding up to a unit adds less than one.                                 *)
LEMMA CeilRest ==
  ASSUME NEW rest \in Nat, NEW unit \in Nat \ {0}
  PROVE  ceil_rest(rest, unit) \in Nat /\ ceil_rest(rest, unit) - rest \in 0 .. unit - 1
  BY SMT DEF ceil_rest

LEMMA TimesAtLeast ==
  ASSUME NEW m \in Nat \ {0}, NEW n \in Nat \ {0}
  PROVE  m * n \in Nat \ {0} /\ m <= m * n
  BY SMT

LEMMA CutOff ==
  ASSUME NEW time \in Nat, NEW unit \in Nat \ {0}
  PROVE  (time \div unit) * unit \in Nat /\ (time \div unit) * unit <= time
  BY SMT

(* The units of time in their order.                                         *)
LEMMA UnitsOfTime ==
  /\ {microsecond, millisecond, second, minute, hour} \subseteq Nat \ {0}
  /\ microsecond <= millisecond /\ millisecond <= second
  /\ second <= minute /\ minute <= hour
<1>1. Thousand \in Nat \ {0} /\ Sixty \in Nat \ {0}
  BY FormatAssumption
<1>2. microsecond \in Nat \ {0}
  BY <1>1 DEF microsecond
<1>3. millisecond \in Nat \ {0} /\ microsecond <= millisecond
  BY <1>1, TimesAtLeast DEF microsecond, millisecond
<1>4. second \in Nat \ {0} /\ millisecond <= second
  BY <1>1, <1>3, TimesAtLeast DEF millisecond, second
<1>5. minute \in Nat \ {0} /\ second <= minute
  BY <1>1, <1>4, TimesAtLeast DEF minute
<1>6. hour \in Nat \ {0} /\ minute <= hour
  BY <1>1, <1>5, TimesAtLeast DEF hour
<1> QED BY <1>2, <1>3, <1>4, <1>5, <1>6

(* Two units, the larger cut off and the rest of it rounded up.              *)
LEMMA TwoUnits ==
  ASSUME NEW time \in Nat, NEW large \in Nat \ {0}, NEW small \in Nat \ {0}
  PROVE  ((time \div large) * large + ceil_rest(time - (time \div large) * large, small)) - time
           \in 0 .. small - 1
<1> DEFINE cut == (time \div large) * large
<1>1. cut \in Nat /\ cut <= time
  BY CutOff
<1> HIDE DEF cut
<1>2. time - cut \in Nat
  BY <1>1
<1>3. /\ ceil_rest(time - cut, small) \in Nat
      /\ ceil_rest(time - cut, small) - (time - cut) \in 0 .. small - 1
  BY <1>2, CeilRest
<1>4. (cut + ceil_rest(time - cut, small)) - time \in 0 .. small - 1
  BY <1>1, <1>3
<1> QED BY <1>4 DEF cut

FormatInv == input \in Nat /\ buffer \in Nat

LEMMA FormatInvariant == FormatSpec => []FormatInv
<1>1. FormatInit => FormatInv
  BY FormatAssumption DEF FormatInit, FormatInv
<1>2. FormatInv /\ [FormatNext]_<<input, buffer>> => FormatInv'
  BY DEF FormatNext, FormatInv
<1> QED BY <1>1, <1>2, PTL DEF FormatSpec

(* For any system of units and any time from two minutes on, what is printed *)
(* is the time or less than one of the smaller unit above it.                *)
THEOREM LongTimesRoundUpCorrect == FormatSpec => []LongTimesRoundUp
<1>1. ASSUME input \in Nat PROVE LongTimesRoundUp
  <2>1. SUFFICES ASSUME input >= 2 * minute
                 PROVE  LET small == IF input < 2 * hour THEN second ELSE minute
                        IN ShownTime(input) - input \in 0 .. small - 1
    BY DEF LongTimesRoundUp
  <2>2. /\ ~(input < 2 * microsecond) /\ ~(input < 2 * millisecond)
        /\ ~(input < 2 * second) /\ ~(input < 2 * minute)
    BY <1>1, <2>1, UnitsOfTime
  <2>3. CASE input < 2 * hour
    <3>1. ShownTime(input) = (input \div minute) * minute
             + ceil_rest(input - (input \div minute) * minute, second)
      BY <2>1, <2>2, <2>3 DEF ShownTime
    <3>2. minute \in Nat \ {0} /\ second \in Nat \ {0}
      BY UnitsOfTime
    <3>3. ((input \div minute) * minute + ceil_rest(input - (input \div minute) * minute, second)) - input
            \in 0 .. second - 1
      BY ONLY <1>1, <3>2, TwoUnits, Zenon
    <3>4. ShownTime(input) - input \in 0 .. second - 1
      BY ONLY <3>1, <3>3, Zenon
    <3> QED BY <2>3, <3>4
  <2>4. CASE ~(input < 2 * hour)
    <3>1. ShownTime(input) = (input \div hour) * hour
             + ceil_rest(input - (input \div hour) * hour, minute)
      BY <2>1, <2>2, <2>4 DEF ShownTime
    <3>2. hour \in Nat \ {0} /\ minute \in Nat \ {0}
      BY UnitsOfTime
    <3>3. ((input \div hour) * hour + ceil_rest(input - (input \div hour) * hour, minute)) - input
            \in 0 .. minute - 1
      BY ONLY <1>1, <3>2, TwoUnits, Zenon
    <3>4. ShownTime(input) - input \in 0 .. minute - 1
      BY ONLY <3>1, <3>3, Zenon
    <3> QED BY <2>4, <3>4
  <2> QED BY <2>3, <2>4
<1>2. FormatInv => input \in Nat
  BY DEF FormatInv
<1> QED BY <1>1, <1>2, FormatInvariant, PTL
----------------------------------------------------------------------------
(* Hundredths is the nearest: off by half a hundredth of the unit at most.   *)
LEMMA HundredthsNearest ==
  ASSUME NEW amount \in Nat, NEW unit \in Nat \ {0}
  PROVE  /\ Hundredths(amount, unit) \in Nat
         /\ 2 * (Hundredths(amount, unit) * unit) <= 200 * amount + unit
         /\ 200 * amount <= 2 * (Hundredths(amount, unit) * unit) + unit
<1> DEFINE q == (amount * 100) \div unit
<1> DEFINE r == (amount * 100) % unit
<1>1. /\ q \in Nat /\ r \in 0 .. unit - 1
      /\ amount * 100 = q * unit + r
  BY SMT
<1> HIDE DEF q, r
<1>2. q * unit \in Nat /\ (q + 1) * unit = q * unit + unit
  BY <1>1
<1>3. Hundredths(amount, unit) = IF 2 * r > unit \/ (2 * r = unit /\ q % 2 = 1) THEN q + 1 ELSE q
  BY DEF Hundredths, q, r
<1>4. CASE Hundredths(amount, unit) = q + 1 /\ 2 * r >= unit
  BY <1>1, <1>2, <1>4
<1>5. CASE Hundredths(amount, unit) = q /\ 2 * r <= unit
  BY <1>1, <1>2, <1>5
<1> QED BY <1>1, <1>3, <1>4, <1>5

LEMMA WholeAmount ==
  ASSUME NEW n \in Nat, NEW unit \in Nat \ {0} PROVE Hundredths(n * unit, unit) = n * 100
<1>1. (n * unit) * 100 = (n * 100) * unit
  BY SMT
<1>2. ((n * 100) * unit) \div unit = n * 100 /\ ((n * 100) * unit) % unit = 0
  BY SMT
<1> QED BY <1>1, <1>2 DEF Hundredths

(* Of a larger amount there are not fewer hundredths.                        *)
LEMMA HundredthsInOrder ==
  ASSUME NEW amount \in Nat, NEW unit \in Nat \ {0}
  PROVE  Hundredths(amount, unit) <= Hundredths(amount + 1, unit)
<1> DEFINE g == Hundredths(amount, unit)
<1> DEFINE h == Hundredths(amount + 1, unit)
<1>0. amount + 1 \in Nat
  OBVIOUS
<1>1. /\ g \in Nat /\ 2 * (g * unit) <= 200 * amount + unit
      /\ h \in Nat /\ 200 * (amount + 1) <= 2 * (h * unit) + unit
  BY ONLY <1>0, amount \in Nat, unit \in Nat \ {0}, HundredthsNearest, Zenon
<1> HIDE DEF g, h
<1>2. SUFFICES ASSUME g >= h + 1 PROVE FALSE
  BY <1>1 DEF g, h
<1>3. g * unit \in Nat /\ h * unit \in Nat /\ g * unit >= h * unit + unit
  <2>1. PICK d \in Nat : g = h + 1 + d
    <3>1. g - h - 1 \in Nat /\ g = h + 1 + (g - h - 1)
      BY <1>1, <1>2
    <3> QED BY <3>1
  <2>2. g * unit = h * unit + unit + d * unit /\ d * unit \in Nat /\ h * unit \in Nat
    BY <1>1, <2>1
  <2> QED BY <2>2
<1> QED BY <1>1, <1>3

(* Amounts of one unit print in order ...                                    *)
LEMMA ScaledInOrder ==
  ASSUME NEW g \in Nat, NEW h \in Nat, NEW unit \in Nat \ {0}, g <= h
  PROVE  g * unit <= h * unit
<1>1. PICK d \in Nat : h = g + d
  <2>1. h - g \in Nat /\ h = g + (h - g)
    OBVIOUS
  <2> QED BY <2>1
<1>2. h * unit = g * unit + d * unit /\ d * unit \in Nat /\ g * unit \in Nat
  BY <1>1
<1> QED BY <1>2

(* ... and the last one of a unit prints at most as the first of the next,   *)
(* which is base of the smaller units and prints as what it is.              *)
LEMMA UnitsMeet ==
  ASSUME NEW unit \in Nat \ {0}, NEW base \in Nat \ {0}, NEW amount \in Nat,
         amount + 1 = base * unit
  PROVE  Hundredths(amount, unit) * unit <= 100 * (base * unit)
<1>1. Hundredths(amount + 1, unit) = base * 100
  BY WholeAmount
<1>2. Hundredths(amount, unit) <= base * 100 /\ Hundredths(amount, unit) \in Nat
  BY <1>1, HundredthsInOrder, HundredthsNearest
<1>3. base * 100 \in Nat
  OBVIOUS
<1>4. Hundredths(amount, unit) * unit <= (base * 100) * unit
  BY <1>2, <1>3, ScaledInOrder
<1>5. (base * 100) * unit = 100 * (base * unit)
  BY SMT
<1> QED BY <1>4, <1>5

LEMMA UnitsOfAmounts ==
  /\ Kibi \in Nat \ {0} /\ MiB \in Nat \ {0} /\ GiB \in Nat \ {0}
  /\ MiB = Kibi * Kibi /\ GiB = Kibi * MiB
  /\ Kibi < MiB /\ MiB < GiB
<1>1. Kibi \in Nat /\ Kibi >= 2
  BY FormatAssumption
<1>2. MiB = Kibi * Kibi /\ MiB \in Nat /\ Kibi * Kibi >= 2 * Kibi
  BY <1>1, SMT DEF MiB
<1>3. GiB = Kibi * MiB
  BY <1>1, SMT DEF GiB, MiB
<1>4. Kibi * MiB >= 2 * MiB /\ Kibi * MiB \in Nat
  BY <1>1, <1>2, SMT
<1> QED BY <1>1, <1>2, <1>3, <1>4

(* A whole unit prints as it is.                                             *)
LEMMA WholeUnit ==
  ASSUME NEW unit \in Nat \ {0} PROVE Hundredths(unit, unit) = 100
<1>1. 1 * unit = unit /\ 1 * 100 = 100
  OBVIOUS
<1> QED BY <1>1, WholeAmount

LEMMA AmountsStep ==
  ASSUME NEW amount \in Nat PROVE ShownAmount(amount) <= ShownAmount(amount + 1)
<1> USE UnitsOfAmounts
<1>1. CASE amount + 1 < Kibi
  BY <1>1 DEF ShownAmount
<1>2. CASE amount + 1 = Kibi
  <2>1. ShownAmount(amount) = amount * 100
    BY <1>2 DEF ShownAmount
  <2>2. ShownAmount(amount + 1) = 100 * Kibi
    BY <1>2, WholeUnit DEF ShownAmount, divisor_of, unit_of
  <2> QED BY <1>2, <2>1, <2>2
<1>3. ASSUME Kibi <= amount, unit_of(amount + 1) = unit_of(amount)
      PROVE  ShownAmount(amount) <= ShownAmount(amount + 1)
  <2> DEFINE unit == unit_of(amount)
  <2>1. unit \in Nat \ {0}
    BY DEF unit_of
  <2>2. /\ ShownAmount(amount) = Hundredths(amount, unit) * unit
        /\ ShownAmount(amount + 1) = Hundredths(amount + 1, unit) * unit
    BY <1>3 DEF ShownAmount, divisor_of
  <2> HIDE DEF unit
  <2>3. Hundredths(amount, unit) <= Hundredths(amount + 1, unit)
    BY <2>1, HundredthsInOrder
  <2>4. Hundredths(amount, unit) \in Nat /\ Hundredths(amount + 1, unit) \in Nat
    <3>1. amount + 1 \in Nat
      OBVIOUS
    <3> QED BY <2>1, <3>1, HundredthsNearest
  <2> QED BY <2>1, <2>2, <2>3, <2>4, ScaledInOrder
<1>4. CASE amount + 1 = MiB
  <2>1. /\ ShownAmount(amount) = Hundredths(amount, Kibi) * Kibi
        /\ ShownAmount(amount + 1) = Hundredths(MiB, MiB) * MiB
    BY <1>4 DEF ShownAmount, divisor_of, unit_of
  <2>2. Hundredths(amount, Kibi) * Kibi <= 100 * (Kibi * Kibi)
    BY <1>4, UnitsMeet
  <2> QED BY <2>1, <2>2, WholeUnit
<1>5. CASE amount + 1 = GiB
  <2>1. /\ ShownAmount(amount) = Hundredths(amount, MiB) * MiB
        /\ ShownAmount(amount + 1) = Hundredths(GiB, GiB) * GiB
    BY <1>5 DEF ShownAmount, divisor_of, unit_of
  <2>2. Hundredths(amount, MiB) * MiB <= 100 * (Kibi * MiB)
    BY <1>5, UnitsMeet
  <2> QED BY <2>1, <2>2, WholeUnit
<1>6. CASE Kibi <= amount /\ amount + 1 # MiB /\ amount + 1 # GiB
  <2>1. unit_of(amount + 1) = unit_of(amount)
    BY <1>6 DEF unit_of
  <2> QED BY <1>3, <1>6, <2>1
<1> QED BY <1>1, <1>2, <1>4, <1>5, <1>6

(* For any base of the units, and any amounts, the larger never prints as    *)
(* less: the run's units are scaled down, the code's are covered here.       *)
THEOREM AmountsInOrderCorrect == FormatSpec => AmountsInOrder
<1>1. ASSUME input \in Nat, [FormatNext]_<<input, buffer>>
      PROVE  [ShownAmount(input) <= ShownAmount(input')]_<<input, buffer>>
  BY <1>1, AmountsStep DEF FormatNext
<1>2. FormatInv => input \in Nat
  BY DEF FormatInv
<1> QED BY <1>1, <1>2, FormatInvariant, PTL DEF FormatSpec, AmountsInOrder
----------------------------------------------------------------------------
LEMMA DigitsType == ASSUME NEW n \in Nat PROVE Digits(n) \in Nat
<1> DEFINE D == {i \in 1..10 : n \div 10^(i - 1) >= 10}
<1>1. IsFiniteSet(1..10)
  <2>1. 1 \in Int /\ 10 \in Int
    OBVIOUS
  <2> QED BY <2>1, FS_Interval, Zenon
<1>2. D \subseteq 1..10
  OBVIOUS
<1>3. IsFiniteSet(D)
  BY <1>1, <1>2, FS_Subset
<1>4. Cardinality(D) \in Nat
  BY <1>3, FS_CardinalityType
<1> HIDE DEF D
<1>5. Digits(n) = 1 + Cardinality(D)
  BY DEF Digits, D
<1> QED BY <1>4, <1>5

LEMMA NumberLengthType == ASSUME NEW amount \in Nat PROVE NumberLength(amount) \in Nat
<1>1. CASE amount < Kibi
  BY <1>1, DigitsType DEF NumberLength
<1>2. CASE ~(amount < Kibi)
  <2>1. divisor_of(amount) \in Nat \ {0}
    BY UnitsOfAmounts DEF divisor_of, unit_of
  <2>2. Hundredths(amount, divisor_of(amount)) \in Nat
    BY <2>1, HundredthsNearest
  <2>3. Hundredths(amount, divisor_of(amount)) \div 100 \in Nat
    BY <2>2
  <2>4. Digits(Hundredths(amount, divisor_of(amount)) \div 100) \in Nat
    BY <2>3, DigitsType
  <2> QED BY <1>2, <2>4 DEF NumberLength
<1> QED BY <1>1, <1>2

(* Buffers of every size get the whole text or nothing, for amounts of every *)
(* size, although the result of to_chars is not looked at.                   *)
THEOREM AllOrNothingCorrect == FormatSpec => []AllOrNothing
<1>1. ASSUME FormatInv PROVE AllOrNothing
  <2>1. NumberLength(input) \in Nat /\ buffer \in Nat
    BY <1>1, NumberLengthType DEF FormatInv
  <2>2. UnitLength(input) \in {2, 4}
    BY DEF UnitLength
  <2> QED BY <2>1, <2>2 DEF AllOrNothing, write_into, no_room
<1> QED BY <1>1, FormatInvariant, PTL

----------------------------------------------------------------------------
(* co_curl::all: what it returns does not depend on the order in which the   *)
(* promises end.                                                             *)
(* The first n arguments in their order.                                     *)
FirstOnes(n) == [t \in 1..n |-> t]

(* Every result behind us was collected.                                     *)
CollectedResults ==
  \A t \in 1..Tasks :
    /\ t < next => result[t] \in {"value", "nullopt"}
    /\ result[t] = "nullopt" => optional
    /\ result[t] = "cancelled" =>
         form = "range" /\ state \in {"threw", "destroyed"} /\ t >= next

(* Where all() can be.                                                       *)
Position ==
  /\ suspended => next <= Tasks
  /\ state = "returned" => next = Tasks + 1
  /\ state = "threw" => next <= Tasks /\ result[next] = "exception"

(* What output holds while all() runs: the range of optionals knows already  *)
(* that one is empty, the others collect without looking.                    *)
OutputSoFar ==
  state = "running" =>
    /\ engaged => output = FirstOnes(next - 1)
    /\ form = "range" /\ optional =>
         (engaged <=> \A t \in 1..Tasks : t < next => result[t] # "nullopt")
    /\ ~(form = "range" /\ optional) => engaged

AllInv == AllType /\ CollectedResults /\ Position /\ OutputSoFar /\ ReturnsInOrder

----------------------------------------------------------------------------
LEMMA AppendNext ==
  ASSUME NEW n \in Nat
  PROVE  /\ Append(FirstOnes(n), n + 1) = FirstOnes(n + 1)
         /\ FirstOnes(n) \in Seq(1..n)
BY DEF FirstOnes

LEMMA SeqMember ==
  /\ << >> \in Seq(1..Tasks)
  /\ \A s \in Seq(1..Tasks), t \in 1..Tasks : Append(s, t) \in Seq(1..Tasks)
OBVIOUS

LEMMA AllInvInit == AllInit => AllInv
<1> SUFFICES ASSUME AllInit PROVE AllInv
  OBVIOUS
<1> USE TasksAssumption DEF AllInit
<1>1. AllType
  <2>1. result \in [1..Tasks -> Results]
    BY DEF Results, Ends
  <2>2. output \in Seq(1..Tasks)
    BY SeqMember
  <2>3. next \in 1..(Tasks + 1)
    OBVIOUS
  <2> QED BY <2>1, <2>2, <2>3, Zenon DEF AllType
<1>2. CollectedResults
  BY DEF CollectedResults, Ends
<1>3. Position /\ ReturnsInOrder
  BY DEF Position, ReturnsInOrder
<1>4. OutputSoFar
  BY DEF OutputSoFar, FirstOnes
<1> QED BY <1>1, <1>2, <1>3, <1>4 DEF AllInv

LEMMA AllInvNext == AllInv /\ [AllNext]_allVars => AllInv'
<1> SUFFICES ASSUME AllInv, [AllNext]_allVars PROVE AllInv'
  OBVIOUS
<1> USE TasksAssumption
<1>0. AllType /\ CollectedResults /\ Position /\ OutputSoFar /\ ReturnsInOrder
  BY DEF AllInv
<1>1. CASE Suspend
  <2> USE <1>0, <1>1 DEF Suspend
  <2>1. AllType'
    BY DEF AllType
  <2>2. CollectedResults'
    BY DEF CollectedResults
  <2>3. Position' /\ ReturnsInOrder'
    BY DEF Position, ReturnsInOrder
  <2>4. OutputSoFar'
    BY DEF OutputSoFar
  <2> QED BY <2>1, <2>2, <2>3, <2>4 DEF AllInv
<1>2. ASSUME NEW t \in 1..Tasks, NEW k \in Ends, TaskEnds(t, k) PROVE AllInv'
  <2> USE <1>0, <1>2 DEF TaskEnds
  <2>0. k \in Results /\ k # "cancelled" /\ (k = "nullopt" => optional)
    BY DEF Ends, Results
  <2>1. AllType'
    BY <2>0 DEF AllType
  <2>2. ~ t < next
    BY DEF CollectedResults, AllType
  <2>3. CollectedResults'
    BY <2>0, <2>2 DEF CollectedResults, AllType
  <2>4. Position' /\ ReturnsInOrder'
    BY DEF Position, ReturnsInOrder
  <2>5. OutputSoFar'
    BY <2>2 DEF OutputSoFar, AllType
  <2> QED BY <2>1, <2>3, <2>4, <2>5 DEF AllInv
<1>3. CASE Resume
  <2> USE <1>0, <1>3 DEF Resume
  <2>1. AllType'
    BY DEF AllType
  <2>2. CollectedResults'
    BY DEF CollectedResults
  <2>3. Position' /\ ReturnsInOrder'
    BY DEF Position, ReturnsInOrder
  <2>4. OutputSoFar'
    BY DEF OutputSoFar
  <2> QED BY <2>1, <2>2, <2>3, <2>4 DEF AllInv
<1>4. CASE Collect
  <2> USE <1>0, <1>4
  <2>0. /\ state = "running" /\ state' = "running" /\ ~suspended /\ ~suspended'
        /\ next \in 1..Tasks /\ next' = next + 1
        /\ result[next] \in {"value", "nullopt"}
        /\ UNCHANGED <<form, optional, result>>
    BY DEF Collect, HasNext, move_throws, next_promise, AllType, Results, CollectedResults
  <2>1. AllType'
    <3>1. output \in Seq(1..Tasks) /\ engaged \in BOOLEAN
      BY DEF AllType
    <3>2. /\ output' \in {output, << >>, Append(output, next)}
          /\ engaged' \in {engaged, TRUE, FALSE}
      BY DEF Collect
    <3>3. output' \in Seq(1..Tasks) /\ engaged' \in BOOLEAN
      BY <2>0, <3>1, <3>2, SeqMember
    <3>4. next' \in 1..(Tasks + 1)
      BY <2>0
    <3>a. /\ form \in {"range", "tuple"} /\ optional \in BOOLEAN
          /\ result \in [1..Tasks -> Results]
      BY DEF AllType
    <3>5. /\ form' \in {"range", "tuple"} /\ optional' \in BOOLEAN
          /\ state' \in {"running", "returned", "threw", "destroyed"}
      BY <2>0, <3>a
    <3>7. suspended' \in BOOLEAN
      BY DEF Collect, AllType
    <3>6. result' \in [1..Tasks -> Results]
      BY <2>0, <3>a
    <3> QED BY <2>0, <3>3, <3>4, <3>5, <3>6, <3>7, Zenon DEF AllType
  <2>2. CollectedResults'
    BY <2>0 DEF CollectedResults, AllType
  <2>3. Position' /\ ReturnsInOrder'
    BY <2>0 DEF Position, ReturnsInOrder
  <2>4. OutputSoFar'
    <3> DEFINE n == next - 1
    <3>a. n \in Nat /\ next = n + 1 /\ next' - 1 = n + 1
      BY <2>0
    <3> HIDE DEF n
    <3>b. Append(FirstOnes(n), n + 1) = FirstOnes(n + 1)
      BY <3>a, AppendNext
    <3>1. Append(FirstOnes(next - 1), next) = FirstOnes(next' - 1)
      BY <3>a, <3>b DEF n
    <3>2. CASE ~(form = "range" /\ optional)
      <4>1. engaged /\ output = FirstOnes(next - 1)
        BY <2>0, <3>2 DEF OutputSoFar
      <4>2. output' = Append(output, next) /\ engaged' = engaged
        BY <3>2 DEF Collect
      <4> QED BY <2>0, <3>1, <3>2, <4>1, <4>2 DEF OutputSoFar
    <3>3. CASE form = "range" /\ optional
      <4>1. CASE ~engaged
        BY <2>0, <3>3, <4>1 DEF Collect, OutputSoFar, still_collecting, AllType
      <4>2. CASE engaged /\ result[next] = "nullopt"
        BY <2>0, <3>3, <4>2 DEF Collect, OutputSoFar, still_collecting, AllType
      <4>3. CASE engaged /\ result[next] # "nullopt"
        <5>1. engaged' /\ output' = FirstOnes(next' - 1)
          BY <2>0, <3>1, <3>3, <4>3 DEF Collect, OutputSoFar, still_collecting
        <5>2. \A t \in 1..Tasks : t < next' => t < next \/ t = next
          BY <2>0
        <5>3. \A t \in 1..Tasks : t < next' => result'[t] # "nullopt"
          BY <2>0, <3>3, <4>3, <5>2 DEF OutputSoFar
        <5> QED BY <2>0, <3>3, <5>1, <5>3 DEF OutputSoFar
      <4> QED BY <4>1, <4>2, <4>3
    <3> QED BY <3>2, <3>3
  <2> QED BY <2>1, <2>2, <2>3, <2>4 DEF AllInv
<1>5. CASE Throw \/ Destroy
  <2> USE <1>0, <1>5
  <2>0. /\ state' \in {"threw", "destroyed"} /\ next \in 1..Tasks
        /\ state' = "threw" => result[next] = "exception"
        /\ result' = IF form = "range" THEN cancel_unfinished ELSE result
        /\ UNCHANGED <<form, optional, next, suspended, output, engaged>>
    BY DEF Throw, Destroy, HasNext, move_throws, Position, AllType
  <2>1. result' \in [1..Tasks -> Results]
    BY <2>0 DEF cancel_unfinished, AllType, Results
  <2>2. \A t \in 1..Tasks : /\ result[t] # "none" => result'[t] = result[t]
                            /\ result[t] = "none" => result'[t] \in {"none", "cancelled"}
                            /\ result'[t] = "cancelled" /\ result[t] # "cancelled" =>
                                 form = "range" /\ result[t] = "none"
    BY <2>0 DEF cancel_unfinished, AllType
  <2>3. AllType'
    BY <2>0, <2>1 DEF AllType
  <2>4. CollectedResults'
    BY <2>0, <2>2 DEF CollectedResults, AllType
  <2>5. Position' /\ ReturnsInOrder' /\ OutputSoFar'
    BY <2>0, <2>2 DEF Position, ReturnsInOrder, OutputSoFar, AllType
  <2> QED BY <2>3, <2>4, <2>5 DEF AllInv
<1>6. CASE Finish
  <2> USE <1>0, <1>6
  <2>0. /\ state = "running" /\ state' = "returned" /\ next = Tasks + 1
        /\ UNCHANGED <<form, optional, result, next, suspended>>
        /\ engaged' \in BOOLEAN
        /\ output' \in {output, << >>}
    <3>1. next \in 1..(Tasks + 1) /\ engaged \in BOOLEAN
      BY DEF AllType
    <3>2. /\ state = "running" /\ state' = "returned" /\ next > Tasks
          /\ UNCHANGED <<form, optional, result, next, suspended>>
      BY DEF Finish
    <3>3. next = Tasks + 1
      BY <3>1, <3>2
    <3>4. \/ output' = << >> /\ engaged' = FALSE
          \/ output' = output /\ engaged' = engaged
      BY DEF Finish
    <3> QED BY <3>1, <3>2, <3>3, <3>4, Zenon
  <2>1. \A t \in 1..Tasks : t < next
    BY <2>0
  <2>2. AllType'
    BY <2>0, SeqMember DEF AllType
  <2>3. CollectedResults' /\ Position' /\ OutputSoFar'
    BY <2>0 DEF CollectedResults, Position, OutputSoFar, AllType
  <2>4. \A t \in 1..Tasks : result'[t] \in {"value", "nullopt"}
    BY <2>0, <2>1 DEF CollectedResults
  <2>5. engaged' <=> \A t \in 1..Tasks : result[t] # "nullopt"
    <3>1. CASE form = "tuple" /\ optional /\ any_nullopt
      BY <2>0, <3>1 DEF Finish, any_nullopt
    <3>2. CASE form = "tuple" /\ optional /\ ~any_nullopt
      BY <2>0, <3>2 DEF Finish, any_nullopt, OutputSoFar
    <3>3. CASE form = "range" /\ optional
      BY <2>0, <2>1, <3>3 DEF Finish, OutputSoFar
    <3>4. CASE ~optional
      BY <2>0, <3>4 DEF Finish, OutputSoFar, CollectedResults
    <3> QED BY <3>1, <3>2, <3>3, <3>4 DEF AllType
  <2>6. engaged' => output' = FirstOnes(Tasks)
    <3>1. next - 1 = Tasks
      BY <2>0
    <3> QED BY <2>0, <3>1 DEF Finish, OutputSoFar
  <2>7. ReturnsInOrder'
    BY <2>0, <2>4, <2>5, <2>6 DEF ReturnsInOrder, FirstOnes
  <2> QED BY <2>2, <2>3, <2>7 DEF AllInv
<1>7. CASE UNCHANGED allVars
  BY <1>0, <1>7 DEF allVars, AllInv, AllType, CollectedResults, Position, OutputSoFar,
     ReturnsInOrder
<1> QED BY <1>1, <1>2, <1>3, <1>4, <1>5, <1>6, <1>7 DEF AllNext, Over

(* Whatever the number of promises and the order in which they end, every    *)
(* variable of all() stays in its type.                                      *)
THEOREM AllTypeCorrect == AllSpec => []AllType
<1>1. AllInv => AllType
  BY DEF AllInv
<1> QED BY <1>1, AllInvInit, AllInvNext, PTL DEF AllSpec

(* all() returns every value, in the order of its arguments, or nothing if   *)
(* an optional is empty, in both its forms and for every number of promises. *)
THEOREM ReturnsInOrderCorrect == AllSpec => []ReturnsInOrder
<1>1. AllInv => ReturnsInOrder
  BY DEF AllInv
<1> QED BY <1>1, AllInvInit, AllInvNext, PTL DEF AllSpec
=============================================================================
