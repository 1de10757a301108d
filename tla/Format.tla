------------------------------- MODULE Format -------------------------------
(* data_amount and duration (format.hpp): what is printed for an amount of   *)
(* bytes and for a time, over a scaled-down system of units.  The inputs     *)
(* grow by one at each step, so that neighbours can be compared.             *)
EXTENDS Integers, FiniteSets

CONSTANTS
  Kibi,      \* 1024 in the code
  Thousand,  \* 1000: nanoseconds in a microsecond, and so on
  Sixty,     \* 60: seconds in a minute, minutes in an hour
  Buffers,   \* sizes of the buffer write_into() is given (32 for operator<<)
  Largest    \* bound of the inputs

ASSUME FormatAssumption ==
  /\ {Kibi, Thousand, Sixty} \subseteq Nat \ {0, 1}
  /\ Buffers \subseteq Nat /\ Largest \in Nat

VARIABLES input, buffer

FormatInit == input = 0 /\ buffer \in Buffers

FormatNext ==
  /\ input < Largest
  /\ input' = input + 1
  /\ UNCHANGED buffer

FormatSpec == FormatInit /\ [][FormatNext]_<<input, buffer>>

----------------------------------------------------------------------------
MiB == Kibi * Kibi
GiB == Kibi * Kibi * Kibi

microsecond == Thousand
millisecond == Thousand * Thousand
second == Thousand * Thousand * Thousand
minute == second * Sixty
hour == minute * Sixty

(* Plausible bugs, used by no specification (see Scheduler).                 *)
no_room_off_by_one(remaining, text) == remaining <= text
mebibytes_divided_once(amount) == IF amount < GiB THEN Kibi ELSE GiB
floor_of_rest(rest, unit) == (rest \div unit) * unit

(* std::to_chars(x, fixed, 2) of amount / unit, in hundredths: the nearest,  *)
(* and of two nearest the even one.                                          *)
Hundredths(amount, unit) ==
  LET q == (amount * 100) \div unit
      r == (amount * 100) % unit
  IN IF 2 * r > unit \/ (2 * r = unit /\ q % 2 = 1) THEN q + 1 ELSE q

(* The unit of an amount of at least Kibi bytes.                             *)
unit_of(amount) == IF amount < MiB THEN Kibi ELSE IF amount < GiB THEN MiB ELSE GiB

(* What the amount is divided by before " kiB", " MiB" or " GiB" is added.   *)
divisor_of(amount) == unit_of(amount)

(* What is printed, back in hundredths of a byte.                            *)
ShownAmount(amount) ==
  IF amount < Kibi THEN amount * 100
  ELSE Hundredths(amount, divisor_of(amount)) * unit_of(amount)

(* Digits of a whole number: 2^64 - 1 bytes are a number of GiB with 11.     *)
Digits(n) == 1 + Cardinality({i \in 1..10 : n \div 10^(i - 1) >= 10})

(* Characters of the number, with its point and two decimals, and " kiB".    *)
NumberLength(amount) ==
  IF amount < Kibi THEN Digits(amount)
  ELSE Digits(Hundredths(amount, divisor_of(amount)) \div 100) + 3

UnitLength(amount) == IF amount < Kibi THEN 2 ELSE 4

(* add_to_buffer(): is the rest of the buffer too short for the text?        *)
no_room(remaining, text) == remaining < text

(* Characters write_into() returns.  A to_chars() that finds no room leaves  *)
(* its pointer at the end of the buffer.                                     *)
write_into(amount, size) ==
  LET used == IF NumberLength(amount) <= size THEN NumberLength(amount) ELSE size
  IN IF no_room(size - used, UnitLength(amount)) THEN 0
     ELSE used + UnitLength(amount)

----------------------------------------------------------------------------
(* std::chrono::ceil of what the larger unit leaves.                         *)
ceil_rest(rest, unit) == ((rest + unit - 1) \div unit) * unit

(* What operator<< of duration prints, back in nanoseconds: one unit, cut    *)
(* off, below two minutes; then two units, the smaller one rounded up.       *)
ShownTime(time) ==
  LET cut(unit) == (time \div unit) * unit
      two(large, small) == cut(large) + ceil_rest(time - cut(large), small)
  IN CASE time < 2 * microsecond -> time
       [] time >= 2 * microsecond /\ time < 2 * millisecond -> cut(microsecond)
       [] time >= 2 * millisecond /\ time < 2 * second -> cut(millisecond)
       [] time >= 2 * second /\ time < 2 * minute -> cut(second)
       [] time >= 2 * minute /\ time < 2 * hour -> two(minute, second)
       [] OTHER -> two(hour, minute)
----------------------------------------------------------------------------
(* A larger amount never prints as a smaller one: not where the unit         *)
(* changes, and not where rounding reaches it first ("1024.00 kiB").         *)
AmountsInOrder == [][ShownAmount(input) <= ShownAmount(input')]_<<input, buffer>>

(* From two minutes on the time printed is at least the time, and less than  *)
(* one of the smaller units above it, although its two parts are rounded     *)
(* apart (the smaller may print as 60).                                      *)
LongTimesRoundUp ==
  input >= 2 * minute =>
    LET small == IF input < 2 * hour THEN second ELSE minute
    IN ShownTime(input) - input \in 0 .. small - 1

(* An amount is printed with its unit or not at all, whatever the buffer:    *)
(* never a number that lost its unit or its last digits.                     *)
AllOrNothing ==
  LET whole == NumberLength(input) + UnitLength(input)
  IN write_into(input, buffer) = IF whole <= buffer THEN whole ELSE 0
=============================================================================
