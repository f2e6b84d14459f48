----------------------------- MODULE SoaSerial -----------------------------
(***************************************************************************)
(* The zone serial of wunderdns/utils.go.  A serial is the decimal number  *)
(* YYYYMMDDnn; generateNewSerial moves it to the first number of the       *)
(* current day, or one up when it is already past that.                    *)
(*                                                                         *)
(* A day is its YYYYMMDD number.  The code reserves two decimal digits for *)
(* the changes of one day; SerialsPerDay is that 100 as a parameter, so    *)
(* that a small instance reaches a day with more changes than it has       *)
(* numbers.  strconv.Atoi's error is overwritten before anybody reads it,  *)
(* so a serial that is not a number counts as 0.                           *)
(***************************************************************************)
EXTENDS Integers

CONSTANT SerialsPerDay

ASSUME SerialsPerDayAssumption == SerialsPerDay \in Nat \ {0}

DateSerial(day) == day * SerialsPerDay

Atoi(field) == IF field \in Nat THEN field ELSE 0

\* Variant of GenerateNewSerial: a serial of the day is kept.
GenerateSerialOfDay(old, day) ==
  IF Atoi(old) >= DateSerial(day) THEN Atoi(old) ELSE DateSerial(day)

GenerateNewSerial(old, day) ==
  IF Atoi(old) >= DateSerial(day) THEN Atoi(old) + 1 ELSE DateSerial(day)
=============================================================================
