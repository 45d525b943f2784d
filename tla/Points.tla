------------------------------- MODULE Points -------------------------------
(***************************************************************************)
(* Metric points and the usage computed from two of them                   *)
(* (pkg/storage/types.go).                                                 *)
(*                                                                         *)
(* A time is a natural number and 0 is Go's zero time.Time, the one an     *)
(* unset field holds.  Durations are in the same unit, and the cumulative  *)
(* CPU counter is in cores times that unit, so that a quotient of the two  *)
(* is a number of cores.                                                   *)
(***************************************************************************)
EXTENDS Integers

CONSTANTS
    MaxDuration,  \* the largest time.Duration: Time.Sub saturates at it
    MaxInt64,     \* math.MaxInt64
    NoPoint,      \* stands for "the map has no such key"
    Undefined     \* what uint64(x) yields for an infinite, NaN or negative x

(* Every measured time lies more than MaxDuration after the zero time: a    *)
(* time.Duration spans 292 years and the zero time is the year 1.           *)
ASSUME MaxDurationAssumption == MaxDuration \in Nat \ {0}

ASSUME MaxInt64Assumption == MaxInt64 \in Nat

Time == Nat

UInt64 == 0..(2 * MaxInt64 + 1)

ZeroTime == 0

MetricsPoint ==
    [StartTime : Time, Timestamp : Time, CumulativeCpuUsed : UInt64, MemoryUsage : UInt64]

ASSUME NoPointAssumption == NoPoint \notin MetricsPoint

(* A resource.Quantity: an int64 and the decimal exponent added to its scale. *)
Quantity == [amount : 0..MaxInt64, exponent : {0, 1}]

ASSUME UndefinedAssumption == Undefined \notin Quantity

(* The value of a map read whose key is absent. *)
ZeroPoint ==
    [StartTime |-> ZeroTime, Timestamp |-> ZeroTime, CumulativeCpuUsed |-> 0, MemoryUsage |-> 0]

OptPoint == MetricsPoint \cup {NoPoint}

(* t.Sub(u), which saturates at the largest duration. *)
Sub(t, u) == IF t - u > MaxDuration THEN MaxDuration ELSE t - u

-----------------------------------------------------------------------------
(* Mutant: the scale stays what it was. *)
uint64QuantityUnscaled(val) ==
    [amount |-> IF val > MaxInt64 THEN val \div 10 ELSE val, exponent |-> 0]

(* A value that does not fit in an int64 gives up its last decimal digit. *)
uint64Quantity(val) ==
    IF val > MaxInt64 THEN [amount |-> val \div 10, exponent |-> 1]
    ELSE [amount |-> val, exponent |-> 0]

Value(q) == IF q.exponent = 0 THEN q.amount ELSE 10 * q.amount

(* Mutant: an idle container, whose counter stands still, is an error too. *)
UsageErrorIdle(last, prev) ==
    \/ last.StartTime < prev.StartTime
    \/ last.CumulativeCpuUsed <= prev.CumulativeCpuUsed

(* The two errors of resourceUsage: the counter was reset between prev and  *)
(* last, or the points belong to lives in the wrong order.                  *)
UsageError(last, prev) ==
    \/ last.StartTime < prev.StartTime
    \/ last.CumulativeCpuUsed < prev.CumulativeCpuUsed

(* Mutant: the operands of the difference are swapped. *)
CpuUsageSwapped(last, prev) ==
    LET window == Sub(last.Timestamp, prev.Timestamp)
    IN  IF window > 0
        THEN uint64Quantity((prev.CumulativeCpuUsed - last.CumulativeCpuUsed) \div window)
        ELSE Undefined

(* Mutant: the difference is not divided by the window. *)
CpuUsageTotal(last, prev) == uint64Quantity(last.CumulativeCpuUsed - prev.CumulativeCpuUsed)

(* uint64(float64(difference) / window.Seconds()): Go defines the conversion *)
(* only when the window is positive.                                         *)
CpuUsage(last, prev) ==
    LET window == Sub(last.Timestamp, prev.Timestamp)
    IN  IF window > 0
        THEN uint64Quantity((last.CumulativeCpuUsed - prev.CumulativeCpuUsed) \div window)
        ELSE Undefined

(* Mutant: the operands of the window are swapped. *)
resourceUsageBackward(last, prev) ==
    [Timestamp |-> last.Timestamp,
     Window    |-> Sub(prev.Timestamp, last.Timestamp),
     Cpu       |-> CpuUsage(last, prev),
     Memory    |-> uint64Quantity(last.MemoryUsage)]

(* What resourceUsage(last, prev) returns when it returns no error. *)
resourceUsage(last, prev) ==
    [Timestamp |-> last.Timestamp,
     Window    |-> Sub(last.Timestamp, prev.Timestamp),
     Cpu       |-> CpuUsage(last, prev),
     Memory    |-> uint64Quantity(last.MemoryUsage)]
=============================================================================
