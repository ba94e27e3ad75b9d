--------------------------------- MODULE ETime --------------------------------
(***************************************************************************)
(* etime.c, as operators on times [sec, usec].  The 1000 of the code is    *)
(* the constant K; differences are ints, which wrap at IntSize = 2^32.     *)
(* The 64-bit sums in between do not overflow before the year 292000000.   *)
(***************************************************************************)
EXTENDS Integers

CONSTANTS K, IntSize

Time(s, u) == [sec |-> s, usec |-> u]

(* C's division and remainder, towards 0.                                  *)
Quot(a, b) == IF a >= 0 THEN a \div b ELSE -((-a) \div b)
Rem(a, b)  == a - b * Quot(a, b)

ToInt(n) == ((n + IntSize \div 2) % IntSize) - IntSize \div 2

time_signed_delta(t1, t2) ==
  ToInt((t1.sec - t2.sec) * K + Quot(t1.usec - t2.usec, K))

time_delta(t1, t2) ==
  LET d == time_signed_delta(t1, t2) IN IF d < 0 THEN ToInt(-d) ELSE d

time_great(t1, t2) ==
  CASE t1.sec > t2.sec -> 1
    [] t1.sec < t2.sec -> -1
    [] t1.sec = t2.sec /\ t1.usec > t2.usec -> 1
    [] t1.sec = t2.sec /\ t1.usec = t2.usec -> 0
    [] t1.sec = t2.sec /\ t1.usec < t2.usec -> -1

time_less(t1, t2) == time_great(t2, t1)

(* Mutant: the part below a second is not carried on.                      *)
MovedWholeSeconds(t, n) == Time(t.sec + Quot(n, K), t.usec)

(* What is below a millisecond is dropped.                                 *)
Moved(t, n) ==
  LET ms == t.sec * K + Quot(t.usec, K) + n
  IN Time(Quot(ms, K), Rem(ms, K) * K)

time_add(t, increment) == Moved(t, increment)
time_subtract(t, decrement) == Moved(t, -decrement)
=============================================================================
