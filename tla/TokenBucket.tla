---------------------------- MODULE TokenBucket ----------------------------
(***************************************************************************)
(* A rate.Limiter of golang.org/x/time, as rate_limiter.go uses it.  The    *)
(* library keeps a level that may go below zero: a reservation takes its    *)
(* tokens at once, and its holder may act when the level would be back at   *)
(* zero.  Time is counted in ticks, tokens in what one tick refills; so a   *)
(* bucket holds one minute, and is full after one.                          *)
(***************************************************************************)
EXTENDS Integers

CONSTANT Burst    \* ticks in a minute

Full == [level |-> Burst, last |-> 0]

(* Fault: a bucket that is not used fills without end.                      *)
RefillWithoutEnd(b) == [b EXCEPT !.level = @ + 1]

Refill(b) == IF b.level < Burst THEN [level |-> b.level + 1, last |-> b.last] ELSE b

Delay(level) == IF level < 0 THEN -level ELSE 0

(* reserveN: last is the moment at which the latest reservation may act.    *)
Reserve(b, n, now) ==
  [level |-> b.level - n, last |-> now + Delay(b.level - n)]

(* When the reservation just made may act.                                  *)
ActAt(b, n, now) == now + Delay(b.level - n)

(* CancelAt: what was reserved behind the reservation is not given back.    *)
Restored(b, n, act, now) ==
  IF act < now \/ n <= b.last - act THEN 0 ELSE n - (b.last - act)

Cancel(b, n, act, now) ==
  LET give  == Restored(b, n, act, now)
      level == IF b.level + give > Burst THEN Burst ELSE b.level + give
  IN  IF give = 0 THEN b
      ELSE [level |-> level,
            last  |-> IF act = b.last /\ act - n >= now THEN act - n ELSE b.last]

=============================================================================
