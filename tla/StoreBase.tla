----------------------------- MODULE StoreBase -----------------------------
(***************************************************************************)
(* What the two SQLite stores share: delivery identities, SQL NULL, the    *)
(* wall clock that leases are stamped with, and the two textual forms in   *)
(* which the stores write a time.                                          *)
(*                                                                         *)
(* Time is counted in ticks, TicksPerSecond of them to a second.  A store  *)
(* does not keep a time.Time: it keeps text, and a query compares text.    *)
(* What the text forgets or misorders is therefore part of the model.      *)
(***************************************************************************)
EXTENDS Integers

CONSTANTS
  Deliveries,       \* X-GitHub-Delivery IDs; an outbox ID is a hash of one
  None,             \* SQL NULL / no row
  Radix,            \* a fraction of a second is written in this base: 10 in the code
  Digits,           \* with at most so many digits: 9 in the code, nanoseconds
  TicksPerSecond,   \* resolution of the clock
  MaxTime           \* bound: the clock stops here

ASSUME ClockAssumption ==
  /\ Radix \in Nat \ {0, 1} /\ Digits \in Nat
  /\ TicksPerSecond \in Nat \ {0} /\ TicksPerSecond = Radix ^ Digits
  /\ MaxTime \in Nat

VARIABLE now        \* the current time, in ticks

ClockTypeOK == now \in 0..MaxTime

ClockInit == now = 0

Tick ==
  /\ now < MaxTime
  /\ now' = now + 1

Second(t) == t \div TicksPerSecond

(***************************************************************************)
(* formatTime of githubcontrollerstore: RFC3339, truncated to the second.  *)
(***************************************************************************)
WholeSecond(t) == Second(t) * TicksPerSecond

(***************************************************************************)
(* formatTime of githubinbox: RFC3339Nano, which drops the trailing zeros  *)
(* of the fraction and, on a whole second, its point.  A text that stops   *)
(* goes on with 'Z', which comes after every digit and after '.': as texts *)
(* "05.12Z" < "05.1Z" < "05.2Z" < "05Z".  Place k of the fraction holds a  *)
(* digit when one of the digits from place k on is not zero.               *)
(***************************************************************************)
Fraction(t) == t % TicksPerSecond

Written(t, k) == Fraction(t) % Radix ^ (Digits - k + 1) # 0

\* The character at place k of the fraction; Radix stands for 'Z'.
Character(t, k) ==
  IF Written(t, k) THEN (Fraction(t) \div Radix ^ (Digits - k)) % Radix ELSE Radix

FractionBefore(e, n) ==
  \E k \in 1..Digits : /\ Character(e, k) < Character(n, k)
                       /\ \A j \in 1..k-1 : Character(e, j) = Character(n, j)

\* The stored text of time e is at most the text of time n.
TextAtMost(e, n) ==
  \/ Second(e) < Second(n)
  \/ Second(e) = Second(n) /\ (e = n \/ FractionBefore(e, n))
=============================================================================
