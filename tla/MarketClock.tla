---------------------------- MODULE MarketClock ----------------------------
(***************************************************************************)
(* The interest rate of a market over time: the three kinds of curve, the  *)
(* compounding over the seconds since the last update, and a market that   *)
(* is used now and then.  Every instruction calls sync_clock first, which  *)
(* applies the interest of the whole time since the last success; when it  *)
(* fails, nothing changes and the time goes on counting.                   *)
(*                                                                         *)
(* IFixedPoint is the integer of its bits, as in FixedPoint.  A product is *)
(* rounded down and a quotient towards zero, as the fixed crate does.      *)
(***************************************************************************)
EXTENDS FixedPoint, Sequences, FiniteSetsExt

CONSTANTS POLYLINE_MAX_POINTS,
          MaxU32,             \* 2^32 - 1 in the code
          SECONDS_PER_YEAR,   \* how many ticks of the model make a year
          InitialCurves,      \* the curves that markets are created with
          Utilisations,       \* utilisation rates, as IFixedPoint
          MaxIdle             \* bound: ticks between two instructions

VARIABLES curve,    \* [kind, rate] with the rate, the points or rate_at_target
          util,     \* utilisation rate since the last instruction
          idle      \* ticks since last_update_unix_timestamp

vars == <<curve, util, idle>>

\* Division that truncates, of either sign.
quot(a, b) == IF a < 0 THEN -((-a) \div b) ELSE a \div b

from_ratio(n, d) == quot(n * IOne, d)

from_apr(apr) == quot(apr, SECONDS_PER_YEAR)

-----------------------------------------------------------------------------
(***************************************************************************)
(* PolylineInterestRateCurve: a borrow rate that is piecewise linear in    *)
(* the utilisation.  A point is [u, b], its utilisation and its borrow     *)
(* rate in basis points; b = 0 marks the unused end of the array.          *)
(***************************************************************************)
initialized(p) == p.b # 0

\* The points that are used come first, and both coordinates rise.
validate_points(ps) ==
  /\ Len(ps) \in 1..POLYLINE_MAX_POINTS
  /\ ps[1].u = 0 /\ ps[1].b # 0
  /\ \A i \in 2..Len(ps) :
        initialized(ps[i]) =>
          initialized(ps[i - 1]) /\ ps[i].u > ps[i - 1].u /\ ps[i].b > ps[i - 1].b

\* points(): those before the first that is not initialized.
points(c) ==
  SubSeq(c, 1, Max({n \in 1..Len(c) : \A i \in 1..n : initialized(c[i])}))

\* Where the loop stops: at the first point beyond u, or at the last point, whose
\* segment is extended.
SegmentEnd(ps, u) == Min({e \in 2..Len(ps) : u < ps[e].u} \union {Len(ps)})

\* Mutant: the difference of the rates is divided before it is multiplied.
value_at_DivideFirst(start, end, u) ==
  LET rise == ((end.b - start.b) \div (end.u - start.u)) * (u - start.u)
  IN  Min({MaxU32, start.b + (rise % (MaxU32 + 1))})

\* Line::value_at: the quotient is cast to u32, the sum saturates.
value_at(start, end, u) ==
  LET rise == ((end.b - start.b) * (u - start.u)) \div (end.u - start.u)
  IN  Min({MaxU32, start.b + (rise % (MaxU32 + 1))})

apr_borrow_rate_bps(c, u) ==
  LET ps == points(c)
      e  == SegmentEnd(ps, u)
  IN  IF Len(ps) = 1 THEN ps[1].b ELSE value_at(ps[e - 1], ps[e], u)

-----------------------------------------------------------------------------
(***************************************************************************)
(* checked_exp.                                                            *)
(***************************************************************************)
MAX_EXP_ARG == from_ratio(5475, 100)

MIN_EXP_ARG == from_ratio(-3321, 100)

LN_2 == from_ratio(69315, 100000)

exp_7_terms(x) ==
  LET t2 == quot(i_mul(x, x), 2)
      t3 == quot(i_mul(x, t2), 3)
      t4 == quot(i_mul(x, t3), 4)
      t5 == quot(i_mul(x, t4), 5)
      t6 == quot(i_mul(x, t5), 6)
  IN  IOne + x + t2 + t3 + t4 + t5 + t6

\* Bound on an exponential.  A rate at target times this is beyond its maximum
\* already, and of a compounded rate only the sign is used.  The shifts below stop
\* where the result is zero or beyond this bound.
ExpCap == 256 * IOne

checked_shift(x, q) ==
  IF q < 0 THEN x \div 2^Min({-q, 24}) ELSE Min({ExpCap, x * 2^Min({q, 9})})

checked_exp(x) ==
  LET half == LN_2 \div 2
      q    == quot((IF x < 0 THEN x - half ELSE x + half) * IOne, LN_2) \div IOne
  IN  IF x <= MIN_EXP_ARG THEN {0}
      ELSE IF x > MAX_EXP_ARG THEN {}
      ELSE {checked_shift(exp_7_terms(x - q * LN_2), q)}

-----------------------------------------------------------------------------
(***************************************************************************)
(* AdaptiveInterestRateCurve.                                              *)
(***************************************************************************)
TARGET_UTILISATION_RATE == from_ratio(9, 10)

ONE_MINUS_TARGET_UTILISATION_RATE == from_ratio(1, 10)

ADJUSTMENT_SPEED == from_ratio(50, SECONDS_PER_YEAR)

CURVE_STEEPNESS == 4

INITIAL_RATE_AT_TARGET == from_apr(from_ratio(4, 100))

MIN_RATE_AT_TARGET == from_apr(from_ratio(1, 100))

MAX_RATE_AT_TARGET == from_apr(from_ratio(200, 100))

clamp(x, lo, hi) == Max({lo, Min({x, hi})})

\* Mutant: the argument of the exponential is not clamped.
new_rate_at_target_ArgumentUnclamped(start, linear_adaptation) ==
  {clamp(i_mul(start, e), MIN_RATE_AT_TARGET, MAX_RATE_AT_TARGET) : e \in checked_exp(linear_adaptation)}

new_rate_at_target(start, linear_adaptation) ==
  {clamp(i_mul(start, e), MIN_RATE_AT_TARGET, MAX_RATE_AT_TARGET) :
     e \in checked_exp(clamp(linear_adaptation, MIN_EXP_ARG, MAX_EXP_ARG))}

\* The distance of the utilisation from the target, in -1..1 when the utilisation
\* is at most one.
Err(u) ==
  quot((u - TARGET_UTILISATION_RATE) * IOne,
       IF u > TARGET_UTILISATION_RATE THEN ONE_MINUS_TARGET_UTILISATION_RATE
                                      ELSE TARGET_UTILISATION_RATE)

Curve(rate_at_target, err) ==
  LET coeff == IF err < 0 THEN IOne - quot(IOne, CURVE_STEEPNESS)
                          ELSE (CURVE_STEEPNESS - 1) * IOne
  IN  i_mul(i_mul(coeff, err) + IOne, rate_at_target)

Average(start, mid, end) == quot(start + end + 2 * mid, 4)

\* Mutant: the adaptation has the wrong sign.
LinearAdaptation_Reversed(u, elapsed) == -i_mul(ADJUSTMENT_SPEED, Err(u)) * elapsed

LinearAdaptation(u, elapsed) == i_mul(ADJUSTMENT_SPEED, Err(u)) * elapsed

\* The rate of the period and the rate at target after it.
compute_next_rates(start, u, elapsed) ==
  LET linear == LinearAdaptation(u, elapsed)
  IN  IF start = 0
      THEN {<<Curve(INITIAL_RATE_AT_TARGET, Err(u)), INITIAL_RATE_AT_TARGET>>}
      ELSE IF linear = 0
      THEN {<<Curve(start, Err(u)), start>>}
      ELSE {<<Curve(Average(start, mid, end), Err(u)), end>> :
              mid \in new_rate_at_target(start, quot(linear, 2)),
              end \in new_rate_at_target(start, linear)}

-----------------------------------------------------------------------------
(***************************************************************************)
(* The kinds of curve, and the clock of the market.                        *)
(***************************************************************************)
ONE_IN_BPS == 10000

utilisation_rate_bps(u) == (u * ONE_IN_BPS) \div IOne

is_valid(c) ==
  CASE c.kind = "Fixed"    -> c.rate \in 0..MAX_EXP_ARG
    [] c.kind = "Polyline" -> validate_points(c.rate)
    [] c.kind = "Adaptive" -> TRUE

\* The curve afterwards and the rate of the period.
borrow_rate_per_second(c, u, elapsed) ==
  CASE c.kind = "Fixed"    -> {<<c, c.rate>>}
    [] c.kind = "Polyline" ->
         {<<c, from_apr(from_ratio(apr_borrow_rate_bps(c.rate, utilisation_rate_bps(u)), ONE_IN_BPS))>>}
    [] c.kind = "Adaptive" ->
         {<<[c EXCEPT !.rate = r[2]], r[1]>> : r \in compute_next_rates(c.rate, u, elapsed)}

\* coumpounding_interest_rate_during_elapsed_seconds.
compounding(rate, elapsed) == {e - IOne : e \in checked_exp(rate * elapsed)}

\* The curves that sync_clock may leave.  A negative interest is an error.
sync_clock(c, u, elapsed) ==
  IF elapsed = 0 THEN {c}
  ELSE {r[1] : r \in {x \in borrow_rate_per_second(c, u, elapsed) :
                        \E i \in compounding(x[2], elapsed) : i >= 0}}

Init ==
  /\ curve \in {c \in InitialCurves : is_valid(c)}
  /\ util = 0
  /\ idle = 0

Tick ==
  /\ idle < MaxIdle
  /\ idle' = idle + 1
  /\ UNCHANGED <<curve, util>>

\* Any instruction on the market: sync_clock, then the change of the totals.
Operate(u) ==
  /\ curve' \in sync_clock(curve, util, idle)
  /\ util' = u
  /\ idle' = 0

Next == Tick \/ \E u \in Utilisations : Operate(u)

Spec == Init /\ [][Next]_vars

-----------------------------------------------------------------------------
\* Type invariant: the rate at target is unset or within its bounds.
TypeOK ==
  /\ curve.kind = "Adaptive" =>
       curve.rate \in {0} \union MIN_RATE_AT_TARGET..MAX_RATE_AT_TARGET
  /\ util \in Utilisations
  /\ idle \in 0..MaxIdle

\* "a market idle at extreme utilization cannot permanently fail sync_clock"
\* (AdaptiveInterestRateCurve): however long nobody used the market, the next
\* instruction finds a clock that can be synchronised.  When it cannot, it never
\* can again, since the time since the last update only grows.
NeverBricked == sync_clock(curve, util, idle) # {}

\* The rate at target rises only while the market is used more than the target,
\* and falls only while it is used less, whenever it is synchronised.
RateFollowsUse ==
  [][curve.kind = "Adaptive" /\ curve.rate # 0 =>
       /\ curve'.rate > curve.rate => util > TARGET_UTILISATION_RATE
       /\ curve'.rate < curve.rate => util < TARGET_UTILISATION_RATE]_vars

\* The rate is on the line between the two points around the utilisation, rounded
\* down, and never off it by a whole basis point.
RateOnTheCurve ==
  curve.kind = "Polyline" =>
    LET u    == utilisation_rate_bps(util)
        rate == apr_borrow_rate_bps(curve.rate, u)
    IN  \A i \in 2..Len(points(curve.rate)) :
          LET p == curve.rate[i - 1]
              q == curve.rate[i]
          IN  p.u <= u /\ u <= q.u =>
                /\ (rate - p.b) * (q.u - p.u) <= (q.b - p.b) * (u - p.u)
                /\ (q.b - p.b) * (u - p.u) < (rate + 1 - p.b) * (q.u - p.u)

=============================================================================
