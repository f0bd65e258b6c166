------------------------------ MODULE MCClock ------------------------------
(***************************************************************************)
(* A year of ten ticks and numbers of twelve fractional bits: the rates of *)
(* the curves are then 4, 16 and 819 units per tick.                       *)
(***************************************************************************)
EXTENDS MarketClock

Point(u, b) == [u |-> u, b |-> b]

\* A polyline of up to four points, the unused ones zero.
Used(c, n) == [i \in 1..4 |-> IF i <= n THEN c[i] ELSE Point(0, 0)]

\* The adaptive curve, a fixed rate of 10% a year, the default polyline and every
\* array of points on a small grid: the ones the program accepts are used.
MCCurves ==
  {[kind |-> "Adaptive", rate |-> 0],
   [kind |-> "Fixed", rate |-> from_apr(from_ratio(10, 100))],
   [kind |-> "Polyline", rate |-> <<Point(0, 200), Point(9200, 700), Point(10000, 10000), Point(0, 0)>>]}
  \union {[kind |-> "Polyline", rate |-> Used(c, n)] :
             c \in [1..4 -> [u : {0, 3000, 9000, 10000}, b : {1, 500, 700, 10000}]], n \in 1..4}

MCUtilisations ==
  {from_ratio(0, 1), from_ratio(6, 10), from_ratio(9, 10), from_ratio(92, 100), from_ratio(1, 1)}
=============================================================================
