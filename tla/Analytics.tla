------------------------------ MODULE Analytics ------------------------------
(***************************************************************************)
(* What the dashboard, the charts and the reports say about the leftovers  *)
(* of a range of days, as functions of the state of the tables. Each query *)
(* sees one state; the queries of a page are transactions of their own, so *)
(* that figures of two of them compare only while nobody writes.           *)
(*                                                                         *)
(* Days are numbers; day 0 is a Monday. The service date of a leftover and *)
(* the bucket of a chart are both made of preparedAt, in the time zone of  *)
(* the process and of the database, which are the same in the deployment.  *)
(* Weights are milligrams, since quantities are thousandths. Rates, prices *)
(* and emissions are quotients and multiples of these figures.             *)
(***************************************************************************)
EXTENDS Leftovers, FiniteSetsExt, Functions

CONSTANTS
  Dish,
  menu,           \* of each leftover its dish, of each dish its weight and fate
  servedOn,       \* the day a leftover was prepared
  firstsOfMonth,  \* the days that begin a month
  Ranges,         \* the ranges that are looked at
  NaN             \* what arithmetic makes of fields that are not there

ASSUME AnalyticsAssumption ==
  /\ menu \in [dish : [Leftover -> Dish], weight : [Dish -> Nat], archived : SUBSET Dish]
  /\ servedOn \in [Leftover -> Nat]
  /\ 0 \in firstsOfMonth /\ firstsOfMonth \subseteq Nat
  /\ Ranges \subseteq [from : Nat, to : Nat]
  /\ IsFiniteSet(Leftover) /\ IsFiniteSet(Dish)
  /\ NaN \notin [leftover : Int, reused : Int, sold : Int, donated : Int, binned : Int]

\* kgPerUnit: a thousand for a dish sold by the kilogram, none if not weighed.
WeightPerUnit(l) == menu.weight[menu.dish[l]]

InRange(range) ==
  {l \in Leftover : leftover[l].status # "absent" /\ servedOn[l] \in range.from .. range.to}

\* The disposition joined to a leftover, zeroes when there is none.
ShareOf(l) ==
  IF decided[l] = Undecided THEN [retain |-> 0, sell |-> 0, donate |-> 0, waste |-> 0]
  ELSE decided[l].split

Weighed(S, part) == SumFunctionOnSet([l \in Leftover |-> part[l] * WeightPerUnit(l)], S)

Recorded == [l \in Leftover |-> leftover[l].qty]

\* Faulty variant: an inner join, which drops what is not decided yet.
FiguresOfDecided(S) ==
  LET D == {l \in S : decided[l] # Undecided}
  IN [leftover |-> Weighed(D, Recorded),
      reused |-> Weighed(D, [l \in Leftover |-> ShareOf(l).retain]),
      sold |-> Weighed(D, [l \in Leftover |-> ShareOf(l).sell]),
      donated |-> Weighed(D, [l \in Leftover |-> ShareOf(l).donate]),
      binned |-> Weighed(D, [l \in Leftover |-> ShareOf(l).waste])]

Figures(S) ==
  [leftover |-> Weighed(S, Recorded),
   reused |-> Weighed(S, [l \in Leftover |-> ShareOf(l).retain]),
   sold |-> Weighed(S, [l \in Leftover |-> ShareOf(l).sell]),
   donated |-> Weighed(S, [l \in Leftover |-> ShareOf(l).donate]),
   binned |-> Weighed(S, [l \in Leftover |-> ShareOf(l).waste])]

RecoveredQty(f) == f.reused + f.sold + f.donated

Unweighed(S) == {l \in S : WeightPerUnit(l) = 0}

Dashboard(range) ==
  LET S == InRange(range)
      f == Figures(S)
  IN [leftover |-> f.leftover, recovered |-> RecoveredQty(f), binned |-> f.binned,
      unconvertible |-> SumFunctionOnSet(Recorded, Unweighed(S))]

-----------------------------------------------------------------------------
FirstOfMonth(d) == Max({m \in firstsOfMonth : m <= d})

\* date_trunc in Postgres, whose weeks begin on a Monday.
DateTrunc(grain, d) ==
  CASE grain = "day" -> d [] grain = "week" -> d - (d % 7) [] grain = "month" -> FirstOfMonth(d)

OutcomeSeries(range, grain) ==
  LET bucket(l) == DateTrunc(grain, servedOn[l])
  IN [b \in {bucket(l) : l \in InRange(range)} |-> Figures({l \in InRange(range) : bucket(l) = b})]

\* Faulty variant: stops before the last day.
EachDayBefore(range) == range.from .. range.to - 1

EachDay(range) == range.from .. range.to

\* getUTCDay counts from Sunday.
EachWeek(range) ==
  LET first == range.from - ((range.from + 1) % 7)
  IN {d \in first .. range.to : (d - first) % 7 = 0}

EachMonth(range) ==
  {m \in firstsOfMonth : FirstOfMonth(range.from) <= m /\ m <= range.to}

Keys(range, grain) ==
  CASE grain = "day" -> EachDay(range)
    [] grain = "week" -> EachWeek(range)
    [] grain = "month" -> EachMonth(range)

\* zeroFillBuckets: a bucket without a row is a copy of the first row, which
\* may be any, or has no fields when there are no rows.
ZeroFillBuckets(rows, keys) ==
  LET templates == IF DOMAIN rows = {} THEN {NaN} ELSE {rows[b] : b \in DOMAIN rows}
  IN {[k \in keys |-> IF k \in DOMAIN rows THEN rows[k] ELSE template] : template \in templates}

WasteBucket(f) ==
  IF f = NaN THEN [surplus |-> NaN, waste |-> NaN]
  ELSE [surplus |-> IF f.leftover > f.binned THEN f.leftover - f.binned ELSE 0,
        waste |-> f.binned]

RecoveryBucket(f) ==
  IF f = NaN
  THEN [reused |-> NaN, sold |-> NaN, donated |-> NaN,
        recovered |-> NaN]
  ELSE [reused |-> f.reused, sold |-> f.sold, donated |-> f.donated,
        recovered |-> RecoveredQty(f)]

\* loadWasteSeries, loadRecoverySeries: one of these.
WasteSeries(range, grain) ==
  {[k \in DOMAIN rows |-> WasteBucket(rows[k])] :
     rows \in ZeroFillBuckets(OutcomeSeries(range, grain), Keys(range, grain))}

RecoverySeries(range, grain) ==
  {[k \in DOMAIN rows |-> RecoveryBucket(rows[k])] :
     rows \in ZeroFillBuckets(OutcomeSeries(range, grain), Keys(range, grain))}

\* loadDishRecovery lists the dishes that are not archived.
DishRecovery(range) ==
  [d \in Dish \ menu.archived |-> Figures({l \in InRange(range) : menu.dish[l] = d})]

\* buildReportTable of a comprehensive report: a line for each day of either.
ComprehensiveTables(range) ==
  {[day \in DOMAIN w \cup DOMAIN r |->
      [waste |-> IF day \in DOMAIN w THEN w[day].waste ELSE 0,
       recovered |-> IF day \in DOMAIN r THEN r[day].recovered ELSE 0]] :
     w \in WasteSeries(range, "day"), r \in RecoverySeries(range, "day")}

-----------------------------------------------------------------------------
(***************************************************************************)
(* The dashboard accounts for every leftover once: what was recorded is    *)
(* recovered, binned or not decided yet, up to the tolerance of each split *)
(* and apart from the dishes without a weight, which it names.             *)
(***************************************************************************)
DashboardAccountsForAll ==
  \A range \in Ranges :
    LET board == Dashboard(range)
        open == {l \in InRange(range) : decided[l] = Undecided}
        slack == Weighed(InRange(range), [l \in Leftover |-> StoredTolerance])
    IN  /\ board.leftover - board.recovered - board.binned
             - Weighed(open, Recorded) \in -slack .. slack
        /\ board.unconvertible = 0 <=> Unweighed(InRange(range)) = {}

(***************************************************************************)
(* The rows of the day and month queries add up to the dashboard: no       *)
(* leftover of the range falls between two days or two months or is        *)
(* counted twice, the lines of these days and months show them as they     *)
(* are, and the dishes leave out just those that are archived.             *)
(*                                                                         *)
(* Nothing is said of the other lines of a chart. A day or month without a *)
(* row is a copy of another one (zeroFillBuckets), and none of the keys of *)
(* a weekly chart, which are Sundays, is ever matched by a row, which      *)
(* begins on a Monday: as they are drawn, those charts do not add up.      *)
(***************************************************************************)
SeriesAddUp ==
  \A range \in Ranges :
    LET board == Dashboard(range)
        days == DOMAIN OutcomeSeries(range, "day")
        months == DOMAIN OutcomeSeries(range, "month")
        gone == {l \in InRange(range) : menu.dish[l] \in menu.archived}
        dishes == DishRecovery(range)
    IN  /\ \A table \in ComprehensiveTables(range) :
             /\ days \subseteq DOMAIN table
             /\ SumFunction([d \in days |-> table[d].waste]) = board.binned
             /\ SumFunction([d \in days |-> table[d].recovered]) = board.recovered
        /\ \A series \in WasteSeries(range, "month") :
             /\ months \subseteq DOMAIN series
             /\ SumFunction([m \in months |-> series[m].waste]) = board.binned
        /\ SumFunction([d \in DOMAIN dishes |-> dishes[d].leftover])
             + Figures(gone).leftover = board.leftover
=============================================================================
