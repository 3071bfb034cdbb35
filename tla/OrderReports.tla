----------------------------- MODULE OrderReports -----------------------------
(***************************************************************************)
(* The figures of the back office: revenue reports with their trend, table *)
(* and branches (RevenueReportsRepository, RevenueReportsService) and the  *)
(* dashboard (DashboardRepository, DashboardService), next to the orders   *)
(* and histories that they count.  Each figure is a query of its own; most *)
(* count an order on the day its history says it was completed, in         *)
(* Vietnam, while the database stores UTC without a time zone.  An order   *)
(* is known here by its status; OrderPayments has what moves it.           *)
(***************************************************************************)
EXTENDS Integers, FiniteSets, FiniteSetsExt, Functions

CONSTANTS
    Sales,           \* orders
    Outlets,         \* branches
    OutletRank,      \* the order of their ids
    Unsold,
    Subtotals,       \* subtotal_amount
    ShippingFees,    \* shipping_fee
    Copies,          \* quantities
    Moments,         \* the hours, in UTC, at which something happens
    SessionOffset,   \* hours that the database session's time zone is ahead of UTC
    PeriodStarts,    \* the first days of weeks and months
    Presets,         \* 7, 30 and 90 days
    MaxRangeDays,    \* MAX_RANGE_DAYS: 366
    RecentWeeks      \* weeks on a branch's dashboard: 4

\* The hours that are looked at have a first and a last one; a branch is told
\* from all of them and from the others.
ASSUME ReportParameters ==
    /\ Moments \subseteq Int
    /\ \E first, last \in Moments : \A m \in Moments : first <= m /\ m <= last
    /\ Presets \subseteq Nat
    /\ IsFiniteSet(Sales) /\ IsFiniteSet(Outlets) /\ "GLOBAL" \notin Outlets
    /\ OutletRank \in [Outlets -> Int]
    /\ \A b, c \in Outlets : OutletRank[b] = OutletRank[c] => b = c
    /\ Subtotals \subseteq Int /\ ShippingFees \subseteq Int /\ Copies \subseteq Int

VARIABLES
    sale,            \* orders with their payments
    history,         \* order_status_histories: how orders ended, and when
    hour

reportVars == <<sale, history, hour>>

PayMethods == {"COD", "VNPAY"}
SaleStatuses == {"NONE", "PENDING_PAYMENT", "PAYMENT_FAILED", "PENDING", "COMPLETED", "CANCELLED"}

SaleRow == [status: SaleStatuses, outlet: Outlets \cup {Unsold}, method: PayMethods \cup {Unsold},
            goods: Subtotals \cup {0}, fee: ShippingFees \cup {0}, copies: Copies \cup {0},
            placed: Moments \cup {0}]
NoSale == [status |-> "NONE", outlet |-> Unsold, method |-> Unsold,
           goods |-> 0, fee |-> 0, copies |-> 0, placed |-> 0]

HistoryRow == [of: Sales, to: {"COMPLETED", "CANCELLED"}, at: Moments]

ReportTypeOK ==
    /\ sale \in [Sales -> SaleRow]
    /\ history \subseteq HistoryRow
    /\ hour \in Moments

FirstMoment == CHOOSE m \in Moments : \A n \in Moments : m <= n
LastMoment == CHOOSE m \in Moments : \A n \in Moments : n <= m

ReportInit ==
    /\ sale = [o \in Sales |-> NoSale]
    /\ history = {}
    /\ hour = FirstMoment

-----------------------------------------------------------------------------
(* Orders, as far as they are counted. *)

\* The rows about other statuses are counted nowhere.
Becomes(o, to) ==
    /\ sale' = [sale EXCEPT ![o].status = to]
    /\ history' = history \cup ({[of |-> o, to |-> to, at |-> hour]} \cap HistoryRow)
    /\ UNCHANGED hour

PlaceSale(o, b, method, goods, fee, n) ==
    LET status == IF method = "COD" THEN "PENDING" ELSE "PENDING_PAYMENT" IN
    /\ sale[o].status = "NONE"
    /\ sale' = [sale EXCEPT ![o] = [status |-> status, outlet |-> b, method |-> method,
                                    goods |-> goods, fee |-> fee, copies |-> n, placed |-> hour]]
    /\ UNCHANGED <<history, hour>>

PaySale(o)      == sale[o].status = "PENDING_PAYMENT" /\ Becomes(o, "PENDING")
CompleteSale(o) == sale[o].status = "PENDING" /\ Becomes(o, "COMPLETED")
RetrySale(o)    == sale[o].status = "PAYMENT_FAILED" /\ Becomes(o, "PENDING_PAYMENT")
CancelSale(o)   == sale[o].status \in {"PENDING_PAYMENT", "PAYMENT_FAILED", "PENDING"}
                   /\ Becomes(o, "CANCELLED")

\* A failure report; one that comes late reopens a cancelled order.
FailSale(o) ==
    /\ sale[o].method = "VNPAY" /\ sale[o].status \in {"PENDING_PAYMENT", "CANCELLED"}
    /\ Becomes(o, "PAYMENT_FAILED")

LaterHour == \E m \in Moments : m > hour /\ hour' = m /\ UNCHANGED <<sale, history>>

ReportNext ==
    \/ \E o \in Sales :
           \/ \E b \in Outlets, method \in PayMethods, goods \in Subtotals, fee \in ShippingFees,
                 n \in Copies : PlaceSale(o, b, method, goods, fee, n)
           \/ PaySale(o) \/ RetrySale(o) \/ CompleteSale(o) \/ CancelSale(o) \/ FailSale(o)
    \/ LaterHour

ReportSpec == ReportInit /\ [][ReportNext]_reportVars

-----------------------------------------------------------------------------
(* Days and ranges of days. *)

VietnamOffset == 7

\* vietnamDate, and parseVietnamDate: midnight of a day.
VietnamDay(h) == (h + VietnamOffset) \div 24
Midnight(d) == 24 * d - VietnamOffset

\* A range from its first to its last day.
DayRange(first, last) ==
    [first |-> first, last |-> last, from |-> Midnight(first), until |-> Midnight(last) + 24,
     days |-> last - first + 1]

\* resolveAnalyticsDateRange: a preset ends today; a custom range is given in full.
PresetRange(n) == DayRange(VietnamDay(hour) - (n - 1), VietnamDay(hour))
AcceptedRange(first, last) == first <= last /\ last - first + 1 <= MaxRangeDays

\* The comparison: as many days, up to the first one.
Comparison(r) == DayRange(r.first - r.days, r.first - 1)

\* Mutant: the end of a range belongs to it.
InRangeClosed(h, r) == h >= r.from /\ h <= r.until

InRange(h, r) == h >= r.from /\ h < r.until

-----------------------------------------------------------------------------
(* What is counted.  A scope is one branch or all of them (resolveAnalyticsScope). *)

InScope(o, scope) == scope = "GLOBAL" \/ sale[o].outlet = scope
PaidBy(o, method) == method = "ALL" \/ sale[o].method = method

\* completedCte, completedSql: DISTINCT orders with the moment of their history.
Completed(r, scope, method) ==
    {<<e.of, e.at>> : e \in {e \in history :
        /\ e.to = "COMPLETED" /\ sale[e.of].status = "COMPLETED"
        /\ InRange(e.at, r) /\ InScope(e.of, scope) /\ PaidBy(e.of, method)}}

\* terminalOutcomesCte.
TerminalOutcomes(r, scope, method) ==
    {e.of : e \in {e \in history :
        /\ e.to \in {"COMPLETED", "CANCELLED"} /\ sale[e.of].status = e.to
        /\ InRange(e.at, r) /\ InScope(e.of, scope) /\ PaidBy(e.of, method)}}

SumOf(S, value(_)) == SumFunction([c \in S |-> value(sale[c[1]])])

Totals(S) ==
    [orders  |-> Cardinality(S),
     copies  |-> SumOf(S, LAMBDA row : row.copies),
     goods   |-> SumOf(S, LAMBDA row : row.goods),
     fees    |-> SumOf(S, LAMBDA row : row.fee),
     revenue |-> SumOf(S, LAMBDA row : row.goods + row.fee)]

\* Hundredths of a percent, or of an average, rounded.
Rounded(n, d) == IF d = 0 THEN 0 ELSE (2 * n + d) \div (2 * d)

-----------------------------------------------------------------------------
(* Revenue reports. *)

\* summary.
Summary(r, scope, method) ==
    LET ended == TerminalOutcomes(r, scope, method) IN
    [totals  |-> Totals(Completed(r, scope, method)),
     rate    |-> Rounded(10000 * Cardinality({o \in ended : sale[o].status = "COMPLETED"}),
                         Cardinality(ended)),
     average |-> Rounded(100 * Totals(Completed(r, scope, method)).revenue,
                         Totals(Completed(r, scope, method)).orders)]

\* grouping: date_trunc on a day; days start themselves.
PeriodStart(d, group) ==
    IF group = "DAY" THEN d ELSE Max({s \in PeriodStarts[group] : s <= d})
NextStart(s, group) ==
    IF group = "DAY" THEN s + 1 ELSE Min({t \in PeriodStarts[group] : t > s})

\* bucketQueryParts: the series of the range.
Series(r, group) ==
    {s \in PeriodStart(r.first, group)..PeriodStart(r.last, group) : PeriodStart(s, group) = s}

\* The bucket of a moment.  AT TIME ZONE reads the stored UTC time as one in
\* Vietnam, and the result is truncated in the time zone of the session.
BucketDay(h) == (h - VietnamOffset + SessionOffset) \div 24

\* buckets, of one start: its end and what was completed in it.
Bucket(r, scope, method, group, s) ==
    [from |-> s, to |-> NextStart(s, group) - 1,
     totals |-> Totals({c \in Completed(r, scope, method) :
                           PeriodStart(BucketDay(c[2]), group) = s})]

\* trend, export and, in pages, table: all buckets of the series.
Trend(r, scope, method, group) ==
    {Bucket(r, scope, method, group, s) : s \in Series(r, group)}

\* branches: those that completed anything, in the order of the rows.
OutletTotals(r, method, b) == Totals({c \in Completed(r, "GLOBAL", method) : sale[c[1]].outlet = b})
OutletRows(r, method) == {sale[c[1]].outlet : c \in Completed(r, "GLOBAL", method)}
AheadOf(r, method, b, c) ==
    LET x == OutletTotals(r, method, b).revenue
        y == OutletTotals(r, method, c).revenue
    IN x > y \/ (x = y /\ OutletRank[b] < OutletRank[c])
LeadingBranch(r, method) ==
    LET rows == OutletRows(r, method) IN
    IF rows = {} THEN Unsold
    ELSE CHOOSE b \in rows : \A c \in rows \ {b} : AheadOf(r, method, b, c)

-----------------------------------------------------------------------------
(* The dashboard. *)

\* metrics: completedSql asks for no payment.
Metrics(r, scope) == Totals(Completed(r, scope, "ALL"))

\* totalOrders, orderStatus and paymentMethods go by the day of placement.
Placed(r, scope) ==
    {o \in Sales : sale[o].status # "NONE" /\ InRange(sale[o].placed, r) /\ InScope(o, scope)}
TotalOrders(r, scope) == Cardinality(Placed(r, scope))
StatusCount(r, scope, s) == Cardinality({o \in Placed(r, scope) : sale[o].status = s})
MethodCount(r, scope, m) == Cardinality({o \in Placed(r, scope) : sale[o].method = m})

\* revenueTrend.
RevenueAt(r, scope, group, s) ==
    Totals({c \in Completed(r, scope, "ALL") : PeriodStart(BucketDay(c[2]), group) = s}).revenue

\* weeklyPerformance: the last weeks of the range.
LastWeeks(r) ==
    {s \in Series(r, "WEEK") : Cardinality({t \in Series(r, "WEEK") : t > s}) < RecentWeeks}

\* branchPerformance.
OutletPerformance(r) == [b \in OutletRows(r, "ALL") |-> OutletTotals(r, "ALL", b).revenue]

\* percentageChange, in hundredths of a percent: nothing to compare with is no change.
Change(current, previous) ==
    IF previous = 0 THEN Unsold ELSE Rounded(10000 * (current - previous), previous)

\* todayOperations: what became of orders today, whatever they are now.
Today == DayRange(VietnamDay(hour), VietnamDay(hour))
EndedToday(scope, s) ==
    Cardinality({e.of : e \in {e \in history :
        e.to = s /\ InRange(e.at, Today) /\ InScope(e.of, scope)}})
WaitingNow(scope) == Cardinality({o \in Sales : sale[o].status = "PENDING" /\ InScope(o, scope)})

-----------------------------------------------------------------------------
(* Properties. *)

Days == VietnamDay(FirstMoment)..VietnamDay(LastMoment)
Ranges == {r \in {DayRange(d, e) : d, e \in Days} : AcceptedRange(r.first, r.last)}

\* A completed order is counted on one day of all, with one moment, and no
\* other order is: neither the preset nor the compared range loses one at the
\* midnights in between, or counts it twice.
CountedOnce ==
    /\ \A o \in Sales :
           Cardinality({at \in Days \X Moments :
                           <<o, at[2]>> \in Completed(DayRange(at[1], at[1]), "GLOBAL", "ALL")})
               = IF sale[o].status = "COMPLETED" THEN 1 ELSE 0
    /\ \A n \in Presets :
           LET r == PresetRange(n) IN
           /\ Completed(r, "GLOBAL", "ALL") \cap Completed(Comparison(r), "GLOBAL", "ALL") = {}
           /\ Comparison(r).days = n /\ Comparison(r).until = r.from

\* Whatever the range and the method of payment, the days, the branches and the
\* rows of the comparison of branches add up to the summary, and the methods to
\* all of them; the branch that leads has not less than any other.
PartsAddUp ==
    \A r \in Ranges, m \in PayMethods \cup {"ALL"} :
        LET whole == Summary(r, "GLOBAL", m).totals IN
        /\ \A f \in DOMAIN whole :
               /\ whole[f] = SumFunction([d \in r.first..r.last |->
                                             Summary(DayRange(d, d), "GLOBAL", m).totals[f]])
               /\ whole[f] = SumFunction([b \in Outlets |-> Summary(r, b, m).totals[f]])
               /\ whole[f] = SumFunction([b \in OutletRows(r, m) |-> OutletTotals(r, m, b)[f]])
               /\ m = "ALL" =>
                      whole[f] = SumFunction([n \in PayMethods |-> Summary(r, "GLOBAL", n).totals[f]])
        /\ \A b \in Outlets :
               Summary(r, b, m).totals.orders > 0 =>
                   OutletTotals(r, m, LeadingBranch(r, m)).revenue >= Summary(r, b, m).totals.revenue

\* The dashboard counts today's completed orders as the report does, although it
\* never looks at what they are now.
TodayAgrees ==
    \A scope \in {"GLOBAL"} \cup Outlets :
        EndedToday(scope, "COMPLETED") = Summary(Today, scope, "ALL").totals.orders

\* The dashboard has the report's totals, a branch's weeks inside its trend, and
\* every placed order under one status and one method.
DashboardAgrees ==
    \A scope \in {"GLOBAL"} \cup Outlets, r \in Ranges :
        /\ Metrics(r, scope) = Summary(r, scope, "ALL").totals
        /\ TotalOrders(r, scope) = SumFunction([s \in SaleStatuses |-> StatusCount(r, scope, s)])
        /\ TotalOrders(r, scope) = SumFunction([m \in PayMethods |-> MethodCount(r, scope, m)])
        /\ \A s \in LastWeeks(r) :
               \E b \in Trend(r, scope, "ALL", "WEEK") :
                   b.from = s /\ b.totals.revenue = RevenueAt(r, scope, "WEEK", s)

\* The figures of the back office add up, whenever orders are completed,
\* cancelled or reopened around the midnights of Vietnam.
ReportsAddUp == CountedOnce /\ PartsAddUp /\ TodayAgrees /\ DashboardAgrees

\* The days of the trend add up to the summary of the same range, whose period
\* is given in Vietnam's time zone.
TrendAddsUp ==
    \A r \in Ranges :
        Summary(r, "GLOBAL", "ALL").totals.revenue
            = SumFunction([b \in Trend(r, "GLOBAL", "ALL", "DAY") |-> b.totals.revenue])
=============================================================================
