------------------------------- MODULE Report -------------------------------
(***************************************************************************)
(* getAnalytics: the figures that the console shows of the bots.  They are  *)
(* read one statement after the other, while messages are stored and the    *)
(* marks of generated replies are rewritten, and some are then computed in  *)
(* memory, from the latest rows, with the server's clock for days.          *)
(*                                                                         *)
(* One bot, with the group of MessageLog.  A generated reply counts as one  *)
(* token; contacts, titles and names, and the time that replies took are    *)
(* left out.  Time is in quarters of a day.                                *)
(***************************************************************************)
EXTENDS MessageLog

CONSTANTS Recent,  \* the 1000 rows of which the chart is made
          Zones    \* by how many quarters the server's clock may be ahead of UTC

ASSUME ReportAssumption == Recent \in Nat /\ Zones \subseteq Nat

VARIABLES
    report,  \* the report under way, or the one that was answered, or Nil
    ranges   \* bounds: the ranges of time that may still be asked for

reportVars == <<report, ranges>>

\* The statements in their order; the others read nothing of the rows.
Statements == <<"bots", "total", "outbound", "inbound", "tokens", "ai", "agent",
                "recent", "types", "topContacts", "topUsers", "topBots", "answer">>
Figures == {Statements[i] : i \in 1 .. Len(Statements)}

Day == 4
Dates == -40 * Day .. 40 * Day

\* A range that may be asked for: dates or Nil, and the server's time zone.
Ranges == [from : Dates \cup {Nil}, to : Dates \cup {Nil}, zone : Zones]

\* A report: the next statement, what was asked for, whether the rows stayed as they
\* were, and the figures, 0 until they are read.
Reports == [next : 1 .. Len(Statements), range : Ranges, quiet : BOOLEAN, figures : [Figures -> Nat]]

ReportTypeOK == report # Nil => report \in Reports

ReportInit == report = Nil

-----------------------------------------------------------------------------
(* What the statements read                                                *)

\* dateFilter, over the rows' createdAt.
InRange(range, i) ==
    /\ range.from # Nil => rows[i].at >= range.from
    /\ range.to # Nil => rows[i].at <= range.to

Outbound(i) == rows[i].m \in Own

\* What a statement finds at this moment.
Matching(statement, range) ==
    {i \in RowIds : InRange(range, i) /\
        CASE statement = "outbound" -> Outbound(i)
          [] statement = "inbound" -> ~Outbound(i)
          [] statement = "ai" -> Outbound(i) /\ rows[i].auto
          [] statement = "agent" -> Outbound(i) /\ ~rows[i].auto
          [] statement \in {"tokens", "topUsers", "topBots"} -> rows[i].auto
          [] OTHER -> TRUE}

\* recentMessages: the latest rows of the range.
RecentRows(range) ==
    LET all == Matching("recent", range) IN
    {i \in all : Cardinality({j \in all :
        rows[j].at > rows[i].at \/ (rows[j].at = rows[i].at /\ j > i)}) < Recent}

\* setHours(0, 0, 0, 0) and setHours(23, 59, 59, 999) by the server's clock, and
\* the day of a time in UTC, by which the chart is keyed.
LocalMidnight(t, zone) == ((t + zone) \div Day) * Day - zone
LocalEnd(t, zone) == LocalMidnight(t, zone) + Day - 1
UTCDay(t) == t \div Day

\* Deviation: one day less.
ShorterChartDays(range) ==
    LET start == LocalMidnight(IF range.from = Nil THEN clock - 6 * Day ELSE range.from, range.zone)
        end   == LocalEnd(IF range.to = Nil THEN clock ELSE range.to, range.zone)
    IN  {UTCDay(start + n * Day) : n \in {k \in 0 .. 30 : start + k * Day <= end}}

\* The days of the chart: from the start, by default six days ago, to the end, by
\* default today, but 32 at most.
ChartDays(range) ==
    LET start == LocalMidnight(IF range.from = Nil THEN clock - 6 * Day ELSE range.from, range.zone)
        end   == LocalEnd(IF range.to = Nil THEN clock ELSE range.to, range.zone)
    IN  {UTCDay(start + n * Day) : n \in {k \in 0 .. 31 : start + k * Day <= end}}

\* messageVolumeByDay: a row of another day is not counted.
Charted(range) == {i \in RecentRows(range) : UTCDay(rows[i].at) \in ChartDays(range)}

-----------------------------------------------------------------------------
AskReport ==
    /\ report = Nil
    /\ \E range \in ranges :
          /\ report' = [next |-> 1, range |-> range, quiet |-> TRUE,
                        figures |-> [f \in Figures |-> 0]]
          /\ ranges' = ranges \ {range}

\* The next statement.  Without bots the answer is all zeros at once (not modelled:
\* the bot is there).
ReadFigure ==
    /\ report # Nil /\ report.next < Len(Statements)
    /\ LET statement == Statements[report.next]
           figure == IF statement = "recent" THEN Cardinality(Charted(report.range))
                     ELSE IF statement = "bots" THEN 1
                     ELSE Cardinality(Matching(statement, report.range))
       IN report' = [report EXCEPT !.next = @ + 1, !.figures[statement] = figure]
    /\ UNCHANGED ranges

\* A statement fails, or the answer was read: the report is over.
EndReport ==
    /\ report # Nil
    /\ report' = Nil
    /\ UNCHANGED ranges

ReportNext == AskReport \/ ReadFigure \/ EndReport

\* Whether the rows stayed as they were while the report was made.
ReportWatches ==
    /\ report' = IF report # Nil /\ rows' # rows /\ report.next < Len(Statements)
                 THEN [report EXCEPT !.quiet = FALSE] ELSE report
    /\ UNCHANGED ranges

-----------------------------------------------------------------------------
(* Properties                                                              *)

Answered == report # Nil /\ report.next = Len(Statements)

\* Rows of such a range may be of days that the chart has not.
BeyondChart(range) ==
    LET to == IF range.to = Nil THEN clock ELSE range.to IN
    IF range.from = Nil THEN UTCDay(clock) > 6 ELSE UTCDay(to) - UTCDay(range.from) > 31

\* The figures of an answered report fit each other.  Rows are only added, and the
\* parts are read after the whole: messages are never more than the incoming and
\* the outgoing, nor these more than the types add up to, nor these more than the
\* conversations.  Of rows that did not change meanwhile the figures are exact:
\* every outgoing message is the bot's or an agent's, the tokens are those of the
\* conversations and of the bots, and the chart shows all messages, unless it is
\* made of the latest only, or ranges over more than 32 days, or the server's
\* clock is not UTC, or the range has no start and some rows may be older than six
\* days, wherever it ends: the chart starts six days ago.
ReportAgrees ==
    Answered =>
        LET f == report.figures IN
        /\ f["total"] <= f["outbound"] + f["inbound"]
        /\ f["outbound"] + f["inbound"] <= f["types"] /\ f["types"] <= f["topContacts"]
        /\ report.quiet =>
              /\ f["total"] = f["outbound"] + f["inbound"] /\ f["total"] = f["topContacts"]
              /\ f["outbound"] = f["ai"] + f["agent"] /\ f["tokens"] = f["ai"]
              /\ f["tokens"] = f["topUsers"] /\ f["tokens"] = f["topBots"]
              /\ \/ f["recent"] = f["total"]
                 \/ f["total"] > Recent
                 \/ report.range.zone # 0
                 \/ BeyondChart(report.range)

=============================================================================
