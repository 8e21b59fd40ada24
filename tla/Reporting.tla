----------------------------- MODULE Reporting -----------------------------
(***************************************************************************)
(* The reports of internal/core/reporting_service.go over the journal, and  *)
(* the two materialized views of migrations 014 and 015.                   *)
(*                                                                         *)
(* The profit and loss statement, the balance sheet and the account         *)
(* statement query the journal, each in one statement and so at one moment; *)
(* the trial balance reads a view.  RefreshViews refreshes the views one    *)
(* after the other.  The journal grows by balanced entries of any posting   *)
(* date, and by reversals, which keep the date of their original.           *)
(*                                                                         *)
(* A view is the balances of the entries that were committed when its       *)
(* refresh took its snapshot: it is the length of that prefix.             *)
(***************************************************************************)
EXTENDS Entries, FiniteSetsExt

CONSTANTS
  TypeOf,      \* the type of each account
  Days,        \* posting dates
  MonthOf,     \* the month of each day
  Templates,   \* what may be posted: balanced lines [acct, debit, credit]
  Refreshers,  \* requests that refresh the views
  MaxEntries,  \* bound: entries in the journal
  None

Accounts == DOMAIN TypeOf

\* What executeCore commits: lines on accounts of the company whose debits
\* equal their credits.
IsBalancedEntry(lines) == BalancedLines(lines, Accounts)

ASSUME ReportingAssumption ==
  /\ IsFiniteSet(Accounts)
  /\ TypeOf \in [Accounts -> {"asset", "liability", "equity", "revenue", "expense"}]
  /\ IsFiniteSet(Days) /\ Days \subseteq Nat
  /\ MonthOf \in [Days -> Nat]
  /\ \A c, d \in Days : c <= d => MonthOf[c] <= MonthOf[d]
  /\ \A lines \in Templates : IsBalancedEntry(lines)
  /\ None \notin Refreshers
  /\ None \notin {"period", "trial"}

VARIABLES
  journal,   \* committed entries in the order of their commits: [date, lines]
  view,      \* what each materialized view shows
  owner,     \* the refresh that holds a view's lock
  refresh,   \* each request: the view it is at, its snapshot, when it began
  alone,     \* ghost: requests no other has overlapped so far
  floor      \* ghost: what a request that ended alone had seen at its beginning

vars == <<journal, view, owner, refresh, alone, floor>>

OfType(types) == {a \in Accounts : TypeOf[a] \in types}
Views == {"period", "trial"}

Idle == [at |-> None, snap |-> None, began |-> 0]
Running == {r \in Refreshers : refresh[r].at # None}

Init ==
  /\ journal = <<>>
  /\ view = [v \in Views |-> 0]
  /\ owner = [v \in Views |-> None]
  /\ refresh = [r \in Refreshers |-> Idle]
  /\ alone = {} /\ floor = 0
-----------------------------------------------------------------------------
(***************************************************************************)
(* The journal.                                                            *)
(***************************************************************************)
Post(day, lines) ==
  /\ Len(journal) < MaxEntries
  /\ journal' = Append(journal, [date |-> day, lines |-> lines])
  /\ UNCHANGED <<view, owner, refresh, alone, floor>>

\* An entry that was reversed may be reversed again, by a request that looked
\* for a reversal before there was one (ReversedOnce of Ledger).
ReverseEntry(n) ==
  /\ Len(journal) < MaxEntries
  /\ journal' = Append(journal, [date |-> journal[n].date, lines |-> Inverted(journal[n].lines)])
  /\ UNCHANGED <<view, owner, refresh, alone, floor>>
-----------------------------------------------------------------------------
(***************************************************************************)
(* The reports.                                                            *)
(***************************************************************************)
\* The lines of some entries of the journal: an entry and a place in it.
LineIds(entries) == UNION {{n} \X DOMAIN journal[n].lines : n \in entries}
Line(id) == journal[id[1]].lines[id[2]]

\* Debits less credits of some lines of the journal.
Balance(lines) ==
  SumFunction([id \in lines |-> Line(id).debit - Line(id).credit])

Net(a, entries) == Balance({id \in LineIds(entries) : Line(id).acct = a})

NetOfType(types, entries) == SumFunction([a \in OfType(types) |-> Net(a, entries)])

\* GetProfitAndLoss: revenue less expenses of one month.
InMonth(month) == {n \in DOMAIN journal : MonthOf[journal[n].date] = month}

NetIncome(month) ==
  -NetOfType({"revenue"}, InMonth(month)) - NetOfType({"expense"}, InMonth(month))

\* Mutant of UpTo: entries before the day.
Before(day) == {n \in DOMAIN journal : journal[n].date < day}

\* The entries posted on or before a day.
UpTo(day) == {n \in DOMAIN journal : journal[n].date <= day}

\* GetBalanceSheet: the credit types with their sign changed.
BalanceSheet(day) ==
  [assets      |-> NetOfType({"asset"}, UpTo(day)),
   liabilities |-> -NetOfType({"liability"}, UpTo(day)),
   equity      |-> -NetOfType({"equity"}, UpTo(day))]

IsBalanced(day) ==
  LET sheet == BalanceSheet(day) IN sheet.assets = sheet.liabilities + sheet.equity

\* Mutant of StatementLines: the first day is left out.
StatementLinesAfter(a, from, to) ==
  {id \in LineIds({n \in DOMAIN journal : from < journal[n].date /\ journal[n].date <= to}) :
     Line(id).acct = a}

\* The lines of an account between two days, for GetAccountStatement.
StatementLines(a, from, to) ==
  {id \in LineIds({n \in DOMAIN journal : from <= journal[n].date /\ journal[n].date <= to}) :
     Line(id).acct = a}

DateOf(id) == journal[id[1]].date

\* What GetAccountStatement may return without an error.  The lines arrive in
\* the order of their days; when the connection breaks, rows.Next ends the loop
\* early and nothing asks rows.Err for the reason.
Statements(a, from, to) ==
  LET lines == StatementLines(a, from, to)
  IN {read \in SUBSET lines : \A i \in read, j \in lines : DateOf(j) < DateOf(i) => j \in read}

\* The running balance a statement shows at the end of a day.
RunningBalance(statement, day) == Balance({id \in statement : DateOf(id) <= day})
-----------------------------------------------------------------------------
(***************************************************************************)
(* RefreshViews.  PostgreSQL takes the snapshot of a REFRESH before it      *)
(* waits for the view's lock, so a refresh may install an older snapshot    *)
(* than the one that held the lock before it.                              *)
(***************************************************************************)
Begin(r) ==
  /\ refresh[r] = Idle
  /\ refresh' = [refresh EXCEPT ![r] =
                   [at |-> "period", snap |-> Len(journal), began |-> Len(journal)]]
  /\ alone' = IF Running = {} THEN {r} ELSE {}
  /\ UNCHANGED <<journal, view, owner, floor>>

Lock(r) ==
  LET v == refresh[r].at
  IN /\ v \in Views /\ owner[v] = None
     /\ owner' = [owner EXCEPT ![v] = r]
     /\ UNCHANGED <<journal, view, refresh, alone, floor>>

Holds(r, v) == refresh[r].at = v /\ owner[v] = r

Installs(r, v) ==
  /\ view' = [view EXCEPT ![v] = refresh[r].snap]
  /\ owner' = [owner EXCEPT ![v] = None]

RefreshPeriod(r) ==
  /\ Holds(r, "period") /\ Installs(r, "period")
  /\ refresh' = [refresh EXCEPT ![r].at = "trial", ![r].snap = Len(journal)]
  /\ UNCHANGED <<journal, alone, floor>>

RefreshTrial(r) ==
  /\ Holds(r, "trial") /\ Installs(r, "trial")
  /\ refresh' = [refresh EXCEPT ![r] = Idle]
  /\ floor' = IF r \in alone THEN refresh[r].began ELSE floor
  /\ alone' = alone \ {r}
  /\ UNCHANGED journal

\* A refresh fails: what it has installed stays, the error is returned.
Unlocked(r) == [v \in Views |-> IF owner[v] = r THEN None ELSE owner[v]]

\* Mutant of Fail: the error is swallowed.
FailSilently(r) ==
  /\ refresh[r] # Idle
  /\ owner' = Unlocked(r)
  /\ refresh' = [refresh EXCEPT ![r] = Idle]
  /\ floor' = IF r \in alone THEN refresh[r].began ELSE floor
  /\ alone' = alone \ {r}
  /\ UNCHANGED <<journal, view>>

Fail(r) ==
  /\ refresh[r] # Idle
  /\ owner' = Unlocked(r)
  /\ refresh' = [refresh EXCEPT ![r] = Idle]
  /\ alone' = alone \ {r}
  /\ UNCHANGED <<journal, view, floor>>
-----------------------------------------------------------------------------
Next ==
  \/ \E day \in Days, lines \in Templates : Post(day, lines)
  \/ \E n \in DOMAIN journal : ReverseEntry(n)
  \/ \E r \in Refreshers : Begin(r) \/ Lock(r) \/ RefreshPeriod(r) \/ RefreshTrial(r) \/ Fail(r)

Spec == Init /\ [][Next]_vars
-----------------------------------------------------------------------------
Months == {MonthOf[d] : d \in Days}
LastDay(month) == Max({d \in Days : MonthOf[d] = month})

\* The balance sheet and the monthly statements tell one story: at the end of
\* a month, assets exceed liabilities and equity by the net income of all the
\* months so far, back-dated entries and reversals included.  (So IsBalanced
\* holds only while that is zero: no closing entry moves it to equity.)
SheetMatchesIncome ==
  \A month \in Months :
    LET sheet == BalanceSheet(LastDay(month))
        earned == SumFunction([m \in {m \in Months : m <= month} |-> NetIncome(m)])
    IN /\ sheet.assets - sheet.liabilities - sheet.equity = earned
       /\ IsBalanced(LastDay(month)) <=> earned = 0

\* What was carried forward when a statement begins: the balance at the end of
\* the complete statement of all the days before.
CarriedForward(a, from) == RunningBalance(StatementLines(a, 0, from - 1), from - 1)

\* A statement's running balance, on top of what was carried forward, is the
\* balance that the balance sheet of that day gives the account, whatever was
\* posted late into an earlier period: on every day of a complete statement,
\* and on every day before the last line of one whose reading broke off.
StatementMatchesSheet ==
  \A a \in Accounts, from, to \in Days :
    LET lines == StatementLines(a, from, to)
        before == CarriedForward(a, from)
    IN \A s \in Statements(a, from, to), d \in {d \in Days : from <= d /\ d <= to} :
         s = lines \/ (\E id \in s : d < DateOf(id))
           => before + RunningBalance(s, d) = Net(a, UpTo(d))

\* Neither view is older than the beginning of a refresh request that has
\* succeeded with no other beside it.  (Of two that overlap the later may
\* install the older snapshot, and a failed one leaves the views at different
\* moments but says so.)
RefreshedUnlessOverlapped == \A v \in Views : view[v] >= floor
=============================================================================
