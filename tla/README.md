# TLA+ models of the accounting agent

This directory models the accounting agent (`internal/core`, `internal/ai`, and the adapters
where they decide what is written): the ledger with its gapless document numbers, sales
orders with their stock and their amounts, purchase orders, the confirmation of what the AI
proposes, the dialogue with the AI agent, the connection pool and the reports. TLC checks
each model on small instances; TLAPS proves the safety properties of every component for all
instances.

## 1. The system

One Go server (plus a REPL and a CLI over the same services) works on one PostgreSQL
database at isolation level READ COMMITTED. Every HTTP request is a goroutine; the
services keep no state of their own, so that what interacts is transactions: row locks
(`SELECT ... FOR UPDATE`, upserts, unique indexes), values read before a transaction
begins, and transactions that follow one another within one request. The one piece of
shared memory is the chat's store of pending actions.

| Component | State | Operations | What is hard | What makes it correct |
|---|---|---|---|---|
| Proposal rules (`proposal_logic.go`) | none | `Normalize`, `Validate`, the rows `executeCore` writes | exact decimals against NUMERIC(14,2) | an accepted entry debits and credits, and its stored rows balance |
| Ledger (`ledger.go`) | `journal_entries`, `journal_lines` | `Commit`, `CommitInTx`, `Validate`, `Reverse` | number taken before the duplicate is known, idempotency key races, roll-backs | append-only, a key once, accounts of the own company, reversals mirror |
| Document numbering (`document_service.go`) | `documents`, `document_sequences` | `CreateDraftDocument`, `PostDocument`, `PostDocumentTx` | concurrent posting of one series, failure after a number is taken | gapless numbers, each on one document |
| Sales orders (`order_service.go`) | `sales_orders`, `sales_order_lines` | create, confirm, ship, invoice, pay, cancel | status read outside the transaction, lock cycles, totals rounded apart | the lifecycle, each entry posted with its move, receivables are what is owed |
| Inventory (`inventory_service.go`) | `inventory_items`, `inventory_movements` | `ReceiveStock`, `ReserveStockTx`, `ShipStockTx` | shared reservation counter, several statements per change, rounded average cost | stock not oversold, log and counters agree, the books follow the value of the stock |
| Purchase orders (`purchase_order_service.go`) | `purchase_orders`, lines | create, approve, `ReceivePO`, vendor invoice, pay | `ReceivePO` is not one transaction, quantities are not checked | paid once, numbered once, received what was ordered, status moves forward |
| Web chat (`adapters/web/chat.go`) | in-memory map of pending actions | `chatMessage`, `chatConfirm`, purge, restart | get and delete apart, TTL, the AI names the company | only confirmed actions run, for the user's company, journal entries once |
| AI agent (`ai/agent.go`, `tools.go`), REPL (`repl.go`), manual entry form (`accounting.go`) | the conversation | `InterpretDomainAction` (the tool loop), `InterpretEvent`, clarification rounds, approval, `buildProposal` | arbitrary answers, lost commit answers | what is posted debits and credits, the loops end, an event is posted once |
| Account rules (`rule_engine.go`) | `account_rules` | `ResolveAccount` | uses the pool while the caller holds a connection | no hold-and-wait |
| Reporting (`reporting_service.go`) | two materialized views | `RefreshViews`, reports | views refreshed one after the other, reads that break off | reports agree with each other, a successful refresh is no older than its beginning |
| Application service (`app_service.go`), vendors, users, CLI, authentication, schema and maintenance commands | — | decode, resolve references, call the services | little | — |

The calls between them: handlers call the application service, which calls the core
services. Orders, inventory and purchase orders post through the ledger
(`CommitInTx` inside their own transaction, `Commit` in one of the ledger's), and the
ledger numbers its documents through the document service within the same transaction.
Chat confirmations reach the ledger or a write tool; the REPL's dialogue and the manual entry
form reach the ledger with an idempotency key made for each attempt.

## 2. The modules

| Module | Models | State and its source |
|---|---|---|
| `Books` | abstract ledger: numbers and entries appear atomically | `last`, `journal` |
| `Decimals` | what a NUMERIC column stores of a decimal; operators only | — |
| `ProposalLogic` | `Normalize`, `Validate`, stored rows, inverted rows; operators only | — |
| `Ledger` | ledger and numbering as transactions | `docs` = documents, `last` = document_sequences, `journal` = journal_entries with their lines, `tx[w]` = the open transaction of handler `w` |
| `Entries` | journal entries as the reports read them: balanced lines, inverted lines; operators only | — |
| `Totals` | theorems about sums over finite sets, folds that add, and the rows stored for a proposal | — |
| `LedgerProofs`, `SalesProofs`, `AmountsProofs`, `PurchaseProofs`, `DialogueProofs`, `ReportingProofs` | theorems about `Ledger`, `SalesOrders`, `OrderAmounts`, `PurchaseOrders`, `Dialogue`, `Reporting` | — |
| `WebProofs` | theorems about `ChatConfirm` and `ConnPool`, which is why their definitions have different names | — |
| `OrderLifecycle` | abstract sales order | `status`, `posted` |
| `SalesOrders` | orders and inventory as transactions | `status`, `lines`, `item` = inventory_items, `moves` = inventory_movements summed per order and product, `posted` = idempotency keys in the journal, `tx[w]` with the rows it has locked and what it has written |
| `PurchaseOrders` | purchase orders and the calls of `ReceivePO` | `status`, `lines`, `moved` and `received` = RECEIPT movements per line and their sum, `stock`, `posted`, `docs`, `paid`, `today`, `run[w]` = the local variables of `ReceivePO` in handler `w` |
| `ChatConfirm` | pending actions | `store` = pendingStore, `action` = the companies of what is under a token, `req[w]` = the locals of `chatConfirm`; `asked`, `cancelled`, `executed`, `by` record what users were told and what took effect |
| `Dialogue` | REPL, agent loop, manual entry form, commit | `phase` = where the program is, `rounds`, `loops` = the loop counters, `items` = the rest of the model's answer, `proposal`, `executed` = tools that ran; `tries`, `posted`, `lost`, `told` record what happened to each event |
| `OrderAmounts` | amounts of orders, costs of stock, the entries they make | `order` = sales_orders with rounded totals, `item` = inventory_items with `cost`, `gl` = account balances in cents, `keys`, `siDocs` = invoice documents; `receipts`, `issues` record the roundings |
| `ConnPool` | pgxpool, `ResolveAccount`, row locks | `work[h]` = the steps a handler has left, `txs` and `queries` = connections held, `holder` = row locks |
| `Reporting` | the journal queries and `RefreshViews` | `journal`, `view` = what each materialized view shows, as a prefix of the journal, `refresh[r]` = a request in `RefreshViews`; `alone`, `floor` record which refreshes overlapped |
| `MCLedger`, `MCSalesOrders`, `MCPurchaseOrders`, `MCDialogue`, `MCOrderAmounts`, `MCChatConfirm`, `MCReporting` | the values of the constants | — |

How the models follow the code:

* **Transactions.** A database statement that can wait (or whose result decides what
  follows) is one action; statements nobody else can observe or wait for are joined with
  their neighbours. What a transaction wrote is in `tx[w]` and becomes visible in its
  commit action. Locks are derived from `tx[w]` in `Ledger` (`HoldsSeries`, `HoldsKey`)
  and are a set `held` in `SalesOrders`, where cycles occur; `BreakDeadlock` is
  PostgreSQL's deadlock detector. `Rollback` (`AbandonReceive`, `Fail`) stands for an
  error return, a cancelled context, a lost connection and a crash at any step.
* **A service used by another** appears as its abstraction: `SalesOrders` uses the ledger
  as `Books` promises it (next number of a locked series, key unused). That the ledger
  keeps the promise is checked by the run `ledger` and proved in `LedgerProofs`.
* **`ReceivePO`** is split where the code is: one read of the order (`BeginReceive`), for
  each line a read of what was received (`CheckLine`) and a transaction of its own
  (`PostGoods`, `PostService`), and a final `UPDATE` (`FinishReceive`).
* **Operations taken whole.** `OrderAmounts` takes each operation as one action and gives it
  its amounts; `SalesOrders` takes the same operations apart and leaves the amounts out.
  What the first assumes of the second is `ImplementsLifecycle` and `StockMatchesMovements`.
* **The AI model** is arbitrary: an answer is any sequence of items (texts, meta-tools, read
  and write tools, calls that cannot be parsed), and a proposal any record of `RawProposals`.
* **Reports** are operators on the journal, as each is one SQL statement: the `WHERE` clause
  picks a set of lines (`LineIds`, `UpTo`, `InMonth`), the `SUM` or the loop over the rows
  gives their `Balance`. An account statement may be any part of its lines that a broken read
  leaves (`Statements`). A materialized view is the length of the journal prefix its refresh
  saw.
* **Data.** Amounts are scaled integers; dates are days; texts are told apart only where
  the code does (blank, malformed, a rate of zero in an unrecognised spelling).
  Idempotency keys are tuples of the fields the code formats into them, so two keys are
  equal when the formatted strings are. The services compute with exact decimals and every
  column rounds what it stores (`Decimals`): quantities ordered and received, costs, money. The
  amounts of purchase orders are left out: an entry that the ledger refuses for its amount is a
  `ReceivePO` call that fails (`AbandonReceive`) or a payment that is not made.
* **Mutants.** A definition preceded by "Mutant of" is the named definition with a
  plausible bug. No specification uses it; `PROJECT.json` names the property that
  rejects it.

## 3. What the runs check

| Run | Module | Result | What it shows |
|---|---|---|---|
| `ledger` | MCLedger | holds | gapless numbers, unique keys, one entry per number, own chart, mirrored reversals, balance as stored, refinement of `Books`, and every transaction ends |
| `dialogue` | MCDialogue | holds | what reaches the ledger has a debit and a credit line, the loops end, an event is posted twice only after a lost commit answer; two-line entries and entries typed in base currency balance as stored, any other drifts by at most half a cent per line |
| `sales` | MCSalesOrders | holds | stock bounds, log against counters, a reservation is lost only to an order that had reserved nothing, refinement of `OrderLifecycle`, every request ends |
| `amounts` | MCOrderAmounts | holds | receivables are what invoiced orders owe, the inventory account follows the stock's value up to rounding, which orders rounding can stop, stock bounds but for negative quantities |
| `purchase` | MCPurchaseOrders | holds | paid and numbered once, received orders have a receipt, over-receipt only by a stale check and only across two days, never of a line of zero or less, stranded orders only after a failure |
| `chat` | MCChatConfirm | holds | only a confirmation by a user of the company a proposal was made in executes, only a journal entry that names another company takes effect elsewhere, journal entries once, used tokens stay used, expired actions are evicted |
| `pool` | ConnPool | holds | the pool is exhausted only by as many open transactions as it has connections, and nothing else stops a request |
| `reporting` | MCReporting | holds | balance sheet, income and account statements agree, whatever is posted late or reversed; what a broken read leaves of a statement agrees up to the day before its last line; a refresh that ran alone is no older than its beginning |
| `ledger_reverse` | MCLedger | violated | finding 1 |
| `amounts_foreign` | MCOrderAmounts | violated | finding 2 |
| `purchase_stale` | MCPurchaseOrders | violated | finding 3 |
| `chat_race` | MCChatConfirm | violated | finding 4 |

**Bounds and why they are enough.** Two handlers in `Ledger`, `SalesOrders`, `PurchaseOrders`
and `ChatConfirm`: each hazard listed is a race of two requests, and three-way waits reduce
to a queue for one lock.

* `ledger`: two companies with an overlapping chart, three journal entries, two documents,
  a ledger series each and two bare ones (with and without a financial year), and proposals
  that share a key across companies (hence across series locks), have none, use a foreign
  account, or do not balance. Two documents suffice for a race for one number followed by
  a roll-back, a duplicate after a committed key, and a reversal of each entry; the proofs
  cover the rest. `Validate`-only transactions compete for the same keys.
  `MaxEntries` bounds reversals, which need no document.
* `dialogue`: amounts up to three half cents and rates from 0.5 to 3 in halves, proposals of
  two and three lines and forms of two and three rows: enough for a product of a quarter
  cent, ties of the rounding in both directions, and every header field blank or malformed.
  Answers of up to two items put a read before, after and beside a write; three clarification
  rounds and five iterations are the code's own limits; an event is told up to three times.
* `sales`: two orders, two products, baskets in both orders of locking and with a product
  twice, one product stocked with one unit and one whose item a receipt creates during the
  run, so that orders compete, wait in cycles, and ship what they had not reserved.
* `amounts`: a stocked product and a service in one company, a service in another. Quantities are
  counted in quarters and costs in eighths of a cent; an item stores halves and quarters of a
  cent, the line of an order whole units. Receipts of 3 and 12 quarters are stored as 4 and as
  they are, averages and ordered quantities round as well, and products are parts of 32 of a
  cent: totals, line totals, costs and base amounts at the rates 0.5, 1 and 1.5 round. A cost of
  one eighth, stored as a quarter, makes goods worth a quarter of a cent, which cannot be
  shipped, and half a cent, which can. A receipt at no cost is refused with its entry; a negative
  quantity is among the baskets. Two days allow two receipts, hence an average, and a third is
  refused by its key.
* `pool`: three handlers, one order and one item, pools of one to four connections: smaller
  than, equal to and larger than the handlers. Rows of `document_sequences` are left out: no
  request asks for a connection while it holds one of those, and a queue for them looks like
  the queue for an order.
* `reporting`: a month of two days and one of one day, an account of each type, a sale and the
  founding of a business (a loan, and capital of which some is spent at once) posted in any order
  of dates. The second has two lines of the bank, so that with the first a statement of two days
  can break off between the lines of its second day. Two entries are enough for a back-dated
  entry and for a reversal; with two requests they are the least for two snapshots installed in
  the wrong order, in one view and in both.
* `purchase`: two orders with goods, a service, the same product on two lines and a line
  that is neither, and an order whose lines are stored as zero and as less; an order stores
  multiples of four, a movement multiples of two, so that a quantity of one is stored as zero
  in an order and as two in a movement; partial, full, two-line and negative requests; two days, the least on which the
  date of a call can differ from today's. Orders share one product, whose receipts of a day
  share one key: products do not interact otherwise.
* `chat`: a journal-entry token and a write-tool token, a user in each of two companies, of
  which the AI may name either, a clock of three instants with a TTL of one, the shortest on which an action expires.

`Symmetry` (handlers, orders) is used only in runs that check no liveness.
`CHECK_DEADLOCK FALSE` stands only in `Dialogue.cfg` and the two cfgs of `OrderAmounts`, where
a behaviour ends when every event has been told or every order is closed.

**Fairness.** Handlers are goroutines that run until they return, so a step that stays
possible is taken (`WF` in `ChatConfirm` and, for the model's answers, their handling and
commits, in `Dialogue`: each call of the model has a time limit of its own). A step that waits
for a row lock is possible again and again rather than for ever; PostgreSQL queues waiters
first come, first served, hence `SF` on a handler's steps in `Ledger` and `SalesOrders`. In
`SalesOrders` a waiting statement ends by being granted or by the deadlock detector, which
every waiting statement runs after `deadlock_timeout`, hence
`SF_vars(Step(w) \/ BreakDeadlock(w))`. pgxpool serves its waiters in turn as well, hence `SF`
in `ConnPool`. The purge goroutine's ticker justifies `WF_vars(Purge)`. No fairness is assumed
of requests, users, time, roll-backs, failures or restarts.

**The connection pool.** `ReceiveStock` and `ShipStockTx` ask `ResolveAccount` for an account
while their transaction holds a connection; the latter also holds row locks. pgxpool waits
without a limit and the server sets no limit on a request, so with as many such transactions
as connections (by default the larger of 4 and the number of processors) every handler waits
for ever. `ExhaustedOnlyWhenFull` says that this is the only way to get there, and so how
large the pool has to be; `EndsUnlessExhausted` says that nothing else, no lock cycle across
pool and rows, keeps a request from ending.

**Over-receipt.** `ReceivePO` sums the earlier receipts outside the transaction that adds
the next, a race `docs/Fix_implementation.md` knows of. `OverReceiptOnlyStale` says this
is the only way to receive more than was ordered, and `OverReceiptSpansDays` that the
daily idempotency key of goods receipts closes it except across midnight: the call dated
yesterday and the one dated today have different keys.

**Lost reservations.** `qty_reserved` is one counter for all orders. An order confirmed before
its product had an inventory item reserves nothing, but its shipment gives up its quantity of
the counter: another order's reservation is gone (`inventory_service.go:469`).
`ReservationLostOnlyLate` says that reservations are lost in no other way and that the counter
never exceeds what confirmed orders reserved.

**Stranded purchase orders.** The receipts of `ReceivePO` commit one by one and the status
last. After a failure in between, an order stays APPROVED with all its lines received, and the
quantity check refuses each retry (`purchase_order_service.go:332`). `StrandedOnlyByFailure`
says that calls which succeed strand nothing.

**Purchase lines of zero or less.** `CreatePO` checks no quantity (`purchase_order_service.go:64`),
the forms refuse only zero (`adapters/web/vendors.go:214`), the AI's tool refuses nothing, and
`NUMERIC(14,2)` stores a small quantity as zero. `ReceivePO` wants a positive quantity that does
not exceed the line's, so a line of goods of this kind can never be received:
`OverReceiptSpansDays` says that no race makes it have stock. An order of nothing else stays
APPROVED for ever, with nothing received; `StrandedOnlyByFailure` is about orders of which
something was.

**Invoice numbers.** `PaidOnce` bounds payments and PO numbers, not PI numbers: after the late
`ReceivePO` of finding 3 an order is invoiced again, under a second number.

**Rounding.** `Validate` balances the exact products and the columns round each line: debits
of 0.01 and 0.01 against a credit of 0.02 at rate 0.5 are stored as 0.01 and 0.01 against
0.01, although `README.md:19` promises debit = credit in base currency. `DriftBounded` bounds
the difference and `StoredBalance` (of `Dialogue`) names the entries that are safe. An order's
total is rounded once and its lines one by one, so an invoice of several lines may be refused
and its order stays SHIPPED; and goods whose cost rounds to 0.00 cannot be shipped.
`CanAdvance` says that rounding stops no other order of positive lines. A receipt books its exact
cost, while `qty_on_hand` (four decimals) and `unit_cost` (six) round what they store: 0.33333333
units at 300 are booked at 100.00 and leave 0.3333 units. `StockValueDrift` (of `BooksAgree`)
bounds what the inventory account and the value of the stock differ by: half a cent for each
entry, half a quantity step at the cost of each receipt that rounded its quantity, and for each
unit an average was taken over, half a cost step and half the unit of the division.

**Negative quantities.** The web forms refuse a quantity of zero, not a negative one
(`adapters/web/orders.go:349`). Confirming such an order lowers the reservations and may take
`qty_reserved` below zero; `StockBounds` of `OrderAmounts` exempts the products of such orders
and nothing else. `SalesOrders` takes positive quantities only.

**`IsBalanced`.** The balance sheet has no line for the income of the period and no closing
entry moves it to equity: `SheetMatchesIncome` shows the difference to be exactly the net
income so far, so that `IsBalanced` is false as soon as there is any, although
`docs/archive/Implementation_plan_upgrade.md:579` says it "is always true on a valid ledger".

**Overlapping refreshes.** A `REFRESH ... CONCURRENTLY` takes its snapshot before it waits for
the view's lock, so of two overlapping requests the later may install the older snapshot and
both succeed. `RefreshedUnlessOverlapped` is about a request that ran alone.

**Broken statements.** `GetAccountStatement` does not ask `rows.Err` after its loop
(`reporting_service.go:156`), as the other reports do (`:233`, `:307`): a read that breaks off
returns part of the statement as all of it. `StatementMatchesSheet` therefore says what such a part
is still good for: at every day before that of its last line the running balance is right.

**The company of a proposal.** `chatConfirm` checks the user against the company of the chat
(`adapters/web/chat.go:272`), and `CommitProposal` posts for the company code that the AI wrote
into the proposal (`:284`), which nothing compares with it (`ai/agent.go:184-193` sets only the
idempotency key). A user can so confirm an entry in the books of a company that is not theirs;
`ConfirmedByMember` says that such a proposal of a journal entry is the only thing that takes
effect elsewhere, and that a write tool never does. A code that no company has makes the ledger
refuse the entry: a request that fails.

## 4. Findings

1. `ledger_reverse`. `Reverse` counts earlier reversals with a plain `SELECT`; two
   concurrent calls both count none and both commit one.
2. `amounts_foreign`. `InvoiceOrder` looks its document up by number in all companies, and
   numbers are unique per company: the order may be linked to another company's invoice.
3. `purchase_stale`. The final `UPDATE` of `ReceivePO` is unconditional: a late call puts
   an invoiced or paid order back to RECEIVED. `PaidOnce` still holds, thanks to the
   payment's idempotency key.
4. `chat_race`. `get` and `delete` are separate: one request answers "Cancelled." while
   another executes the action.

## 5. What is proved

Every theorem holds for all values of the constants that satisfy the assumptions named in
the modules; TLC evaluates each of these on the instances of the runs. Every inductive
invariant was checked by TLC on the instance of its run before it was proved.

### Sums and rows (`Totals`)

The community modules define sums and folds by recursion over sets of indices, and the
library's induction theorems take an operator as a parameter. `Totals` does without: a set
of subsets that contains every subset whose proper subsets it contains, contains them all
(`SubsetInduction`, from the well-foundedness of proper inclusion of finite sets;
`StepInduction` adds one element at a time). From there it derives that the recursion has
exactly one solution (`PartialSumsExist`, `PartialSumsUnique`), what every sum satisfies
(`SumSplit`, `SumUnion`, `SumLinear`, `SumBound`, `SumRenamed`, `SumByGroup`, ...), and that
`DebitTotal` and `CreditTotal`, which fold over sequences, are such sums. The same way it
finds that a fold from the left over any state exists (`LeftFoldExists`), and that what its
base and every step have, every partial result has (`FoldStays`).

| Theorem | Says |
|---|---|
| `RowsAlmostBalance` | the rows of a proposal that `Validate` accepts are off by at most half a cent each |
| `WholeCentsBalance` | they balance if each product of amount and rate is a number of whole cents |
| `TransfersBalance` | they balance if there are two of them, however the products round |

The argument: `Validate` makes the exact products balance, `RoundTo` is within half a unit
of its argument and exact on multiples, and errors add up.

### The ledger (`LedgerProofs`)

Assumptions: `UnitAssumption` (a cent and the rate 1.0 have at least one unit) and
`LedgerAssumption` (null values differ from real ones, `BareSeries` are series, callers
submit records of the shape of `Proposal`).

| Theorem | Says |
|---|---|
| `TypeCorrect` | `Spec => []TypeOK` |
| `Gapless` | `Spec => []GaplessNumbering` |
| `KeysOnce` | `Spec => []Idempotent` |
| `NumbersHaveEntries` | `Spec => []OneEntryPerNumber` |
| `Scoped` | `Spec => []CompanyScoped` |
| `Mirrored` | `Spec => []ReversalsMirror` |
| `EntriesBalance` | `Spec => []StoredBalance`, if no valid proposal has a product to round (`NothingRounded`) |
| `EntriesAlmostBalance` | without that: two-line entries balance, any other is off by half a cent a line at most |
| `EntriesFitReports` | `Spec => []FitReports` under `NothingRounded`: entries are what `Reporting` assumes of a journal |
| `JournalAppendOnly` | `Spec => AppendOnly` |
| `PostedStays` | `Spec => PostedForEver` |
| `RefinesBooks` | `Spec => ImplementsBooks` |

The properties are not inductive: they speak of committed rows, and a commit is right only
because of what its transaction learnt earlier and of the locks it kept since. The
inductive invariant is

    IInv == TypeOK /\ AllFit /\ Locks /\ TablesOK

* `AllFit`: for each open transaction, what it has established is still true: the document
  it posts is not posted, its number is still `last + 1`, its key is still not committed,
  its proposal is valid and (before the commit) its accounts are in the company's chart.
* `Locks`: no two transactions hold the same series, document or key. This is why the
  commit of one leaves the `AllFit` of the others true.
* `TablesOK`: the properties themselves, with two facts about committed rows they lean on:
  `RefsBelow` (entries refer to numbers already given out) and `DraftsBare` (drafts lie in
  series without entries).

There is one lemma per action. An action that changes only `tx[w]` preserves `IInv` when
the new transaction fits and nobody contends with it (`TxOnlyKeeps`); the two commit
actions are the only ones that change tables. `RefinesBooks` maps the commit of a document
without an entry to `Issue`, of an entry to `Post`, `CommitReverse` to `Undo`, and
every other step to a stutter.

`EntriesBalance` and `EntriesAlmostBalance` follow from a second invariant on top of `IInv`
(`JournalBalance`): each entry was committed with the rows of a valid proposal, to which
`Totals` applies, or is the inversion of such an entry, which swaps two equal sums.
`NothingRounded` is no formality: three lines at a rate of 0.5 violate `StoredBalance` (see
Rounding). The proposals of the run `ledger` satisfy it.

`EntriesFitReports` is where the two models of the journal meet. `Entries` says what
`Reporting` takes for granted of a posted entry (`BalancedLines`) and what a reversal is
(`Inverted`); the theorem reads each row of the ledger as an account, a debit and a credit
(`Reported`) and finds that entries are balanced lines on their company's chart and
reversals inverted originals. `Ledger` lets two requests reverse the same entry (the finding
about `ReversedOnce`), and so does `Reporting`.

`AppendOnly` and `PostedForEver` have theorems and no run of their own: what they say of
entries and numbers is part of `ImplementsBooks`, which `ledger` checks.

### Sales orders and stock (`SalesProofs`)

Assumptions: `OrdersAssumption` (finitely many orders, baskets of positive quantities, null
values differ from real ones).

| Theorem | Says |
|---|---|
| `TypeCorrect` | `Spec => []TypeOK` |
| `NeverOversold` | `Spec => []StockBounds` |
| `StockIsItsMovements` | `Spec => []StockMatchesMovements` |
| `ReservationsKept` | `Spec => []ReservationLostOnlyLate` |
| `RefinesLifecycle` | `Spec => ImplementsLifecycle` |

The inductive invariant (`IInv`) adds to the properties: what each open transaction knows
(`AllFit`: the status it re-read under the order's lock still stands; its pending changes to
an item are those of the lines it has done, and they keep the bounds), that no two
transactions hold one row (`Locks`), that the keys in the journal are those of the moves an
order has made (`KeysFollowStatus`), and what orders in each status have moved (`MovesFit`).
The bounds need the pending changes because `ReserveStockTx` and `ShipStockTx` check and
update line by line while the product may be on two lines; the sums over orders are handled
by `SumChange`, as a step changes one order's term. The refinement maps the commit of a move
to the step of `OrderLifecycle`, and a stale call, which the re-read status or a key refuses,
to a stutter.

### What orders are worth (`AmountsProofs`)

Assumptions: `UnitAssumption` and `AmountsAssumption` (finitely many orders and products, costs
that are not negative and quantities received that are positive, as `ReceiveStock` demands; steps
of the columns that are whole units, those of an order line multiples of those of the stock; an
order has lines, all of products of its company, as `CreateOrder` looks them up, and a positive
rate, which no adapter sends and the application service sets to 1.0; products earn on accounts
that are neither receivables nor inventory). Prices, ordered quantities and list prices are not
restricted beyond their types, nor is the scale of any decimal.

| Theorem | Says |
|---|---|
| `InvariantHolds` | `Spec => []IInv` |
| `BooksHold` | `Spec => []BooksAgree` |
| `BoundsHold` | `Spec => []StockBounds` |
| `AdvanceHolds` | `Spec => []CanAdvance` |

The inductive invariant is

    IInv == Types /\ ItemFits of every item /\ OrderFits of every order /\ BooksAgree /\ StockBounds

* `ItemFits`: stock and costs are not negative, and a product without an item has no stock.
  Without it an average need not be within half a unit of what it averages.
* `OrderFits`: the lines of an order are of its own company, so that what a shipment costs leaves
  the stock of the company whose account it credits; they add up to the total unless one of
  several was rounded, which is what `CanAdvance` needs for the invoice; and what was invoiced
  is positive, which it needs for the payment.

`ReserveStockTx` and `ShipStockTx` are folds over the lines of an order, several of which may be
of one product. `ReserveKeeps` and `ShipKeeps` say what holds after any number of lines: nothing
but reservations changed, or no cost changed and the cost of the goods so far is what the value of
the company's stock lost; and an item that no line takes backwards stays within its bounds.

An entry moves a balance by what its rows add up to (`BookMoves`). A receipt, a shipment and a
payment are one amount on two accounts (`TransferMoves`). An invoice has one row per revenue
account in an order nobody chose, so its sum is one over a bijection (`InvoiceParts`,
`SumRenamed`). Receivables are then exact: they are a sum over all orders of what each owes,
nothing while it is not invoiced (`OpenIsSettled`), and each operation changes one summand and
the account by the same (`OpenMoves`). Inventory is not: each entry may be half a cent off
(`RoundedError`), each receipt may lose or gain half a quantity step at its cost, and each average
may be off by half a cost step and half the unit of the division for each unit on hand
(`AverageError`, `StockError`), and
`StockValueDrift` is the sum of these budgets (`NearMoves`). `CanAdvance` needs no induction of its
own: it follows from `IInv` (`CanAdvanceFromIInv`), with the credits of an invoice adding up to
its debit (`RevenueAddsUp`, which sums the lines by their accounts).

### Purchase orders (`PurchaseProofs`)

Assumptions: `POAssumption` (orders and requests are non-empty sequences of lines, with quantities
of any sign and any number of decimals; no order has more than `MaxLines` lines).

| Theorem | Says |
|---|---|
| `TypeCorrect` | `Spec => []TypeOK` |
| `VendorPaidOnce` | `Spec => []PaidOnce` |
| `ReceivedMeansReceipt` | `Spec => []ReceivedHasReceipt` |
| `OverReceiptNeedsTwoDays` | `Spec => []OverReceiptSpansDays` |
| `StrandedMeansFailure` | `Spec => []StrandedOnlyByFailure` |
| `OverReceiptMeansStale` | `Spec => OverReceiptOnlyStale` |

`ReceivePO` holds no lock between its transactions, so the invariant cannot say that what it
read is still true, only in which direction it can have changed: what a line had received when
it was checked is at most what it has received now, an order that was APPROVED is so still or
further on, and goods received on a day have the key of that day (`OrderFits`, `LineFits`,
`RunFits`). `StrandedOnlyByFailure` needs that of all the calls that received lines of an
order, one that did not fail is still running or has set RECEIVED.

### The chat's confirmations (`WebProofs`)

Assumptions: `ChatAssumption` (journal-entry tokens are tokens, a user has one company, time is
counted). That the company of a user is a constant is the code's doing: no statement of it
updates a row of `users`.

| Theorem | Says |
|---|---|
| `TypeCorrect` | `Spec => []TypeOK` |
| `ExecutedOnRequest` | `Spec => []ConfirmedByMember` |
| `JournalExecutedOnce` | `Spec => []JournalOnce` |
| `TokensNotReused` | `Spec => TokensUsedUp` |

The invariant follows each request through `chatConfirm`: past the company check its user is of
the company the action was proposed in, which no later step changes, past the decision it was
asked to confirm (`RequestFits`); and nobody is on record for a token that was never handed out
(`ActionsFit`), so that a new action under a token changes what is said of no execution.
`JournalOnce` does not follow from the store,
which several requests may have read before one deletes, but from the key of the entry.

### The dialogue (`DialogueProofs`)

Assumptions: `DialogueAssumption` (proposals and forms have their fields, with numbers or the
blank and malformed values in them; nothing else about what the model answers) and
`NoneAssumption` (no proposal is the value that stands for none).

| Theorem | Says |
|---|---|
| `TypeCorrect` | `Spec => []TypeOK` |
| `EntriesTwoSided` | `Spec => []TwoSided` |
| `PostedOnce` | `Spec => []PostedOnceUnlessLost` |
| `RowsBalance` | `Spec => []StoredBalance` |
| `DriftIsBounded` | `Spec => []DriftBounded` |

The invariant ties the loop counters to the phase (`LoopsFit`: at the limit the loop is left),
says that what is shown or committed went through `Normalize` and `Validate` or through the
form (`ProposalFits`), and counts: an event is in the journal once for each lost answer and
once more if its user was told so (`PostedFits`). The last two theorems apply `Totals`.

### The pool and the reports (`WebProofs`, `ReportingProofs`)

| Theorem | Says |
|---|---|
| `ExhaustionNeedsFullPool` | `PoolSpec => []ExhaustedOnlyWhenFull` |
| `SheetAgrees` | `Spec => []SheetMatchesIncome` |
| `StatementsAgree` | `Spec => []StatementMatchesSheet` |
| `ViewsAreFresh` | `Spec => []RefreshedUnlessOverlapped` |

For the pool (`PoolAssumption`: the pool has a connection, and orders, items and the names of
the other steps differ) the invariant says what the steps a handler has left reveal of what it holds
(`HandlerFits`, `LockFits`) and that connections are never overdrawn; if every connection is
held by a waiting handler, following a row lock to its holder never ends in a cycle (orders
are locked before items), so one of the transactions waits for a connection.

The reports (`SheetAgrees`, `StatementsAgree`) assume `ReportingAssumption`: finitely many
accounts, each of one of the five types, months that do not go back in time, and
that what is posted balances, which `EntriesFitReports` proves of the ledger where no product
needs rounding. Each report
is the balance of a set of lines (`NetOfTypeIsBalance`, `EarnedIsBalance`); balances add over
disjoint sets, the lines of an entry balance out, a reversal preserves that
(`InvertedBalanced`), and the entries up to the last day of a month are those of the
months so far (`UpToLastDay`). Of a statement that broke off, the lines of a day before its last
line's are all there, because they arrive in the order of their days (`StatementIsSheet`).

`ViewsAreFresh` rests on `ViewsFit` and `AloneFits`: the snapshot of a running request is at
least as new as everything a request that ended alone had seen, and a request that is still
alone is the only one running, so nothing has overwritten what it installed.

### Model-checked only

* Liveness (`EveryTxEnds`, `EveryRequestEnds`, `Returns`, `EndsUnlessExhausted`,
  `ExpiredIsEvicted`): fairness and ENABLED are outside the prover.
* Nothing is proved about `SelectSeq`, for which the prover has no definition; the models
  that are proved about filter sets of indices instead.

## 6. What is not modelled, and the plan

Not modelled and not planned: authentication, page rendering, master data that is inserted by
one statement (customers, products, vendors, users), migrations, seeding and `verify-db`,
which run alone; the wording of SSE events and reports; the OpenAI client; the slash commands
and read tools, which pass their arguments on and format the answer. `ReleaseReservationTx`
has no effect where it is called (DRAFT orders have no reservations). A company has one active
warehouse in the models; the code takes the first. `examples/openai-go-sdk-reference` and
`vendor` are third-party code: they hold most of the repository's lines of Go, so the share of
lines that the models cover is small although the services are covered.

The inputs of `Dialogue` come from one user, one at a time; two users who record the same
event are two events.

Nothing of the plan is left but what the prover cannot do: the liveness properties stay with
TLC.
