------------------------------ MODULE Dialogue ------------------------------
(***************************************************************************)
(* How an event of the business becomes a journal entry: the command line's *)
(* dialogue with the AI agent (internal/adapters/repl/repl.go over          *)
(* internal/ai/agent.go) and the manual entry form of the web pages         *)
(* (internal/adapters/web/accounting.go).                                  *)
(*                                                                         *)
(* One user tells the events one after the other.  An answer of the agent's *)
(* tool loop is a sequence of items handled in order; what the model writes *)
(* is arbitrary.  A commit may take effect although its answer is lost; the *)
(* user then tells the event again, under a fresh idempotency key.  The     *)
(* ledger itself is Ledger.tla: here it refuses or stores the rows.         *)
(***************************************************************************)
EXTENDS ProposalLogic

CONSTANTS
  Events,        \* what the user has to record
  ReadTools,     \* registered tools the agent runs by itself
  WriteTools,    \* registered tools it may only propose
  RawProposals,  \* the proposals the model may write
  Forms,         \* the forms the user may submit: [rate, rows]
  MaxRounds,     \* rounds of clarification before the dialogue gives up
  MaxLoops,      \* calls of the model in one run of the tool loop
  MaxItems,      \* bound: items in one answer of the model
  MaxTries,      \* bound: how often the user tells an event
  None           \* no proposal, no event

\* What a form may hold as numbers: any rate and any amounts in any rows.
FormNumbers(form) ==
  /\ form.rate \in Int \cup {Blank, Malformed, OtherZero}
  /\ Len(form.rows) \in Nat /\ DOMAIN form.rows = 1 .. Len(form.rows)
  /\ \A i \in DOMAIN form.rows :
       {form.rows[i].debit, form.rows[i].credit} \subseteq Int \cup {Blank, Malformed}

ASSUME DialogueAssumption ==
  /\ MaxRounds \in Nat \ {0} /\ MaxLoops \in Nat \ {0}
  /\ MaxItems \in Nat /\ MaxTries \in Nat
  /\ ReadTools \cap WriteTools = {}
  /\ None \notin Events
  /\ \A raw \in RawProposals :
       /\ ProposalNumbers(raw) /\ {"rate", "docDate", "lines"} \subseteq DOMAIN raw
       /\ \A i \in DOMAIN raw.lines : {"debit", "amt"} \subseteq DOMAIN raw.lines[i]
  /\ \A form \in Forms : FormNumbers(form)

VARIABLES
  phase,     \* where the program is
  event,     \* the event being told
  rounds,    \* clarification rounds of the loop the program is in
  loops,     \* calls of the model in this run of the tool loop
  items,     \* items of the answer that are still to be handled
  readCalls, \* has this answer called a read tool
  proposal,  \* the proposal shown to the user
  tries,     \* ghost: how often each event was told
  posted,    \* ghost: entries posted for each event
  lost,      \* ghost: commits of each event whose answer was lost
  told       \* ghost: events the user was told are recorded

agentVars == <<rounds, loops, items, readCalls>>
bookVars  == <<posted, lost, told>>
vars == <<phase, event, agentVars, proposal, tries, bookVars>>

\* An item of an answer: a text, one of the two meta-tools, a call of a
\* registered tool, or a call of an unknown tool or with unreadable arguments.
Items == {"message", "clarify", "route", "garbled"} \cup ReadTools \cup WriteTools

UserTurn == {"prompt", "followUp", "propose", "journalFollowUp", "approve"}
Program  == {"ask", "items", "journal", "commit"}

Init ==
  /\ phase = "prompt" /\ event = None
  /\ rounds = 0 /\ loops = 0 /\ items = <<>> /\ readCalls = FALSE
  /\ proposal = None
  /\ tries = [e \in Events |-> 0]
  /\ posted = [e \in Events |-> 0]
  /\ lost = [e \in Events |-> 0]
  /\ told = {}
-----------------------------------------------------------------------------
(***************************************************************************)
(* The dialogue and the tool loop.                                         *)
(***************************************************************************)
\* Back to the prompt: every break out of the dialogue.
BackToPrompt ==
  /\ phase' = "prompt" /\ event' = None
  /\ rounds' = 0 /\ loops' = 0 /\ items' = <<>> /\ readCalls' = FALSE
  /\ proposal' = None

\* The user tells an event that, as far as they know, is not recorded.
Tells(e) ==
  /\ phase = "prompt" /\ e \notin told /\ tries[e] < MaxTries
  /\ tries' = [tries EXCEPT ![e] = @ + 1]
  /\ event' = e

TellEvent(e) ==
  /\ Tells(e)
  /\ phase' = "ask" /\ rounds' = 1 /\ loops' = 0
  /\ UNCHANGED <<items, readCalls, proposal, bookVars>>

\* One call of the model in the tool loop; an error or the time limit ends
\* the dialogue.
ModelAnswers ==
  /\ phase = "ask"
  /\ loops' = loops + 1
  /\ \E n \in 0 .. MaxItems : \E answer \in [1 .. n -> Items] : items' = answer
  /\ readCalls' = FALSE
  /\ phase' = "items"
  /\ UNCHANGED <<event, rounds, proposal, tries, bookVars>>

ModelFails ==
  /\ phase \in {"ask", "journal"}
  /\ BackToPrompt
  /\ UNCHANGED <<tries, bookVars>>

Item(kinds) == phase = "items" /\ items # <<>> /\ Head(items) \in kinds

\* The only tools the loop runs by itself; their results say nothing of the state.
RunReadTool ==
  /\ Item(ReadTools)
  /\ readCalls' = TRUE
  /\ items' = Tail(items)
  /\ UNCHANGED <<phase, event, rounds, loops, proposal, tries, bookVars>>

\* A text ends the dialogue with an answer, a garbled call with an error.
AnswerOrError ==
  /\ Item({"message", "garbled"})
  /\ BackToPrompt
  /\ UNCHANGED <<tries, bookVars>>

AskUser ==
  /\ Item({"clarify"})
  /\ phase' = "followUp" /\ items' = <<>>
  /\ UNCHANGED <<event, rounds, loops, readCalls, proposal, tries, bookVars>>

ProposeAction ==
  /\ Item(WriteTools)
  /\ phase' = "propose" /\ items' = <<>>
  /\ UNCHANGED <<event, rounds, loops, readCalls, proposal, tries, bookVars>>

RouteToJournal ==
  /\ Item({"route"})
  /\ phase' = "journal" /\ rounds' = 1
  /\ loops' = 0 /\ items' = <<>> /\ readCalls' = FALSE
  /\ UNCHANGED <<event, proposal, tries, bookVars>>

\* Mutants of NextIteration: one more iteration, or no count of them.
NextIterationOneMore ==
  /\ phase = "items" /\ items = <<>>
  /\ \/ /\ readCalls /\ loops <= MaxLoops
        /\ phase' = "ask" /\ readCalls' = FALSE
        /\ UNCHANGED <<event, rounds, loops, items, proposal>>
     \/ ~(readCalls /\ loops <= MaxLoops) /\ BackToPrompt
  /\ UNCHANGED <<tries, bookVars>>

NextIterationEndless ==
  /\ phase = "items" /\ items = <<>>
  /\ \/ /\ readCalls
        /\ phase' = "ask" /\ readCalls' = FALSE /\ loops' = 0
        /\ UNCHANGED <<event, rounds, items, proposal>>
     \/ ~readCalls /\ BackToPrompt
  /\ UNCHANGED <<tries, bookVars>>

\* Every item was a read: their results go back to the model, MaxLoops times.
NextIteration ==
  /\ phase = "items" /\ items = <<>>
  /\ \/ /\ readCalls /\ loops < MaxLoops
        /\ phase' = "ask" /\ readCalls' = FALSE
        /\ UNCHANGED <<event, rounds, loops, items, proposal>>
     \/ ~(readCalls /\ loops < MaxLoops) /\ BackToPrompt
  /\ UNCHANGED <<tries, bookVars>>

\* The user answers the question, and the loop starts again unless its rounds
\* are used up.
Clarify ==
  /\ \/ phase = "followUp" /\ phase' = "ask"
     \/ phase = "journalFollowUp" /\ phase' = "journal"
  /\ rounds < MaxRounds
  /\ rounds' = rounds + 1 /\ loops' = 0 /\ readCalls' = FALSE
  /\ UNCHANGED <<event, items, proposal, tries, bookVars>>

\* The rounds are used up; the user cancels, types a slash command or says no;
\* or says yes to a proposed action, which the command line cannot execute.
GiveUp ==
  /\ phase \in {"followUp", "journalFollowUp", "propose", "approve"}
  /\ BackToPrompt
  /\ UNCHANGED <<tries, bookVars>>
-----------------------------------------------------------------------------
(***************************************************************************)
(* InterpretEvent, the form, and the commit.                               *)
(***************************************************************************)
JournalClarifies ==
  /\ phase = "journal"
  /\ phase' = "journalFollowUp"
  /\ UNCHANGED <<event, agentVars, proposal, tries, bookVars>>

\* The proposals InterpretEvent lets through, normalised and validated; it
\* answers any other with an error.
Shown == {p \in {Normalize(raw) : raw \in RawProposals} : Validate(p)}

\* Mutant of JournalProposes: the proposal is committed before it is shown.
JournalProposesEagerly ==
  /\ phase = "journal"
  /\ \E p \in Shown : proposal' = p
  /\ phase' = "approve"
  /\ posted' = [posted EXCEPT ![event] = @ + 1]
  /\ UNCHANGED <<event, agentVars, tries, lost, told>>

JournalProposes ==
  /\ phase = "journal"
  /\ \E p \in Shown : proposal' = p
  /\ phase' = "approve"
  /\ UNCHANGED <<event, agentVars, tries, bookVars>>

JournalRejected ==
  /\ phase = "journal"
  /\ \E raw \in RawProposals : Normalize(raw) \notin Shown
  /\ BackToPrompt
  /\ UNCHANGED <<tries, bookVars>>

Approve ==
  /\ phase = "approve"
  /\ phase' = "commit"
  /\ UNCHANGED <<event, agentVars, proposal, tries, bookVars>>

\* buildProposal: a row of the form becomes a line for its debit and a line
\* for its credit, where positive, each rounded to two decimals before the
\* entry is validated; a form with an unreadable amount is refused.
\* Mutant of FormLine: the amounts keep their decimals.
FormLineExact(row, debit) ==
  LET amt == IF debit THEN row.debit ELSE row.credit
  IN IF amt = Blank \/ amt <= 0 THEN <<>>
     ELSE <<[acct |-> row.acct, debit |-> debit, amt |-> amt]>>

FormLine(row, debit) ==
  LET amt == IF debit THEN row.debit ELSE row.credit
  IN IF amt = Blank \/ amt <= 0 THEN <<>>
     ELSE <<[acct |-> row.acct, debit |-> debit, amt |-> RoundTo(amt, AmtUnit) * AmtUnit]>>

FormLines(form) ==
  FlattenSeq([i \in DOMAIN form.rows |->
    IF form.rows[i].acct = Blank THEN <<>>
    ELSE FormLine(form.rows[i], TRUE) \o FormLine(form.rows[i], FALSE)])

FormReadable(form) ==
  \A i \in DOMAIN form.rows :
    form.rows[i].acct = Blank \/ Malformed \notin {form.rows[i].debit, form.rows[i].credit}

FormProposal(form) ==
  [company |-> form.company, type |-> form.type, currency |-> form.currency,
   postDate |-> form.postDate,
   docDate |-> IF form.docDate = Blank THEN form.postDate ELSE form.docDate,
   rate |-> IF form.rate = Blank THEN RateUnit ELSE form.rate,
   lines |-> FormLines(form)]

\* The forms that reach the ledger: it validates them and does not normalise.
Entered ==
  {p \in {FormProposal(form) : form \in {f \in Forms : FormReadable(f)}} : Validate(p)}

ASSUME NoneAssumption == None \notin Shown \cup Entered

SubmitForm(e) ==
  /\ Tells(e)
  /\ \E p \in Entered : proposal' = p
  /\ phase' = "commit"
  /\ UNCHANGED <<agentVars, bookVars>>

Posted == posted' = [posted EXCEPT ![event] = @ + 1]

CommitDone ==
  /\ phase = "commit"
  /\ Posted
  /\ told' = told \cup {event}
  /\ BackToPrompt
  /\ UNCHANGED <<tries, lost>>

\* The ledger refuses: an unknown account, a roll-back.
CommitRefused ==
  /\ phase = "commit"
  /\ BackToPrompt
  /\ UNCHANGED <<tries, bookVars>>

\* The transaction commits and the connection breaks before the answer.
CommitAnswerLost ==
  /\ phase = "commit"
  /\ Posted
  /\ lost' = [lost EXCEPT ![event] = @ + 1]
  /\ BackToPrompt
  /\ UNCHANGED <<tries, told>>
-----------------------------------------------------------------------------
Replies == ModelAnswers \/ JournalClarifies \/ JournalProposes \/ JournalRejected
           \/ ModelFails

Handles ==
  \/ RunReadTool \/ AnswerOrError \/ AskUser \/ ProposeAction \/ RouteToJournal
  \/ NextIteration

Commits == CommitDone \/ CommitRefused \/ CommitAnswerLost

Next ==
  \/ \E e \in Events : TellEvent(e) \/ SubmitForm(e)
  \/ Replies
  \/ Handles
  \/ Clarify \/ GiveUp \/ Approve
  \/ Commits

\* The model's calls end by their time limits (60 and 45 seconds), a commit by
\* an answer of the database; the user need not do anything.
Fairness == WF_vars(Replies) /\ WF_vars(Handles) /\ WF_vars(Commits)

Spec == Init /\ [][Next]_vars /\ Fairness
-----------------------------------------------------------------------------
Distance(a, b) == IF a < b THEN b - a ELSE a - b

TypeOK ==
  /\ phase \in UserTurn \cup Program
  /\ event \in Events \cup {None}
  /\ rounds \in 0 .. MaxRounds /\ loops \in 0 .. MaxLoops
  /\ items \in Seq(Items) /\ Len(items) <= MaxItems
  /\ readCalls \in BOOLEAN
  /\ tries \in [Events -> 0 .. MaxTries]
  /\ told \subseteq Events
  /\ (event = None) <=> (phase = "prompt")
  /\ (proposal # None) <=> (phase \in {"approve", "commit"})

\* An event is in the books twice only after the answer of a commit was lost:
\* a fresh idempotency key protects from nothing else (agent.go InterpretEvent,
\* accounting.go buildProposal).
PostedOnceUnlessLost == \A e \in Events : posted[e] <= 1 + lost[e]

\* An entry that reaches the ledger has money on both sides.  Validate asks only
\* for two lines and equal sums: that a debit alone does not pass rests on every
\* amount being positive, the zeroes Normalize writes for blanks refused
\* (proposal_logic.go:94).
TwoSided ==
  phase = "commit" =>
    \A side \in BOOLEAN : \E i \in DOMAIN proposal.lines : proposal.lines[i].debit = side

\* The rows a commit is about to store, and whether a form made them: only the
\* dialogue has rounds.
Rows == IF phase = "commit" THEN StoredLines(proposal) ELSE <<>>
Typed == phase = "commit" /\ rounds = 0

\* A transfer between two accounts balances as it is stored, whatever its rate
\* and its decimals; and so does every entry typed in the base currency, since
\* buildProposal rounds each amount before Validate sees it.
StoredBalance ==
  Len(Rows) = 2 \/ (Typed /\ proposal.rate = RateUnit) =>
     DebitTotal(Rows) = CreditTotal(Rows)

\* Validate balances the exact products and executeCore stores them rounded:
\* any other entry is out of balance by at most half a cent per line.
DriftBounded == 2 * Distance(DebitTotal(Rows), CreditTotal(Rows)) <= Len(Rows)

\* The program always comes back to its user, however the model answers: the
\* tool loop and both clarification loops end.
Returns == phase \in Program ~> phase \in UserTurn
=============================================================================
