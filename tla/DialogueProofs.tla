--------------------------- MODULE DialogueProofs ---------------------------
(***************************************************************************)
(* Proofs about Dialogue, for every set of events, tools, proposals and    *)
(* forms and every limit of the loops.                                     *)
(*                                                                         *)
(* The inductive invariant IInv adds to the properties what the program    *)
(* knows where it stands: which loop it is in (LoopsFit), that what it is  *)
(* about to show or to commit passed Validate, and who made it             *)
(* (ProposalFits), and what the books hold of an event (PostedFits).       *)
(***************************************************************************)
EXTENDS Dialogue, Totals

-----------------------------------------------------------------------------
(* The inductive invariant *)

Types ==
  /\ phase \in UserTurn \cup Program
  /\ event \in Events \cup {None}
  /\ rounds \in 0 .. MaxRounds /\ loops \in 0 .. MaxLoops
  /\ items \in Seq(Items) /\ Len(items) <= MaxItems
  /\ readCalls \in BOOLEAN
  /\ tries \in [Events -> 0 .. MaxTries]
  /\ posted \in [Events -> Nat] /\ lost \in [Events -> Nat]
  /\ told \subseteq Events

\* Only the loops of the dialogue count rounds, and only an iteration that may
\* still call the model asks it.
LoopsFit ==
  /\ (event = None) <=> (phase = "prompt")
  /\ event \notin told
  /\ phase = "prompt" => rounds = 0
  /\ phase \notin {"prompt", "commit"} => rounds > 0
  /\ phase = "ask" => loops < MaxLoops

\* What is shown came out of Normalize and Validate; what is committed is that
\* or, outside the dialogue, a validated form.
ProposalFits ==
  /\ phase = "approve" => proposal \in Shown
  /\ phase = "commit" => proposal \in IF rounds > 0 THEN Shown ELSE Entered
  /\ phase \notin {"approve", "commit"} => proposal = None

\* An event is in the books once for each answer that was lost, and once more
\* when its user was told so.
PostedFits ==
  \A e \in Events : posted[e] = lost[e] + IF e \in told THEN 1 ELSE 0

IInv == Types /\ LoopsFit /\ ProposalFits /\ PostedFits
-----------------------------------------------------------------------------
(* What reaches the ledger *)

\* What a valid proposal guarantees of its rows is known of p.
IsProposal(p) == ProposalNumbers(p) /\ Validate(p)

\* The dialogue: Normalize and Validate have seen what the model wrote.
LEMMA ShownIsProposal ==
  ASSUME NEW p \in Shown
  PROVE  IsProposal(p)
<1>1. PICK raw \in RawProposals : p = Normalize(raw) /\ Validate(p)
  BY DEF Shown
<1>2. ProposalNumbers(Normalize(raw))
  BY DialogueAssumption, NormalizeNumbers
<1> QED
  BY <1>1, <1>2 DEF IsProposal

\* The amounts buildProposal writes: whole cents.
FormAmounts == {k * AmtUnit : k \in Nat}
LineType(accts) == [acct : accts, debit : BOOLEAN, amt : FormAmounts]

LEMMA FormLineType ==
  ASSUME NEW row, NEW debit \in BOOLEAN, NEW accts, row.acct \in accts,
         {row.debit, row.credit} \subseteq Int \cup {Blank}
  PROVE  FormLine(row, debit) \in Seq(LineType(accts))
<1> DEFINE amt == IF debit THEN row.debit ELSE row.credit
           line == [acct |-> row.acct, debit |-> debit, amt |-> RoundTo(amt, AmtUnit) * AmtUnit]
<1>1. FormLine(row, debit) = IF amt = Blank \/ amt <= 0 THEN <<>> ELSE <<line>>
  BY DEF FormLine
<1>2. amt \in Int \cup {Blank}
  OBVIOUS
<1>3. CASE amt = Blank \/ amt <= 0
  BY <1>1, <1>3
<1>4. CASE ~(amt = Blank \/ amt <= 0)
  <2>1. amt \in Nat
    <3> HIDE DEF amt
    <3> QED
      BY <1>2, <1>4
  <2> DEFINE k == RoundTo(amt, AmtUnit)
  <2> HIDE DEF amt
  <2>2. k \in Nat
    BY <2>1, UnitAssumption, RoundToError
  <2>3. k * AmtUnit \in FormAmounts
    BY <2>2 DEF FormAmounts
  <2>4. line \in LineType(accts)
    BY <2>3 DEF LineType
  <2> HIDE DEF line
  <2> QED
    BY <1>1, <1>4, <2>4
<1> QED
  BY <1>3, <1>4

\* The lines of a form that can be read, unless it has no row.
LEMMA FormLinesType ==
  ASSUME NEW form \in Forms, FormReadable(form), Len(form.rows) # 0
  PROVE  \E accts : FormLines(form) \in Seq(LineType(accts))
<1> DEFINE accts == {form.rows[i].acct : i \in DOMAIN form.rows}
           part(i) == IF form.rows[i].acct = Blank THEN <<>>
                      ELSE FormLine(form.rows[i], TRUE) \o FormLine(form.rows[i], FALSE)
           parts == [i \in DOMAIN form.rows |-> part(i)]
<1>1. /\ Len(form.rows) \in Nat \ {0} /\ DOMAIN form.rows = 1 .. Len(form.rows)
      /\ \A i \in DOMAIN form.rows :
           {form.rows[i].debit, form.rows[i].credit} \subseteq Int \cup {Blank, Malformed}
  BY DialogueAssumption DEF FormNumbers
<1>2. ASSUME NEW i \in DOMAIN form.rows
      PROVE  part(i) \in Seq(LineType(accts))
  <2>1. CASE form.rows[i].acct = Blank
    BY <2>1
  <2>2. CASE form.rows[i].acct # Blank
    <3>1. {form.rows[i].debit, form.rows[i].credit} \subseteq Int \cup {Blank}
      BY <1>1, <2>2 DEF FormReadable
    <3> DEFINE a == FormLine(form.rows[i], TRUE)
               b == FormLine(form.rows[i], FALSE)
               T == LineType(accts)
    <3>2. form.rows[i].acct \in accts
      OBVIOUS
    <3> HIDE DEF accts
    <3>3. a \in Seq(T) /\ b \in Seq(T)
      BY <3>1, <3>2, FormLineType
    <3>4. part(i) = a \o b
      BY <2>2
    <3> HIDE DEF a, b, T, part
    <3>5. a \o b \in Seq(T)
      BY <3>3
    <3> QED
      BY <3>4, <3>5 DEF T
  <2> QED
    BY <2>1, <2>2
<1>3. FormLines(form) = FlattenSeq(parts)
  BY DEF FormLines
<1>4. DOMAIN parts = 1 .. Len(form.rows) /\ \A i \in DOMAIN parts : parts[i] = part(i)
  BY <1>1
<1> HIDE DEF accts, part, parts
<1>5. Len(parts) = Len(form.rows)
  BY <1>1, <1>4
<1>6. FlattenSeq(parts) \in Seq(LineType(accts))
  BY <1>1, <1>2, <1>4, <1>5, FlattenSeqType
<1> QED
  BY <1>3, <1>6

\* The form: its amounts are whole cents before Validate sees them.
LEMMA EnteredIsProposal ==
  ASSUME NEW p \in Entered
  PROVE  IsProposal(p) /\ (p.rate = RateUnit => WholeCents(p))
<1>1. PICK form \in Forms : FormReadable(form) /\ p = FormProposal(form) /\ Validate(p)
  BY DEF Entered
<1>2. p.lines = FormLines(form)
      /\ p.rate = IF form.rate = Blank THEN RateUnit ELSE form.rate
  BY <1>1 DEF FormProposal
<1>3. p.rate \in Int \cup {Blank, Malformed, OtherZero}
  BY <1>2, DialogueAssumption, UnitAssumption DEF FormNumbers
<1>4. Len(form.rows) # 0
  <2> SUFFICES ASSUME Len(form.rows) = 0 PROVE FALSE
    OBVIOUS
  <2> DEFINE parts == [i \in DOMAIN form.rows |->
                         IF form.rows[i].acct = Blank THEN <<>>
                         ELSE FormLine(form.rows[i], TRUE) \o FormLine(form.rows[i], FALSE)]
  <2>1. FormLines(form) = FlattenSeq(parts)
    BY DEF FormLines
  <2>2. DOMAIN parts = 1 .. 0
    BY DialogueAssumption DEF FormNumbers
  <2> HIDE DEF parts
  <2>3. Len(parts) = 0
    BY <2>2
  <2>4. FlattenSeq(parts) = parts
    BY <2>3 DEF FlattenSeq
  <2> QED
    BY <1>1, <1>2, <2>1, <2>3, <2>4 DEF Validate
<1>5. PICK accts : p.lines \in Seq(LineType(accts))
  BY <1>1, <1>2, <1>4, FormLinesType
<1>6. /\ Len(p.lines) \in Nat /\ DOMAIN p.lines = 1 .. Len(p.lines)
      /\ \A i \in DOMAIN p.lines : p.lines[i] \in LineType(accts)
  BY <1>5
<1>7. ASSUME NEW i \in DOMAIN p.lines
      PROVE  p.lines[i].debit \in BOOLEAN /\ p.lines[i].amt \in FormAmounts
  BY <1>6 DEF LineType
<1>8. FormAmounts \subseteq Int
  BY UnitAssumption DEF FormAmounts
<1>9. ProposalNumbers(p)
  BY <1>3, <1>6, <1>7, <1>8 DEF ProposalNumbers
<1>10. ASSUME p.rate = RateUnit PROVE WholeCents(p)
  <2> SUFFICES ASSUME NEW i \in DOMAIN p.lines
               PROVE  \E k \in Nat : ExactBase(p.lines[i], p.rate) = k * Unit
    BY DEF WholeCents
  <2>1. PICK k \in Nat : p.lines[i].amt = k * AmtUnit
    BY <1>7 DEF FormAmounts
  <2>2. (k * AmtUnit) * RateUnit = k * (AmtUnit * RateUnit)
    BY UnitAssumption
  <2> QED
    BY <1>10, <2>1, <2>2 DEF ExactBase, Unit
<1> QED
  BY <1>1, <1>9, <1>10 DEF IsProposal
-----------------------------------------------------------------------------
(* The steps *)

LEMMA EmptyType == <<>> \in Seq(Items) /\ Len(<<>>) = 0
OBVIOUS

\* The prompt satisfies what Types says of the loops.
LEMMA PromptTypes ==
  /\ "prompt" \in UserTurn \cup Program /\ None \in Events \cup {None}
  /\ 0 \in 0 .. MaxRounds /\ 0 \in 0 .. MaxLoops /\ Len(<<>>) <= MaxItems
BY EmptyType, DialogueAssumption DEF UserTurn

\* Back at the prompt only the books and the counts can be wrong.
LEMMA BackTypes ==
  ASSUME Types, BackToPrompt, tries' = tries,
         posted' \in [Events -> Nat], lost' \in [Events -> Nat], told' \subseteq Events
  PROVE  Types'
<1>1. /\ phase' = "prompt" /\ event' = None /\ rounds' = 0 /\ loops' = 0
      /\ items' = <<>> /\ readCalls' = FALSE
  BY DEF BackToPrompt
<1>2. /\ phase' \in UserTurn \cup Program /\ event' \in Events \cup {None}
      /\ rounds' \in 0 .. MaxRounds /\ loops' \in 0 .. MaxLoops
      /\ items' \in Seq(Items) /\ Len(items') <= MaxItems /\ readCalls' \in BOOLEAN
  BY <1>1, PromptTypes, EmptyType
<1>3. tries' \in [Events -> 0 .. MaxTries]
  BY DEF Types
<1> QED
  BY <1>2, <1>3 DEF Types

LEMMA InitEstablishes == Init => IInv
<1> SUFFICES ASSUME Init PROVE IInv
  OBVIOUS
<1>1. Types
  <2>1. /\ phase = "prompt" /\ event = None /\ rounds = 0 /\ loops = 0 /\ items = <<>>
        /\ readCalls = FALSE /\ told = {}
    BY DEF Init
  <2>2. tries \in [Events -> 0 .. MaxTries]
    BY DialogueAssumption DEF Init
  <2>3. posted \in [Events -> Nat] /\ lost \in [Events -> Nat]
    BY DEF Init
  <2> QED
    BY <2>1, <2>2, <2>3, PromptTypes, EmptyType DEF Types
<1>2. LoopsFit /\ ProposalFits /\ PostedFits
  BY DEF Init, LoopsFit, ProposalFits, PostedFits
<1> QED
  BY <1>1, <1>2 DEF IInv

\* Giving up without a trace: back to the prompt with the books unchanged.
LEMMA BackKeeps ==
  ASSUME IInv, BackToPrompt, UNCHANGED <<tries, bookVars>>
  PROVE  IInv'
<1>1. Types'
  <2>1. Types
    BY DEF IInv
  <2>2. posted' \in [Events -> Nat] /\ lost' \in [Events -> Nat] /\ told' \subseteq Events
    BY <2>1 DEF Types, bookVars
  <2> QED
    BY <2>1, <2>2, BackTypes
<1>2. LoopsFit'
  BY DialogueAssumption DEF IInv, Types, LoopsFit, BackToPrompt, bookVars
<1>3. ProposalFits'
  BY DEF ProposalFits, BackToPrompt
<1>4. PostedFits'
  BY DEF IInv, PostedFits, bookVars
<1> QED
  BY <1>1, <1>2, <1>3, <1>4 DEF IInv

\* A step between two phases of the dialogue that leaves event, proposal and
\* books alone.
LEMMA StayKeeps ==
  ASSUME IInv, phase \notin {"prompt", "approve", "commit"},
         phase' \in (UserTurn \cup Program) \ {"prompt", "approve", "commit"},
         rounds' \in 1 .. MaxRounds, loops' \in 0 .. MaxLoops,
         phase' = "ask" => loops' < MaxLoops,
         items' \in Seq(Items), Len(items') <= MaxItems, readCalls' \in BOOLEAN,
         UNCHANGED <<event, proposal, tries, bookVars>>
  PROVE  IInv'
<1>1. Types'
  BY DialogueAssumption DEF IInv, Types, bookVars
<1>2. LoopsFit'
  BY DialogueAssumption DEF IInv, LoopsFit, bookVars
<1>3. ProposalFits'
  BY DEF IInv, ProposalFits
<1>4. PostedFits'
  BY DEF IInv, PostedFits, bookVars
<1> QED
  BY <1>1, <1>2, <1>3, <1>4 DEF IInv

\* What an item that is handled leaves of the answer.
LEMMA TailType ==
  ASSUME Types, items # <<>>
  PROVE  Tail(items) \in Seq(Items) /\ Len(Tail(items)) <= MaxItems
<1>1. items \in Seq(Items) /\ Len(items) <= MaxItems /\ Len(items) \in Nat
  BY DEF Types
<1>2. Tail(items) \in Seq(Items) /\ Len(Tail(items)) = Len(items) - 1
  BY <1>1
<1> QED
  BY <1>1, <1>2, DialogueAssumption

LEMMA AnswerType ==
  ASSUME NEW n \in Nat, NEW answer \in [1 .. n -> Items]
  PROVE  answer \in Seq(Items) /\ Len(answer) = n
OBVIOUS

\* What Types and LoopsFit say where the dialogue is.
LEMMA InDialogue ==
  ASSUME IInv, phase \notin {"prompt", "commit"}
  PROVE  /\ rounds \in 1 .. MaxRounds /\ loops \in 0 .. MaxLoops
         /\ items \in Seq(Items) /\ Len(items) <= MaxItems
         /\ readCalls \in BOOLEAN
         /\ 0 <= MaxLoops /\ 0 < MaxLoops /\ MaxLoops \in Nat /\ MaxItems \in Nat
         /\ MaxRounds \in Nat \ {0}
BY DialogueAssumption DEF IInv, Types, LoopsFit

LEMMA RepliesKeep == IInv /\ Replies => IInv'
<1> SUFFICES ASSUME IInv, Replies PROVE IInv'
  OBVIOUS
<1>1. CASE ModelAnswers
  <2>1. phase = "ask" /\ loops < MaxLoops
    BY <1>1 DEF ModelAnswers, IInv, LoopsFit
  <2>2. PICK n \in 0 .. MaxItems : \E answer \in [1 .. n -> Items] : items' = answer
    BY <1>1 DEF ModelAnswers
  <2>3. n \in Nat /\ n <= MaxItems
    BY DialogueAssumption
  <2>4. items' \in Seq(Items) /\ Len(items') <= MaxItems
    BY <2>2, <2>3, AnswerType
  <2>5. loops' \in 0 .. MaxLoops
    BY <1>1, <2>1, InDialogue DEF ModelAnswers
  <2>6. /\ UNCHANGED <<event, rounds, proposal, tries, bookVars>>
        /\ phase' = "items" /\ readCalls' = FALSE
    BY <1>1 DEF ModelAnswers
  <2> QED
    BY <2>1, <2>4, <2>5, <2>6, InDialogue, StayKeeps DEF Program
<1>2. CASE JournalClarifies
  BY <1>2, InDialogue, StayKeeps DEF JournalClarifies, agentVars, UserTurn
<1>3. CASE JournalProposes
  <2>1. /\ phase = "journal" /\ phase' = "approve" /\ proposal' \in Shown
        /\ UNCHANGED <<event, rounds, loops, items, readCalls, tries, posted, lost, told>>
    BY <1>3 DEF JournalProposes, agentVars, bookVars
  <2>2. Types'
    BY <2>1 DEF IInv, Types, UserTurn
  <2>3. LoopsFit'
    BY <2>1 DEF IInv, LoopsFit
  <2>4. ProposalFits'
    BY <2>1 DEF ProposalFits
  <2>5. PostedFits'
    BY <2>1 DEF IInv, PostedFits
  <2> QED
    BY <2>2, <2>3, <2>4, <2>5 DEF IInv
<1>4. CASE JournalRejected
  BY <1>4, BackKeeps DEF JournalRejected
<1>5. CASE ModelFails
  BY <1>5, BackKeeps DEF ModelFails
<1> QED
  BY <1>1, <1>2, <1>3, <1>4, <1>5 DEF Replies

LEMMA HandlesKeep == IInv /\ Handles => IInv'
<1> SUFFICES ASSUME IInv, Handles PROVE IInv'
  OBVIOUS
<1>1. CASE RunReadTool
  <2>1. phase = "items" /\ items # <<>> /\ Head(items) \in ReadTools
    BY <1>1 DEF RunReadTool, Item
  <2>2. /\ readCalls' = TRUE
        /\ items' = Tail(items)
        /\ UNCHANGED <<phase, event, rounds, loops, proposal, tries, bookVars>>
    BY <1>1 DEF RunReadTool
  <2>3. items' \in Seq(Items) /\ Len(items') <= MaxItems
    BY <2>1, <2>2, TailType DEF IInv
  <2> QED
    BY <2>1, <2>2, <2>3, InDialogue, StayKeeps DEF Program
<1>2. CASE AnswerOrError
  BY <1>2, BackKeeps DEF AnswerOrError
<1>3. CASE AskUser
  <2>1. /\ phase = "items" /\ phase' = "followUp" /\ items' = <<>>
        /\ UNCHANGED <<event, rounds, loops, readCalls, proposal, tries, bookVars>>
    BY <1>3 DEF AskUser, Item
  <2> QED
    BY <2>1, InDialogue, EmptyType, StayKeeps DEF UserTurn
<1>4. CASE ProposeAction
  <2>1. /\ phase = "items" /\ phase' = "propose" /\ items' = <<>>
        /\ UNCHANGED <<event, rounds, loops, readCalls, proposal, tries, bookVars>>
    BY <1>4 DEF ProposeAction, Item
  <2> QED
    BY <2>1, InDialogue, EmptyType, StayKeeps DEF UserTurn
<1>5. CASE RouteToJournal
  <2>1. /\ phase = "items" /\ phase' = "journal" /\ rounds' = 1
        /\ loops' = 0 /\ items' = <<>> /\ readCalls' = FALSE
        /\ UNCHANGED <<event, proposal, tries, bookVars>>
    BY <1>5 DEF RouteToJournal, Item
  <2>2. rounds' \in 1 .. MaxRounds /\ loops' \in 0 .. MaxLoops
    BY <2>1, InDialogue
  <2>3. items' \in Seq(Items) /\ Len(items') <= MaxItems /\ readCalls' \in BOOLEAN
    BY <2>1, EmptyType, PromptTypes
  <2>4. phase' \in (UserTurn \cup Program) \ {"prompt", "approve", "commit"} /\ phase' # "ask"
    BY <2>1 DEF Program
  <2> QED
    BY <2>1, <2>2, <2>3, <2>4, StayKeeps
<1>6. CASE NextIteration
  <2>1. CASE /\ readCalls /\ loops < MaxLoops
             /\ phase' = "ask" /\ readCalls' = FALSE
             /\ UNCHANGED <<event, rounds, loops, items, proposal>>
    <3>1. phase = "items" /\ UNCHANGED <<tries, bookVars>>
      BY <1>6 DEF NextIteration
    <3> QED
      BY <2>1, <3>1, InDialogue, StayKeeps DEF Program
  <2>2. CASE BackToPrompt
    BY <1>6, <2>2, BackKeeps DEF NextIteration
  <2> QED
    BY <1>6, <2>1, <2>2 DEF NextIteration
<1> QED
  BY <1>1, <1>2, <1>3, <1>4, <1>5, <1>6 DEF Handles

LEMMA ClarifyKeeps == IInv /\ Clarify => IInv'
<1> SUFFICES ASSUME IInv, Clarify PROVE IInv'
  OBVIOUS
<1>1. /\ phase \in {"followUp", "journalFollowUp"} /\ phase' \in {"ask", "journal"}
      /\ rounds < MaxRounds /\ rounds' = rounds + 1 /\ loops' = 0 /\ readCalls' = FALSE
      /\ UNCHANGED <<event, items, proposal, tries, bookVars>>
  BY DEF Clarify
<1>2. rounds' \in 1 .. MaxRounds /\ loops' \in 0 .. MaxLoops /\ loops' < MaxLoops
  BY <1>1, InDialogue
<1> QED
  BY <1>1, <1>2, InDialogue, StayKeeps DEF Program

LEMMA ApproveKeeps == IInv /\ Approve => IInv'
<1> SUFFICES ASSUME IInv, Approve PROVE IInv'
  OBVIOUS
<1>1. /\ phase = "approve" /\ phase' = "commit"
      /\ UNCHANGED <<event, rounds, loops, items, readCalls, proposal, tries,
                     posted, lost, told>>
  BY DEF Approve, agentVars, bookVars
<1>2. Types'
  BY <1>1 DEF IInv, Types, Program
<1>3. LoopsFit'
  BY <1>1 DEF IInv, LoopsFit
<1>4. ProposalFits'
  BY <1>1, InDialogue DEF IInv, ProposalFits
<1>5. PostedFits'
  BY <1>1 DEF IInv, PostedFits
<1> QED
  BY <1>2, <1>3, <1>4, <1>5 DEF IInv

LEMMA TellKeeps ==
  ASSUME NEW e \in Events, IInv, TellEvent(e) \/ SubmitForm(e)
  PROVE  IInv'
<1>1. /\ phase = "prompt" /\ e \notin told /\ event' = e
      /\ tries[e] < MaxTries /\ tries' = [tries EXCEPT ![e] = tries[e] + 1]
      /\ UNCHANGED <<items, readCalls, posted, lost, told>>
  BY DEF TellEvent, SubmitForm, Tells, bookVars, agentVars
<1>2. tries' \in [Events -> 0 .. MaxTries]
  <2>1. tries \in [Events -> 0 .. MaxTries]
    BY DEF IInv, Types
  <2>2. tries[e] + 1 \in 0 .. MaxTries
    BY <1>1, <2>1, DialogueAssumption
  <2> QED
    BY <1>1, <2>1, <2>2
<1>3. e # None
  BY DialogueAssumption
<1>4. PostedFits'
  BY <1>1 DEF IInv, PostedFits
<1>5. CASE TellEvent(e)
  <2>1. phase' = "ask" /\ rounds' = 1 /\ loops' = 0 /\ proposal' = proposal
    BY <1>5 DEF TellEvent
  <2>2. rounds' \in 0 .. MaxRounds /\ loops' \in 0 .. MaxLoops /\ loops' < MaxLoops
    BY <2>1, DialogueAssumption
  <2>3. Types'
    BY <1>1, <1>2, <2>1, <2>2 DEF IInv, Types, Program
  <2>4. LoopsFit'
    BY <1>1, <1>3, <2>1, <2>2 DEF LoopsFit
  <2>5. ProposalFits'
    BY <1>1, <2>1 DEF IInv, ProposalFits
  <2> QED
    BY <1>4, <2>3, <2>4, <2>5 DEF IInv
<1>6. CASE SubmitForm(e)
  <2>1. /\ phase' = "commit" /\ proposal' \in Entered
        /\ UNCHANGED <<rounds, loops>>
    BY <1>6 DEF SubmitForm, agentVars
  <2>2. Types'
    BY <1>1, <1>2, <2>1 DEF IInv, Types, Program
  <2>3. LoopsFit'
    BY <1>1, <1>3, <2>1 DEF LoopsFit
  <2>4. rounds = 0
    BY <1>1 DEF IInv, LoopsFit
  <2>5. ProposalFits'
    BY <2>1, <2>4 DEF ProposalFits
  <2> QED
    BY <1>4, <2>2, <2>3, <2>5 DEF IInv
<1> QED
  BY <1>5, <1>6

LEMMA CommitsKeep == IInv /\ Commits => IInv'
<1> SUFFICES ASSUME IInv, Commits PROVE IInv'
  OBVIOUS
<1>1. CASE CommitRefused
  BY <1>1, BackKeeps DEF CommitRefused
<1>2. /\ posted \in [Events -> Nat] /\ lost \in [Events -> Nat] /\ told \subseteq Events
      /\ phase = "commit" => event \in Events \ told
  BY DEF IInv, Types, LoopsFit
<1>3. CASE CommitDone
  <2>1. /\ phase = "commit" /\ posted' = [posted EXCEPT ![event] = posted[event] + 1]
        /\ told' = told \cup {event} /\ BackToPrompt /\ UNCHANGED <<tries, lost>>
    BY <1>3 DEF CommitDone, Posted
  <2>2. posted' \in [Events -> Nat] /\ told' \subseteq Events
    BY <1>2, <2>1
  <2>3. Types'
    BY <1>2, <2>1, <2>2, BackTypes DEF IInv
  <2>4. LoopsFit'
    BY <2>1, <2>2, DialogueAssumption DEF LoopsFit, BackToPrompt
  <2>5. ProposalFits'
    BY <2>1 DEF ProposalFits, BackToPrompt
  <2>6. PostedFits'
    BY <1>2, <2>1 DEF IInv, PostedFits
  <2> QED
    BY <2>3, <2>4, <2>5, <2>6 DEF IInv
<1>4. CASE CommitAnswerLost
  <2>1. /\ phase = "commit" /\ posted' = [posted EXCEPT ![event] = posted[event] + 1]
        /\ lost' = [lost EXCEPT ![event] = lost[event] + 1]
        /\ BackToPrompt /\ UNCHANGED <<tries, told>>
    BY <1>4 DEF CommitAnswerLost, Posted
  <2>2. posted' \in [Events -> Nat] /\ lost' \in [Events -> Nat]
    BY <1>2, <2>1
  <2>3. Types'
    BY <1>2, <2>1, <2>2, BackTypes DEF IInv
  <2>4. LoopsFit'
    BY <1>2, <2>1, DialogueAssumption DEF LoopsFit, BackToPrompt
  <2>5. ProposalFits'
    BY <2>1 DEF ProposalFits, BackToPrompt
  <2>6. PostedFits'
    BY <1>2, <2>1 DEF IInv, PostedFits
  <2> QED
    BY <2>3, <2>4, <2>5, <2>6 DEF IInv
<1> QED
  BY <1>1, <1>3, <1>4 DEF Commits

LEMMA StutterKeeps ==
  ASSUME IInv, UNCHANGED vars
  PROVE  IInv'
<1>1. UNCHANGED <<phase, event, rounds, loops, items, readCalls, proposal, tries,
                  posted, lost, told>>
  BY DEF vars, agentVars, bookVars
<1>2. Types' /\ LoopsFit'
  BY <1>1 DEF IInv, Types, LoopsFit
<1>3. ProposalFits' /\ PostedFits'
  BY <1>1 DEF IInv, ProposalFits, PostedFits
<1> QED
  BY <1>2, <1>3 DEF IInv

\* Every step keeps it: one case per group of actions.
LEMMA StepKeeps == IInv /\ [Next]_vars => IInv'
<1> SUFFICES ASSUME IInv, [Next]_vars PROVE IInv'
  OBVIOUS
<1>1. CASE \E e \in Events : TellEvent(e) \/ SubmitForm(e)
  BY <1>1, TellKeeps
<1>2. CASE Replies
  BY <1>2, RepliesKeep
<1>3. CASE Handles
  BY <1>3, HandlesKeep
<1>4. CASE Clarify \/ Approve
  BY <1>4, ClarifyKeeps, ApproveKeeps
<1>5. CASE GiveUp
  BY <1>5, BackKeeps DEF GiveUp
<1>6. CASE Commits
  BY <1>6, CommitsKeep
<1>7. CASE UNCHANGED vars
  BY <1>7, StutterKeeps
<1> QED
  BY <1>1, <1>2, <1>3, <1>4, <1>5, <1>6, <1>7 DEF Next

LEMMA Invariance == Spec => []IInv
BY InitEstablishes, StepKeeps, PTL DEF Spec
-----------------------------------------------------------------------------
(* What follows *)

\* The program keeps its types and its limits: rounds, calls of the model and
\* items, and there is a proposal exactly while one is shown or committed.
THEOREM TypeCorrect == Spec => []TypeOK
<1>1. ASSUME IInv PROVE TypeOK
  <2>1. Types /\ LoopsFit /\ ProposalFits
    BY <1>1 DEF IInv
  <2>2. (proposal # None) <=> (phase \in {"approve", "commit"})
    BY <2>1, NoneAssumption DEF ProposalFits
  <2> QED
    BY <2>1, <2>2 DEF Types, LoopsFit, TypeOK
<1> QED
  BY <1>1, Invariance, PTL

\* An event is posted again only after an answer was lost, however often it is
\* told and by whichever way.
THEOREM PostedOnce == Spec => []PostedOnceUnlessLost
<1>1. ASSUME IInv PROVE PostedOnceUnlessLost
  <2> SUFFICES ASSUME NEW e \in Events PROVE posted[e] <= 1 + lost[e]
    BY DEF PostedOnceUnlessLost
  <2>1. lost[e] \in Nat /\ posted[e] = lost[e] + IF e \in told THEN 1 ELSE 0
    BY <1>1 DEF IInv, Types, PostedFits
  <2> QED
    BY <2>1
<1> QED
  BY <1>1, Invariance, PTL

\* What is about to be stored passed Validate as numbers.
LEMMA CommitsProposal ==
  ASSUME IInv, phase = "commit"
  PROVE  /\ IsProposal(proposal)
         /\ rounds = 0 /\ proposal.rate = RateUnit => WholeCents(proposal)
<1>1. proposal \in IF rounds > 0 THEN Shown ELSE Entered
  BY DEF IInv, ProposalFits
<1>2. rounds \in Nat
  BY DialogueAssumption DEF IInv, Types
<1>3. CASE rounds > 0
  BY <1>1, <1>2, <1>3, ShownIsProposal
<1>4. CASE rounds = 0
  BY <1>1, <1>4, EnteredIsProposal
<1> QED
  BY <1>2, <1>3, <1>4

\* Equal sums of positive products need a line on each side: with none on one
\* side that side adds up to 0, and the other to more.
LEMMA BothSides ==
  ASSUME NEW p, ProposalNumbers(p), Validate(p), NEW side \in BOOLEAN
  PROVE  \E i \in DOMAIN p.lines : p.lines[i].debit = side
<1> SUFFICES ASSUME \A i \in DOMAIN p.lines : p.lines[i].debit # side
             PROVE  FALSE
  OBVIOUS
<1> DEFINE S == DOMAIN p.lines
           empty == Exacts(p.lines, p.rate, side)
           full == Exacts(p.lines, p.rate, ~side)
           base(i) == ExactBase(p.lines[i], p.rate)
<1>1. /\ IsFiniteSet(S) /\ 1 \in S
      /\ \A i \in S : p.lines[i].debit \in BOOLEAN /\ base(i) \in Nat \ {0}
  <2>1. Len(p.lines) >= 2
    BY DEF Validate
  <2>2. \A i \in S : base(i) \in Nat \ {0}
    BY ValidNumbers DEF ExactBase
  <2> HIDE DEF base
  <2> QED
    BY <2>1, <2>2, ValidNumbers
<1>2. ASSUME NEW i \in S
      PROVE  empty[i] = 0 /\ full[i] = base(i)
  <2>1. p.lines[i].debit = ~side /\ p.lines[i].debit # side
    BY <1>1
  <2> QED
    BY <2>1 DEF Exacts
<1>3. /\ ExactTotal(p.lines, p.rate, side) = SumFunctionOnSet(empty, S)
      /\ ExactTotal(p.lines, p.rate, ~side) = SumFunctionOnSet(full, S)
  BY <1>1, ExactTotalIsSum
<1>4. ExactTotal(p.lines, p.rate, side) = ExactTotal(p.lines, p.rate, ~side)
  <2>1. CASE side = TRUE
    BY <2>1 DEF Validate, ExactlyBalanced
  <2>2. CASE side = FALSE
    BY <2>2 DEF Validate, ExactlyBalanced
  <2> QED
    BY <2>1, <2>2
<1> HIDE DEF S, empty, full, base
<1>5. SumFunctionOnSet(empty, S) = 0
  BY <1>1, <1>2, SumZero
<1>6. SumFunctionOnSet(full, S) = full[1] + SumFunctionOnSet(full, S \ {1})
  BY <1>1, <1>2, SumSplit
<1>7. 0 <= SumFunctionOnSet(full, S \ {1}) /\ SumFunctionOnSet(full, S \ {1}) \in Int
  <2>1. IsFiniteSet(S \ {1}) /\ \A i \in S \ {1} : full[i] \in Int /\ 0 <= full[i]
    BY <1>1, <1>2, FS_Subset
  <2>2. 0 * Cardinality(S \ {1}) <= SumFunctionOnSet(full, S \ {1})
    BY <2>1, SumLowerBound
  <2>3. 0 * Cardinality(S \ {1}) = 0
    BY <2>1, FS_CardinalityType
  <2> QED
    BY <2>1, <2>2, <2>3, SumType
<1>8. full[1] \in Nat \ {0}
  BY <1>1, <1>2
<1>9. SumFunctionOnSet(empty, S) = SumFunctionOnSet(full, S)
  BY <1>3, <1>4
<1> QED
  BY <1>5, <1>6, <1>7, <1>8, <1>9

\* Every entry that reaches the ledger debits and credits, whatever the model
\* wrote or the user typed.
THEOREM EntriesTwoSided == Spec => []TwoSided
<1>1. ASSUME IInv PROVE TwoSided
  <2> SUFFICES ASSUME phase = "commit", NEW side \in BOOLEAN
               PROVE  \E i \in DOMAIN proposal.lines : proposal.lines[i].debit = side
    BY DEF TwoSided
  <2> QED
    BY <1>1, CommitsProposal, BothSides DEF IsProposal
<1> QED
  BY <1>1, Invariance, PTL

\* Without a commit there are no rows, and nothing to balance.
LEMMA NoRows == /\ DebitTotal(<<>>) = 0 /\ CreditTotal(<<>>) = 0 /\ Len(<<>>) = 0
<1> DEFINE none == <<>>
<1>1. DOMAIN none = {} /\ Len(none) = 0
  OBVIOUS
<1> HIDE DEF none
<1>2. IsFiniteSet(DOMAIN none) /\ DOMAIN none = {}
  BY <1>1, FS_EmptySet
<1>3. /\ DebitTotal(none) = SumFunctionOnSet(Debits(none), {})
      /\ CreditTotal(none) = SumFunctionOnSet(Credits(none), {})
  BY <1>2, DebitTotalIsSum, CreditTotalIsSum
<1>4. SumFunctionOnSet(Debits(none), {}) = 0 /\ SumFunctionOnSet(Credits(none), {}) = 0
  BY <1>2, SumZero
<1> QED
  BY <1>1, <1>3, <1>4 DEF none

\* A transfer balances as it is stored, and so does every entry typed in the
\* base currency, whatever the number of its rows.
THEOREM RowsBalance == Spec => []StoredBalance
<1>1. ASSUME IInv PROVE StoredBalance
  <2>1. CASE phase = "commit"
    <3> DEFINE p == proposal
    <3>1. ProposalNumbers(p) /\ Validate(p)
      BY <1>1, <2>1, CommitsProposal DEF IsProposal
    <3>2. Rows = StoredLines(p)
      BY <2>1 DEF Rows
    <3>3. Len(StoredLines(p)) = Len(p.lines)
      BY <3>1, RowsAlmostBalance
    <3>4. Len(Rows) = 2 => DebitTotal(Rows) = CreditTotal(Rows)
      BY <3>1, <3>2, <3>3, TransfersBalance
    <3>5. Typed /\ p.rate = RateUnit => DebitTotal(Rows) = CreditTotal(Rows)
      BY <1>1, <2>1, <3>1, <3>2, CommitsProposal, WholeCentsBalance DEF Typed
    <3> QED
      BY <3>4, <3>5 DEF StoredBalance
  <2>2. CASE phase # "commit"
    <3>1. Rows = <<>>
      BY <2>2 DEF Rows
    <3> QED
      BY <3>1, NoRows DEF StoredBalance
  <2> QED
    BY <2>1, <2>2
<1> QED
  BY <1>1, Invariance, PTL

\* Any other entry is out of balance by at most half a cent per line, for every
\* rate, amount and number of lines.
THEOREM DriftIsBounded == Spec => []DriftBounded
<1>1. ASSUME IInv PROVE DriftBounded
  <2> DEFINE D == DebitTotal(Rows)
             C == CreditTotal(Rows)
  <2>1. /\ D \in Int /\ C \in Int
        /\ 2 * (D - C) <= Len(Rows) /\ 2 * (C - D) <= Len(Rows)
    <3>1. CASE phase = "commit"
      <4>1. Rows = StoredLines(proposal)
        BY <3>1 DEF Rows
      <4>2. ProposalNumbers(proposal) /\ Validate(proposal)
        BY <1>1, <3>1, CommitsProposal DEF IsProposal
      <4> QED
        BY <4>1, <4>2, RowsAlmostBalance
    <3>2. CASE phase # "commit"
      <4>1. Rows = <<>>
        BY <3>2 DEF Rows
      <4> QED
        BY <4>1, NoRows
    <3> QED
      BY <3>1, <3>2
  <2> HIDE DEF D, C
  <2>2. 2 * Distance(D, C) <= Len(Rows)
    BY <2>1 DEF Distance
  <2> QED
    BY <2>2 DEF D, C, DriftBounded
<1> QED
  BY <1>1, Invariance, PTL
=============================================================================
