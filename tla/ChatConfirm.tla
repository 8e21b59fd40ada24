----------------------------- MODULE ChatConfirm -----------------------------
(***************************************************************************)
(* The web chat's pending actions (internal/adapters/web/chat.go): the AI  *)
(* proposes, chatMessage stores the proposal under a fresh token, and a    *)
(* user confirms or cancels it within the TTL.                             *)
(*                                                                         *)
(* The store is an in-memory map; each of its methods holds the mutex, but *)
(* chatConfirm calls get and delete separately, with the company check (a  *)
(* database read) in between.  req[w] is the chatConfirm call handler w is *)
(* serving.  A restart of the server loses the store and the calls; the    *)
(* database keeps what was executed.                                       *)
(*                                                                         *)
(* The company check is for the company of the chat request.  A write tool *)
(* runs for that company, but the entry of a proposal is posted for the    *)
(* company code the AI wrote into it (internal/ai/agent.go replaces only   *)
(* the idempotency key).                                                   *)
(***************************************************************************)
EXTENDS Integers, FiniteSets, Bags

CONSTANTS
  Workers,    \* handlers that serve chatConfirm concurrently
  Tokens,     \* fresh uuids
  JETokens,   \* those of journal entries; the others are of write tools
  Users,
  Companies,
  CompanyOf,  \* the company of each user, which nothing in the code changes
  TTL,        \* age from which an action counts as expired
  MaxTime,    \* bound on the clock
  None

VARIABLES
  store,      \* token -> time it was put, or Absent
  action,     \* token -> the action put under it: the company of the chat, and
              \* the one the AI named (that of the chat for a write tool)
  proposed,   \* tokens handed out so far
  asked,      \* <<token, user>> of the confirm requests sent so far
  cancelled,  \* tokens a user was answered "Cancelled." for
  executed,   \* bag of tokens executed: how often the action took effect
  by,         \* token -> [user, company]: on whose request it was executed, and
              \* for which company
  now, req

vars == <<store, action, proposed, asked, cancelled, executed, by, now, req>>

Absent == -1

ASSUME ChatAssumption ==
  /\ JETokens \subseteq Tokens
  /\ CompanyOf \in [Users -> Companies] /\ None \notin Companies
  /\ TTL \in Nat /\ MaxTime \in Nat

IdleReq == [pc |-> "idle", token |-> None, user |-> None, wants |-> None]
NoAction == [company |-> None, named |-> None]

Expired(t) == store[t] # Absent /\ now - store[t] > TTL

Init ==
  /\ store = [t \in Tokens |-> Absent]
  /\ action = [t \in Tokens |-> NoAction]
  /\ proposed = {} /\ asked = {} /\ cancelled = {}
  /\ executed = EmptyBag
  /\ by = [t \in Tokens |-> {}]
  /\ now = 0
  /\ req = [w \in Workers |-> IdleReq]
-----------------------------------------------------------------------------
\* What the outcome of u's chat puts: the code a tool's arguments are for, or
\* any code in a journal entry's proposal.
Put(t, u, named) ==
  /\ t \notin proposed
  /\ t \in JETokens \/ named = CompanyOf[u]
  /\ store' = [store EXCEPT ![t] = now]
  /\ action' = [action EXCEPT ![t] = [company |-> CompanyOf[u], named |-> named]]
  /\ UNCHANGED <<asked, cancelled, executed, by, now, req>>

\* Mutant of ChatMessage: the action is stored and no token is answered.
ChatMessageUnsent(t, u, named) == Put(t, u, named) /\ UNCHANGED proposed

\* chatMessage for a user of the company it names, with a proposal as its
\* outcome: put under a new token.
ChatMessage(t, u, named) ==
  /\ Put(t, u, named)
  /\ proposed' = proposed \cup {t}

\* chatConfirm up to pending.get, which drops an expired action; an unknown or
\* expired token is answered 404.
Get(w, u, t, wants) ==
  /\ req[w].pc = "idle" /\ t \in proposed
  /\ asked' = IF wants = "confirm" THEN asked \cup {<<t, u>>} ELSE asked
  /\ store' = IF Expired(t) THEN [store EXCEPT ![t] = Absent] ELSE store
  /\ req' = IF store[t] = Absent \/ Expired(t) THEN req
            ELSE [req EXCEPT ![w] = [pc |-> "access", token |-> t, user |-> u,
                                     wants |-> wants]]
  /\ UNCHANGED <<action, proposed, cancelled, executed, by, now>>

\* Mutant of CheckAccess: every user passes.
CheckAccessOpen(w) ==
  /\ req[w].pc = "access"
  /\ req' = [req EXCEPT ![w].pc = "delete"]
  /\ UNCHANGED <<store, action, proposed, asked, cancelled, executed, by, now>>

\* requireCompanyAccess: a user of another company than the chat's is answered
\* 403, and the action stays in the store.
CheckAccess(w) ==
  /\ req[w].pc = "access"
  /\ req' = [req EXCEPT ![w] = IF CompanyOf[req[w].user] = action[req[w].token].company
                               THEN [@ EXCEPT !.pc = "delete"] ELSE IdleReq]
  /\ UNCHANGED <<store, action, proposed, asked, cancelled, executed, by, now>>

\* pending.delete, then the cancel branch.
Delete(w) ==
  /\ req[w].pc = "delete"
  /\ store' = [store EXCEPT ![req[w].token] = Absent]
  /\ IF req[w].wants = "cancel"
     THEN cancelled' = cancelled \cup {req[w].token} /\ req' = [req EXCEPT ![w] = IdleReq]
     ELSE req' = [req EXCEPT ![w].pc = "execute"] /\ UNCHANGED cancelled
  /\ UNCHANGED <<action, proposed, asked, executed, by, now>>

\* Mutant of TakesEffect: the ledger accepts a committed key.
TakesEffectAlways(t) == TRUE

\* Whether the action takes effect: the ledger refuses a proposal whose
\* idempotency key is in the journal, a write tool is simply run again.
TakesEffect(t) == t \in JETokens => ~BagIn(t, executed)

\* The company in whose books the action takes effect.
PostedFor(t) == IF t \in JETokens THEN action[t].named ELSE action[t].company

\* CommitProposal or ExecuteWriteTool.
Execute(w) ==
  LET t == req[w].token IN
  /\ req[w].pc = "execute"
  /\ IF TakesEffect(t)
     THEN /\ executed' = executed (+) SetToBag({t})
          /\ by' = [by EXCEPT ![t] = @ \cup {[user |-> req[w].user, company |-> PostedFor(t)]}]
     ELSE UNCHANGED <<executed, by>>
  /\ req' = [req EXCEPT ![w] = IdleReq]
  /\ UNCHANGED <<store, action, proposed, asked, cancelled, now>>

\* Mutant of Fail: a failed action is put back for another try.
FailRestores(w) ==
  /\ req[w].pc # "idle"
  /\ req' = [req EXCEPT ![w] = IdleReq]
  /\ store' = [store EXCEPT ![req[w].token] = now]
  /\ UNCHANGED <<action, proposed, asked, cancelled, executed, by, now>>

\* The request fails (commit error, tool error, lost connection): the action is
\* gone from the store once Delete has run.
Fail(w) ==
  /\ req[w].pc # "idle"
  /\ req' = [req EXCEPT ![w] = IdleReq]
  /\ UNCHANGED <<store, action, proposed, asked, cancelled, executed, by, now>>

\* Mutant of Purge: it counts from the second TTL on.
PurgeLate ==
  /\ \E t \in Tokens : Expired(t)
  /\ store' = [t \in Tokens |-> IF Expired(t) /\ now - store[t] > 2 * TTL
                                THEN Absent ELSE store[t]]
  /\ UNCHANGED <<action, proposed, asked, cancelled, executed, by, now, req>>

\* startPurge's ticker.
Purge ==
  /\ \E t \in Tokens : Expired(t)
  /\ store' = [t \in Tokens |-> IF Expired(t) THEN Absent ELSE store[t]]
  /\ UNCHANGED <<action, proposed, asked, cancelled, executed, by, now, req>>

Restart ==
  /\ store' = [t \in Tokens |-> Absent]
  /\ req' = [w \in Workers |-> IdleReq]
  /\ UNCHANGED <<action, proposed, asked, cancelled, executed, by, now>>

Tick ==
  /\ now < MaxTime
  /\ now' = now + 1
  /\ UNCHANGED <<store, action, proposed, asked, cancelled, executed, by, req>>
-----------------------------------------------------------------------------
Step(w) == CheckAccess(w) \/ Delete(w) \/ Execute(w)

Next ==
  \/ Purge \/ Restart \/ Tick
  \/ \E t \in Tokens, u \in Users, c \in Companies : ChatMessage(t, u, c)
  \/ \E w \in Workers :
       \/ \E u \in Users, t \in Tokens, a \in {"confirm", "cancel"} : Get(w, u, t, a)
       \/ Step(w) \/ Fail(w)

Spec == Init /\ [][Next]_vars

\* Handlers run on and the purge ticker ticks.
FairSpec == Spec /\ WF_vars(Purge) /\ \A w \in Workers : WF_vars(Step(w))
-----------------------------------------------------------------------------
(* Properties *)

\* The store holds times of proposed tokens, and a handler is at a step of
\* chatConfirm.
TypeOK ==
  /\ store \in [Tokens -> {Absent} \cup 0 .. MaxTime]
  /\ \A t \in Tokens : store[t] # Absent => t \in proposed
  /\ IsABag(executed)
  /\ \A w \in Workers : req[w].pc \in {"idle", "access", "delete", "execute"}

\* README "All write actions require explicit user confirmation": what was
\* executed, a user of the company it was proposed in had asked to confirm.  It
\* took effect in the books of that user's company, unless it is a journal entry
\* whose proposal names another: nothing compares the two (chat.go:272, :284).
ConfirmedByMember ==
  \A t \in Tokens :
    /\ BagIn(t, executed) => by[t] # {}
    /\ \A b \in by[t] :
         /\ CompanyOf[b.user] = action[t].company /\ <<t, b.user>> \in asked
         /\ b.company # CompanyOf[b.user] => t \in JETokens /\ b.company = action[t].named

\* A journal entry takes effect once, however many confirmations of its token
\* are under way together.
JournalOnce == \A t \in JETokens : BagIn(t, executed) => executed[t] = 1

\* Once an action has left the store (confirmed, cancelled, expired or lost in
\* a restart) it never comes back: an old token is good for nothing.
TokensUsedUp ==
  [][\A t \in Tokens : store[t] = Absent /\ t \in proposed => store'[t] = Absent]_vars

\* chatConfirm "executes or cancels a pending action": never both.
ExecutesOrCancels == \A t \in cancelled : ~BagIn(t, executed)

\* Expired actions do not pile up: each is evicted.
ExpiredIsEvicted == \A t \in Tokens : Expired(t) ~> store[t] = Absent
=============================================================================
