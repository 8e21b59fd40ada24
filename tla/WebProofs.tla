------------------------------ MODULE WebProofs ------------------------------
(***************************************************************************)
(* What the handlers of the web server do to each other: through the store *)
(* of pending chat actions (ChatConfirm.tla), and through the connection   *)
(* pool (ConnPool.tla).                                                    *)
(***************************************************************************)
EXTENDS ChatConfirm, ConnPool, FiniteSetTheorems, TLAPS
-----------------------------------------------------------------------------
(***************************************************************************)
(* Proofs about the confirmation of chat actions, for any number of        *)
(* handlers, tokens and users and any clock.  What a handler remembers     *)
(* between its steps is the argument: the user it serves has asked for     *)
(* what it is about to execute, and has passed the company check, however  *)
(* long ago and whatever happened to the store since.                      *)
(***************************************************************************)
Requests == [pc : {"idle", "access", "delete", "execute"},
             token : Tokens \cup {None}, user : Users \cup {None},
             wants : {"confirm", "cancel", None}]

\* The types of the variables.
Types ==
  /\ store \in [Tokens -> {Absent} \cup 0 .. MaxTime]
  /\ now \in 0 .. MaxTime
  /\ proposed \subseteq Tokens
  /\ IsABag(executed)
  /\ action \in [Tokens -> [company : Companies \cup {None}, named : Companies \cup {None}]]
  /\ by \in [Tokens -> SUBSET [user : Users, company : Companies]]
  /\ req \in [Workers -> Requests]

StoredAreProposed == \A t \in Tokens : store[t] # Absent => t \in proposed

\* A request under way is for a token that was handed out; if it confirms, its
\* user has asked for that; past the company check, its user is of the company
\* the action was created for; and only a confirmation reaches the execution.
RequestFits(w) ==
  /\ req[w].pc # "idle" =>
       /\ req[w].token \in proposed /\ req[w].user \in Users
       /\ req[w].wants \in {"confirm", "cancel"}
       /\ req[w].wants = "confirm" => <<req[w].token, req[w].user>> \in asked
  /\ req[w].pc \in {"delete", "execute"} =>
       CompanyOf[req[w].user] = action[req[w].token].company
  /\ req[w].pc = "execute" => req[w].wants = "confirm"

\* A token that was handed out stands for an action with its companies, and
\* nobody executed anything under another.
ActionsFit ==
  \A t \in Tokens : IF t \in proposed
                    THEN action[t] \in [company : Companies, named : Companies]
                    ELSE by[t] = {}

IInv ==
  /\ Types
  /\ StoredAreProposed
  /\ \A w \in Workers : RequestFits(w)
  /\ ActionsFit
  /\ ConfirmedByMember
  /\ JournalOnce
-----------------------------------------------------------------------------
\* One more copy of an element, and the rest of the bag as it was.
LEMMA OneMore ==
  ASSUME NEW B, IsABag(B), NEW t
  PROVE  /\ IsABag(B (+) SetToBag({t}))
         /\ \A x : BagIn(x, B (+) SetToBag({t})) <=> x = t \/ BagIn(x, B)
         /\ \A x : BagIn(x, B) /\ x # t => (B (+) SetToBag({t}))[x] = B[x]
         /\ ~BagIn(t, B) => (B (+) SetToBag({t}))[t] = 1
BY DEF IsABag, BagIn, BagToSet, SetToBag, (+)

LEMMA InitHolds == Init => IInv
<1> SUFFICES ASSUME Init PROVE IInv
  OBVIOUS
<1> USE DEF Init, IdleReq, NoAction
<1>1. IsABag(executed) /\ \A t : ~BagIn(t, executed)
  BY DEF IsABag, BagIn, BagToSet, SetToBag, EmptyBag
<1>2. Types
  BY <1>1, ChatAssumption DEF Types, Requests
<1>3. StoredAreProposed /\ ActionsFit /\ ConfirmedByMember /\ JournalOnce
  BY <1>1, ChatAssumption DEF StoredAreProposed, ActionsFit, ConfirmedByMember, JournalOnce
<1>4. \A w \in Workers : RequestFits(w)
  BY DEF RequestFits
<1> QED BY <1>2, <1>3, <1>4 DEF IInv

\* What no execution touches: a step that leaves the actions and what was
\* executed alone, and only adds to what was asked, keeps what is said of them.
LEMMA EffectsKept ==
  ASSUME ActionsFit, ConfirmedByMember, JournalOnce,
         UNCHANGED <<action, proposed, executed, by>>, asked \subseteq asked'
  PROVE  ActionsFit' /\ ConfirmedByMember' /\ JournalOnce'
BY DEF ActionsFit, ConfirmedByMember, JournalOnce

LEMMA ChatMessageKeeps ==
  ASSUME IInv, NEW t \in Tokens, NEW u \in Users, NEW c \in Companies, ChatMessage(t, u, c)
  PROVE  IInv'
<1> USE DEF IInv
<1>1. /\ t \notin proposed /\ proposed' = proposed \cup {t}
      /\ store' = [store EXCEPT ![t] = now]
      /\ UNCHANGED <<asked, cancelled, executed, by, now, req>>
  BY DEF ChatMessage, Put
<1>2. PICK a \in [company : Companies, named : Companies] : action' = [action EXCEPT ![t] = a]
  BY ChatAssumption DEF ChatMessage, Put
<1>3. action'[t] = a /\ \A x \in Tokens \ {t} : action'[x] = action[x]
  BY <1>2 DEF Types, Requests
<1>4. Types'
  BY <1>1, <1>2 DEF Types, Requests
<1>5. StoredAreProposed'
  BY <1>1 DEF StoredAreProposed, Types, Requests
<1>6. \A w \in Workers : RequestFits(w)'
  BY <1>1, <1>3 DEF RequestFits, Types, Requests
<1>7. ActionsFit' /\ JournalOnce'
  BY <1>1, <1>3 DEF ActionsFit, JournalOnce
<1>8. ConfirmedByMember'
  <2>1. by[t] = {}
    BY <1>1 DEF ActionsFit
  <2> QED BY <1>1, <1>3, <2>1 DEF ConfirmedByMember
<1> QED BY <1>4, <1>5, <1>6, <1>7, <1>8

LEMMA GetKeeps ==
  ASSUME IInv, NEW w \in Workers, NEW u \in Users, NEW t \in Tokens,
         NEW a \in {"confirm", "cancel"}, Get(w, u, t, a)
  PROVE  IInv'
<1> USE DEF IInv
<1>1. /\ t \in proposed /\ UNCHANGED <<action, proposed, cancelled, executed, by, now>>
      /\ asked \subseteq asked'
      /\ a = "confirm" => <<t, u>> \in asked'
  BY DEF Get
<1>2. store' = [store EXCEPT ![t] = Absent] \/ store' = store
  BY DEF Get
<1>3. \/ req' = req
      \/ req' = [req EXCEPT ![w] = [pc |-> "access", token |-> t, user |-> u, wants |-> a]]
  BY DEF Get
<1>4. Types'
  BY <1>1, <1>2, <1>3 DEF Types, Requests
<1>5. StoredAreProposed'
  BY <1>1, <1>2 DEF StoredAreProposed, Types, Requests
<1>6. \A v \in Workers : RequestFits(v)'
  <2>1. SUFFICES ASSUME NEW v \in Workers PROVE RequestFits(v)'
    OBVIOUS
  <2>2. CASE req'[v] = req[v]
    BY <1>1, <2>2 DEF RequestFits
  <2>3. CASE req'[v] = [pc |-> "access", token |-> t, user |-> u, wants |-> a]
    BY <1>1, <2>3 DEF RequestFits
  <2> QED BY <1>3, <2>2, <2>3 DEF Types, Requests
<1> QED BY <1>1, <1>4, <1>5, <1>6, EffectsKept

\* A step of the handler w which leaves the requests of the others alone.
LEMMA OthersFit ==
  ASSUME IInv, NEW w \in Workers, NEW r, req' = [req EXCEPT ![w] = r],
         UNCHANGED <<action, proposed, asked>>
  PROVE  \A v \in Workers \ {w} : RequestFits(v)'
BY DEF IInv, Types, Requests, RequestFits

LEMMA CheckAccessKeeps ==
  ASSUME IInv, NEW w \in Workers, CheckAccess(w)
  PROVE  IInv'
<1> USE DEF IInv
<1>1. UNCHANGED <<store, action, proposed, asked, cancelled, executed, by, now>>
  BY DEF CheckAccess
<1>2. PICK r : /\ req' = [req EXCEPT ![w] = r]
               /\ \/ r = IdleReq
                  \/ /\ r = [req[w] EXCEPT !.pc = "delete"]
                     /\ CompanyOf[req[w].user] = action[req[w].token].company
  BY DEF CheckAccess, Types, Requests
<1>3. Types'
  <2>1. req[w] \in Requests
    BY DEF Types
  <2>2. r \in Requests
    BY <1>2, <2>1 DEF Requests, IdleReq
  <2> QED BY <1>1, <1>2, <2>2 DEF Types
<1>4. \A v \in Workers : RequestFits(v)'
  <2>1. RequestFits(w)'
    <3>1. req'[w] = r /\ req[w].pc = "access"
      BY <1>2 DEF Types, Requests, CheckAccess
    <3>2. CASE r = IdleReq
      BY <3>1, <3>2 DEF RequestFits, IdleReq
    <3>3. CASE /\ r = [req[w] EXCEPT !.pc = "delete"]
               /\ CompanyOf[req[w].user] = action[req[w].token].company
      <4>1. /\ req'[w].pc = "delete" /\ req'[w].token = req[w].token
            /\ req'[w].user = req[w].user /\ req'[w].wants = req[w].wants
        BY <3>1, <3>3 DEF Types, Requests
      <4> QED BY <1>1, <3>1, <3>3, <4>1 DEF RequestFits
    <3> QED BY <1>2, <3>2, <3>3
  <2> QED BY <1>1, <1>2, <2>1, OthersFit
<1>5. StoredAreProposed'
  BY <1>1 DEF StoredAreProposed
<1> QED BY <1>1, <1>3, <1>4, <1>5, EffectsKept

LEMMA DeleteKeeps ==
  ASSUME IInv, NEW w \in Workers, Delete(w)
  PROVE  IInv'
<1> USE DEF IInv
<1>1. /\ UNCHANGED <<action, proposed, asked, executed, by, now>>
      /\ store' = [store EXCEPT ![req[w].token] = Absent]
      /\ req[w].pc = "delete" /\ req[w].token \in Tokens
  BY DEF Delete, RequestFits, Types, Requests
<1>2. PICK r : /\ req' = [req EXCEPT ![w] = r]
               /\ \/ r = IdleReq
                  \/ r = [req[w] EXCEPT !.pc = "execute"] /\ req[w].wants = "confirm"
  BY <1>1 DEF Delete, Types, Requests, RequestFits
<1>3. Types'
  <2>1. req[w] \in Requests
    BY DEF Types
  <2>2. r \in Requests
    BY <1>2, <2>1 DEF Requests, IdleReq
  <2> QED BY <1>1, <1>2, <2>2 DEF Types
<1>4. \A v \in Workers : RequestFits(v)'
  <2>1. RequestFits(w)'
    <3>1. req'[w] = r
      BY <1>2 DEF Types, Requests
    <3>2. CASE r = IdleReq
      BY <3>1, <3>2 DEF RequestFits, IdleReq
    <3>3. CASE r = [req[w] EXCEPT !.pc = "execute"] /\ req[w].wants = "confirm"
      <4>1. /\ req'[w].pc = "execute" /\ req'[w].token = req[w].token
            /\ req'[w].user = req[w].user /\ req'[w].wants = req[w].wants
        BY <3>1, <3>3 DEF Types, Requests
      <4> QED BY <1>1, <3>3, <4>1 DEF RequestFits
    <3> QED BY <1>2, <3>2, <3>3
  <2> QED BY <1>1, <1>2, <2>1, OthersFit
<1>5. StoredAreProposed'
  BY <1>1 DEF StoredAreProposed, Types, Requests
<1> QED BY <1>1, <1>3, <1>4, <1>5, EffectsKept

LEMMA ExecuteKeeps ==
  ASSUME IInv, NEW w \in Workers, Execute(w)
  PROVE  IInv'
<1> USE DEF IInv
<1>1. /\ UNCHANGED <<store, action, proposed, asked, cancelled, now>>
      /\ req' = [req EXCEPT ![w] = IdleReq]
  BY DEF Execute
<1>2. PICK t \in Tokens, u \in Users :
        /\ t = req[w].token /\ u = req[w].user /\ t \in proposed
        /\ CompanyOf[u] = action[t].company /\ <<t, u>> \in asked
  BY DEF Execute, RequestFits, Types, Requests
<1> DEFINE b == [user |-> u, company |-> PostedFor(t)]
<1>3. \/ UNCHANGED <<executed, by>>
      \/ /\ TakesEffect(t)
         /\ executed' = executed (+) SetToBag({t})
         /\ by' = [by EXCEPT ![t] = @ \cup {b}]
  BY <1>2 DEF Execute
<1>4. StoredAreProposed'
  BY <1>1 DEF StoredAreProposed
<1>5. \A v \in Workers : RequestFits(v)'
  <2>1. req'[w] = IdleReq
    BY <1>1 DEF Types, Requests
  <2>2. RequestFits(w)'
    BY <2>1 DEF RequestFits, IdleReq
  <2> QED BY <1>1, <2>2, OthersFit
<1>6. req' \in [Workers -> Requests]
  BY <1>1 DEF Types, Requests, IdleReq
<1>7. CASE UNCHANGED <<executed, by>>
  <2>1. Types'
    BY <1>1, <1>6, <1>7 DEF Types, Requests
  <2> QED BY <1>1, <1>4, <1>5, <1>7, <2>1, EffectsKept
<1>8. CASE /\ TakesEffect(t)
           /\ executed' = executed (+) SetToBag({t})
           /\ by' = [by EXCEPT ![t] = @ \cup {b}]
  <2>1. /\ IsABag(executed')
        /\ \A x : BagIn(x, executed') <=> x = t \/ BagIn(x, executed)
        /\ \A x : BagIn(x, executed) /\ x # t => executed'[x] = executed[x]
        /\ ~BagIn(t, executed) => executed'[t] = 1
    <3>1. IsABag(executed)
      BY DEF Types, Requests
    <3> DEFINE more == executed (+) SetToBag({t})
    <3>2. /\ IsABag(more)
          /\ \A x : BagIn(x, more) <=> x = t \/ BagIn(x, executed)
          /\ \A x : BagIn(x, executed) /\ x # t => more[x] = executed[x]
          /\ ~BagIn(t, executed) => more[t] = 1
      BY <3>1, OneMore
    <3> HIDE DEF more
    <3> QED BY <1>8, <3>2 DEF more
  <2>2. /\ b \in [user : Users, company : Companies]
        /\ b.user = u
        /\ b.company = IF t \in JETokens THEN action[t].named ELSE action[t].company
    BY <1>2 DEF ActionsFit, PostedFor
  <2>3. /\ by' \in [Tokens -> SUBSET [user : Users, company : Companies]]
        /\ by'[t] = by[t] \cup {b}
        /\ \A x \in Tokens \ {t} : by'[x] = by[x]
    <3> HIDE DEF b
    <3> QED BY <1>2, <1>8, <2>2 DEF Types, Requests
  <2>4. Types'
    BY <1>1, <1>6, <2>1, <2>3 DEF Types, Requests
  <2> HIDE DEF b
  <2>6. ActionsFit'
    BY <1>1, <1>2, <2>3 DEF ActionsFit
  <2>7. ConfirmedByMember'
    <3>1. SUFFICES ASSUME NEW x \in Tokens
                   PROVE  /\ BagIn(x, executed') => by'[x] # {}
                          /\ \A v \in by'[x] :
                               /\ CompanyOf[v.user] = action[x].company
                               /\ <<x, v.user>> \in asked
                               /\ v.company # CompanyOf[v.user] =>
                                    x \in JETokens /\ v.company = action[x].named
      BY <1>1 DEF ConfirmedByMember
    <3>2. CASE x # t
      BY <2>1, <2>3, <3>2 DEF ConfirmedByMember
    <3>3. CASE x = t
      <4>1. ASSUME NEW v \in by'[t]
            PROVE  /\ CompanyOf[v.user] = action[t].company
                   /\ <<t, v.user>> \in asked
                   /\ v.company # CompanyOf[v.user] =>
                        t \in JETokens /\ v.company = action[t].named
        <5>1. v \in by[t] \/ v = b
          BY <2>3, <4>1
        <5>2. CASE v \in by[t]
          BY <5>2 DEF ConfirmedByMember
        <5>3. CASE v = b
          <6>1. /\ v.user = u
                /\ v.company = IF t \in JETokens THEN action[t].named ELSE action[t].company
            BY <2>2, <5>3, Zenon
          <6> QED BY <1>2, <6>1
        <5> QED BY <5>1, <5>2, <5>3
      <4>2. by'[t] # {}
        BY <2>3
      <4> QED BY <3>3, <4>1, <4>2
    <3> QED BY <3>2, <3>3
  <2>5. JournalOnce'
    BY <1>8, <2>1 DEF JournalOnce, TakesEffect
  <2> QED BY <1>4, <1>5, <2>4, <2>5, <2>6, <2>7
<1> QED BY <1>3, <1>7, <1>8

LEMMA FailKeeps ==
  ASSUME IInv, NEW w \in Workers, Fail(w)
  PROVE  IInv'
<1> USE DEF IInv
<1>1. /\ UNCHANGED <<store, action, proposed, asked, cancelled, executed, by, now>>
      /\ req' = [req EXCEPT ![w] = IdleReq]
  BY DEF Fail
<1>2. Types'
  BY <1>1 DEF Types, Requests, IdleReq
<1>3. \A v \in Workers : RequestFits(v)'
  <2>1. req'[w] = IdleReq
    BY <1>1 DEF Types, Requests
  <2>2. RequestFits(w)'
    BY <2>1 DEF RequestFits, IdleReq
  <2> QED BY <1>1, <2>2, OthersFit
<1>4. StoredAreProposed'
  BY <1>1 DEF StoredAreProposed
<1> QED BY <1>1, <1>2, <1>3, <1>4, EffectsKept

\* The purge, a restart and the clock: the store loses entries or keeps them.
LEMMA RestKeeps ==
  ASSUME IInv, Purge \/ Restart \/ Tick \/ UNCHANGED vars
  PROVE  IInv'
<1> USE DEF IInv
<1>1. /\ UNCHANGED <<action, proposed, asked, executed, by>>
      /\ req' = req \/ req' = [w \in Workers |-> IdleReq]
  BY DEF Purge, Restart, Tick, vars
<1>2. store' \in [Tokens -> {Absent} \cup 0 .. MaxTime]
      /\ \A t \in Tokens : store'[t] \in {Absent, store[t]}
  BY DEF Purge, Restart, Tick, vars, Types, Requests
<1>3. now' \in 0 .. MaxTime
  BY ChatAssumption DEF Purge, Restart, Tick, vars, Types, Requests
<1>4. Types'
  BY <1>1, <1>2, <1>3 DEF Types, Requests, IdleReq
<1>5. \A w \in Workers : RequestFits(w)'
  BY <1>1 DEF RequestFits, IdleReq
<1>6. StoredAreProposed'
  BY <1>1, <1>2 DEF StoredAreProposed
<1> QED BY <1>1, <1>4, <1>5, <1>6, EffectsKept

LEMMA NextKeeps ==
  ASSUME IInv, [Next]_vars
  PROVE  IInv'
BY RestKeeps, ChatMessageKeeps, GetKeeps, CheckAccessKeeps, DeleteKeeps, ExecuteKeeps, FailKeeps
   DEF Next, Step

LEMMA Invariance == Spec => []IInv
<1>1. Init => IInv
  BY InitHolds
<1>2. IInv /\ [Next]_vars => IInv'
  BY NextKeeps
<1> QED BY <1>1, <1>2, PTL DEF Spec
-----------------------------------------------------------------------------
\* The store, the requests under way and the bag of executed actions have their
\* types, and the store holds only tokens that were handed out.
THEOREM TypeCorrect == Spec => []TypeOK
<1>1. IInv => TypeOK
  BY DEF IInv, Types, Requests, StoredAreProposed, TypeOK
<1> QED BY <1>1, Invariance, PTL

\* Whatever chatConfirm executes, a user of the company it was proposed in had
\* asked to confirm: neither the gap between get and delete nor a restart lets
\* another user's action through.  It takes effect for that user's company,
\* unless it is a journal entry whose proposal names another.
THEOREM ExecutedOnRequest == Spec => []ConfirmedByMember
<1>1. IInv => ConfirmedByMember
  BY DEF IInv
<1> QED BY <1>1, Invariance, PTL

\* The journal entry of a token is posted once, though any number of handlers
\* may have read the token before the first of them deleted it.
THEOREM JournalExecutedOnce == Spec => []JournalOnce
<1>1. IInv => JournalOnce
  BY DEF IInv
<1> QED BY <1>1, Invariance, PTL

\* A token that has left the store never comes back into it.
THEOREM TokensNotReused == Spec => TokensUsedUp
<1> DEFINE UsedUp == \A t \in Tokens : store[t] = Absent /\ t \in proposed => store'[t] = Absent
<1>1. IInv /\ [Next]_vars => [UsedUp]_vars
  <2>1. SUFFICES ASSUME IInv, Next,
                        NEW t \in Tokens, store[t] = Absent, t \in proposed
                 PROVE  store'[t] = Absent
    BY DEF UsedUp
  <2>2. store \in [Tokens -> {Absent} \cup 0 .. MaxTime]
    BY <2>1 DEF IInv, Types, Requests
  <2>3. ASSUME NEW s \in Tokens, NEW u \in Users, NEW c \in Companies, ChatMessage(s, u, c)
        PROVE  store'[t] = Absent
    BY <2>1, <2>2, <2>3 DEF ChatMessage, Put
  <2>4. ASSUME NEW w \in Workers, NEW u \in Users, NEW s \in Tokens,
               NEW a \in {"confirm", "cancel"}, Get(w, u, s, a)
        PROVE  store'[t] = Absent
    BY <2>1, <2>2, <2>4 DEF Get
  <2>5. ASSUME NEW w \in Workers, Step(w) \/ Fail(w)
        PROVE  store'[t] = Absent
    BY <2>1, <2>2, <2>5 DEF Step, CheckAccess, Delete, Execute, Fail
  <2>6. ASSUME Purge \/ Restart \/ Tick
        PROVE  store'[t] = Absent
    BY <2>1, <2>2, <2>6 DEF Purge, Restart, Tick
  <2> QED BY <2>1, <2>3, <2>4, <2>5, <2>6 DEF Next
<1> QED BY <1>1, Invariance, PTL DEF Spec, TokensUsedUp
-----------------------------------------------------------------------------
(***************************************************************************)
(* Proofs about the connection pool.  That an exhausted pool always has a  *)
(* transaction asking for its second connection rests on the shape of the  *)
(* steps a handler has left: orders are locked before items, one of each,  *)
(* so a wait for a row leads in at most two steps to a handler that waits  *)
(* for a connection.                                                       *)
(***************************************************************************)
Query == {"take", "give"}

\* What may come before what in the steps of a handler: a transaction begins
\* once, before its locks, takes an order before an item and one of each, and
\* commits once, after them.
MayPrecede(x, y) ==
  /\ y = "begin" => x \in Query
  /\ x = "commit" => y \in Query
  /\ y \in Orders => x \notin Rows
  /\ y \in Items => x \notin Items

\* The steps a handler has left: in that order, a query is taken and given back
\* at once, and a transaction that begins or locks a row commits later.
Shape(w) ==
  /\ w \in Seq(Steps) /\ w # <<>>
  /\ \A j, k \in 1..Len(w) : j < k => MayPrecede(w[j], w[k])
  /\ \A k \in 1..Len(w) : w[k] = "take" => k < Len(w) /\ w[k + 1] = "give"
  /\ \A j, k \in 1..Len(w) : k = j + 1 /\ w[k] = "give" => w[j] = "take"
  /\ \A k \in 1..Len(w) :
       w[k] \in Rows \cup {"begin"} => \E j \in 1..Len(w) : k < j /\ w[j] = "commit"

Left(w, x) == \E k \in 1..Len(w) : w[k] = x
LeftOf(w, S) == \E k \in 1..Len(w) : w[k] \in S

\* A handler is in its transaction when it has yet to commit and not to begin.
Inside(w) == Left(w, "commit") /\ ~Left(w, "begin")

PoolTypes ==
  /\ size \in Sizes
  /\ txs \subseteq Handlers /\ queries \subseteq Handlers
  /\ IsFiniteSet(txs) /\ IsFiniteSet(queries)
  /\ work \in [Handlers -> {NoOne} \cup Seq(Steps)]
  /\ holder \in [Rows -> Handlers \cup {NoOne}]

NeverOverdrawn == Free >= 0

\* An idle handler holds nothing, a busy one what its remaining steps say.
HandlerFits(h) ==
  \/ work[h] = NoOne /\ h \notin txs \cup queries
  \/ /\ Shape(work[h])
     /\ h \in queries <=> Head(work[h]) = "give"
     /\ h \in txs <=> Inside(work[h])

\* A row is locked by a transaction, which locks no other order after an order
\* and no row after an item.
LockFits(r) ==
  holder[r] # NoOne =>
    /\ holder[r] \in txs
    /\ r \in Orders => ~LeftOf(work[holder[r]], Orders)
    /\ r \in Items => ~LeftOf(work[holder[r]], Rows)

PoolInv ==
  /\ PoolTypes
  /\ NeverOverdrawn
  /\ \A h \in Handlers : HandlerFits(h)
  /\ \A r \in Rows : LockFits(r)
-----------------------------------------------------------------------------
\* The operations have the shape, and begin outside of any transaction.
LEMMA OperationsShape ==
  ASSUME NEW op \in Operations
  PROVE  Shape(op) /\ Head(op) # "give" /\ ~Inside(op)
<1> USE PoolAssumption DEF Steps, Rows
<1>1. ASSUME NEW i \in Items, op = ReceiveStock(i)
      PROVE  Shape(op) /\ Head(op) # "give" /\ ~Inside(op)
  <2>1. op \in Seq(Steps) /\ Len(op) = 5 /\ Head(op) = "begin"
    BY <1>1 DEF ReceiveStock
  <2>2. op[1] = "begin" /\ op[2] = "take" /\ op[3] = "give" /\ op[4] = i /\ op[5] = "commit"
    BY <1>1 DEF ReceiveStock
  <2> HIDE DEF Steps
  <2>3. \A j, k \in 1..Len(op) : j < k => MayPrecede(op[j], op[k])
    BY <2>1, <2>2, SMTT(40) DEF MayPrecede, Query
  <2>4. /\ \A k \in 1..Len(op) : op[k] = "take" => k < Len(op) /\ op[k + 1] = "give"
        /\ \A j, k \in 1..Len(op) : k = j + 1 /\ op[k] = "give" => op[j] = "take"
    BY <2>1, <2>2, SMTT(40)
  <2>5. /\ 5 \in 1..Len(op) /\ op[5] = "commit"
        /\ \A k \in 1..Len(op) : op[k] \in Rows \cup {"begin"} => k < 5
    BY <2>1, <2>2, SMTT(40)
  <2>6. Left(op, "begin") /\ op # <<>>
    <3>1. 1 \in 1..Len(op) /\ op[1] = "begin"
      BY <2>1, <2>2
    <3>2. Left(op, "begin")
      BY ONLY <3>1, Zenon DEF Left
    <3>3. op # <<>>
      BY ONLY <3>1, SMT
    <3> QED BY <3>2, <3>3
  <2> HIDE DEF Rows
  <2>7. /\ \A k \in 1..Len(op) :
             op[k] \in Rows \cup {"begin"} => \E j \in 1..Len(op) : k < j /\ op[j] = "commit"
        /\ ~Inside(op)
    BY <2>5, <2>6 DEF Inside
  <2>8. Shape(op)
    BY <2>1, <2>3, <2>4, <2>6, <2>7 DEF Shape
  <2> QED BY <2>1, <2>7, <2>8
<1>2. ASSUME NEW o \in Orders, NEW i \in Items, op = ConfirmOrder(o, i)
      PROVE  Shape(op) /\ Head(op) # "give" /\ ~Inside(op)
  <2>1. op \in Seq(Steps) /\ Len(op) = 6 /\ Head(op) = "begin"
    BY <1>2 DEF ConfirmOrder, ReadOrder
  <2>2. op[1] = "begin" /\ op[2] = o /\ op[3] = i /\ op[4] = "commit"
        /\ op[5] = "take" /\ op[6] = "give"
    BY <1>2 DEF ConfirmOrder, ReadOrder
  <2> HIDE DEF Steps
  <2>3. \A j, k \in 1..Len(op) : j < k => MayPrecede(op[j], op[k])
    BY <2>1, <2>2, SMTT(40) DEF MayPrecede, Query
  <2>4. /\ \A k \in 1..Len(op) : op[k] = "take" => k < Len(op) /\ op[k + 1] = "give"
        /\ \A j, k \in 1..Len(op) : k = j + 1 /\ op[k] = "give" => op[j] = "take"
    BY <2>1, <2>2, SMTT(40)
  <2>5. /\ 4 \in 1..Len(op) /\ op[4] = "commit"
        /\ \A k \in 1..Len(op) : op[k] \in Rows \cup {"begin"} => k < 4
    BY <2>1, <2>2, SMTT(40)
  <2>6. Left(op, "begin") /\ op # <<>>
    <3>1. 1 \in 1..Len(op) /\ op[1] = "begin"
      BY <2>1, <2>2
    <3>2. Left(op, "begin")
      BY ONLY <3>1, Zenon DEF Left
    <3>3. op # <<>>
      BY ONLY <3>1, SMT
    <3> QED BY <3>2, <3>3
  <2> HIDE DEF Rows
  <2>7. /\ \A k \in 1..Len(op) :
             op[k] \in Rows \cup {"begin"} => \E j \in 1..Len(op) : k < j /\ op[j] = "commit"
        /\ ~Inside(op)
    BY <2>5, <2>6 DEF Inside
  <2>8. Shape(op)
    BY <2>1, <2>3, <2>4, <2>6, <2>7 DEF Shape
  <2> QED BY <2>1, <2>7, <2>8
<1>3. ASSUME NEW o \in Orders, NEW i \in Items, op = ShipOrder(o, i)
      PROVE  Shape(op) /\ Head(op) # "give" /\ ~Inside(op)
  <2>1. op \in Seq(Steps) /\ Len(op) = 10 /\ Head(op) = "begin"
    BY <1>3 DEF ShipOrder, ReadOrder
  <2>2. op[1] = "begin" /\ op[2] = o /\ op[3] = i /\ op[4] = "take" /\ op[5] = "give"
        /\ op[6] = "take" /\ op[7] = "give" /\ op[8] = "commit"
        /\ op[9] = "take" /\ op[10] = "give"
    BY <1>3 DEF ShipOrder, ReadOrder
  <2> HIDE DEF Steps
  <2>3. \A j, k \in 1..Len(op) : j < k => MayPrecede(op[j], op[k])
    BY <2>1, <2>2, SMTT(40) DEF MayPrecede, Query
  <2>4. /\ \A k \in 1..Len(op) : op[k] = "take" => k < Len(op) /\ op[k + 1] = "give"
        /\ \A j, k \in 1..Len(op) : k = j + 1 /\ op[k] = "give" => op[j] = "take"
    BY <2>1, <2>2, SMTT(40)
  <2>5. /\ 8 \in 1..Len(op) /\ op[8] = "commit"
        /\ \A k \in 1..Len(op) : op[k] \in Rows \cup {"begin"} => k < 8
    BY <2>1, <2>2, SMTT(40)
  <2>6. Left(op, "begin") /\ op # <<>>
    <3>1. 1 \in 1..Len(op) /\ op[1] = "begin"
      BY <2>1, <2>2
    <3>2. Left(op, "begin")
      BY ONLY <3>1, Zenon DEF Left
    <3>3. op # <<>>
      BY ONLY <3>1, SMT
    <3> QED BY <3>2, <3>3
  <2> HIDE DEF Rows
  <2>7. /\ \A k \in 1..Len(op) :
             op[k] \in Rows \cup {"begin"} => \E j \in 1..Len(op) : k < j /\ op[j] = "commit"
        /\ ~Inside(op)
    BY <2>5, <2>6 DEF Inside
  <2>8. Shape(op)
    BY <2>1, <2>3, <2>4, <2>6, <2>7 DEF Shape
  <2> QED BY <2>1, <2>7, <2>8
<1>4. ASSUME NEW o \in Orders, op = InvoiceOrder(o)
      PROVE  Shape(op) /\ Head(op) # "give" /\ ~Inside(op)
  <2>1. op \in Seq(Steps) /\ Len(op) = 7 /\ Head(op) = "take"
    BY <1>4 DEF InvoiceOrder, ReadOrder
  <2>2. op[1] = "take" /\ op[2] = "give" /\ op[3] = "begin" /\ op[4] = o
        /\ op[5] = "commit" /\ op[6] = "take" /\ op[7] = "give"
    BY <1>4 DEF InvoiceOrder, ReadOrder
  <2> HIDE DEF Steps
  <2>3. \A j, k \in 1..Len(op) : j < k => MayPrecede(op[j], op[k])
    BY <2>1, <2>2, SMTT(40) DEF MayPrecede, Query
  <2>4. /\ \A k \in 1..Len(op) : op[k] = "take" => k < Len(op) /\ op[k + 1] = "give"
        /\ \A j, k \in 1..Len(op) : k = j + 1 /\ op[k] = "give" => op[j] = "take"
    BY <2>1, <2>2, SMTT(40)
  <2>5. /\ 5 \in 1..Len(op) /\ op[5] = "commit"
        /\ \A k \in 1..Len(op) : op[k] \in Rows \cup {"begin"} => k < 5
    BY <2>1, <2>2, SMTT(40)
  <2>6. Left(op, "begin") /\ op # <<>>
    <3>1. 3 \in 1..Len(op) /\ op[3] = "begin"
      BY <2>1, <2>2
    <3>2. Left(op, "begin")
      BY ONLY <3>1, Zenon DEF Left
    <3>3. op # <<>>
      BY ONLY <3>1, SMT
    <3> QED BY <3>2, <3>3
  <2> HIDE DEF Rows
  <2>7. /\ \A k \in 1..Len(op) :
             op[k] \in Rows \cup {"begin"} => \E j \in 1..Len(op) : k < j /\ op[j] = "commit"
        /\ ~Inside(op)
    BY <2>5, <2>6 DEF Inside
  <2>8. Shape(op)
    BY <2>1, <2>3, <2>4, <2>6, <2>7 DEF Shape
  <2> QED BY <2>1, <2>7, <2>8
<1> QED BY <1>1, <1>2, <1>3, <1>4 DEF Operations

\* A step done leaves a list of the same shape.
LEMMA TailShape ==
  ASSUME NEW w, Shape(w), Len(w) # 1
  PROVE  /\ Shape(Tail(w))
         /\ Tail(w) \in Seq(Steps)
         /\ Len(Tail(w)) = Len(w) - 1
         /\ \A k \in 1..Len(Tail(w)) : Tail(w)[k] = w[k + 1]
         /\ Head(Tail(w)) = w[2]
<1> DEFINE t == Tail(w)
<1>1. w \in Seq(Steps) /\ Len(w) \in Nat /\ Len(w) > 1
  BY DEF Shape
<1>2. t \in Seq(Steps) /\ Len(t) = Len(w) - 1 /\ t # <<>> /\ Head(t) = w[2]
  BY <1>1
<1>3. \A k \in 1..Len(t) : t[k] = w[k + 1] /\ k + 1 \in 1..Len(w)
  BY <1>1
<1> HIDE DEF t
<1>4. \A j, k \in 1..Len(t) : j < k => MayPrecede(t[j], t[k])
  <2>1. SUFFICES ASSUME NEW j \in 1..Len(t), NEW k \in 1..Len(t), j < k
                 PROVE  MayPrecede(t[j], t[k])
    OBVIOUS
  <2> QED BY <1>3, <2>1 DEF Shape
<1>5. \A k \in 1..Len(t) : t[k] = "take" => k < Len(t) /\ t[k + 1] = "give"
  <2>1. SUFFICES ASSUME NEW k \in 1..Len(t), t[k] = "take"
                 PROVE  k < Len(t) /\ t[k + 1] = "give"
    OBVIOUS
  <2>2. k + 1 < Len(w) /\ w[k + 1 + 1] = "give"
    BY <1>3, <2>1 DEF Shape
  <2> QED BY <1>1, <1>2, <1>3, <2>2
<1>6. \A j, k \in 1..Len(t) : k = j + 1 /\ t[k] = "give" => t[j] = "take"
  <2>1. SUFFICES ASSUME NEW j \in 1..Len(t), NEW k \in 1..Len(t), k = j + 1, t[k] = "give"
                 PROVE  t[j] = "take"
    OBVIOUS
  <2>2. k + 1 = (j + 1) + 1 /\ w[k + 1] = "give"
    BY <1>3, <2>1
  <2> QED BY <1>3, <2>2 DEF Shape
<1>7. \A k \in 1..Len(t) :
        t[k] \in Rows \cup {"begin"} => \E j \in 1..Len(t) : k < j /\ t[j] = "commit"
  <2>1. SUFFICES ASSUME NEW k \in 1..Len(t), t[k] \in Rows \cup {"begin"}
                 PROVE  \E j \in 1..Len(t) : k < j /\ t[j] = "commit"
    OBVIOUS
  <2>2. PICK j \in 1..Len(w) : k + 1 < j /\ w[j] = "commit"
    BY <1>3, <2>1 DEF Shape
  <2>3. j - 1 \in 1..Len(t) /\ k < j - 1 /\ w[(j - 1) + 1] = "commit"
    BY <1>1, <1>2, <2>2
  <2> QED BY <1>3, <2>3
<1> QED BY <1>2, <1>3, <1>4, <1>5, <1>6, <1>7 DEF Shape, t

LEMMA SecondIndex ==
  ASSUME NEW n \in Nat, n > 0, n # 1
  PROVE  1 \in 1..n /\ 2 \in 1..n /\ 2 = 1 + 1
OBVIOUS

\* What a step done does to the rest, by the kind of the step.
LEMMA LeftOfTail ==
  ASSUME NEW w, Shape(w), Len(w) # 1
  PROVE  /\ \A S : LeftOf(Tail(w), S) => LeftOf(w, S)
         /\ \A S : LeftOf(w, S) => Head(w) \in S \/ LeftOf(Tail(w), S)
         /\ \A x : Left(Tail(w), x) => Left(w, x)
         /\ \A x : Left(w, x) => Head(w) = x \/ Left(Tail(w), x)
<1>1. w \in Seq(Steps) /\ Len(w) \in Nat /\ Len(w) > 1 /\ Head(w) = w[1]
  BY DEF Shape
<1>2. Len(Tail(w)) = Len(w) - 1 /\ \A k \in 1..Len(Tail(w)) : Tail(w)[k] = w[k + 1]
  BY TailShape
<1>3. \A k \in 1..Len(Tail(w)) : k + 1 \in 1..Len(w)
  BY <1>1, <1>2
<1>4. \A k \in 1..Len(w) : k = 1 \/ (k - 1 \in 1..Len(Tail(w)) /\ Tail(w)[k - 1] = w[k])
  <2>1. SUFFICES ASSUME NEW k \in 1..Len(w), k # 1
                 PROVE  k - 1 \in 1..Len(Tail(w)) /\ Tail(w)[k - 1] = w[k]
    OBVIOUS
  <2>2. k - 1 \in 1..Len(Tail(w)) /\ (k - 1) + 1 = k
    BY <1>1, <1>2, <2>1
  <2>3. Tail(w)[k - 1] = w[(k - 1) + 1]
    BY <1>2, <2>2
  <2> QED BY <2>2, <2>3
<1> QED BY <1>1, <1>2, <1>3, <1>4, ZenonT(40) DEF LeftOf, Left

LEMMA BeginRest ==
  ASSUME NEW w, Shape(w), Head(w) = "begin"
  PROVE  Len(w) # 1 /\ Head(Tail(w)) # "give" /\ Inside(Tail(w)) /\ ~Inside(w)
<1>1. w \in Seq(Steps) /\ Len(w) \in Nat /\ Len(w) > 0 /\ w[1] = "begin"
  BY DEF Shape
<1>2. PICK j \in 1..Len(w) : 1 < j /\ w[j] = "commit"
  BY <1>1 DEF Shape
<1>3. Len(w) # 1 /\ 2 \in 1..Len(w) /\ 1 \in 1..Len(w) /\ 2 = 1 + 1
  BY <1>1, <1>2
<1>4. w[2] # "give"
  BY <1>1, <1>3 DEF Shape
<1>5. Left(w, "commit") /\ Left(w, "begin")
  BY <1>1, <1>2, <1>3 DEF Left
<1>6. ~Left(Tail(w), "begin")
  <2>1. SUFFICES ASSUME NEW k \in 1..Len(Tail(w)), Tail(w)[k] = "begin"
                 PROVE  FALSE
    BY DEF Left
  <2>2. k + 1 \in 1..Len(w) /\ 1 < k + 1 /\ w[k + 1] = "begin"
    BY <1>1, <1>3, <2>1, TailShape
  <2>3. MayPrecede(w[1], w[k + 1])
    BY <1>3, <2>2 DEF Shape
  <2> QED BY <1>1, <2>2, <2>3 DEF MayPrecede, Query
<1> QED BY <1>1, <1>3, <1>4, <1>5, <1>6, TailShape, LeftOfTail DEF Inside

LEMMA TakeRest ==
  ASSUME NEW w, Shape(w), Head(w) = "take"
  PROVE  Len(w) # 1 /\ Head(Tail(w)) = "give" /\ (Inside(Tail(w)) <=> Inside(w))
<1>1. w \in Seq(Steps) /\ Len(w) \in Nat /\ Len(w) > 0 /\ w[1] = "take" /\ 1 \in 1..Len(w)
  BY DEF Shape
<1>2. 1 < Len(w) /\ w[2] = "give"
  BY <1>1 DEF Shape
<1> QED BY <1>1, <1>2, TailShape, LeftOfTail DEF Inside

LEMMA GiveRest ==
  ASSUME NEW w, Shape(w), Head(w) = "give"
  PROVE  /\ Len(w) = 1 => ~Inside(w)
         /\ Len(w) # 1 => Head(Tail(w)) # "give" /\ (Inside(Tail(w)) <=> Inside(w))
<1>1. w \in Seq(Steps) /\ Len(w) \in Nat /\ Len(w) > 0 /\ w[1] = "give" /\ 1 \in 1..Len(w)
  BY DEF Shape
<1>2. Len(w) = 1 => ~Inside(w)
  BY <1>1 DEF Inside, Left
<1>3. ASSUME Len(w) # 1
      PROVE  Head(Tail(w)) # "give" /\ (Inside(Tail(w)) <=> Inside(w))
  <2>1. 2 \in 1..Len(w) /\ 2 = 1 + 1
    BY <1>1, <1>3, SecondIndex
  <2>2. w[2] # "give"
    BY <1>1, <2>1 DEF Shape
  <2> QED BY <1>1, <1>3, <2>2, TailShape, LeftOfTail DEF Inside
<1> QED BY <1>2, <1>3

LEMMA RowRest ==
  ASSUME NEW w, Shape(w), Head(w) \in Rows
  PROVE  /\ Len(w) # 1 /\ Head(Tail(w)) # "give"
         /\ Inside(w) /\ Inside(Tail(w))
         /\ Head(w) \in Orders => ~LeftOf(Tail(w), Orders)
         /\ Head(w) \in Items => ~LeftOf(Tail(w), Rows)
<1> USE PoolAssumption
<1>1. w \in Seq(Steps) /\ Len(w) \in Nat /\ Len(w) > 0 /\ w[1] = Head(w) /\ 1 \in 1..Len(w)
  BY DEF Shape
<1>2. PICK j \in 1..Len(w) : 1 < j /\ w[j] = "commit"
  BY <1>1 DEF Shape
<1>3. Len(w) # 1 /\ 2 \in 1..Len(w) /\ 2 = 1 + 1
  BY <1>1, <1>2
<1>4. w[1] # "take" /\ w[1] # "give" /\ w[1] # "begin" /\ w[1] # "commit"
  BY <1>1
<1>5. w[2] # "give"
  BY <1>1, <1>3, <1>4 DEF Shape
<1>6. \A k \in 1..Len(Tail(w)) : Tail(w)[k] = w[k + 1] /\ MayPrecede(w[1], w[k + 1])
  <2>1. SUFFICES ASSUME NEW k \in 1..Len(Tail(w))
                 PROVE  Tail(w)[k] = w[k + 1] /\ MayPrecede(w[1], w[k + 1])
    OBVIOUS
  <2>2. k + 1 \in 1..Len(w) /\ 1 < k + 1 /\ Tail(w)[k] = w[k + 1]
    BY <1>1, <1>3, TailShape
  <2> QED BY <1>1, <2>2 DEF Shape
<1>7. ~Left(Tail(w), "begin")
  BY <1>4, <1>6 DEF Left, MayPrecede, Query
<1>8. Left(w, "commit") /\ Left(Tail(w), "commit") /\ ~Left(w, "begin")
  <2>1. Left(w, "commit")
    BY <1>2 DEF Left
  <2>2. Left(Tail(w), "commit") /\ ~Left(w, "begin")
    BY <1>1, <1>3, <1>4, <1>7, <2>1, LeftOfTail
  <2> QED BY <2>1, <2>2
<1>9. ~LeftOf(Tail(w), Orders)
  BY <1>1, <1>6 DEF LeftOf, MayPrecede, Rows
<1>10. Head(w) \in Items => ~LeftOf(Tail(w), Rows)
  BY <1>1, <1>6 DEF LeftOf, MayPrecede, Rows
<1> QED BY <1>1, <1>3, <1>5, <1>7, <1>8, <1>9, <1>10, TailShape DEF Inside

LEMMA CommitRest ==
  ASSUME NEW w, Shape(w), Head(w) = "commit"
  PROVE  Len(w) # 1 => Head(Tail(w)) # "give" /\ ~Inside(Tail(w))
<1>1. w \in Seq(Steps) /\ Len(w) \in Nat /\ Len(w) > 0 /\ w[1] = "commit" /\ 1 \in 1..Len(w)
  BY DEF Shape
<1>2. SUFFICES ASSUME Len(w) # 1
               PROVE  Head(Tail(w)) # "give" /\ ~Inside(Tail(w))
  OBVIOUS
<1>3. 2 \in 1..Len(w) /\ 2 = 1 + 1
  BY <1>1, <1>2, SecondIndex
<1>4. w[2] # "give"
  BY <1>1, <1>3 DEF Shape
<1>5. ~Left(Tail(w), "commit")
  <2>1. SUFFICES ASSUME NEW k \in 1..Len(Tail(w)), Tail(w)[k] = "commit"
                 PROVE  FALSE
    BY DEF Left
  <2>2. k + 1 \in 1..Len(w) /\ 1 < k + 1 /\ w[k + 1] = "commit"
    BY <1>1, <1>2, <2>1, TailShape
  <2>3. MayPrecede(w[1], w[k + 1])
    BY <1>1, <2>2 DEF Shape
  <2> QED BY <1>1, <2>2, <2>3 DEF MayPrecede, Query
<1> QED BY <1>2, <1>4, <1>5, TailShape DEF Inside
-----------------------------------------------------------------------------
LEMMA PoolInitHolds == PoolInit => PoolInv
<1> SUFFICES ASSUME PoolInit PROVE PoolInv
  OBVIOUS
<1> USE PoolAssumption DEF PoolInit
<1>1. PoolTypes
  BY FS_EmptySet DEF PoolTypes
<1>2. NeverOverdrawn
  <2>1. Cardinality(txs) = 0 /\ Cardinality(queries) = 0
    BY FS_EmptySet
  <2> QED BY <2>1 DEF NeverOverdrawn, Free
<1>3. \A h \in Handlers : HandlerFits(h)
  BY DEF HandlerFits
<1>4. \A r \in Rows : LockFits(r)
  BY DEF LockFits
<1> QED BY <1>1, <1>2, <1>3, <1>4 DEF PoolInv

\* A busy handler's steps have the shape, and Advance does the first of them.
LEMMA BusyFits ==
  ASSUME PoolInv, NEW h \in Handlers, Busy(h)
  PROVE  /\ Shape(work[h])
         /\ h \in queries <=> Head(work[h]) = "give"
         /\ h \in txs <=> Inside(work[h])
BY DEF PoolInv, HandlerFits, Busy

LEMMA Advanced ==
  ASSUME PoolInv, NEW h \in Handlers, Busy(h), Advance(h)
  PROVE  /\ work' \in [Handlers -> {NoOne} \cup Seq(Steps)]
         /\ \A g \in Handlers \ {h} : work'[g] = work[g]
         /\ Len(work[h]) = 1 => work'[h] = NoOne
         /\ Len(work[h]) # 1 => work'[h] = Tail(work[h]) /\ Shape(work'[h])
<1>1. Shape(work[h]) /\ work \in [Handlers -> {NoOne} \cup Seq(Steps)]
  BY BusyFits DEF PoolInv, PoolTypes
<1>2. Len(work[h]) # 1 => Shape(Tail(work[h])) /\ Tail(work[h]) \in Seq(Steps)
  BY <1>1, TailShape
<1> QED BY <1>1, <1>2 DEF Advance

\* The handlers other than h, and what is locked while h has steps left, when
\* neither changes but by a step of h.
LEMMA OtherHandlersFit ==
  ASSUME PoolInv, NEW h \in Handlers,
         \A g \in Handlers \ {h} :
           work'[g] = work[g] /\ (g \in txs' <=> g \in txs) /\ (g \in queries' <=> g \in queries)
  PROVE  \A g \in Handlers \ {h} : HandlerFits(g)'
BY DEF PoolInv, HandlerFits

LEMMA LocksFit ==
  ASSUME PoolInv, NEW h \in Handlers, Busy(h), Advance(h), h \in txs => Len(work[h]) # 1,
         txs \subseteq txs',
         NEW r \in Rows, holder'[r] = holder[r]
  PROVE  LockFits(r)'
<1>1. LockFits(r) /\ holder[r] \in Handlers \cup {NoOne} /\ Shape(work[h])
  BY BusyFits DEF PoolInv, PoolTypes
<1>2. CASE holder[r] = NoOne
  BY <1>2 DEF LockFits
<1>3. CASE holder[r] \in Handlers \ {h}
  <2>1. work'[holder[r]] = work[holder[r]]
    BY <1>3, Advanced
  <2> QED BY <1>1, <2>1 DEF LockFits
<1>4. CASE holder[r] = h /\ h # NoOne
  <2>1. h \in txs
    BY <1>1, <1>4 DEF LockFits
  <2>2. work'[h] = Tail(work[h]) /\ Len(work[h]) # 1
    BY <2>1, Advanced
  <2>3. \A S : LeftOf(work'[h], S) => LeftOf(work[h], S)
    BY <1>1, <2>2, LeftOfTail
  <2> QED BY <1>1, <1>4, <2>1, <2>3 DEF LockFits
<1> QED BY <1>1, <1>2, <1>3, <1>4

LEMMA CardinalitiesAreNat ==
  ASSUME PoolInv
  PROVE  /\ size \in Nat \ {0}
         /\ Cardinality(txs) \in Nat
         /\ Cardinality(queries) \in Nat
BY PoolAssumption, FS_CardinalityType DEF PoolInv, PoolTypes

LEMMA StartKeeps ==
  ASSUME PoolInv, NEW h \in Handlers, Start(h)
  PROVE  PoolInv'
<1>1. PICK op \in Operations : work' = [work EXCEPT ![h] = op]
  BY DEF Start
<1>2. UNCHANGED <<size, txs, queries, holder>> /\ work[h] = NoOne
  BY DEF Start, Busy
<1>3. Shape(op) /\ Head(op) # "give" /\ ~Inside(op)
  BY OperationsShape
<1>4. op \in Seq(Steps) /\ work \in [Handlers -> {NoOne} \cup Seq(Steps)]
  BY <1>3 DEF Shape, PoolInv, PoolTypes
<1>5. work'[h] = op /\ \A g \in Handlers \ {h} : work'[g] = work[g]
  BY <1>1, <1>4
<1>6. h \notin txs /\ h \notin queries
  <2>1. ~Shape(NoOne)
    BY PoolAssumption DEF Shape
  <2> QED BY <1>2, <2>1 DEF PoolInv, HandlerFits
<1>7. PoolTypes'
  BY <1>1, <1>2, <1>4 DEF PoolInv, PoolTypes
<1>8. NeverOverdrawn'
  BY <1>2 DEF PoolInv, NeverOverdrawn, Free
<1>9. \A g \in Handlers : HandlerFits(g)'
  <2>1. HandlerFits(h)'
    BY <1>2, <1>3, <1>5, <1>6 DEF HandlerFits
  <2>2. \A g \in Handlers \ {h} : HandlerFits(g)'
    BY <1>2, <1>5, OtherHandlersFit
  <2> QED BY <2>1, <2>2
<1>10. \A r \in Rows : LockFits(r)'
  <2>1. SUFFICES ASSUME NEW r \in Rows, holder[r] # NoOne
                 PROVE  LockFits(r)'
    BY <1>2 DEF LockFits
  <2>2. LockFits(r) /\ holder[r] \in Handlers
    BY <2>1 DEF PoolInv, PoolTypes
  <2>3. holder[r] # h /\ work'[holder[r]] = work[holder[r]]
    BY <1>5, <1>6, <2>1, <2>2 DEF LockFits
  <2> QED BY <1>2, <2>2, <2>3 DEF LockFits
<1> QED BY <1>7, <1>8, <1>9, <1>10 DEF PoolInv

LEMMA BeginKeeps ==
  ASSUME PoolInv, NEW h \in Handlers, Begin(h)
  PROVE  PoolInv'
<1> DEFINE w == work[h]
<1>1. Busy(h) /\ Head(w) = "begin" /\ Free > 0 /\ Advance(h)
  BY DEF Begin, At
<1>2. txs' = txs \cup {h} /\ UNCHANGED <<size, queries, holder>>
  BY DEF Begin
<1>3. /\ Shape(w) /\ h \notin queries
      /\ Len(w) # 1 /\ Head(Tail(w)) # "give" /\ Inside(Tail(w)) /\ h \notin txs
  BY <1>1, BusyFits, BeginRest
<1>4. PoolTypes'
  <2>1. IsFiniteSet(txs')
    BY <1>2, FS_AddElement DEF PoolInv, PoolTypes
  <2> QED BY <1>1, <1>2, <2>1, Advanced DEF PoolInv, PoolTypes
<1>5. NeverOverdrawn'
  <2>1. Cardinality(txs') = Cardinality(txs) + 1
    BY <1>2, <1>3, FS_AddElement DEF PoolInv, PoolTypes
  <2> QED BY <1>1, <1>2, <2>1, CardinalitiesAreNat DEF NeverOverdrawn, Free
<1>6. \A g \in Handlers : HandlerFits(g)'
  <2>1. work'[h] = Tail(w) /\ Shape(work'[h])
    BY <1>1, <1>3, Advanced
  <2>2. HandlerFits(h)'
    BY <1>2, <1>3, <2>1 DEF HandlerFits
  <2>3. \A g \in Handlers \ {h} : HandlerFits(g)'
    BY <1>1, <1>2, Advanced, OtherHandlersFit
  <2> QED BY <2>2, <2>3
<1>7. \A r \in Rows : LockFits(r)'
  BY <1>1, <1>2, <1>3, LocksFit
<1> QED BY <1>4, <1>5, <1>6, <1>7 DEF PoolInv

LEMMA TakeKeeps ==
  ASSUME PoolInv, NEW h \in Handlers, Take(h)
  PROVE  PoolInv'
<1> DEFINE w == work[h]
<1>1. Busy(h) /\ Head(w) = "take" /\ Free > 0 /\ Advance(h)
  BY DEF Take, At
<1>2. queries' = queries \cup {h} /\ UNCHANGED <<size, txs, holder>>
  BY DEF Take
<1>3. /\ Shape(w) /\ h \notin queries /\ (h \in txs <=> Inside(w))
      /\ Len(w) # 1 /\ Head(Tail(w)) = "give" /\ (Inside(Tail(w)) <=> Inside(w))
  BY <1>1, BusyFits, TakeRest
<1>4. PoolTypes'
  <2>1. IsFiniteSet(queries')
    BY <1>2, FS_AddElement DEF PoolInv, PoolTypes
  <2> QED BY <1>1, <1>2, <2>1, Advanced DEF PoolInv, PoolTypes
<1>5. NeverOverdrawn'
  <2>1. Cardinality(queries') = Cardinality(queries) + 1
    BY <1>2, <1>3, FS_AddElement DEF PoolInv, PoolTypes
  <2> QED BY <1>1, <1>2, <2>1, CardinalitiesAreNat DEF NeverOverdrawn, Free
<1>6. \A g \in Handlers : HandlerFits(g)'
  <2>1. work'[h] = Tail(w) /\ Shape(work'[h])
    BY <1>1, <1>3, Advanced
  <2>2. HandlerFits(h)'
    BY <1>2, <1>3, <2>1 DEF HandlerFits
  <2>3. \A g \in Handlers \ {h} : HandlerFits(g)'
    BY <1>1, <1>2, Advanced, OtherHandlersFit
  <2> QED BY <2>2, <2>3
<1>7. \A r \in Rows : LockFits(r)'
  BY <1>1, <1>2, <1>3, LocksFit
<1> QED BY <1>4, <1>5, <1>6, <1>7 DEF PoolInv

LEMMA GiveKeeps ==
  ASSUME PoolInv, NEW h \in Handlers, Give(h)
  PROVE  PoolInv'
<1> DEFINE w == work[h]
<1>1. Busy(h) /\ Head(w) = "give" /\ Advance(h)
  BY DEF Give, At
<1>2. queries' = queries \ {h} /\ UNCHANGED <<size, txs, holder>>
  BY DEF Give
<1>3. /\ Shape(w) /\ h \in queries /\ (h \in txs <=> Inside(w))
      /\ Len(w) = 1 => ~Inside(w)
      /\ Len(w) # 1 => Head(Tail(w)) # "give" /\ (Inside(Tail(w)) <=> Inside(w))
  BY <1>1, BusyFits, GiveRest
<1>4. PoolTypes'
  <2>1. IsFiniteSet(queries')
    BY <1>2, FS_RemoveElement DEF PoolInv, PoolTypes
  <2> QED BY <1>1, <1>2, <2>1, Advanced DEF PoolInv, PoolTypes
<1>5. NeverOverdrawn'
  <2>1. Cardinality(queries') = Cardinality(queries) - 1
    BY <1>2, <1>3, FS_RemoveElement DEF PoolInv, PoolTypes
  <2> QED BY <1>2, <2>1, CardinalitiesAreNat DEF PoolInv, NeverOverdrawn, Free
<1>6. \A g \in Handlers : HandlerFits(g)'
  <2>1. /\ Len(w) = 1 => work'[h] = NoOne
        /\ Len(w) # 1 => work'[h] = Tail(w) /\ Shape(work'[h])
    BY <1>1, Advanced
  <2>2. HandlerFits(h)'
    BY <1>2, <1>3, <2>1 DEF HandlerFits
  <2>3. \A g \in Handlers \ {h} : HandlerFits(g)'
    BY <1>1, <1>2, Advanced, OtherHandlersFit
  <2> QED BY <2>2, <2>3
<1>7. \A r \in Rows : LockFits(r)'
  BY <1>1, <1>2, <1>3, LocksFit
<1> QED BY <1>4, <1>5, <1>6, <1>7 DEF PoolInv

LEMMA LockRowKeeps ==
  ASSUME PoolInv, NEW h \in Handlers, LockRow(h)
  PROVE  PoolInv'
<1> DEFINE w == work[h]
           row == Head(work[h])
<1>1. Busy(h) /\ row \in Rows /\ Advance(h)
  BY DEF LockRow, At
<1>2. holder' = [holder EXCEPT ![row] = h] /\ UNCHANGED <<size, txs, queries>>
  BY DEF LockRow
<1>3. /\ Shape(w) /\ (h \in txs <=> Inside(w)) /\ (h \in queries <=> row = "give")
      /\ Len(w) # 1 /\ Head(Tail(w)) # "give"
      /\ Inside(w) /\ Inside(Tail(w))
      /\ row \in Orders => ~LeftOf(Tail(w), Orders)
      /\ row \in Items => ~LeftOf(Tail(w), Rows)
  BY <1>1, BusyFits, RowRest
<1>4. row # "give" /\ h \notin queries /\ h \in txs
  BY <1>1, <1>3, PoolAssumption
<1>5. work'[h] = Tail(w) /\ Shape(work'[h])
  BY <1>1, <1>3, Advanced
<1> HIDE DEF row
<1>6. PoolTypes'
  <2>1. holder' \in [Rows -> Handlers \cup {NoOne}]
    BY <1>1, <1>2 DEF PoolInv, PoolTypes
  <2> QED BY <1>1, <1>2, <2>1, Advanced DEF PoolInv, PoolTypes
<1>7. NeverOverdrawn'
  BY <1>2 DEF PoolInv, NeverOverdrawn, Free
<1>8. \A g \in Handlers : HandlerFits(g)'
  <2>1. HandlerFits(h)'
    BY <1>2, <1>3, <1>4, <1>5 DEF HandlerFits
  <2>2. \A g \in Handlers \ {h} : HandlerFits(g)'
    BY <1>1, <1>2, Advanced, OtherHandlersFit
  <2> QED BY <2>1, <2>2
<1>9. \A r \in Rows : LockFits(r)'
  <2>1. SUFFICES ASSUME NEW r \in Rows
                 PROVE  LockFits(r)'
    OBVIOUS
  <2>2. holder'[r] = IF r = row THEN h ELSE holder[r]
    BY <1>2 DEF PoolInv, PoolTypes
  <2>3. CASE r = row
    BY <1>2, <1>3, <1>4, <1>5, <2>2, <2>3 DEF LockFits
  <2>4. CASE r # row
    BY <1>1, <1>2, <1>3, <2>2, <2>4, LocksFit
  <2> QED BY <2>3, <2>4
<1> QED BY <1>6, <1>7, <1>8, <1>9 DEF PoolInv

\* A transaction that ends takes its locks with it, and no other lock changes.
LEMMA UnlockedFits ==
  ASSUME PoolInv, NEW h \in Handlers,
         \A g \in Handlers \ {h} : work'[g] = work[g],
         txs' = txs \ {h}, holder' = Unlocked(h)
  PROVE  /\ holder' \in [Rows -> Handlers \cup {NoOne}]
         /\ \A r \in Rows : LockFits(r)'
<1>1. holder \in [Rows -> Handlers \cup {NoOne}]
  BY DEF PoolInv, PoolTypes
<1>2. \A r \in Rows : holder'[r] = IF holder[r] = h THEN NoOne ELSE holder[r]
  BY DEF Unlocked
<1>3. holder' \in [Rows -> Handlers \cup {NoOne}]
  BY <1>1 DEF Unlocked
<1>4. ASSUME NEW r \in Rows
      PROVE  LockFits(r)'
  <2>1. CASE holder'[r] = NoOne
    BY <2>1 DEF LockFits
  <2>2. CASE holder'[r] # NoOne
    <3>1. holder'[r] = holder[r] /\ holder[r] \in Handlers \ {h} /\ LockFits(r)
      BY <1>1, <1>2, <2>2 DEF PoolInv
    <3>2. work'[holder[r]] = work[holder[r]]
      BY <3>1
    <3> QED BY <2>2, <3>1, <3>2 DEF LockFits
  <2> QED BY <2>1, <2>2
<1> QED BY <1>3, <1>4

LEMMA FewerTransactions ==
  ASSUME PoolInv, NEW h \in Handlers, txs' = txs \ {h}
  PROVE  IsFiniteSet(txs') /\ Cardinality(txs') \in Nat /\ Cardinality(txs') <= Cardinality(txs)
<1>1. IsFiniteSet(txs) /\ Cardinality(txs) \in Nat
  BY CardinalitiesAreNat DEF PoolInv, PoolTypes
<1>2. IsFiniteSet(txs') /\ Cardinality(txs') =
        IF h \in txs THEN Cardinality(txs) - 1 ELSE Cardinality(txs)
  BY <1>1, FS_RemoveElement
<1>3. Cardinality(txs') \in Nat
  BY <1>2, FS_CardinalityType
<1> QED BY <1>1, <1>2, <1>3

LEMMA CommitKeeps ==
  ASSUME PoolInv, NEW h \in Handlers, Commit(h)
  PROVE  PoolInv'
<1> DEFINE w == work[h]
<1>1. Busy(h) /\ Head(w) = "commit" /\ Advance(h)
  BY DEF Commit, At
<1>2. txs' = txs \ {h} /\ holder' = Unlocked(h) /\ UNCHANGED <<size, queries>>
  BY DEF Commit
<1>3. /\ Shape(w) /\ h \notin queries
      /\ Len(w) # 1 => Head(Tail(w)) # "give" /\ ~Inside(Tail(w))
  BY <1>1, BusyFits, CommitRest
<1>4. \A g \in Handlers \ {h} : work'[g] = work[g]
  BY <1>1, Advanced
<1>5. PoolTypes'
  BY <1>1, <1>2, <1>4, Advanced, UnlockedFits, FewerTransactions DEF PoolInv, PoolTypes
<1>6. NeverOverdrawn'
  <2>1. /\ Cardinality(txs') \in Nat /\ Cardinality(txs) \in Nat
        /\ Cardinality(queries) \in Nat /\ size \in Nat
        /\ Cardinality(txs') <= Cardinality(txs)
    BY <1>2, FewerTransactions, CardinalitiesAreNat
  <2> QED BY <1>2, <2>1 DEF PoolInv, NeverOverdrawn, Free
<1>7. \A g \in Handlers : HandlerFits(g)'
  <2>1. /\ Len(w) = 1 => work'[h] = NoOne
        /\ Len(w) # 1 => work'[h] = Tail(w) /\ Shape(work'[h])
    BY <1>1, Advanced
  <2>2. HandlerFits(h)'
    BY <1>2, <1>3, <2>1 DEF HandlerFits
  <2>3. \A g \in Handlers \ {h} : HandlerFits(g)'
    BY <1>2, <1>4, OtherHandlersFit
  <2> QED BY <2>2, <2>3
<1>8. \A r \in Rows : LockFits(r)'
  BY <1>2, <1>4, UnlockedFits
<1> QED BY <1>5, <1>6, <1>7, <1>8 DEF PoolInv

LEMMA RollBackKeeps ==
  ASSUME PoolInv, NEW h \in Handlers, GiveUp(h)
  PROVE  PoolInv'
<1>1. /\ work' = [work EXCEPT ![h] = NoOne]
      /\ txs' = txs \ {h} /\ queries' = queries \ {h}
      /\ holder' = Unlocked(h) /\ size' = size
  BY DEF GiveUp
<1>2. /\ work' \in [Handlers -> {NoOne} \cup Seq(Steps)]
      /\ work'[h] = NoOne
      /\ \A g \in Handlers \ {h} : work'[g] = work[g]
  BY <1>1 DEF PoolInv, PoolTypes
<1>3. /\ IsFiniteSet(queries') /\ Cardinality(queries') \in Nat
      /\ Cardinality(queries') <= Cardinality(queries)
  <2>1. IsFiniteSet(queries') /\ Cardinality(queries') =
          IF h \in queries THEN Cardinality(queries) - 1 ELSE Cardinality(queries)
    BY <1>1, FS_RemoveElement DEF PoolInv, PoolTypes
  <2>2. Cardinality(queries') \in Nat
    BY <2>1, FS_CardinalityType
  <2> QED BY <2>1, <2>2, CardinalitiesAreNat
<1>4. PoolTypes'
  BY <1>1, <1>2, <1>3, UnlockedFits, FewerTransactions DEF PoolInv, PoolTypes
<1>5. NeverOverdrawn'
  <2>1. /\ Cardinality(txs') \in Nat /\ Cardinality(txs) \in Nat
        /\ Cardinality(queries) \in Nat /\ size \in Nat
        /\ Cardinality(txs') <= Cardinality(txs)
    BY <1>1, FewerTransactions, CardinalitiesAreNat
  <2> QED BY <1>1, <1>3, <2>1 DEF PoolInv, NeverOverdrawn, Free
<1>6. \A g \in Handlers : HandlerFits(g)'
  <2>1. HandlerFits(h)'
    BY <1>1, <1>2 DEF HandlerFits
  <2>2. \A g \in Handlers \ {h} : HandlerFits(g)'
    BY <1>1, <1>2, OtherHandlersFit
  <2> QED BY <2>1, <2>2
<1>7. \A r \in Rows : LockFits(r)'
  BY <1>1, <1>2, UnlockedFits
<1> QED BY <1>4, <1>5, <1>6, <1>7 DEF PoolInv

LEMMA PoolNextKeeps ==
  ASSUME PoolInv, PoolNext
  PROVE  PoolInv'
<1>1. PICK h \in Handlers : Start(h) \/ PoolStep(h) \/ GiveUp(h)
  BY DEF PoolNext
<1> QED BY <1>1, StartKeeps, BeginKeeps, TakeKeeps, GiveKeeps, LockRowKeeps, CommitKeeps,
           RollBackKeeps DEF PoolStep

LEMMA PoolStutterKeeps ==
  ASSUME PoolInv, UNCHANGED poolVars
  PROVE  PoolInv'
BY DEF PoolInv, poolVars, PoolTypes, NeverOverdrawn, Free, HandlerFits, LockFits

LEMMA PoolInvariance == PoolSpec => []PoolInv
<1>1. PoolInit => PoolInv
  BY PoolInitHolds
<1>2. PoolInv /\ [PoolNext]_poolVars => PoolInv'
  BY PoolNextKeeps, PoolStutterKeeps
<1> QED BY <1>1, <1>2, PTL DEF PoolSpec
-----------------------------------------------------------------------------
\* A handler that is blocked in its transaction waits for a connection, or for
\* a row locked by another transaction.
LEMMA BlockedInside ==
  ASSUME PoolInv, NEW h \in txs, Blocked(h)
  PROVE  \/ At(h, {"take"})
         \/ /\ Head(work[h]) \in Rows
            /\ LeftOf(work[h], {Head(work[h])})
            /\ holder[Head(work[h])] \in txs
<1>1. h \in Handlers /\ Busy(h)
  BY DEF PoolInv, PoolTypes, Blocked, At
<1>2. Shape(work[h]) /\ Inside(work[h])
  BY <1>1, BusyFits
<1>3. work[h] \in Seq(Steps) /\ Len(work[h]) \in Nat /\ 1 \in 1..Len(work[h])
      /\ Head(work[h]) = work[h][1]
  BY <1>2 DEF Shape
<1>4. Head(work[h]) # "begin"
  BY <1>2, <1>3 DEF Inside, Left
<1>5. CASE At(h, {"begin", "take"})
  BY <1>4, <1>5 DEF At
<1>6. CASE At(h, Rows) /\ holder[Head(work[h])] \notin {NoOne, h}
  <2>1. Head(work[h]) \in Rows
    BY <1>6 DEF At
  <2>2. holder[Head(work[h])] \in txs
    BY <1>6, <2>1 DEF PoolInv, LockFits
  <2> QED BY <1>3, <2>1, <2>2 DEF LeftOf
<1> QED BY <1>5, <1>6 DEF Blocked

LEMMA FullWhenExhausted ==
  ASSUME PoolInv
  PROVE  ExhaustedOnlyWhenFull
<1>1. Free >= 0
  BY DEF PoolInv, NeverOverdrawn
<1>2. ASSUME Exhausted
      PROVE  Cardinality(txs) = size /\ \E h \in txs : At(h, {"take"})
  <2>1. queries = {}
    <3>1. SUFFICES ASSUME NEW h \in queries
                   PROVE  FALSE
      OBVIOUS
    <3>2. h \in Handlers /\ Blocked(h) /\ Busy(h)
      BY <1>2 DEF PoolInv, PoolTypes, Exhausted, Blocked, At
    <3>3. Head(work[h]) = "give"
      BY <3>2, BusyFits
    <3> QED BY <3>2, <3>3, PoolAssumption DEF Blocked, At
  <2>2. Cardinality(queries) = 0 /\ Cardinality(txs) = size /\ size > 0
    BY <1>2, <2>1, FS_EmptySet, CardinalitiesAreNat DEF Exhausted, Free
  <2>3. PICK h \in txs : TRUE
    BY <2>2, FS_EmptySet DEF PoolInv, PoolTypes
  <2>4. \A g \in txs : Blocked(g)
    BY <1>2 DEF Exhausted
  \* The holder of an item has no row left to wait for; the holder of an order
  \* may wait for an item.
  <2>5. \A g \in txs, i \in Items : holder[i] = g => At(g, {"take"})
    <3>1. SUFFICES ASSUME NEW g \in txs, NEW i \in Items, holder[i] = g
                   PROVE  At(g, {"take"})
      OBVIOUS
    <3>2. holder[i] # NoOne /\ i \in Rows
      BY <3>1, PoolAssumption DEF PoolInv, PoolTypes, Rows
    <3>3. ~LeftOf(work[g], Rows)
      BY <3>1, <3>2 DEF PoolInv, LockFits
    <3> QED BY <2>4, <3>3, BlockedInside DEF LeftOf
  <2>6. \A g \in txs, o \in Orders : holder[o] = g => \E f \in txs : At(f, {"take"})
    <3>1. SUFFICES ASSUME NEW g \in txs, NEW o \in Orders, holder[o] = g
                   PROVE  \E f \in txs : At(f, {"take"})
      OBVIOUS
    <3>2. holder[o] # NoOne /\ o \in Rows
      BY <3>1, PoolAssumption DEF PoolInv, PoolTypes, Rows
    <3>3. ~LeftOf(work[g], Orders)
      BY <3>1, <3>2 DEF PoolInv, LockFits
    <3>4. \/ At(g, {"take"})
          \/ Head(work[g]) \in Items /\ holder[Head(work[g])] \in txs
      BY <2>4, <3>3, BlockedInside DEF LeftOf, Rows
    <3> QED BY <2>5, <3>4
  <2>7. \/ At(h, {"take"})
        \/ Head(work[h]) \in Rows /\ holder[Head(work[h])] \in txs
    BY <2>4, BlockedInside
  <2> QED BY <2>2, <2>5, <2>6, <2>7 DEF Rows
<1> QED BY <1>1, <1>2 DEF ExhaustedOnlyWhenFull

\* However many handlers, orders and items there are, the pool is never
\* overdrawn, and only as many open transactions as it has connections exhaust
\* it, one of them asking for a second connection in ResolveAccount.
THEOREM ExhaustionNeedsFullPool == PoolSpec => []ExhaustedOnlyWhenFull
<1>1. PoolInv => ExhaustedOnlyWhenFull
  BY FullWhenExhausted
<1> QED BY <1>1, PoolInvariance, PTL
=============================================================================
