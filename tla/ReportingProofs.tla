-------------------------- MODULE ReportingProofs --------------------------
(***************************************************************************)
(* Proofs about Reporting, for every chart of accounts, every calendar and  *)
(* every set of balanced entries.                                          *)
(*                                                                         *)
(* The reports agree because each is the balance of a set of lines of the   *)
(* journal: balances add up over disjoint sets, and all the lines of an     *)
(* entry together have the balance zero.  The views are as fresh as they    *)
(* are because of who can overtake whom between snapshot and install.       *)
(***************************************************************************)
EXTENDS Reporting, Totals

-----------------------------------------------------------------------------
(* The greatest of a finite set of days *)

LEMMA MaxIsGreatest ==
  ASSUME NEW S, IsFiniteSet(S), S \subseteq Nat, S # {}
  PROVE  Max(S) \in S /\ \A x \in S : x <= Max(S)
<1> DEFINE C == {T \in SUBSET S : T = {} \/ \E m \in T : \A x \in T : m >= x}
<1>1. {} \in C
  OBVIOUS
<1>2. ASSUME NEW T \in SUBSET S, NEW x \in S \ T, T \in C PROVE T \cup {x} \in C
  <2>1. CASE T = {}
    <3>1. x \in {x} /\ \A y \in {x} : x >= y
      OBVIOUS
    <3> QED
      BY <2>1, <3>1
  <2>2. CASE T # {}
    <3>1. PICK m \in T : \A y \in T : m >= y
      BY <1>2, <2>2
    <3> DEFINE top == IF x >= m THEN x ELSE m
    <3>2. x \in Nat /\ m \in Nat /\ T \subseteq Nat
      OBVIOUS
    <3>3. top \in T \cup {x} /\ top >= x /\ top >= m /\ top \in Nat
      BY <3>2
    <3> HIDE DEF top
    <3>4. \A y \in T \cup {x} : top >= y
      BY <3>1, <3>2, <3>3
    <3> QED
      BY <3>3, <3>4
  <2> QED
    BY <2>1, <2>2
<1> HIDE DEF C
<1>3. S \in C
  BY <1>1, <1>2, StepInduction
<1>4. \E m \in S : \A x \in S : m >= x
  BY <1>3 DEF C
<1>5. Max(S) \in S /\ \A x \in S : Max(S) >= x
  BY <1>4 DEF Max
<1> QED
  BY <1>5

-----------------------------------------------------------------------------
(* The journal *)

Entries == {e \in [date : Days, lines : Seq([acct : Accounts, debit : Nat, credit : Nat])] :
              IsBalancedEntry(e.lines)}

JournalFits == journal \in Seq(Entries)

LineRecords == [acct : Accounts, debit : Nat, credit : Nat]

\* A reversal is balanced like its original.
LEMMA InvertedBalanced ==
  ASSUME NEW lines, IsBalancedEntry(lines)
  PROVE  IsBalancedEntry(Inverted(lines))
<1> DEFINE back == Inverted(lines)
           drift(s) == [k \in DOMAIN s |-> s[k].debit - s[k].credit]
           zero == [k \in DOMAIN lines |-> 0]
<1>1. lines \in Seq(LineRecords)
  BY DEF IsBalancedEntry, BalancedLines, LineRecords
<1>2. DOMAIN lines = 1 .. Len(lines) /\ Len(lines) \in Nat
  BY <1>1
<1>3. \A k \in DOMAIN lines : lines[k] \in LineRecords
  BY <1>1
<1>4. DOMAIN back = DOMAIN lines
  BY DEF Inverted
<1>5. ASSUME NEW k \in DOMAIN lines
      PROVE  /\ back[k] \in LineRecords
             /\ back[k].debit = lines[k].credit /\ back[k].credit = lines[k].debit
  BY <1>3 DEF Inverted, LineRecords
<1>6. back \in Seq(LineRecords)
  <2>1. back \in [1 .. Len(lines) -> LineRecords]
    BY <1>2, <1>5 DEF Inverted
  <2> HIDE DEF back
  <2> QED
    BY <1>2, <2>1
<1>7. IsFiniteSet(DOMAIN lines)
  BY <1>2, FS_Interval
<1>8. SumFunctionOnSet(drift(lines), DOMAIN lines) = 0
  BY DEF IsBalancedEntry, BalancedLines, SumFunction, FoldFunction, SumFunctionOnSet
<1>9. \A k \in DOMAIN lines : /\ zero[k] = 0 /\ zero[k] \in Int /\ drift(lines)[k] \in Int
                              /\ drift(back)[k] = zero[k] - drift(lines)[k]
  BY <1>3, <1>4, <1>5 DEF LineRecords
<1>10. DOMAIN drift(back) = DOMAIN lines
  BY <1>4
<1> DEFINE f == drift(lines)
           g == drift(back)
<1>11. /\ IsFiniteSet(DOMAIN lines) /\ SumFunctionOnSet(f, DOMAIN lines) = 0
       /\ \A k \in DOMAIN lines : /\ zero[k] = 0 /\ zero[k] \in Int /\ f[k] \in Int
                                  /\ g[k] = zero[k] - f[k]
  BY <1>7, <1>8, <1>9
<1> HIDE DEF f, g, zero
<1>12. SumFunctionOnSet(g, DOMAIN lines) = SumFunctionOnSet(zero, DOMAIN lines)
                                             - SumFunctionOnSet(f, DOMAIN lines)
  BY <1>11, SumDifference
<1>13. SumFunctionOnSet(zero, DOMAIN lines) = 0
  BY <1>11, SumZero
<1>14. SumFunctionOnSet(g, DOMAIN lines) = 0
  BY <1>11, <1>12, <1>13
<1>15. SumFunction(g) = 0
  BY <1>10, <1>14 DEF SumFunction, g
<1> QED
  BY <1>6, <1>15 DEF IsBalancedEntry, BalancedLines, LineRecords, g

LEMMA JournalInit == ASSUME Init PROVE JournalFits
BY DEF Init, JournalFits

LEMMA JournalKept ==
  ASSUME JournalFits, [Next]_vars
  PROVE  JournalFits'
<1> USE DEF JournalFits
<1>1. CASE journal' = journal
  BY <1>1
<1>2. ASSUME NEW day \in Days, NEW lines \in Templates, Post(day, lines) PROVE JournalFits'
  <2>1. [date |-> day, lines |-> lines] \in Entries
    BY ReportingAssumption DEF Entries, IsBalancedEntry, BalancedLines
  <2> QED
    BY <1>2, <2>1 DEF Post
<1>3. ASSUME NEW n \in DOMAIN journal, ReverseEntry(n) PROVE JournalFits'
  <2> DEFINE e == [date |-> journal[n].date, lines |-> Inverted(journal[n].lines)]
  <2>1. journal[n] \in Entries
    OBVIOUS
  <2>2. journal[n].date \in Days /\ IsBalancedEntry(journal[n].lines)
    BY <2>1 DEF Entries
  <2>3. IsBalancedEntry(Inverted(journal[n].lines))
    BY <2>2, InvertedBalanced
  <2>4. e \in Entries
    BY <2>2, <2>3 DEF Entries, IsBalancedEntry, BalancedLines
  <2>5. journal' = Append(journal, e)
    BY <1>3 DEF ReverseEntry
  <2> HIDE DEF e
  <2> QED
    BY <2>4, <2>5
<1>4. ASSUME NEW r \in Refreshers,
             Begin(r) \/ Lock(r) \/ RefreshPeriod(r) \/ RefreshTrial(r) \/ Fail(r)
      PROVE  journal' = journal
  BY <1>4 DEF Begin, Lock, RefreshPeriod, RefreshTrial, Fail
<1> QED
  BY <1>1, <1>2, <1>3, <1>4 DEF Next, vars

LEMMA JournalEntries ==
  ASSUME JournalFits
  PROVE  /\ DOMAIN journal = 1 .. Len(journal) /\ IsFiniteSet(DOMAIN journal)
         /\ \A n \in DOMAIN journal : /\ journal[n].date \in Days
                                      /\ IsBalancedEntry(journal[n].lines)
<1>1. DOMAIN journal = 1 .. Len(journal) /\ Len(journal) \in Nat
  BY DEF JournalFits
<1>2. \A n \in DOMAIN journal : journal[n] \in Entries
  BY DEF JournalFits
<1> QED
  BY <1>1, <1>2, FS_Interval DEF Entries

-----------------------------------------------------------------------------
(* Balances of sets of lines *)

AllLines == LineIds(DOMAIN journal)
Amounts == [id \in AllLines |-> Line(id).debit - Line(id).credit]

\* The lines of more entries.
LEMMA LinesOfMore ==
  ASSUME NEW D, NEW E
  PROVE  LineIds(D \cup E) = LineIds(D) \cup LineIds(E)
BY DEF LineIds

LEMMA LinesOfOne ==
  ASSUME NEW n
  PROVE  LineIds({n}) = {n} \X DOMAIN journal[n].lines
BY DEF LineIds

LEMMA LineFits ==
  ASSUME JournalFits, NEW id \in AllLines
  PROVE  /\ id[1] \in DOMAIN journal /\ id[2] \in DOMAIN journal[id[1]].lines
         /\ id = <<id[1], id[2]>>
         /\ Line(id) \in LineRecords
         /\ Line(id).acct \in Accounts /\ Amounts[id] \in Int
<1>1. PICK n \in DOMAIN journal : id \in {n} \X DOMAIN journal[n].lines
  BY DEF AllLines, LineIds
<1>2. id[1] = n /\ id[2] \in DOMAIN journal[n].lines /\ id = <<id[1], id[2]>>
  BY <1>1
<1>3. journal[n].lines \in Seq(LineRecords)
  BY <1>1, JournalEntries DEF IsBalancedEntry, BalancedLines, LineRecords
<1>4. journal[n].lines[id[2]] \in LineRecords
  BY <1>2, <1>3
<1>5. Line(id) \in LineRecords
  BY <1>2, <1>4 DEF Line
<1>6. Line(id).acct \in Accounts /\ Line(id).debit \in Nat /\ Line(id).credit \in Nat
  BY <1>5 DEF LineRecords
<1> QED
  BY <1>1, <1>2, <1>5, <1>6 DEF Amounts

\* Which lines belong to some entries.
LEMMA LineIn ==
  ASSUME NEW E, NEW id
  PROVE  id \in LineIds(E) <=>
           \E n \in E : \E k \in DOMAIN journal[n].lines : id = <<n, k>>
BY DEF LineIds

LEMMA LineInEntry ==
  ASSUME JournalFits, NEW E \in SUBSET DOMAIN journal, NEW id \in AllLines
  PROVE  LineIds(E) \subseteq AllLines /\ (id \in LineIds(E) <=> id[1] \in E)
<1>1. LineIds(E) \subseteq AllLines
  BY DEF LineIds, AllLines
<1>2. id[2] \in DOMAIN journal[id[1]].lines /\ id = <<id[1], id[2]>>
  BY LineFits
<1>3. ASSUME id[1] \in E PROVE id \in LineIds(E)
  BY <1>2, <1>3, LineIn
<1>4. ASSUME id \in LineIds(E) PROVE id[1] \in E
  <2>1. PICK n \in E : \E k \in DOMAIN journal[n].lines : id = <<n, k>>
    BY <1>4, LineIn
  <2> QED
    BY <2>1
<1> QED
  BY <1>1, <1>3, <1>4

LEMMA LinesFinite ==
  ASSUME JournalFits
  PROVE  IsFiniteSet(AllLines)
<1> DEFINE C == {E \in SUBSET DOMAIN journal : IsFiniteSet(LineIds(E))}
<1>1. {} \in C
  <2>1. LineIds({}) = {}
    BY DEF LineIds
  <2> QED
    BY <2>1, FS_EmptySet
<1>2. ASSUME NEW E \in SUBSET DOMAIN journal, NEW n \in (DOMAIN journal) \ E, E \in C
      PROVE  E \cup {n} \in C
  <2>1. journal[n].lines \in Seq(LineRecords)
    BY JournalEntries DEF IsBalancedEntry, BalancedLines, LineRecords
  <2>2. IsFiniteSet(DOMAIN journal[n].lines)
    <3>1. DOMAIN journal[n].lines = 1 .. Len(journal[n].lines) /\ Len(journal[n].lines) \in Nat
      BY <2>1
    <3> QED
      BY <3>1, FS_Interval
  <2>3. IsFiniteSet(LineIds({n}))
    <3>1. IsFiniteSet({n})
      BY FS_Singleton
    <3>2. IsFiniteSet({n} \X DOMAIN journal[n].lines)
      BY <2>2, <3>1, FS_Product
    <3>3. LineIds({n}) = {n} \X DOMAIN journal[n].lines
      BY LinesOfOne
    <3> QED
      BY <3>2, <3>3
  <2>4. IsFiniteSet(LineIds(E))
    BY <1>2
  <2>5. IsFiniteSet(LineIds(E \cup {n}))
    <3>1. IsFiniteSet(LineIds(E) \cup LineIds({n}))
      BY <2>3, <2>4, FS_Union
    <3>2. LineIds(E \cup {n}) = LineIds(E) \cup LineIds({n})
      BY LinesOfMore
    <3> QED
      BY <3>1, <3>2
  <2> QED
    BY <2>5
<1> HIDE DEF C
<1>3. DOMAIN journal \in C
  BY <1>1, <1>2, JournalEntries, StepInduction
<1> QED
  BY <1>3 DEF C, AllLines

LEMMA BalanceIsSum ==
  ASSUME JournalFits, NEW L \in SUBSET AllLines
  PROVE  /\ IsFiniteSet(L)
         /\ Balance(L) = SumFunctionOnSet(Amounts, L)
         /\ Balance(L) \in Int
<1> DEFINE f == [id \in L |-> Line(id).debit - Line(id).credit]
<1>1. IsFiniteSet(L)
  BY LinesFinite, FS_Subset
<1>2. \A id \in L : f[id] = Amounts[id] /\ Amounts[id] \in Int
  <2>1. \A id \in L : f[id] = Amounts[id]
    BY DEF Amounts
  <2> QED
    BY <2>1, LineFits
<1>3. Balance(L) = SumFunctionOnSet(f, L)
  BY DEF Balance, SumFunction
<1> HIDE DEF f
<1>4. SumFunctionOnSet(f, L) = SumFunctionOnSet(Amounts, L)
  BY <1>1, <1>2, SumSame
<1>5. SumFunctionOnSet(Amounts, L) \in Int
  BY <1>1, <1>2, SumType
<1> QED
  BY <1>1, <1>3, <1>4, <1>5

LEMMA BalanceOfNone ==
  ASSUME JournalFits
  PROVE  Balance({}) = 0
BY BalanceIsSum, SumEquation

LEMMA BalancesAdd ==
  ASSUME JournalFits, NEW K \in SUBSET AllLines, NEW L \in SUBSET AllLines, K \cap L = {}
  PROVE  Balance(K \cup L) = Balance(K) + Balance(L)
<1>1. IsFiniteSet(K) /\ IsFiniteSet(L) /\ \A id \in K \cup L : Amounts[id] \in Int
  BY BalanceIsSum, LineFits
<1>2. SumFunctionOnSet(Amounts, K \cup L) =
        SumFunctionOnSet(Amounts, K) + SumFunctionOnSet(Amounts, L)
  BY <1>1, SumUnion
<1>3. K \cup L \in SUBSET AllLines
  OBVIOUS
<1> QED
  BY <1>2, <1>3, BalanceIsSum

\* All the lines of any entries: nothing.
LEMMA EntriesBalanceOut ==
  ASSUME JournalFits, NEW E \in SUBSET DOMAIN journal
  PROVE  Balance(LineIds(E)) = 0
<1> DEFINE C == {D \in SUBSET E : Balance(LineIds(D)) = 0}
<1>1. {} \in C
  <2>1. LineIds({}) = {}
    BY DEF LineIds
  <2> QED
    BY <2>1, BalanceOfNone
<1>2. ASSUME NEW D \in SUBSET E, NEW n \in E \ D, D \in C PROVE D \cup {n} \in C
  <2> DEFINE ks == DOMAIN journal[n].lines
             g == [k \in ks |-> journal[n].lines[k].debit - journal[n].lines[k].credit]
  <2>1. LineIds({n}) = {n} \X ks
    BY LinesOfOne
  <2>2. LineIds(D) \subseteq AllLines /\ LineIds({n}) \subseteq AllLines
    BY DEF LineIds, AllLines
  <2>3. LineIds(D) \cap LineIds({n}) = {}
    BY DEF LineIds
  <2>4. IsFiniteSet(ks)
    <3>1. n \in DOMAIN journal
      OBVIOUS
    <3>2. journal[n].lines \in Seq(LineRecords)
      BY <3>1, JournalEntries DEF IsBalancedEntry, BalancedLines, LineRecords
    <3>3. ks = 1 .. Len(journal[n].lines) /\ Len(journal[n].lines) \in Nat
      BY <3>2
    <3> QED
      BY <3>3, FS_Interval
  <2>5. ASSUME NEW k \in ks PROVE Amounts[<<n, k>>] \in Int /\ g[k] = Amounts[<<n, k>>]
    <3>1. <<n, k>> \in AllLines
      BY <2>1, <2>2
    <3>2. Amounts[<<n, k>>] = g[k]
      BY <3>1 DEF Amounts, Line
    <3> QED
      BY <3>1, <3>2, LineFits
  <2>6. SumFunctionOnSet(g, ks) = 0
    <3>1. SumFunction(g) = 0
      BY JournalEntries DEF IsBalancedEntry, BalancedLines
    <3> QED
      BY <3>1 DEF SumFunction
  <2> HIDE DEF g, ks
  <2>7. SumFunctionOnSet(Amounts, {n} \X ks) = SumFunctionOnSet(g, ks)
    <3>1. \A k \in ks : Amounts[<<n, k>>] \in Int /\ g[k] = Amounts[<<n, k>>]
      BY <2>5
    <3> DEFINE f == Amounts
    <3>2. \A k \in ks : f[<<n, k>>] \in Int /\ g[k] = f[<<n, k>>]
      BY <3>1
    <3> HIDE DEF f
    <3>3. SumFunctionOnSet(f, Pairs(n, ks)) = SumFunctionOnSet(g, ks)
      BY <2>4, <3>2, SumPairs
    <3> QED
      BY <3>3 DEF f, Pairs
  <2>8. Balance(LineIds({n})) = 0
    BY <2>1, <2>2, <2>6, <2>7, BalanceIsSum
  <2>9. Balance(LineIds(D \cup {n})) = Balance(LineIds(D)) + Balance(LineIds({n}))
    BY <2>2, <2>3, LinesOfMore, BalancesAdd
  <2>10. Balance(LineIds(D \cup {n})) = 0
    BY <1>2, <2>8, <2>9
  <2> QED
    BY <2>10
<1>3. IsFiniteSet(E)
  BY JournalEntries, FS_Subset
<1> HIDE DEF C
<1>4. E \in C
  BY <1>1, <1>2, <1>3, StepInduction
<1> QED
  BY <1>4 DEF C

-----------------------------------------------------------------------------
(* The reports as balances of sets of lines *)

OnAccounts(As, E) == {id \in LineIds(E) : Line(id).acct \in As}
OnTypes(types, E) == {id \in LineIds(E) : TypeOf[Line(id).acct] \in types}

LEMMA LinesFit ==
  ASSUME JournalFits, NEW E \in SUBSET DOMAIN journal, NEW id \in LineIds(E)
  PROVE  id \in AllLines /\ Line(id).acct \in Accounts
<1>1. id \in AllLines
  BY DEF LineIds, AllLines
<1> QED
  BY <1>1, LineFits

LEMMA OnTypesFit ==
  ASSUME JournalFits, NEW E \in SUBSET DOMAIN journal, NEW types
  PROVE  OnTypes(types, E) \in SUBSET AllLines
BY LinesFit DEF OnTypes

\* The accounts of some types together: all the lines of these types.
LEMMA NetOfTypeIsBalance ==
  ASSUME JournalFits, NEW E \in SUBSET DOMAIN journal, NEW types
  PROVE  /\ NetOfType(types, E) = Balance(OnTypes(types, E))
         /\ NetOfType(types, E) \in Int
<1> DEFINE As == OfType(types)
           net == [a \in As |-> Net(a, E)]
           C == {T \in SUBSET As : SumFunctionOnSet(net, T) = Balance(OnAccounts(T, E))}
<1>1. IsFiniteSet(As)
  BY ReportingAssumption, FS_Subset DEF OfType
<1>2. \A T : OnAccounts(T, E) \in SUBSET AllLines
  BY LinesFit DEF OnAccounts
<1>3. \A a \in As : net[a] = Balance(OnAccounts({a}, E)) /\ net[a] \in Int
  <2>1. SUFFICES ASSUME NEW a \in As
                 PROVE  net[a] = Balance(OnAccounts({a}, E)) /\ net[a] \in Int
    OBVIOUS
  <2>2. {id \in LineIds(E) : Line(id).acct = a} = OnAccounts({a}, E)
    BY DEF OnAccounts
  <2>3. net[a] = Balance(OnAccounts({a}, E))
    BY <2>2 DEF Net
  <2> QED
    BY <1>2, <2>3, BalanceIsSum
<1>4. {} \in C
  <2>1. OnAccounts({}, E) = {}
    BY DEF OnAccounts
  <2>2. SumFunctionOnSet(net, {}) = 0
    BY FS_EmptySet, SumEquation
  <2> QED
    BY <2>1, <2>2, BalanceOfNone
<1>5. ASSUME NEW T \in SUBSET As, NEW a \in As \ T, T \in C PROVE T \cup {a} \in C
  <2> DEFINE U == T \cup {a}
  <2>1. IsFiniteSet(U) /\ a \in U /\ U \ {a} = T /\ U \subseteq As
    BY <1>1, FS_Subset
  <2>2. OnAccounts(U, E) = OnAccounts(T, E) \cup OnAccounts({a}, E)
    BY DEF OnAccounts
  <2>3. OnAccounts(T, E) \cap OnAccounts({a}, E) = {}
    BY DEF OnAccounts
  <2>4. SumFunctionOnSet(net, T) = Balance(OnAccounts(T, E))
    BY <1>5
  <2>5. SumFunctionOnSet(net, U) = net[a] + SumFunctionOnSet(net, T)
    <3>1. \A y \in U : net[y] \in Int
      BY <1>3, <2>1
    <3> HIDE DEF U, net
    <3>2. SumFunctionOnSet(net, U) = net[a] + SumFunctionOnSet(net, U \ {a})
      BY <2>1, <3>1, SumSplit
    <3> QED
      BY <2>1, <3>2
  <2> HIDE DEF U, net
  <2>6. Balance(OnAccounts(U, E)) = Balance(OnAccounts(T, E)) + Balance(OnAccounts({a}, E))
    BY <1>2, <2>2, <2>3, BalancesAdd
  <2>7. /\ Balance(OnAccounts(T, E)) \in Int /\ Balance(OnAccounts({a}, E)) \in Int
    BY <1>2, BalanceIsSum
  <2>8. SumFunctionOnSet(net, U) = Balance(OnAccounts(U, E))
    BY <1>3, <2>4, <2>5, <2>6, <2>7
  <2> QED
    BY <2>1, <2>8 DEF U
<1> HIDE DEF C
<1>6. As \in C
  BY <1>1, <1>4, <1>5, StepInduction
<1>7. SumFunctionOnSet(net, As) = Balance(OnAccounts(As, E))
  BY <1>6 DEF C
<1>8. OnAccounts(As, E) = OnTypes(types, E)
  <2>1. \A id \in LineIds(E) : Line(id).acct \in Accounts
    BY LinesFit
  <2> QED
    BY <2>1 DEF OnAccounts, OnTypes, OfType
<1>9. NetOfType(types, E) = SumFunctionOnSet(net, As)
  BY DEF NetOfType, SumFunction
<1> QED
  BY <1>7, <1>8, <1>9, OnTypesFit, BalanceIsSum

\* The lines of the types of two disjoint sets.
LEMMA TypesAdd ==
  ASSUME JournalFits, NEW E \in SUBSET DOMAIN journal, NEW s, NEW t, s \cap t = {}
  PROVE  Balance(OnTypes(s \cup t, E)) = Balance(OnTypes(s, E)) + Balance(OnTypes(t, E))
<1>1. OnTypes(s \cup t, E) = OnTypes(s, E) \cup OnTypes(t, E)
  BY DEF OnTypes
<1>2. OnTypes(s, E) \cap OnTypes(t, E) = {}
  BY DEF OnTypes
<1> QED
  BY <1>1, <1>2, OnTypesFit, BalancesAdd

Earned == {"revenue", "expense"}

\* The five types together: nothing.
LEMMA TypesBalanceOut ==
  ASSUME JournalFits, NEW E \in SUBSET DOMAIN journal
  PROVE  NetOfType({"asset"}, E) + NetOfType({"liability"}, E) + NetOfType({"equity"}, E)
           = -Balance(OnTypes(Earned, E))
<1> DEFINE b(types) == Balance(OnTypes(types, E))
<1>1. OnTypes({"asset", "liability", "equity"} \cup Earned, E) = LineIds(E)
  <2>1. \A id \in LineIds(E) : TypeOf[Line(id).acct] \in
          {"asset", "liability", "equity"} \cup Earned
    BY LinesFit, ReportingAssumption DEF Earned
  <2> QED
    BY <2>1 DEF OnTypes
<1>2. b({"asset", "liability", "equity"} \cup Earned) = 0
  BY <1>1, EntriesBalanceOut
<1>3. b({"asset", "liability", "equity"} \cup Earned) =
        b({"asset", "liability", "equity"}) + b(Earned)
  <2>1. {"asset", "liability", "equity"} \cap Earned = {}
    BY DEF Earned
  <2> QED
    BY <2>1, TypesAdd
<1>4. b({"asset", "liability", "equity"}) = b({"asset", "liability"}) + b({"equity"})
  <2>1. {"asset", "liability"} \cap {"equity"} = {}
    OBVIOUS
  <2>2. {"asset", "liability"} \cup {"equity"} = {"asset", "liability", "equity"}
    OBVIOUS
  <2>3. b({"asset", "liability"} \cup {"equity"}) = b({"asset", "liability"}) + b({"equity"})
    BY <2>1, TypesAdd
  <2> QED
    BY <2>2, <2>3
<1>5. b({"asset", "liability"}) = b({"asset"}) + b({"liability"})
  <2>1. {"asset"} \cap {"liability"} = {}
    OBVIOUS
  <2>2. {"asset"} \cup {"liability"} = {"asset", "liability"}
    OBVIOUS
  <2>3. b({"asset"} \cup {"liability"}) = b({"asset"}) + b({"liability"})
    BY <2>1, TypesAdd
  <2> QED
    BY <2>2, <2>3
<1>6. /\ b({"asset"}) \in Int /\ b({"liability"}) \in Int /\ b({"equity"}) \in Int
      /\ b(Earned) \in Int
  BY OnTypesFit, BalanceIsSum
<1>7. /\ NetOfType({"asset"}, E) = b({"asset"})
      /\ NetOfType({"liability"}, E) = b({"liability"})
      /\ NetOfType({"equity"}, E) = b({"equity"})
  BY NetOfTypeIsBalance
<1> HIDE DEF b
<1>8. b({"asset"}) + b({"liability"}) + b({"equity"}) = -b(Earned)
  BY <1>2, <1>3, <1>4, <1>5, <1>6
<1> QED
  BY <1>7, <1>8 DEF b

LEMMA NetIncomeIsBalance ==
  ASSUME JournalFits, NEW month
  PROVE  NetIncome(month) = -Balance(OnTypes(Earned, InMonth(month)))
<1> DEFINE E == InMonth(month)
           rev == Balance(OnTypes({"revenue"}, E))
           exp == Balance(OnTypes({"expense"}, E))
<1>1. E \in SUBSET DOMAIN journal
  BY DEF InMonth
<1>2. {"revenue"} \cup {"expense"} = Earned /\ {"revenue"} \cap {"expense"} = {}
  BY DEF Earned
<1>3. NetOfType({"revenue"}, E) = rev /\ NetOfType({"expense"}, E) = exp
  BY <1>1, NetOfTypeIsBalance
<1>4. Balance(OnTypes(Earned, E)) = rev + exp
  <2>1. Balance(OnTypes({"revenue"} \cup {"expense"}, E)) = rev + exp
    BY <1>1, <1>2, TypesAdd
  <2> QED
    BY <1>2, <2>1
<1>5. rev \in Int /\ exp \in Int
  BY <1>1, OnTypesFit, BalanceIsSum
<1>6. NetIncome(month) = -rev - exp
  BY <1>3 DEF NetIncome
<1> HIDE DEF rev, exp
<1> QED
  BY <1>4, <1>5, <1>6

\* The entries of some months.
InMonths(T) == {n \in DOMAIN journal : MonthOf[journal[n].date] \in T}

LEMMA EarnedIsBalance ==
  ASSUME JournalFits, NEW M, IsFiniteSet(M)
  PROVE  /\ SumFunction([m \in M |-> NetIncome(m)]) = -Balance(OnTypes(Earned, InMonths(M)))
         /\ Balance(OnTypes(Earned, InMonths(M))) \in Int
<1> DEFINE inc == [m \in M |-> NetIncome(m)]
           b(T) == Balance(OnTypes(Earned, InMonths(T)))
           C == {T \in SUBSET M : SumFunctionOnSet(inc, T) = -b(T)}
<1>1. \A T : InMonths(T) \in SUBSET DOMAIN journal /\ b(T) \in Int
  <2>1. SUFFICES ASSUME NEW T PROVE InMonths(T) \in SUBSET DOMAIN journal /\ b(T) \in Int
    OBVIOUS
  <2>2. InMonths(T) \in SUBSET DOMAIN journal
    BY DEF InMonths
  <2> QED
    BY <2>2, OnTypesFit, BalanceIsSum
<1>2. \A m \in M : inc[m] = -b({m}) /\ inc[m] \in Int
  <2>1. SUFFICES ASSUME NEW m \in M PROVE inc[m] = -b({m}) /\ inc[m] \in Int
    OBVIOUS
  <2>2. InMonths({m}) = InMonth(m)
    BY DEF InMonths, InMonth
  <2>3. inc[m] = -b({m})
    BY <2>2, NetIncomeIsBalance
  <2>4. b({m}) \in Int
    BY <1>1
  <2> HIDE DEF b, inc
  <2> QED
    BY <2>3, <2>4
<1>3. {} \in C
  <2>1. OnTypes(Earned, InMonths({})) = {}
    BY DEF OnTypes, InMonths, LineIds
  <2>2. SumFunctionOnSet(inc, {}) = 0
    BY FS_EmptySet, SumEquation
  <2>3. b({}) = 0
    BY <2>1, BalanceOfNone
  <2>4. SumFunctionOnSet(inc, {}) = -b({})
    BY <2>2, <2>3
  <2> QED
    BY <2>4
<1>4. ASSUME NEW T \in SUBSET M, NEW m \in M \ T, T \in C PROVE T \cup {m} \in C
  <2> DEFINE U == T \cup {m}
  <2>1. IsFiniteSet(U) /\ m \in U /\ U \ {m} = T /\ U \subseteq M
    BY FS_Subset
  <2>2. InMonths(U) = InMonths(T) \cup InMonths({m})
    BY DEF InMonths
  <2>3. InMonths(T) \cap InMonths({m}) = {}
    BY DEF InMonths
  <2>4. OnTypes(Earned, InMonths(U)) =
          OnTypes(Earned, InMonths(T)) \cup OnTypes(Earned, InMonths({m}))
    <3>1. LineIds(InMonths(U)) = LineIds(InMonths(T)) \cup LineIds(InMonths({m}))
      <4>1. LineIds(InMonths(T) \cup InMonths({m})) =
              LineIds(InMonths(T)) \cup LineIds(InMonths({m}))
        BY LinesOfMore
      <4> QED
        BY <2>2, <4>1
    <3> HIDE DEF U
    <3> QED
      BY <3>1 DEF OnTypes
  <2>5. OnTypes(Earned, InMonths(T)) \cap OnTypes(Earned, InMonths({m})) = {}
    <3>1. \A id \in LineIds(InMonths(T)) : id[1] \in InMonths(T)
      BY <1>1, LinesFit, LineInEntry
    <3>2. \A id \in LineIds(InMonths({m})) : id[1] \in InMonths({m})
      BY <1>1, LinesFit, LineInEntry
    <3> QED
      BY <2>3, <3>1, <3>2 DEF OnTypes
  <2>6. b(U) = b(T) + b({m})
    BY <1>1, <2>4, <2>5, OnTypesFit, BalancesAdd
  <2>7. SumFunctionOnSet(inc, T) = -b(T)
    BY <1>4
  <2>8. SumFunctionOnSet(inc, U) = inc[m] + SumFunctionOnSet(inc, T)
    <3>1. \A y \in U : inc[y] \in Int
      BY <1>2, <2>1
    <3> HIDE DEF U, inc
    <3>2. SumFunctionOnSet(inc, U) = inc[m] + SumFunctionOnSet(inc, U \ {m})
      BY <2>1, <3>1, SumSplit
    <3> QED
      BY <2>1, <3>2
  <2> HIDE DEF U, inc, b
  <2>9. b(T) \in Int /\ b({m}) \in Int /\ inc[m] = -b({m})
    BY <1>1, <1>2
  <2>10. SumFunctionOnSet(inc, U) = -b(U)
    BY <2>6, <2>7, <2>8, <2>9
  <2> QED
    BY <2>1, <2>10 DEF U
<1> HIDE DEF C
<1>5. M \in C
  BY <1>3, <1>4, StepInduction
<1>6. SumFunctionOnSet(inc, M) = -b(M)
  BY <1>5 DEF C
<1>7. SumFunction(inc) = SumFunctionOnSet(inc, M)
  BY DEF SumFunction
<1> QED
  BY <1>1, <1>6, <1>7

-----------------------------------------------------------------------------
(* The last day of a month *)

LEMMA LastDayIsLast ==
  ASSUME NEW month \in Months
  PROVE  /\ month \in Nat /\ LastDay(month) \in Days
         /\ \A d \in Days : d <= LastDay(month) <=> MonthOf[d] <= month
<1> DEFINE S == {d \in Days : MonthOf[d] = month}
           last == LastDay(month)
<1>1. S # {} /\ month \in Nat
  BY ReportingAssumption DEF Months
<1>2. IsFiniteSet(S) /\ S \subseteq Nat
  BY ReportingAssumption, FS_Subset
<1>3. Max(S) \in S /\ \A x \in S : x <= Max(S)
  BY <1>1, <1>2, MaxIsGreatest
<1>4. last = Max(S)
  BY DEF LastDay
<1>5. last \in Days /\ MonthOf[last] = month
  BY <1>3, <1>4
<1> HIDE DEF last
<1>6. ASSUME NEW d \in Days PROVE d <= last <=> MonthOf[d] <= month
  <2>1. d \in Nat /\ last \in Nat /\ MonthOf[d] \in Nat
    BY <1>5, ReportingAssumption
  <2>2. d <= last => MonthOf[d] <= month
    BY <1>5, ReportingAssumption
  <2>3. ASSUME MonthOf[d] <= month, ~(d <= last) PROVE FALSE
    <3>1. last <= d
      BY <2>1, <2>3
    <3>2. MonthOf[last] <= MonthOf[d]
      BY <1>5, <3>1, ReportingAssumption
    <3>3. MonthOf[d] = month
      BY <1>1, <1>5, <2>1, <2>3, <3>2
    <3>4. d \in S
      BY <3>3
    <3> QED
      BY <1>3, <1>4, <2>3, <3>4
  <2> QED
    BY <2>2, <2>3
<1> QED
  BY <1>1, <1>5, <1>6 DEF last

LEMMA UpToLastDay ==
  ASSUME JournalFits, NEW month \in Months
  PROVE  UpTo(LastDay(month)) = InMonths({m \in Months : m <= month})
<1>1. \A n \in DOMAIN journal : journal[n].date \in Days
  BY JournalEntries
<1>2. \A d \in Days : d <= LastDay(month) <=> MonthOf[d] <= month
  BY LastDayIsLast
<1>3. \A d \in Days : MonthOf[d] \in Months
  BY DEF Months
<1> QED
  BY <1>1, <1>2, <1>3 DEF UpTo, InMonths

-----------------------------------------------------------------------------
(* The reports agree *)

LEMMA SheetIsIncome ==
  ASSUME JournalFits
  PROVE  SheetMatchesIncome
<1> SUFFICES ASSUME NEW month \in Months
             PROVE  LET sheet == BalanceSheet(LastDay(month))
                        earned == SumFunction([m \in {m \in Months : m <= month} |-> NetIncome(m)])
                    IN /\ sheet.assets - sheet.liabilities - sheet.equity = earned
                       /\ IsBalanced(LastDay(month)) <=> earned = 0
  BY DEF SheetMatchesIncome
<1> DEFINE day == LastDay(month)
           E == UpTo(day)
           M == {m \in Months : m <= month}
           sheet == BalanceSheet(day)
           earned == SumFunction([m \in M |-> NetIncome(m)])
           a == NetOfType({"asset"}, E)
           l == NetOfType({"liability"}, E)
           q == NetOfType({"equity"}, E)
           b == Balance(OnTypes(Earned, E))
<1>1. E \in SUBSET DOMAIN journal
  BY DEF UpTo
<1>2. E = InMonths(M)
  BY UpToLastDay
<1>3. IsFiniteSet(M)
  <2>1. IsFiniteSet(Months)
    <3> DEFINE months == {MonthOf[d] : d \in Days}
    <3>1. MonthOf \in [Days -> months]
      BY ReportingAssumption
    <3>2. MonthOf \in Surjection(Days, months)
      BY <3>1 DEF Surjection
    <3>3. IsFiniteSet(months)
      BY <3>2, ReportingAssumption, FS_Surjection
    <3> QED
      BY <3>3 DEF Months
  <2> QED
    BY <2>1, FS_Subset
<1>4. sheet.assets = a /\ sheet.liabilities = -l /\ sheet.equity = -q
  BY DEF BalanceSheet
<1>5. a \in Int /\ l \in Int /\ q \in Int
  BY <1>1, NetOfTypeIsBalance
<1>6. a + l + q = -b
  BY <1>1, TypesBalanceOut
<1> HIDE DEF M, E
<1>7. earned = -b
  <2>1. SumFunction([m \in M |-> NetIncome(m)]) = -Balance(OnTypes(Earned, InMonths(M)))
    BY <1>3, EarnedIsBalance
  <2> QED
    BY <1>2, <2>1
<1>8. IsBalanced(day) <=> sheet.assets = sheet.liabilities + sheet.equity
  BY DEF IsBalanced
<1> HIDE DEF a, l, q, b, earned, sheet, day
<1>9. sheet.assets - sheet.liabilities - sheet.equity = earned
  BY <1>4, <1>5, <1>6, <1>7
<1>10. IsBalanced(day) <=> earned = 0
  BY <1>4, <1>5, <1>6, <1>7, <1>8
<1> QED
  BY <1>9, <1>10 DEF sheet, earned, day, M

LEMMA StatementIsSheet ==
  ASSUME JournalFits
  PROVE  StatementMatchesSheet
<1> SUFFICES ASSUME NEW a \in Accounts, NEW from \in Days, NEW to \in Days,
                    NEW s \in Statements(a, from, to), NEW d \in Days,
                    from <= d, d <= to,
                    s = StatementLines(a, from, to) \/ \E id \in s : d < DateOf(id)
             PROVE  CarriedForward(a, from) + RunningBalance(s, d) = Net(a, UpTo(d))
  BY DEF StatementMatchesSheet
<1> DEFINE early == {n \in DOMAIN journal : 0 <= journal[n].date /\ journal[n].date <= from - 1}
           late == {n \in DOMAIN journal : from <= journal[n].date /\ journal[n].date <= d}
           all == {n \in DOMAIN journal : from <= journal[n].date /\ journal[n].date <= to}
           on(E) == {id \in LineIds(E) : Line(id).acct = a}
<1>1. \A n \in DOMAIN journal : journal[n].date \in Nat
  BY JournalEntries, ReportingAssumption
<1>2. from \in Nat /\ to \in Nat /\ d \in Nat
  BY ReportingAssumption
<1>3. UpTo(d) = early \cup late
  BY <1>1, <1>2 DEF UpTo
<1>4. early \cap late = {}
  BY <1>1, <1>2
<1>5. /\ early \in SUBSET DOMAIN journal /\ late \in SUBSET DOMAIN journal
      /\ all \in SUBSET DOMAIN journal
  OBVIOUS
<1>6. StatementLines(a, 0, from - 1) = on(early) /\ StatementLines(a, from, to) = on(all)
  BY DEF StatementLines
<1>7. Net(a, UpTo(d)) = Balance(on(UpTo(d)))
  BY DEF Net
<1>8. ASSUME NEW E \in SUBSET DOMAIN journal
      PROVE  /\ on(E) \in SUBSET AllLines
             /\ \A id \in AllLines : id \in on(E) <=> id[1] \in E /\ Line(id).acct = a
             /\ \A id \in on(E) : id[1] \in E /\ DateOf(id) = journal[id[1]].date
  BY <1>8, LinesFit, LineInEntry DEF DateOf
<1>9. {id \in on(early) : DateOf(id) <= from - 1} = on(early)
  <2>1. ASSUME NEW id \in on(early) PROVE DateOf(id) <= from - 1
    <3>1. id[1] \in early /\ DateOf(id) = journal[id[1]].date
      BY <1>5, <1>8, <2>1
    <3> QED BY <3>1
  <2> HIDE DEF on, early
  <2> QED BY <2>1
<1>10. {id \in s : DateOf(id) <= d} = on(late)
  <2>1. /\ s \subseteq on(all)
        /\ \A i \in s, j \in on(all) : DateOf(j) < DateOf(i) => j \in s
    BY <1>6 DEF Statements
  <2>2. ASSUME NEW id \in s, DateOf(id) <= d PROVE id \in on(late)
    <3>1. id \in on(all) /\ id \in AllLines
      BY <1>5, <1>8, <2>1
    <3>2. id[1] \in all /\ DateOf(id) = journal[id[1]].date /\ Line(id).acct = a
      BY <1>5, <1>8, <3>1
    <3>3. id[1] \in late
      BY <2>2, <3>2
    <3> QED BY <1>5, <1>8, <3>1, <3>2, <3>3
  <2>3. ASSUME NEW id \in on(late) PROVE id \in s /\ DateOf(id) <= d
    <3>1. /\ id \in AllLines /\ id[1] \in late /\ DateOf(id) = journal[id[1]].date
          /\ Line(id).acct = a
      BY <1>5, <1>8, <2>3
    <3>2. id[1] \in all /\ DateOf(id) <= d /\ DateOf(id) \in Nat
      BY <1>1, <1>2, <3>1
    <3>3. id \in on(all)
      BY <1>5, <1>8, <3>1, <3>2
    <3>4. CASE s = StatementLines(a, from, to)
      BY <1>6, <3>2, <3>3, <3>4
    <3>5. ASSUME NEW i \in s, d < DateOf(i) PROVE id \in s
      <4>1. i \in on(all) /\ i[1] \in all /\ DateOf(i) = journal[i[1]].date
        BY <1>5, <1>8, <2>1
      <4>2. DateOf(i) \in Nat
        BY <1>1, <4>1
      <4>3. DateOf(id) < DateOf(i)
        BY <1>2, <3>2, <3>5, <4>2
      <4> QED BY <2>1, <3>3, <4>3
    <3> QED BY <3>2, <3>4, <3>5
  <2> HIDE DEF on, late, all
  <2> QED BY <2>2, <2>3
<1>11. /\ CarriedForward(a, from) = Balance(on(early))
       /\ RunningBalance(s, d) = Balance(on(late))
  <2> HIDE DEF on, early, late, all
  <2> QED BY <1>6, <1>9, <1>10 DEF CarriedForward, RunningBalance
<1>12. on(early) \in SUBSET AllLines /\ on(late) \in SUBSET AllLines
  BY <1>5, <1>8
<1>13. on(early) \cap on(late) = {}
  <2>1. ASSUME NEW id \in on(early), id \in on(late) PROVE FALSE
    <3>1. id[1] \in early /\ id[1] \in late
      BY <1>5, <1>8, <2>1
    <3> QED BY <1>4, <3>1
  <2> HIDE DEF on, early, late
  <2> QED BY <2>1
<1> HIDE DEF early, late, all
<1>14. on(UpTo(d)) = on(early) \cup on(late)
  <2>1. LineIds(early \cup late) = LineIds(early) \cup LineIds(late)
    BY LinesOfMore
  <2> QED
    BY <1>3, <2>1
<1> HIDE DEF on
<1>15. Balance(on(early) \cup on(late)) = Balance(on(early)) + Balance(on(late))
  BY <1>12, <1>13, BalancesAdd
<1> QED
  BY <1>7, <1>11, <1>14, <1>15

-----------------------------------------------------------------------------
(* The views *)

\* A request under way: its snapshot is at least as new as its beginning and
\* as everything a request that ended alone had seen.
RunFits(r) ==
  /\ refresh[r].at \in Views /\ refresh[r].snap \in Nat /\ refresh[r].began \in Nat
  /\ refresh[r].began <= refresh[r].snap /\ refresh[r].snap <= Len(journal)
  /\ floor <= refresh[r].snap

ViewsFit ==
  /\ refresh \in [Refreshers -> [at : Views \cup {None}, snap : Nat \cup {None}, began : Nat]]
  /\ view \in [Views -> Nat]
  /\ floor \in Nat /\ floor <= Len(journal)
  /\ \A v \in Views : floor <= view[v]
  /\ \A r \in Refreshers : refresh[r] = Idle \/ RunFits(r)

\* While a request is alone, what it installed stays installed.
AloneFits ==
  /\ alone \subseteq Refreshers
  /\ \A r \in alone : Running = {r}
  /\ \A r \in alone : refresh[r].at = "trial" => refresh[r].began <= view["period"]

IInv == JournalFits /\ ViewsFit /\ AloneFits

LEMMA IInvInit == ASSUME Init PROVE IInv
<1>1. JournalFits
  BY JournalInit
<1>2. Len(journal) = 0
  BY DEF Init
<1>3. ViewsFit
  BY <1>2 DEF Init, ViewsFit, Idle
<1>4. AloneFits
  BY DEF Init, AloneFits
<1> QED
  BY <1>1, <1>3, <1>4 DEF IInv

LEMMA IdleOrRunning ==
  ASSUME ViewsFit, NEW r \in Refreshers
  PROVE  /\ refresh[r].at = None <=> refresh[r] = Idle
         /\ r \in Running <=> refresh[r] # Idle
         /\ refresh[r] # Idle => RunFits(r)
<1>1. refresh[r] = Idle \/ RunFits(r)
  BY DEF ViewsFit
<1>2. RunFits(r) => refresh[r].at # None
  BY ReportingAssumption DEF RunFits, Views
<1>3. Idle.at = None
  BY DEF Idle
<1> QED
  BY <1>1, <1>2, <1>3 DEF Running

\* The journal only grows.
LEMMA GrowthKeeps ==
  ASSUME JournalFits, ViewsFit, AloneFits,
         UNCHANGED <<view, refresh, alone, floor>>,
         journal' = journal \/ \E e \in Entries : journal' = Append(journal, e)
  PROVE  ViewsFit' /\ AloneFits'
<1>1. Len(journal) \in Nat /\ Len(journal') \in Nat /\ Len(journal) <= Len(journal')
  BY DEF JournalFits
<1>2. \A r \in Refreshers : RunFits(r) => RunFits(r)'
  BY <1>1 DEF RunFits, ViewsFit
<1>3. ViewsFit'
  BY <1>1, <1>2 DEF ViewsFit, Idle
<1>4. AloneFits'
  BY DEF AloneFits, Running
<1> QED
  BY <1>3, <1>4

LEMMA BeginKeeps ==
  ASSUME JournalFits, ViewsFit, AloneFits, NEW r \in Refreshers, Begin(r)
  PROVE  ViewsFit' /\ AloneFits'
<1> DEFINE new == [at |-> "period", snap |-> Len(journal), began |-> Len(journal)]
<1>1. Len(journal) \in Nat
  BY DEF JournalFits
<1>2. /\ refresh' = [refresh EXCEPT ![r] = new]
      /\ journal' = journal /\ view' = view /\ floor' = floor
      /\ refresh[r] = Idle
      /\ alone' = IF Running = {} THEN {r} ELSE {}
  BY DEF Begin
<1>3. refresh'[r] = new /\ \A s \in Refreshers \ {r} : refresh'[s] = refresh[s]
  BY <1>2 DEF ViewsFit
<1>4. new.at = "period" /\ new.snap = Len(journal) /\ new.began = Len(journal)
  OBVIOUS
<1>5. new \in [at : Views \cup {None}, snap : Nat \cup {None}, began : Nat]
  BY <1>1 DEF Views
<1> HIDE DEF new
<1>6. RunFits(r)'
  BY <1>1, <1>2, <1>3, <1>4 DEF RunFits, ViewsFit, Views
<1>7. \A s \in Refreshers \ {r} : refresh'[s] = Idle \/ RunFits(s)'
  BY <1>2, <1>3 DEF ViewsFit, RunFits
<1>8. refresh' \in [Refreshers -> [at : Views \cup {None}, snap : Nat \cup {None}, began : Nat]]
  BY <1>2, <1>5 DEF ViewsFit
<1>9. ViewsFit'
  BY <1>2, <1>6, <1>7, <1>8 DEF ViewsFit, Idle
<1>10. AloneFits'
  <2>1. CASE Running = {}
    <3>1. alone' = {r}
      BY <1>2, <2>1
    <3>2. \A s \in Refreshers \ {r} : refresh'[s].at = None
      BY <1>3, <2>1 DEF Running
    <3>3. refresh'[r].at = "period" /\ refresh'[r].at # None
      BY <1>3, <1>4, ReportingAssumption
    <3>4. Running' = {r}
      BY <3>2, <3>3 DEF Running
    <3> QED
      BY <3>1, <3>3, <3>4 DEF AloneFits
  <2>2. CASE Running # {}
    BY <1>2, <2>2 DEF AloneFits
  <2> QED
    BY <2>1, <2>2
<1> QED
  BY <1>9, <1>10

LEMMA PeriodKeeps ==
  ASSUME JournalFits, ViewsFit, AloneFits, NEW r \in Refreshers, RefreshPeriod(r)
  PROVE  ViewsFit' /\ AloneFits'
<1> DEFINE R == [at : Views \cup {None}, snap : Nat \cup {None}, began : Nat]
<1>1. Len(journal) \in Nat
  BY DEF JournalFits
<1>2. /\ refresh' = [refresh EXCEPT ![r].at = "trial", ![r].snap = Len(journal)]
      /\ view' = [view EXCEPT !["period"] = refresh[r].snap]
      /\ journal' = journal /\ floor' = floor /\ alone' = alone
      /\ refresh[r].at = "period"
  BY DEF RefreshPeriod, Holds, Installs
<1>3. RunFits(r)
  BY <1>2, IdleOrRunning, ReportingAssumption
<1>4. refresh \in [Refreshers -> R]
  BY DEF ViewsFit
<1>5. /\ refresh' \in [Refreshers -> R]
      /\ refresh'[r].at = "trial" /\ refresh'[r].snap = Len(journal)
      /\ refresh'[r].began = refresh[r].began
      /\ \A s \in Refreshers \ {r} : refresh'[s] = refresh[s]
  BY <1>1, <1>2, <1>4 DEF Views
<1>6. RunFits(r)'
  BY <1>1, <1>2, <1>3, <1>5 DEF RunFits, ViewsFit, Views
<1>7. \A s \in Refreshers \ {r} : refresh'[s] = Idle \/ RunFits(s)'
  BY <1>2, <1>5 DEF ViewsFit, RunFits
<1>8. view' \in [Views -> Nat] /\ view'["period"] = refresh[r].snap /\ view'["trial"] = view["trial"]
  BY <1>2, <1>3 DEF ViewsFit, RunFits, Views
<1>9. \A v \in Views : floor' <= view'[v]
  BY <1>2, <1>3, <1>8 DEF ViewsFit, RunFits, Views
<1>10. ViewsFit'
  BY <1>2, <1>5, <1>6, <1>7, <1>8, <1>9 DEF ViewsFit, Idle
<1>11. Running' = Running
  BY <1>2, <1>5, ReportingAssumption DEF Running
<1>12. \A s \in alone : s = r
  BY <1>2, ReportingAssumption DEF AloneFits, Running
<1>13. refresh'[r].began <= view'["period"]
  BY <1>3, <1>5, <1>8 DEF RunFits
<1>14. AloneFits'
  BY <1>2, <1>11, <1>12, <1>13 DEF AloneFits
<1> QED
  BY <1>10, <1>14

\* A request ends: with what it had seen as the floor, if it was alone and both
\* views have it, and otherwise with the floor as it was.
LEMMA EndKeeps ==
  ASSUME JournalFits, ViewsFit, AloneFits, NEW r \in Refreshers, refresh[r] # Idle,
         refresh' = [refresh EXCEPT ![r] = Idle],
         alone' = alone \ {r}, journal' = journal,
         view' \in [Views -> Nat], view'["period"] = view["period"],
         view'["trial"] = view["trial"] \/ view'["trial"] = refresh[r].snap,
         \/ floor' = floor
         \/ /\ r \in alone /\ floor' = refresh[r].began
            /\ refresh[r].at = "trial" /\ view'["trial"] = refresh[r].snap
  PROVE  ViewsFit' /\ AloneFits'
<1> DEFINE R == [at : Views \cup {None}, snap : Nat \cup {None}, began : Nat]
<1>1. RunFits(r) /\ Len(journal) \in Nat
  BY IdleOrRunning DEF JournalFits
<1>2. refresh \in [Refreshers -> R] /\ Idle \in R
  BY DEF ViewsFit, Idle
<1>3. /\ refresh' \in [Refreshers -> R] /\ refresh'[r] = Idle
      /\ \A s \in Refreshers \ {r} : refresh'[s] = refresh[s]
  BY <1>2
<1>4. Running' = Running \ {r}
  <2>1. Idle.at = None
    BY DEF Idle
  <2> QED
    BY <1>3, <2>1 DEF Running
<1>5. \A s \in alone : s = r
  BY IdleOrRunning DEF AloneFits
<1>6. AloneFits'
  BY <1>5 DEF AloneFits
<1>7. floor' \in Nat /\ floor' <= Len(journal)
  BY <1>1 DEF ViewsFit, RunFits
<1>8. \A v \in Views : floor' <= view'[v]
  <2>1. floor <= view["period"] /\ floor <= view["trial"] /\ floor <= refresh[r].snap
    BY <1>1 DEF ViewsFit, RunFits, Views
  <2>2. r \in alone /\ refresh[r].at = "trial" => refresh[r].began <= view["period"]
    BY DEF AloneFits
  <2>3. refresh[r].began <= refresh[r].snap
    BY <1>1 DEF RunFits
  <2>4. floor' <= view'["period"] /\ floor' <= view'["trial"]
    BY <2>1, <2>2, <2>3
  <2> QED
    BY <2>4 DEF Views
<1>9. \A s \in Refreshers : refresh'[s] = Idle \/ RunFits(s)'
  <2>1. SUFFICES ASSUME NEW s \in Refreshers \ {r}, refresh'[s] # Idle PROVE RunFits(s)'
    BY <1>3
  <2>2. RunFits(s) /\ refresh'[s] = refresh[s] /\ s \in Running
    BY <1>3, <2>1, IdleOrRunning
  <2>3. r \notin alone
    BY <2>2 DEF AloneFits
  <2>4. floor' = floor
    BY <2>3
  <2> QED
    BY <2>2, <2>4 DEF RunFits
<1>10. ViewsFit'
  BY <1>3, <1>7, <1>8, <1>9 DEF ViewsFit, Idle
<1> QED
  BY <1>6, <1>10

LEMMA IInvKept == ASSUME IInv, [Next]_vars PROVE IInv'
<1> USE DEF IInv
<1>1. JournalFits'
  BY JournalKept
<1>2. ViewsFit' /\ AloneFits'
  <2>1. CASE UNCHANGED vars
    BY <2>1, GrowthKeeps DEF vars
  <2>2. ASSUME NEW day \in Days, NEW lines \in Templates, Post(day, lines)
        PROVE  ViewsFit' /\ AloneFits'
    <3>1. [date |-> day, lines |-> lines] \in Entries
      BY ReportingAssumption DEF Entries, IsBalancedEntry, BalancedLines
    <3>2. \E e \in Entries : journal' = Append(journal, e)
      BY <2>2, <3>1 DEF Post
    <3>3. UNCHANGED <<view, refresh, alone, floor>>
      BY <2>2 DEF Post
    <3> QED
      BY <3>2, <3>3, GrowthKeeps
  <2>3. ASSUME NEW n \in DOMAIN journal, ReverseEntry(n)
        PROVE  ViewsFit' /\ AloneFits'
    <3> DEFINE e == [date |-> journal[n].date, lines |-> Inverted(journal[n].lines)]
    <3>1. journal[n].date \in Days /\ IsBalancedEntry(Inverted(journal[n].lines))
      BY JournalEntries, InvertedBalanced
    <3>2. e \in Entries
      BY <3>1 DEF Entries, IsBalancedEntry, BalancedLines
    <3>3. journal' = Append(journal, e) /\ UNCHANGED <<view, refresh, alone, floor>>
      BY <2>3 DEF ReverseEntry
    <3> HIDE DEF e
    <3> QED
      BY <3>2, <3>3, GrowthKeeps
  <2>4. ASSUME NEW r \in Refreshers, Lock(r) PROVE ViewsFit' /\ AloneFits'
    BY <2>4, GrowthKeeps DEF Lock
  <2>5. ASSUME NEW r \in Refreshers, RefreshTrial(r) PROVE ViewsFit' /\ AloneFits'
    <3>1. refresh[r].at = "trial" /\ refresh[r] # Idle
      BY <2>5, IdleOrRunning, ReportingAssumption DEF RefreshTrial, Holds
    <3>2. RunFits(r)
      BY <3>1, IdleOrRunning
    <3>3. view' = [view EXCEPT !["trial"] = refresh[r].snap]
      BY <2>5 DEF RefreshTrial, Installs
    <3>4. /\ view' \in [Views -> Nat] /\ view'["trial"] = refresh[r].snap
          /\ view'["period"] = view["period"]
      BY <3>2, <3>3 DEF ViewsFit, RunFits, Views
    <3>5. /\ refresh' = [refresh EXCEPT ![r] = Idle]
          /\ alone' = alone \ {r} /\ journal' = journal
          /\ floor' = IF r \in alone THEN refresh[r].began ELSE floor
      BY <2>5 DEF RefreshTrial
    <3> QED
      BY <3>1, <3>4, <3>5, EndKeeps
  <2>6. ASSUME NEW r \in Refreshers, Fail(r) PROVE ViewsFit' /\ AloneFits'
    <3>1. /\ refresh[r] # Idle /\ refresh' = [refresh EXCEPT ![r] = Idle]
          /\ alone' = alone \ {r} /\ journal' = journal /\ floor' = floor /\ view' = view
      BY <2>6 DEF Fail
    <3>2. view' \in [Views -> Nat]
      BY <3>1 DEF ViewsFit
    <3> QED
      BY <3>1, <3>2, EndKeeps
  <2> QED
    BY <2>1, <2>2, <2>3, <2>4, <2>5, <2>6, BeginKeeps, PeriodKeeps DEF Next
<1> QED
  BY <1>1, <1>2

LEMMA AlwaysIInv == Spec => []IInv
<1>1. Init => IInv
  BY IInvInit
<1>2. IInv /\ [Next]_vars => IInv'
  BY IInvKept
<1> QED
  BY <1>1, <1>2, PTL DEF Spec

-----------------------------------------------------------------------------
\* The balance sheet at the end of a month and the monthly profit and loss
\* statements agree (GetBalanceSheet and GetProfitAndLoss), for every chart of
\* accounts, every calendar and every journal of balanced entries, back-dated
\* and reversed ones included; so IsBalanced tells exactly whether nothing was
\* earned in all the months so far.
THEOREM SheetAgrees == Spec => []SheetMatchesIncome
<1>1. IInv => SheetMatchesIncome
  BY SheetIsIncome DEF IInv
<1> QED
  BY <1>1, AlwaysIInv, PTL

\* What a statement of an account shows (GetAccountStatement), on top of what
\* complete statements carried forward, is the balance GetBalanceSheet gives the
\* account on that day: on every day when the statement is complete, and when
\* its reading broke off, on the days before its last line.
THEOREM StatementsAgree == Spec => []StatementMatchesSheet
<1>1. IInv => StatementMatchesSheet
  BY StatementIsSheet DEF IInv
<1> QED
  BY <1>1, AlwaysIInv, PTL

\* However many requests refresh the views (RefreshViews), neither view is
\* older than the beginning of a request that succeeded without another beside
\* it.
THEOREM ViewsAreFresh == Spec => []RefreshedUnlessOverlapped
<1>1. IInv => RefreshedUnlessOverlapped
  <2> SUFFICES ASSUME IInv, NEW v \in Views PROVE view[v] >= floor
    BY DEF RefreshedUnlessOverlapped
  <2>1. floor <= view[v] /\ floor \in Nat /\ view[v] \in Nat
    BY DEF IInv, ViewsFit
  <2> QED
    BY <2>1
<1> QED
  BY <1>1, AlwaysIInv, PTL

=============================================================================
