-------------------------- MODULE MailParserProofs --------------------------
(***************************************************************************)
(* The theorems about MailParser, for every finite set of sessions, every  *)
(* set of messages and of rules, and every number of failures the circuit  *)
(* breaker bears.  The first part is about the loop over the rules, the    *)
(* second about what is true of the messages, the parses and the tasks,    *)
(* the third about the breaker.                                            *)
(***************************************************************************)
EXTENDS MailParser, FiniteSetTheorems, SequenceTheorems, TLAPS

-----------------------------------------------------------------------------
(* The loop over the rules *)

\* A set of finite subsets that has an element has a smallest one.
LEMMA SmallestSet ==
  ASSUME NEW S, IsFiniteSet(S), NEW Bad \in SUBSET SUBSET S, Bad # {}
  PROVE  \E T \in Bad : \A U \in Bad : ~(U \subseteq T /\ U # T)
<1>1. Bad \subseteq FiniteSubsetsOf(S)
  BY FS_Subset DEF FiniteSubsetsOf
<1>2. PICK T \in Bad : \A U \in Bad : ~(<<U, T>> \in StrictSubsetOrdering(S))
  BY <1>1, FS_StrictSubsetOrderingWellFounded, WFMin, Zenon
<1>3. ASSUME NEW U \in Bad, U \subseteq T, U # T
      PROVE  FALSE
  <2>1. U \in SUBSET S /\ T \in SUBSET S
    OBVIOUS
  <2>2. <<U, T>> \in StrictSubsetOrdering(S)
    BY <1>3, <2>1 DEF StrictSubsetOrdering
  <2>. QED  BY <1>2, <2>2
<1>. QED  BY <1>3

\* Of two rules with different numbers one comes before the other, and not both.
LEMMA BeforeOrders ==
  ASSUME priority \in [Rules -> Priorities], NEW q \in Rules, NEW r \in Rules
  PROVE  /\ q # r => Before(q, r) \/ Before(r, q)
         /\ ~(Before(q, r) /\ Before(r, q)) /\ ~Before(r, r)
         /\ \A p \in Rules : Before(p, q) /\ Before(q, r) => Before(p, r)
<1>1. Rules \subseteq Nat /\ Priorities \subseteq Nat
  BY ParserAssumption
<1>2. \A p \in Rules : p \in Nat /\ priority[p] \in Nat
  BY <1>1
<1>. QED  BY <1>2 DEF Before

\* Finitely many rules, if there is any, have a last one.
LEMMA LastRuleExists ==
  ASSUME priority \in [Rules -> Priorities], NEW S \in SUBSET Rules, IsFiniteSet(S), S # {}
  PROVE  LastRule(S) \in S /\ \A q \in S \ {LastRule(S)} : Before(q, LastRule(S))
<1>. DEFINE Ends(T) == \E r \in T : \A q \in T \ {r} : Before(q, r)
            Bad == {T \in SUBSET S : T # {} /\ ~Ends(T)}
<1>1. Bad = {}
  <2>. SUFFICES ASSUME Bad # {} PROVE FALSE
    OBVIOUS
  <2>1. PICK T \in Bad : \A U \in Bad : ~(U \subseteq T /\ U # T)
    <3>. Bad \in SUBSET SUBSET S
      OBVIOUS
    <3>. HIDE DEF Bad
    <3>. QED  BY SmallestSet
  <2>2. PICK x \in T : TRUE
    OBVIOUS
  <2>3. T \ {x} \notin Bad
    BY <2>1, <2>2
  <2>4. CASE T \ {x} = {}
    BY <2>2, <2>4
  <2>5. CASE T \ {x} # {}
    <3>1. PICK m \in T \ {x} : \A q \in (T \ {x}) \ {m} : Before(q, m)
      BY <2>3, <2>5
    <3>2. m \in Rules /\ x \in Rules /\ m # x
      OBVIOUS
    <3>3. CASE Before(x, m)
      BY <3>1, <3>3
    <3>4. CASE Before(m, x)
      <4>1. ASSUME NEW q \in T \ {x}
            PROVE  Before(q, x)
        BY <3>1, <3>2, <3>4, BeforeOrders
      <4>. QED  BY <4>1
    <3>. QED  BY <3>2, <3>3, <3>4, BeforeOrders
  <2>. QED  BY <2>4, <2>5
<1>2. \E r \in S : \A q \in S \ {r} : Before(q, r)
  BY <1>1
<1>. QED  BY <1>2 DEF LastRule

\* What the loop has found when it is at a rule, and what it has after it.
LoopStep(e, n, r, found) ==
  IF Enough(found) \/ ~Hits(r, e) THEN found ELSE Append(found, RuleResult(r, e, n))

LoopBody(e, n, loop, S) ==
  IF S = {} THEN <<>> ELSE LoopStep(e, n, LastRule(S), loop[S \ {LastRule(S)}])

\* What the loop finds with each of these sets of rules.
IsLoop(e, n, loop, S) == loop = [T \in SUBSET S |-> LoopBody(e, n, loop, T)]

\* The loop is the one the recursion of the fold chooses.
LEMMA LoopOfFold ==
  ASSUME NEW e, NEW n
  PROVE  RuleResults(e, n) = (CHOOSE loop : IsLoop(e, n, loop, active))[active]
BY DEF RuleResults, MapThenFoldSet, IsLoop, LoopBody, LoopStep

\* Two loops agree on the sets of rules they both know.
LEMMA LoopsAgree ==
  ASSUME priority \in [Rules -> Priorities], NEW e, NEW n,
         NEW S \in SUBSET Rules, IsFiniteSet(S), NEW A \in SUBSET S, NEW B \in SUBSET S,
         NEW f, IsLoop(e, n, f, A), NEW g, IsLoop(e, n, g, B),
         NEW T, T \subseteq A, T \subseteq B
  PROVE  f[T] = g[T]
<1>. DEFINE Bad == {U \in SUBSET S : U \subseteq A /\ U \subseteq B /\ f[U] # g[U]}
<1>1. ASSUME Bad # {}
      PROVE  FALSE
  <2>1. PICK U \in Bad : \A V \in Bad : ~(V \subseteq U /\ V # U)
    <3>. Bad \in SUBSET SUBSET S
      OBVIOUS
    <3>. HIDE DEF Bad
    <3>. QED  BY <1>1, SmallestSet
  <2>2. f[U] = LoopBody(e, n, f, U) /\ g[U] = LoopBody(e, n, g, U)
    BY DEF IsLoop
  <2>3. CASE U = {}
    BY <2>2, <2>3 DEF LoopBody
  <2>4. CASE U # {}
    <3>. DEFINE V == U \ {LastRule(U)}
    <3>1. LastRule(U) \in U
      <4>. U \in SUBSET Rules /\ IsFiniteSet(U)
        BY FS_Subset
      <4>. QED  BY <2>4, LastRuleExists
    <3>2. V \subseteq U /\ V # U /\ V \in SUBSET S /\ V \subseteq A /\ V \subseteq B
      BY <3>1
    <3>3. f[V] = g[V]
      BY <2>1, <3>2
    <3>. QED  BY <2>2, <2>4, <3>3 DEF LoopBody
  <2>. QED  BY <2>3, <2>4
<1>. QED  BY <1>1

\* There is a loop for every finite set of rules.
LEMMA LoopExists ==
  ASSUME priority \in [Rules -> Priorities], NEW e, NEW n, NEW S \in SUBSET Rules, IsFiniteSet(S)
  PROVE  \E loop : IsLoop(e, n, loop, S)
<1>. DEFINE Bad == {T \in SUBSET S : ~\E loop : IsLoop(e, n, loop, T)}
<1>1. ASSUME Bad # {}
      PROVE  FALSE
  <2>1. PICK T \in Bad : \A U \in Bad : ~(U \subseteq T /\ U # T)
    <3>. Bad \in SUBSET SUBSET S
      OBVIOUS
    <3>. HIDE DEF Bad
    <3>. QED  BY <1>1, SmallestSet
  <2>. DEFINE Loop(U) == CHOOSE loop : IsLoop(e, n, loop, U)
              value == [U \in SUBSET T |-> IF U # T THEN Loop(U)[U]
                                           ELSE LoopBody(e, n, [V \in SUBSET T |-> Loop(V)[V]], T)]
  <2>2. ASSUME NEW U \in SUBSET T, U # T
        PROVE  IsLoop(e, n, Loop(U), U)
    <3>1. U \notin Bad /\ U \in SUBSET S
      BY <2>1, <2>2
    <3>2. \E loop : IsLoop(e, n, loop, U)
      BY <3>1
    <3>. QED  BY <3>2
  <2>3. ASSUME NEW U \in SUBSET T, U # {}
        PROVE  LastRule(U) \in U
    <3>. U \in SUBSET Rules /\ IsFiniteSet(U)
      BY FS_Subset
    <3>. QED  BY <2>3, LastRuleExists
  <2>4. ASSUME NEW U \in SUBSET T
        PROVE  value[U] = LoopBody(e, n, value, U)
    <3>1. CASE U = {} /\ U = T
      BY <3>1 DEF LoopBody
    <3>2. CASE U # {} /\ U = T
      <4>. DEFINE V == U \ {LastRule(U)}
      <4>1. V \in SUBSET T /\ V # T
        BY <2>3, <3>2
      <4>2. value[V] = [W \in SUBSET T |-> Loop(W)[W]][V]
        BY <4>1
      <4>3. value[U] = LoopBody(e, n, [W \in SUBSET T |-> Loop(W)[W]], U)
        BY <3>2
      <4>. HIDE DEF value, Loop
      <4>. QED  BY <4>2, <4>3, <3>2 DEF LoopBody
    <3>3. CASE U # T
      <4>1. value[U] = Loop(U)[U] /\ Loop(U)[U] = LoopBody(e, n, Loop(U), U)
        <5>1. IsLoop(e, n, Loop(U), U)
          BY <2>2, <3>3
        <5>2. value[U] = Loop(U)[U]
          BY <3>3
        <5>3. Loop(U)[U] = LoopBody(e, n, Loop(U), U)
          <6>. HIDE DEF Loop
          <6>. QED  BY <5>1 DEF IsLoop
        <5>. QED  BY <5>2, <5>3
      <4>2. CASE U = {}
        <5>. HIDE DEF value, Loop
        <5>. QED  BY <4>1, <4>2 DEF LoopBody
      <4>3. CASE U # {}
        <5>. DEFINE V == U \ {LastRule(U)}
        <5>1. V \in SUBSET T /\ V # T /\ V \subseteq U /\ U \in SUBSET S /\ V \in SUBSET S
          BY <2>3, <3>3, <4>3
        <5>2. value[V] = Loop(V)[V]
          BY <5>1
        <5>3. IsLoop(e, n, Loop(U), U) /\ IsLoop(e, n, Loop(V), V)
          BY <2>2, <3>3, <5>1
        <5>. HIDE DEF value, Loop
        <5>4. Loop(V)[V] = Loop(U)[V]
          <6>. HIDE DEF V
          <6>. QED  BY <5>1, <5>3, LoopsAgree
        <5>5. value[V] = Loop(U)[V]
          BY <5>2, <5>4
        <5>. QED  BY <4>1, <4>3, <5>5 DEF LoopBody
      <4>. QED  BY <4>2, <4>3
    <3>. QED  BY <3>1, <3>2, <3>3
  <2>5. IsLoop(e, n, value, T)
    <3>1. value = [U \in SUBSET T |-> value[U]]
      OBVIOUS
    <3>. HIDE DEF value
    <3>. QED  BY <2>4, <3>1 DEF IsLoop
  <2>. QED  BY <2>5
<1>2. S \notin Bad
  BY <1>1
<1>. QED  BY <1>2

\* So what the loop finds with some of the active rules follows from what it has
\* found before the last of them.
LEMMA LoopUnfolds ==
  ASSUME priority \in [Rules -> Priorities], active \subseteq Rules, IsFiniteSet(active), NEW e, NEW n
  PROVE  \E loop : IsLoop(e, n, loop, active) /\ RuleResults(e, n) = loop[active]
<1>1. \E loop : IsLoop(e, n, loop, active)
  BY LoopExists
<1>2. IsLoop(e, n, CHOOSE loop : IsLoop(e, n, loop, active), active)
  BY <1>1
<1>. QED  BY <1>2, LoopOfFold

\* The rules of these that match, and the first of them, which are to be found.
Matching(e, S) == {r \in S : Hits(r, e)}

Best(e, S) ==
  {r \in Matching(e, S) : Cardinality({q \in Matching(e, S) : Before(q, r)}) < MaxResults}

\* What the loop should have found with these rules.
FoundBest(e, n, S, found) ==
  /\ found \in Seq(ResultRows)
  /\ \A i \in 1..Len(found) : found[i].rule \in Rules /\ found[i].message = e /\ found[i].parse = n
  /\ \A i, j \in 1..Len(found) : i < j => Before(found[i].rule, found[j].rule)
  /\ {found[i].rule : i \in 1..Len(found)} = Best(e, S)
  /\ Len(found) = IF Cardinality(Matching(e, S)) < MaxResults THEN Cardinality(Matching(e, S)) ELSE MaxResults

\* The result of a rule that matches.
LEMMA RowOfRule ==
  ASSUME NEW r \in Rules, NEW e \in Messages, NEW n \in Nat, Hits(r, e)
  PROVE  /\ RuleResult(r, e, n) \in ResultRows
         /\ RuleResult(r, e, n).rule = r /\ RuleResult(r, e, n).rule # NoValue
         /\ RuleResult(r, e, n).message = e /\ RuleResult(r, e, n).parse = n
<1>1. Finds[r][e] \in Values /\ OutputType[r] \in ResultTypes
  BY ParserAssumption DEF Hits
<1>2. r # NoValue
  BY ParserAssumption
<1>. QED  BY <1>1, <1>2 DEF RuleResult, ResultRows

\* A sequence with one element more.
LEMMA OneElementMore ==
  ASSUME NEW R, NEW s \in Seq(R), NEW x \in R
  PROVE  /\ Append(s, x) \in Seq(R) /\ Len(s) \in Nat /\ Len(Append(s, x)) = Len(s) + 1
         /\ \A i \in 1..Len(Append(s, x)) :
              \/ i \in 1..Len(s) /\ Append(s, x)[i] = s[i]
              \/ i = Len(s) + 1 /\ Append(s, x)[i] = x
         /\ \A i \in 1..Len(s) : i \in 1..Len(Append(s, x)) /\ Append(s, x)[i] = s[i]
         /\ Len(s) + 1 \in 1..Len(Append(s, x)) /\ Append(s, x)[Len(s) + 1] = x
<1>1. /\ Append(s, x) \in Seq(R) /\ Len(Append(s, x)) = Len(s) + 1
      /\ \A i \in 1..Len(s) : Append(s, x)[i] = s[i]
      /\ Append(s, x)[Len(s) + 1] = x
  BY AppendProperties
<1>2. Len(s) \in Nat
  BY LenProperties
<1>. QED  BY <1>1, <1>2

\* One more step of the loop finds the best of one rule more.
LEMMA LoopStepBest ==
  ASSUME priority \in [Rules -> Priorities], NEW e \in Messages, NEW n \in Nat,
         NEW S \in SUBSET Rules, IsFiniteSet(S), NEW r \in S, \A q \in S \ {r} : Before(q, r),
         NEW found, FoundBest(e, n, S \ {r}, found)
  PROVE  FoundBest(e, n, S, LoopStep(e, n, r, found))
<1>. DEFINE T == S \ {r}
            M == Matching(e, T)
            N == Matching(e, S)
<1>1. /\ IsFiniteSet(N) /\ Cardinality(N) \in Nat
      /\ IsFiniteSet(M) /\ Cardinality(M) \in Nat
  <2>1. N \in SUBSET S /\ M \in SUBSET S
    BY DEF Matching
  <2>2. IsFiniteSet(N) /\ IsFiniteSet(M)
    BY <2>1, FS_Subset
  <2>. QED  BY <2>2, FS_CardinalityType
<1>2. MaxResults \in Nat /\ MaxResults >= 1
  BY ParserAssumption
<1>3. CASE ~Hits(r, e)
  <2>1. N = M
    BY <1>3 DEF Matching
  <2>2. LoopStep(e, n, r, found) = found
    BY <1>3 DEF LoopStep
  <2>. QED  BY <2>1, <2>2 DEF FoundBest, Best
<1>4. CASE Hits(r, e)
  <2>1. N = M \cup {r} /\ r \notin M
    BY <1>4 DEF Matching
  <2>2. Cardinality(N) = Cardinality(M) + 1
    BY <1>1, <2>1, FS_AddElement
  <2>3. {q \in N : Before(q, r)} = M
    <3>1. \A q \in M : Before(q, r)
      BY DEF Matching
    <3>2. ~Before(r, r)
      BY BeforeOrders
    <3>. QED  BY <2>1, <3>1, <3>2
  <2>4. ASSUME NEW p \in M
        PROVE  {q \in N : Before(q, p)} = {q \in M : Before(q, p)}
    <3>1. Before(p, r) /\ p \in Rules /\ r \in Rules
      BY DEF Matching
    <3>2. ~Before(r, p)
      BY <3>1, BeforeOrders
    <3>. QED  BY <2>1, <3>2
  <2>5. Best(e, S) = Best(e, T) \cup (IF Cardinality(M) < MaxResults THEN {r} ELSE {})
    <3>. HIDE DEF M, N
    <3>1. Best(e, S) = {p \in N : Cardinality({q \in N : Before(q, p)}) < MaxResults}
      BY DEF Best, N
    <3>2. Best(e, T) = {p \in M : Cardinality({q \in M : Before(q, p)}) < MaxResults}
      BY DEF Best, M
    <3>3. ASSUME NEW p
          PROVE  p \in Best(e, S) <=> p \in Best(e, T) \/ (p = r /\ Cardinality(M) < MaxResults)
      <4>1. CASE p = r
        BY <2>1, <2>3, <3>1, <3>2, <4>1
      <4>2. CASE p # r /\ p \in M
        BY <2>1, <2>4, <3>1, <3>2, <4>2
      <4>3. CASE p # r /\ p \notin M
        BY <2>1, <3>1, <3>2, <4>3
      <4>. QED  BY <4>1, <4>2, <4>3
    <3>. QED  BY <3>3
  <2>6. /\ found \in Seq(ResultRows) /\ Len(found) \in Nat
        /\ Len(found) = IF Cardinality(M) < MaxResults THEN Cardinality(M) ELSE MaxResults
    BY LenProperties DEF FoundBest
  <2>7. Enough(found) <=> Cardinality(M) >= MaxResults
    BY <1>1, <1>2, <2>6 DEF Enough
  <2>8. CASE Enough(found)
    <3>1. LoopStep(e, n, r, found) = found
      BY <2>8 DEF LoopStep
    <3>2. Cardinality(M) >= MaxResults
      BY <2>7, <2>8
    <3>3. Best(e, S) = Best(e, T)
      BY <1>1, <1>2, <2>5, <3>2
    <3>4. Len(found) = IF Cardinality(N) < MaxResults THEN Cardinality(N) ELSE MaxResults
      BY <1>1, <1>2, <2>2, <2>6, <3>2
    <3>. QED  BY <3>1, <3>3, <3>4 DEF FoundBest
  <2>9. CASE ~Enough(found)
    <3>. DEFINE x == RuleResult(r, e, n)
                more == Append(found, x)
    <3>1. LoopStep(e, n, r, found) = more
      BY <1>4, <2>9 DEF LoopStep
    <3>2. Cardinality(M) < MaxResults
      BY <1>1, <1>2, <2>7, <2>9
    <3>3. x \in ResultRows /\ x.rule = r /\ x.message = e /\ x.parse = n
      BY <1>4, RowOfRule
    <3>. HIDE DEF x
    <3>4. /\ more \in Seq(ResultRows) /\ Len(more) = Len(found) + 1
          /\ \A i \in 1..Len(more) :
               \/ i \in 1..Len(found) /\ more[i] = found[i]
               \/ i = Len(found) + 1 /\ more[i] = x
          /\ \A i \in 1..Len(found) : i \in 1..Len(more) /\ more[i] = found[i]
          /\ Len(found) + 1 \in 1..Len(more) /\ more[Len(found) + 1] = x
      <4>. found \in Seq(ResultRows) /\ x \in ResultRows
        BY <2>6, <3>3
      <4>. QED  BY OneElementMore
    <3>. HIDE DEF T, M, N
    <3>. HIDE DEF more
    <3>5. ASSUME NEW i \in 1..Len(more)
          PROVE  more[i].rule \in Rules /\ more[i].message = e /\ more[i].parse = n
      <4>1. \A j \in 1..Len(found) : found[j].rule \in Rules /\ found[j].message = e /\ found[j].parse = n
        BY DEF FoundBest
      <4>. QED  BY <3>3, <3>4, <4>1
    <3>6. ASSUME NEW i \in 1..Len(more), NEW j \in 1..Len(more), i < j
          PROVE  Before(more[i].rule, more[j].rule)
      <4>1. i \in 1..Len(found) /\ more[i] = found[i]
        <5>1. j \in Nat /\ i \in Nat /\ j <= Len(found) + 1 /\ Len(found) \in Nat
          BY <2>6, <3>4
        <5>. QED  BY <3>4, <3>6, <5>1
      <4>2. CASE j \in 1..Len(found)
        BY <3>4, <3>6, <4>1, <4>2 DEF FoundBest
      <4>3. CASE j = Len(found) + 1
        <5>1. found[i].rule \in Best(e, T)
          BY <4>1 DEF FoundBest, T
        <5>2. Best(e, T) \subseteq T
          BY DEF Best, Matching, T
        <5>3. \A q \in T : Before(q, r)
          BY DEF T
        <5>. QED  BY <5>3, <3>3, <3>4, <4>1, <4>3, <5>1, <5>2
      <4>. QED  BY <2>6, <3>4, <4>2, <4>3
    <3>7. {more[i].rule : i \in 1..Len(more)} = Best(e, S)
      <4>1. {more[i].rule : i \in 1..Len(more)} = {found[i].rule : i \in 1..Len(found)} \cup {r}
        BY <2>6, <3>3, <3>4
      <4>2. {found[i].rule : i \in 1..Len(found)} = Best(e, T)
        BY DEF FoundBest, T
      <4>. QED  BY <2>5, <3>2, <4>1, <4>2
    <3>8. Len(more) = IF Cardinality(N) < MaxResults THEN Cardinality(N) ELSE MaxResults
      BY <1>1, <1>2, <2>2, <2>6, <3>2, <3>4
    <3>. QED  BY <3>1, <3>4, <3>5, <3>6, <3>7, <3>8 DEF FoundBest, N
  <2>. QED  BY <2>8, <2>9
<1>. QED  BY <1>3, <1>4

\* The loop finds what the best of the active rules find.
LEMMA LoopFindsBest ==
  ASSUME priority \in [Rules -> Priorities], active \subseteq Rules, IsFiniteSet(active),
         NEW e \in Messages, NEW n \in Nat
  PROVE  FoundBest(e, n, active, RuleResults(e, n))
<1>1. PICK loop : IsLoop(e, n, loop, active) /\ RuleResults(e, n) = loop[active]
  BY LoopUnfolds
<1>. DEFINE Bad == {S \in SUBSET active : ~FoundBest(e, n, S, loop[S])}
<1>2. ASSUME Bad # {}
      PROVE  FALSE
  <2>1. PICK S \in Bad : \A U \in Bad : ~(U \subseteq S /\ U # S)
    <3>. Bad \in SUBSET SUBSET active
      OBVIOUS
    <3>. HIDE DEF Bad
    <3>. QED  BY <1>2, SmallestSet
  <2>2. loop[S] = LoopBody(e, n, loop, S) /\ S \in SUBSET Rules
    BY <1>1 DEF IsLoop
  <2>3. IsFiniteSet(S)
    BY FS_Subset
  <2>4. CASE S = {}
    <3>1. loop[S] = <<>>
      BY <2>2, <2>4 DEF LoopBody
    <3>2. Matching(e, S) = {} /\ Best(e, S) = {}
      BY <2>4 DEF Matching, Best
    <3>3. Cardinality(Matching(e, S)) = 0
      BY <3>2, FS_EmptySet
    <3>4. <<>> \in Seq(ResultRows) /\ Len(<<>>) = 0 /\ MaxResults \in Nat /\ MaxResults >= 1
      BY ParserAssumption
    <3>5. FoundBest(e, n, S, <<>>)
      BY <3>2, <3>3, <3>4 DEF FoundBest
    <3>. QED  BY <2>1, <3>1, <3>5
  <2>5. CASE S # {}
    <3>. DEFINE r == LastRule(S)
    <3>1. r \in S /\ \A q \in S \ {r} : Before(q, r)
      BY <2>2, <2>3, <2>5, LastRuleExists
    <3>2. S \ {r} \notin Bad /\ S \ {r} \in SUBSET active
      BY <2>1, <3>1
    <3>3. FoundBest(e, n, S \ {r}, loop[S \ {r}])
      BY <3>2
    <3>4. loop[S] = LoopStep(e, n, r, loop[S \ {r}])
      BY <2>2, <2>5 DEF LoopBody
    <3>. HIDE DEF r
    <3>. QED  BY <2>1, <2>2, <2>3, <3>1, <3>3, <3>4, LoopStepBest
  <2>. QED  BY <2>4, <2>5
<1>3. active \notin Bad
  BY <1>2
<1>. QED  BY <1>1, <1>3

-----------------------------------------------------------------------------
(* What is true of every state *)

\* Results of one parse of a message, of which the model has repeated none.
FoundSound(found, e, n) ==
  /\ found \in Seq(ResultRows)
  /\ \A i \in 1..Len(found) : found[i].message = e /\ found[i].parse = n
  /\ \A i, j \in 1..Len(found) : found[i].value = found[j].value /\ found[i].rule = NoValue => i = j

\* What a parse holds by itself: results of its own, none before it comes to the rules,
\* and, to be replaced, results of earlier parses.
ParseSound(p) ==
  /\ p.stage = "none" => p = NoParse
  /\ p.stage # "none" => p.message \in Messages
  /\ p.stage = "rules" => p.found = <<>>
  /\ FoundSound(p.found, p.message, p.number)
  /\ \A x \in p.old : x.parse < p.number

\* A parse that is under way, and its message: a new message is not stored yet and its
\* parse has the lock; unless two parses have overlapped, the parse is the only one of
\* its message and has loaded all its results.
ParseHolds(s, p) ==
  /\ p.number <= parses[p.message]
  /\ IF p.by = "ingest" THEN writer = s /\ status[p.message] = "NONE" /\ p.old = {}
     ELSE status[p.message] # "NONE"
  /\ \/ p.message \in crossed
     \/ /\ p.old = results[p.message]
        /\ \A o \in Parsers : parse[o].message = p.message => o = s

\* The rows of a message: nothing before it is stored, then what ResultsOfOneParse
\* says of them.
OneParse(rows) ==
  \A x, y \in rows :
    /\ x.parse = y.parse
    /\ x.value = y.value /\ x.rule = NoValue => x = y

\* The status and the category are those of these rows.
Tells(outcome, kind, rows) ==
  /\ (outcome = "PARSED") = (rows # {})
  /\ (kind = "verification") = (\E x \in rows : x.type \in {"OTP", "ACTIVATION_LINK"})

RowsHold(e) ==
  /\ \A x \in results[e] : x.message = e /\ x.parse <= parses[e]
  /\ status[e] = "NONE" => results[e] = {} /\ category[e] = "normal"
  /\ e \notin crossed => OneParse(results[e])
  /\ e \notin crossed \cup halved => Tells(status[e], category[e], results[e])

\* A task and the result it refers to.
TaskHolds(t) ==
  LET x == task[t].result IN
  /\ task[t].state = "NONE" => x = NoValue
  /\ x # NoValue =>
       /\ status[x.message] # "NONE"
       /\ x \in results[x.message] \/ parses[x.message] > x.parse

ParserInv ==
  /\ ParserTypeOK /\ IsFiniteSet(active)
  /\ \A s \in Parsers : ParseSound(parse[s]) /\ (parse[s].stage # "none" => ParseHolds(s, parse[s]))
  /\ \A e \in Messages : RowsHold(e)
  /\ \A t \in Applicants : TaskHolds(t)

-----------------------------------------------------------------------------
(* Parses *)

\* What a parse is made of.
ParseRecords ==
  [stage : {"none", "rules", "llm", "store"}, message : Messages \cup {NoValue},
   number : Nat, by : {"none", "ingest", "job", "api"}, old : SUBSET ResultRows, found : Seq(ResultRows)]

\* The fields of a parse that is made, and of none.
LEMMA ParseFields ==
  ASSUME NEW stage, NEW e, NEW n, NEW by, NEW old, NEW found, NEW p
  PROVE  /\ Parse(stage, e, n, by, old, found).stage = stage
         /\ Parse(stage, e, n, by, old, found).message = e
         /\ Parse(stage, e, n, by, old, found).number = n
         /\ Parse(stage, e, n, by, old, found).by = by
         /\ Parse(stage, e, n, by, old, found).old = old
         /\ Parse(stage, e, n, by, old, found).found = found
         /\ Found(p, stage, found) = Parse(stage, p.message, p.number, p.by, p.old, found)
         /\ NoParse.stage = "none" /\ NoParse.message = NoValue /\ NoParse.found = <<>>
         /\ NoParse.number = 0 /\ NoParse.by = "none" /\ NoParse.old = {}
BY DEF Parse, Found, NoParse

\* A parse that is made of values of their types.
LEMMA ParseTyped ==
  ASSUME NEW stage \in {"none", "rules", "llm", "store"}, NEW e \in Messages \cup {NoValue}, NEW n \in Nat,
         NEW by \in {"none", "ingest", "job", "api"}, NEW old \in SUBSET ResultRows, NEW found \in Seq(ResultRows)
  PROVE  Parse(stage, e, n, by, old, found) \in ParseRecords
BY DEF Parse, ParseRecords

\* Nothing is found by no parse.
LEMMA NoParseSound == ParseSound(NoParse) /\ NoParse \in ParseRecords
<1>1. FoundSound(<<>>, NoValue, 0)
  BY DEF FoundSound
<1>2. <<>> \in Seq(ResultRows)
  OBVIOUS
<1>. QED  BY <1>1, <1>2, ParseFields, ParseTyped DEF ParseSound, NoParse

\* The fields of the parse of a session have their types.
LEMMA ParseType ==
  ASSUME ParserTypeOK, NEW s \in Parsers
  PROVE  /\ parse[s] \in ParseRecords
         /\ parse[s].stage \in {"none", "rules", "llm", "store"}
         /\ parse[s].message \in Messages \cup {NoValue} /\ parse[s].number \in Nat
         /\ parse[s].by \in {"none", "ingest", "job", "api"} /\ parse[s].old \in SUBSET ResultRows
         /\ parse[s].found \in Seq(ResultRows)
<1>1. parse[s] \in ParseRecords
  BY DEF ParserTypeOK, ParseRecords
<1>. QED  BY <1>1 DEF ParseRecords

\* The model adds at most one result, of a value no result has.
LEMMA AddedSound ==
  ASSUME NEW e \in Messages, NEW n \in Nat, NEW found, FoundSound(found, e, n),
         NEW type \in ResultTypes, NEW value \in Values \cup {NoValue}
  PROVE  FoundSound(Added(found, LlmResult(e, n, type, value)), e, n)
<1>. DEFINE x == LlmResult(e, n, type, value)
<1>1. x.message = e /\ x.parse = n /\ x.value = value /\ x.rule = NoValue
  BY DEF LlmResult
<1>2. value # NoValue => x \in ResultRows
  BY DEF LlmResult, ResultRows
<1>. HIDE DEF x
<1>3. found \in Seq(ResultRows) /\ DOMAIN found = 1..Len(found)
  BY LenProperties DEF FoundSound
<1>4. CASE Added(found, x) = found
  BY <1>4 DEF x
<1>5. CASE value # NoValue /\ (\A i \in 1..Len(found) : found[i].value # value)
  <2>. DEFINE more == Append(found, x)
  <2>1. Added(found, x) = more
    BY <1>1, <1>3, <1>5 DEF Added
  <2>2. /\ more \in Seq(ResultRows)
        /\ \A i \in 1..Len(more) :
             \/ i \in 1..Len(found) /\ more[i] = found[i]
             \/ i = Len(found) + 1 /\ more[i] = x
    BY <1>2, <1>3, <1>5, OneElementMore
  <2>. HIDE DEF more
  <2>3. \A i \in 1..Len(more) : more[i].message = e /\ more[i].parse = n
    BY <1>1, <2>2 DEF FoundSound
  <2>4. ASSUME NEW i \in 1..Len(more), NEW j \in 1..Len(more),
               more[i].value = more[j].value, more[i].rule = NoValue
        PROVE  i = j
    <3>1. CASE i \in 1..Len(found) /\ j \in 1..Len(found) /\ more[i] = found[i] /\ more[j] = found[j]
      BY <2>4, <3>1 DEF FoundSound
    <3>2. CASE i = Len(found) + 1 /\ more[i] = x /\ j \in 1..Len(found) /\ more[j] = found[j]
      BY <1>1, <1>5, <2>4, <3>2
    <3>3. CASE i \in 1..Len(found) /\ more[i] = found[i] /\ j = Len(found) + 1 /\ more[j] = x
      BY <1>1, <1>5, <2>4, <3>3
    <3>4. CASE i = Len(found) + 1 /\ j = Len(found) + 1
      BY <3>4
    <3>. QED  BY <2>2, <3>1, <3>2, <3>3, <3>4
  <2>5. FoundSound(more, e, n)
    BY <2>2, <2>3, <2>4 DEF FoundSound
  <2>. QED  BY <2>1, <2>5 DEF x
<1>. QED  BY <1>1, <1>3, <1>4, <1>5 DEF Added

\* What the rules find is sound.
LEMMA RulesSound ==
  ASSUME ParserTypeOK, IsFiniteSet(active), NEW e \in Messages, NEW n \in Nat
  PROVE  FoundSound(RuleResults(e, n), e, n)
<1>1. FoundBest(e, n, active, RuleResults(e, n))
  BY LoopFindsBest DEF ParserTypeOK
<1>2. \A r \in Rules : r # NoValue
  BY ParserAssumption
<1>. QED  BY <1>1, <1>2 DEF FoundBest, FoundSound

-----------------------------------------------------------------------------
(* The steps of a session *)

\* The session that has taken the lock is the one whose new message is being parsed.
LEMMA NewHasLock ==
  ASSUME ParserInv, NEW s \in Parsers, CanWrite(s), NEW o \in Parsers,
         parse[o].stage # "none", parse[o].by = "ingest"
  PROVE  o = s
<1>1. writer = o
  BY DEF ParserInv, ParseHolds
<1>2. o # NoValue
  BY ParserAssumption
<1>. QED  BY <1>1, <1>2 DEF CanWrite

\* A session that holds no parse has no message.
LEMMA NoParseNoMessage ==
  ASSUME ParserInv, NEW s \in Parsers
  PROVE  /\ parse[s].stage = "none" => parse[s] = NoParse
         /\ parse[s].stage # "none" <=> parse[s].message \in Messages
<1>1. ParseSound(parse[s])
  BY DEF ParserInv
<1>2. NoValue \notin Messages
  BY ParserAssumption
<1>. QED  BY <1>1, <1>2, ParseFields DEF ParseSound

\* A session goes on with its parse and holds other results.
LEMMA FoundKeeps ==
  ASSUME ParserInv, NEW s \in Parsers, parse[s].stage # "none",
         NEW stage \in {"llm", "store"}, NEW found,
         FoundSound(found, parse[s].message, parse[s].number),
         parse' = [parse EXCEPT ![s] = Found(parse[s], stage, found)],
         UNCHANGED <<ruleVars, messageVars, taskVars, parses, crossed, halved, faults>>,
         writer' = writer \/ (CanWrite(s) /\ writer' = s),
         failures' \in Nat, open' \in BOOLEAN, raised' \in Nat
  PROVE  ParserInv'
<1>. DEFINE p == parse[s]
            q == Found(p, stage, found)
<1>1. /\ UNCHANGED <<active, priority, status, category, received, results, task, created, now, parses, crossed, halved, faults>>
  BY DEF ruleVars, messageVars, taskVars
<1>2. /\ parse \in [Parsers -> ParseRecords] /\ p \in ParseRecords /\ p.message \in Messages
      /\ p.number \in Nat /\ p.by \in {"none", "ingest", "job", "api"} /\ p.old \in SUBSET ResultRows
  BY ParseType, NoParseNoMessage DEF ParserInv, ParserTypeOK, ParseRecords
<1>3. /\ q.stage = stage /\ q.message = p.message /\ q.number = p.number /\ q.by = p.by
      /\ q.old = p.old /\ q.found = found /\ q \in ParseRecords
  <2>1. q = Parse(stage, p.message, p.number, p.by, p.old, found)
    BY DEF Found
  <2>2. found \in Seq(ResultRows)
    BY DEF FoundSound
  <2>3. Parse(stage, p.message, p.number, p.by, p.old, found) \in ParseRecords
    <3>1. stage \in {"none", "rules", "llm", "store"} /\ p.message \in Messages \cup {NoValue}
      BY <1>2
    <3>2. p.number \in Nat /\ p.by \in {"none", "ingest", "job", "api"} /\ p.old \in SUBSET ResultRows
      BY <1>2
    <3>. HIDE DEF p, q
    <3>. QED  BY <2>2, <3>1, <3>2, ParseTyped
  <2>4. /\ q.stage = stage /\ q.message = p.message /\ q.number = p.number /\ q.by = p.by
        /\ q.old = p.old /\ q.found = found
    <3>. HIDE DEF p, q
    <3>. QED  BY <2>1 DEF Parse
  <2>. QED  BY <2>1, <2>3, <2>4
<1>. HIDE DEF q
<1>4. parse' = [o \in Parsers |-> IF o = s THEN q ELSE parse[o]]
  BY <1>2 DEF q
<1>5. \A o \in Parsers : /\ parse'[o].message = parse[o].message /\ parse'[o].number = parse[o].number
                         /\ parse'[o].by = parse[o].by /\ parse'[o].old = parse[o].old
                         /\ (parse'[o].stage # "none") = (parse[o].stage # "none")
  BY <1>3, <1>4
<1>6. writer' \in Parsers \cup {NoValue}
  BY DEF ParserInv, ParserTypeOK
<1>7. ParserTypeOK' /\ IsFiniteSet(active)'
  <2>1. parse' \in [Parsers -> ParseRecords]
    BY <1>2, <1>3, <1>4
  <2>. QED  BY <1>1, <1>6, <2>1 DEF ParserInv, ParserTypeOK, ParseRecords
<1>8. ASSUME NEW o \in Parsers
      PROVE  ParseSound(parse'[o])
  <2>1. CASE o = s
    <3>1. ParseSound(p)
      BY DEF ParserInv
    <3>2. ParseSound(q)
      BY <1>2, <1>3, <3>1 DEF ParseSound
    <3>. QED  BY <1>4, <2>1, <3>2
  <2>2. CASE o # s
    BY <1>4, <2>2 DEF ParserInv
  <2>. QED  BY <2>1, <2>2
<1>9. ASSUME NEW o \in Parsers, parse'[o].stage # "none"
      PROVE  ParseHolds(o, parse[o])'
  <2>1. ParseHolds(o, parse[o]) /\ parse[o].stage # "none"
    BY <1>5, <1>9 DEF ParserInv
  <2>2. parse[o].by = "ingest" => writer' = o
    BY <2>1, NewHasLock DEF ParseHolds
  <2>. QED  BY <1>1, <1>5, <2>1, <2>2 DEF ParseHolds
<1>10. \A e \in Messages : RowsHold(e)'
  BY <1>1 DEF ParserInv, RowsHold
<1>11. \A t \in Applicants : TaskHolds(t)'
  BY <1>1 DEF ParserInv, TaskHolds
<1>. QED  BY <1>7, <1>8, <1>9, <1>10, <1>11 DEF ParserInv

\* The rules are applied, and the lock is taken if old results have been deleted.
LEMMA ApplyRulesKeeps ==
  ASSUME ParserInv, NEW s \in Parsers, ApplyRules(s)
  PROVE  ParserInv'
<1>. DEFINE found == RuleResults(parse[s].message, parse[s].number)
<1>1. parse[s].stage = "rules" /\ parse[s].message \in Messages /\ parse[s].number \in Nat
  BY NoParseNoMessage, ParseType DEF ApplyRules, ParserInv
<1>2. FoundSound(found, parse[s].message, parse[s].number)
  BY <1>1, RulesSound DEF ParserInv
<1>3. PICK stage \in {"llm", "store"} : parse' = [parse EXCEPT ![s] = Found(parse[s], stage, found)]
  BY DEF ApplyRules
<1>4. UNCHANGED <<ruleVars, messageVars, taskVars, breakerVars, parses, crossed, halved, faults>>
  BY DEF ApplyRules
<1>5. writer' = writer \/ (CanWrite(s) /\ writer' = s)
  BY DEF ApplyRules
<1>6. failures' \in Nat /\ open' \in BOOLEAN /\ raised' \in Nat
  BY <1>4 DEF breakerVars, ParserInv, ParserTypeOK
<1>. HIDE DEF found
<1>. QED  BY <1>1, <1>2, <1>3, <1>4, <1>5, <1>6, FoundKeeps

\* The model does not answer, or raises: the results stay as they are.
LEMMA LlmFailsKeeps ==
  ASSUME ParserInv, NEW s \in Parsers, LlmRaises(s) \/ LlmQuiet(s)
  PROVE  ParserInv'
<1>1. parse[s].stage # "none" /\ parse' = [parse EXCEPT ![s] = Found(parse[s], "store", parse[s].found)]
  BY DEF LlmRaises, LlmQuiet
<1>2. FoundSound(parse[s].found, parse[s].message, parse[s].number)
  BY DEF ParserInv, ParseSound
<1>3. UNCHANGED <<ruleVars, messageVars, taskVars, parses, crossed, halved, faults, writer>>
  BY DEF LlmRaises, LlmQuiet
<1>4. failures \in Nat /\ open \in BOOLEAN /\ raised \in Nat
  BY DEF ParserInv, ParserTypeOK
<1>5. failures' \in Nat /\ open' \in BOOLEAN /\ raised' \in Nat
  <2>1. CASE LlmRaises(s)
    <3>1. failures' = failures + 1 /\ raised' = raised + 1 /\ open' = (open \/ failures + 1 >= MaxFailures)
      BY <2>1 DEF LlmRaises, TooMany
    <3>. QED  BY <1>4, <3>1
  <2>2. CASE LlmQuiet(s)
    BY <1>4, <2>2 DEF LlmQuiet, breakerVars
  <2>. QED  BY <2>1, <2>2
<1>. QED  BY <1>1, <1>2, <1>3, <1>5, FoundKeeps

\* The model answers.
LEMMA LlmAnswersKeeps ==
  ASSUME ParserInv, NEW s \in Parsers, NEW code \in Values \cup {NoValue},
         NEW link \in Values \cup {NoValue}, LlmAnswers(s, code, link)
  PROVE  ParserInv'
<1>. DEFINE p == parse[s]
            type == IF code \in OtpLike THEN "OTP" ELSE "CUSTOM"
            coded == Added(p.found, LlmResult(p.message, p.number, type, code))
            found == Added(coded, LlmResult(p.message, p.number, "ACTIVATION_LINK", link))
<1>1. p.stage = "llm" /\ p.message \in Messages /\ p.number \in Nat
  BY NoParseNoMessage, ParseType DEF LlmAnswers, ParserInv
<1>2. type \in ResultTypes /\ "ACTIVATION_LINK" \in ResultTypes
  BY DEF ResultTypes
<1>3. FoundSound(p.found, p.message, p.number)
  BY DEF ParserInv, ParseSound
<1>4. FoundSound(coded, p.message, p.number)
  <2>. HIDE DEF type
  <2>. QED  BY <1>1, <1>2, <1>3, AddedSound
<1>5. FoundSound(found, p.message, p.number)
  <2>. HIDE DEF coded
  <2>. QED  BY <1>1, <1>2, <1>4, AddedSound
<1>6. parse' = [parse EXCEPT ![s] = Found(p, "store", found)]
  BY DEF LlmAnswers
<1>7. /\ UNCHANGED <<ruleVars, messageVars, taskVars, parses, crossed, halved, faults, writer>>
      /\ failures' = 0 /\ raised' = 0 /\ open' = open
  BY DEF LlmAnswers
<1>8. failures' \in Nat /\ open' \in BOOLEAN /\ raised' \in Nat
  BY <1>7 DEF ParserInv, ParserTypeOK
<1>. HIDE DEF found
<1>. QED  BY <1>1, <1>5, <1>6, <1>7, <1>8, FoundKeeps

\* A step that touches neither the messages nor the parses.
LEMMA SessionsStay ==
  ASSUME ParserInv, UNCHANGED <<messageVars, parse, writer, parses, crossed, halved>>
  PROVE  /\ \A s \in Parsers : (ParseSound(parse[s]) /\ (parse[s].stage # "none" => ParseHolds(s, parse[s])))'
         /\ \A e \in Messages : RowsHold(e)'
BY DEF messageVars, ParserInv, ParseHolds, RowsHold

\* A rule that changes its place, or is switched on or off, is one of finitely many.
LEMMA ChangeRuleKeeps ==
  ASSUME ParserInv, NEW r \in Rules, NEW on \in BOOLEAN, NEW p \in Priorities, ChangeRule(r, on, p)
  PROVE  ParserInv'
<1>1. IsFiniteSet(active')
  <2>1. IsFiniteSet(active \cup {r}) /\ IsFiniteSet(active \ {r})
    BY FS_AddElement, FS_RemoveElement DEF ParserInv
  <2>. QED  BY <2>1 DEF ChangeRule
<1>2. active' \subseteq Rules /\ priority' \in [Rules -> Priorities]
  BY DEF ChangeRule, ParserInv, ParserTypeOK
<1>3. UNCHANGED <<messageVars, taskVars, breakerVars, parse, writer, parses, crossed, halved, faults>>
  BY DEF ChangeRule
<1>4. ParserTypeOK'
  BY <1>2, <1>3 DEF messageVars, taskVars, breakerVars, ParserInv, ParserTypeOK
<1>5. \A t \in Applicants : TaskHolds(t)'
  BY <1>3 DEF messageVars, taskVars, ParserInv, TaskHolds
<1>. QED  BY <1>1, <1>3, <1>4, <1>5, SessionsStay DEF ParserInv

\* A task that is created has no result.
LEMMA CreateApplicantKeeps ==
  ASSUME ParserInv, NEW t \in Applicants, CreateApplicant(t)
  PROVE  ParserInv'
<1>. DEFINE waiting == [state |-> "WAITING_EMAIL", result |-> NoValue]
<1>1. UNCHANGED <<ruleVars, messageVars, breakerVars, parse, writer, parses, crossed, halved, faults>>
  BY DEF CreateApplicant
<1>2. task' = [task EXCEPT ![t] = waiting] /\ now' = now + 1 /\ created' = [created EXCEPT ![t] = now + 1]
  BY DEF CreateApplicant
<1>3. waiting.result = NoValue /\ waiting.state # "NONE"
      /\ waiting \in [state : {"NONE", "WAITING_EMAIL", "EMAIL_RECEIVED", "COMPLETED"},
                      result : ResultRows \cup {NoValue}]
  OBVIOUS
<1>. HIDE DEF waiting
<1>4. now' \in Nat /\ created' \in [Applicants -> Nat]
  BY <1>2 DEF ParserInv, ParserTypeOK
<1>5. task' \in [Applicants -> [state : {"NONE", "WAITING_EMAIL", "EMAIL_RECEIVED", "COMPLETED"},
                                result : ResultRows \cup {NoValue}]]
  BY <1>2, <1>3 DEF ParserInv, ParserTypeOK
<1>6. ParserTypeOK' /\ IsFiniteSet(active)'
  BY <1>1, <1>4, <1>5 DEF ruleVars, messageVars, breakerVars, ParserInv, ParserTypeOK
<1>7. ASSUME NEW u \in Applicants
      PROVE  TaskHolds(u)'
  <2>1. CASE u = t
    <3>1. task'[t].result = NoValue
      BY <1>2, <1>3 DEF ParserInv, ParserTypeOK
    <3>. QED  BY <2>1, <3>1 DEF TaskHolds
  <2>2. CASE u # t
    <3>1. task'[u] = task[u] /\ created'[u] = created[u]
      BY <1>2, <2>2 DEF ParserInv, ParserTypeOK
    <3>. QED  BY <1>1, <3>1 DEF messageVars, ParserInv, TaskHolds
  <2>. QED  BY <2>1, <2>2
<1>. QED  BY <1>1, <1>6, <1>7, SessionsStay DEF ParserInv

\* The fields of a parse that begins.
LEMMA ParseBegins ==
  ASSUME NEW e \in Messages, NEW n \in Nat, NEW by \in {"none", "ingest", "job", "api"}, NEW old \in SUBSET ResultRows,
         \A x \in old : x.parse < n
  PROVE  /\ Parse("rules", e, n, by, old, <<>>) \in ParseRecords
         /\ ParseSound(Parse("rules", e, n, by, old, <<>>))
<1>. DEFINE q == Parse("rules", e, n, by, old, <<>>)
<1>1. <<>> \in Seq(ResultRows) /\ FoundSound(<<>>, e, n)
  BY DEF FoundSound
<1>2. q \in ParseRecords
  BY <1>1, ParseTyped
<1>3. q.stage = "rules" /\ q.message = e /\ q.number = n /\ q.old = old /\ q.found = <<>>
  BY DEF Parse
<1>. HIDE DEF q
<1>4. ParseSound(q)
  BY <1>1, <1>3 DEF ParseSound
<1>. QED  BY <1>2, <1>4 DEF q

\* A new message is inserted and its parse begins.
LEMMA IngestNewKeeps ==
  ASSUME ParserInv, NEW s \in Parsers, NEW e \in Messages, NEW time \in 0..now, IngestNew(s, e, time)
  PROVE  ParserInv'
<1>. DEFINE q == Parse("rules", e, parses[e] + 1, "ingest", {}, <<>>)
<1>1. /\ UNCHANGED <<active, priority, status, category, results, task, created, now,
                     failures, open, raised, crossed, halved, faults>>
      /\ writer = NoValue /\ writer' = s /\ status[e] = "NONE" /\ parse[s] = NoParse
  BY DEF IngestNew, ruleVars, taskVars, breakerVars
<1>2. /\ received' = [received EXCEPT ![e] = time] /\ parses' = [parses EXCEPT ![e] = parses[e] + 1]
      /\ parse' = [parse EXCEPT ![s] = q]
  BY DEF IngestNew
<1>3. received' \in [Messages -> Nat] /\ parses' \in [Messages -> Nat] /\ parses \in [Messages -> Nat]
  <2>1. time \in Nat
    BY DEF ParserInv, ParserTypeOK
  <2>. QED  BY <1>2, <2>1 DEF ParserInv, ParserTypeOK
<1>4. q \in ParseRecords /\ ParseSound(q)
  <2>1. parses[e] + 1 \in Nat /\ "ingest" \in {"none", "ingest", "job", "api"} /\ {} \in SUBSET ResultRows
    BY <1>3
  <2>. HIDE DEF q
  <2>2. \A x \in {} : x.parse < parses[e] + 1
    OBVIOUS
  <2>. QED  BY <2>1, <2>2, ParseBegins DEF q
<1>5. /\ q.stage = "rules" /\ q.message = e /\ q.number = parses[e] + 1 /\ q.by = "ingest" /\ q.old = {}
  BY DEF Parse
<1>. HIDE DEF q
<1>6. parse' = [o \in Parsers |-> IF o = s THEN q ELSE parse[o]] /\ parse' \in [Parsers -> ParseRecords]
  BY <1>2, <1>4 DEF ParserInv, ParserTypeOK, ParseRecords
<1>7. ParserTypeOK' /\ IsFiniteSet(active)'
  BY <1>1, <1>3, <1>6 DEF ParserInv, ParserTypeOK, ParseRecords
<1>8. \A x \in Messages : parses[x] <= parses'[x] /\ (x # e => parses'[x] = parses[x])
  BY <1>2, <1>3
<1>9. ASSUME NEW o \in Parsers
      PROVE  parse[o].message # e
  <2>1. CASE parse[o].stage = "none"
    <3>1. parse[o].message \notin Messages
      BY <2>1, NoParseNoMessage
    <3>. QED  BY <3>1
  <2>2. CASE parse[o].stage # "none"
    <3>1. ParseHolds(o, parse[o])
      BY <2>2 DEF ParserInv
    <3>2. parse[o].by # "ingest"
      <4>. o # NoValue
        BY ParserAssumption
      <4>. QED  BY <1>1, <3>1 DEF ParseHolds
    <3>. QED  BY <1>1, <3>1, <3>2 DEF ParseHolds
  <2>. QED  BY <2>1, <2>2
<1>10. ASSUME NEW o \in Parsers
       PROVE  (ParseSound(parse[o]) /\ (parse[o].stage # "none" => ParseHolds(o, parse[o])))'
  <2>1. CASE o = s
    <3>1. results[e] = {}
      BY <1>1 DEF ParserInv, RowsHold
    <3>2. parse'[o] = q /\ parses'[e] = parses[e] + 1 /\ parses'[e] \in Nat
      BY <1>2, <1>3, <1>6, <2>1
    <3>3. \A u \in Parsers : parse'[u].message = e => u = s
      BY <1>6, <1>9
    <3>4. ParseHolds(o, parse[o])'
      <4>1. /\ parse'[o].stage = "rules" /\ parse'[o].message = e /\ parse'[o].number = parses'[e]
            /\ parse'[o].by = "ingest" /\ parse'[o].old = results'[e]
        BY <1>1, <1>5, <3>1, <3>2
      <4>2. writer' = o /\ status'[e] = "NONE" /\ results'[e] = {}
        BY <1>1, <2>1, <3>1
      <4>. QED  BY <2>1, <3>2, <3>3, <4>1, <4>2 DEF ParseHolds
    <3>. QED  BY <1>4, <3>2, <3>4
  <2>2. CASE o # s
    <3>1. parse'[o] = parse[o] /\ ParseSound(parse[o])
      BY <1>6, <2>2 DEF ParserInv
    <3>2. ASSUME parse[o].stage # "none"
          PROVE  ParseHolds(o, parse[o])'
      <4>1. ParseHolds(o, parse[o]) /\ parse[o].message \in Messages /\ parse[o].message # e
        BY <1>9, <3>2, NoParseNoMessage DEF ParserInv
      <4>2. parse[o].by # "ingest"
        <5>. o # NoValue
          BY ParserAssumption
        <5>. QED  BY <1>1, <4>1 DEF ParseHolds
      <4>3. parses'[parse[o].message] = parses[parse[o].message]
        BY <1>8, <4>1
      <4>4. \A u \in Parsers : parse'[u].message = parse[o].message => parse[u].message = parse[o].message
        BY <1>5, <1>6, <4>1
      <4>. QED  BY <1>1, <3>1, <4>1, <4>2, <4>3, <4>4 DEF ParseHolds
    <3>. QED  BY <3>1, <3>2
  <2>. QED  BY <2>1, <2>2
<1>11. ASSUME NEW x \in Messages
       PROVE  RowsHold(x)'
  <2>1. RowsHold(x) /\ \A y \in results[x] : y.parse \in Nat
    BY DEF ParserInv, ParserTypeOK, ResultRows
  <2>2. parses[x] \in Nat /\ parses'[x] \in Nat /\ parses[x] <= parses'[x]
    BY <1>3, <1>8
  <2>. QED  BY <1>1, <2>1, <2>2 DEF RowsHold
<1>12. ASSUME NEW t \in Applicants
       PROVE  TaskHolds(t)'
  <2>. DEFINE x == task[t].result
  <2>1. TaskHolds(t) /\ x \in ResultRows \cup {NoValue}
    BY DEF ParserInv, ParserTypeOK
  <2>2. CASE x = NoValue
    BY <1>1, <2>1, <2>2 DEF TaskHolds
  <2>3. CASE x # NoValue
    <3>1. x.message \in Messages /\ x.parse \in Nat /\ x.message # e
      BY <1>1, <2>1, <2>3 DEF ResultRows, TaskHolds
    <3>2. received'[x.message] = received[x.message] /\ parses'[x.message] = parses[x.message]
      BY <1>2, <1>3, <1>8, <3>1 DEF ParserInv, ParserTypeOK
    <3>. QED  BY <1>1, <2>1, <3>2 DEF TaskHolds
  <2>. QED  BY <2>2, <2>3
<1>. QED  BY <1>7, <1>10, <1>11, <1>12 DEF ParserInv

\* A stored message is parsed once more.
LEMMA ParseAgainKeeps ==
  ASSUME ParserInv, NEW s \in Parsers, NEW e \in Messages, NEW by \in {"job", "api"},
         ParseAgain(s, e, by)
  PROVE  ParserInv'
<1>. DEFINE q == Parse("rules", e, parses[e] + 1, by, results[e], <<>>)
<1>1. /\ UNCHANGED <<active, priority, status, category, received, results, task, created, now,
                     failures, open, raised, writer, halved, faults>>
      /\ status[e] # "NONE" /\ parse[s] = NoParse
  BY DEF ParseAgain, ruleVars, messageVars, taskVars, breakerVars
<1>2. /\ parses' = [parses EXCEPT ![e] = parses[e] + 1]
      /\ parse' = [parse EXCEPT ![s] = q]
      /\ crossed' = IF \E o \in Parsers : parse[o].message = e THEN crossed \cup {e} ELSE crossed
  BY DEF ParseAgain
<1>3. /\ parses' \in [Messages -> Nat] /\ parses \in [Messages -> Nat]
      /\ results[e] \in SUBSET ResultRows /\ RowsHold(e)
  BY <1>2 DEF ParserInv, ParserTypeOK
<1>4. q \in ParseRecords /\ ParseSound(q)
  <2>1. parses[e] + 1 \in Nat /\ by \in {"none", "ingest", "job", "api"}
    BY <1>3
  <2>2. \A x \in results[e] : x.parse < parses[e] + 1
    BY <1>3 DEF RowsHold, ResultRows
  <2>. HIDE DEF q
  <2>. QED  BY <1>3, <2>1, <2>2, ParseBegins DEF q
<1>5. /\ q.stage = "rules" /\ q.message = e /\ q.number = parses[e] + 1 /\ q.by = by
      /\ q.old = results[e]
  BY DEF Parse
<1>. HIDE DEF q
<1>6. parse' = [o \in Parsers |-> IF o = s THEN q ELSE parse[o]] /\ parse' \in [Parsers -> ParseRecords]
  BY <1>2, <1>4 DEF ParserInv, ParserTypeOK, ParseRecords
<1>7. ParserTypeOK' /\ IsFiniteSet(active)'
  <2>1. crossed' \subseteq Messages
    BY <1>2 DEF ParserInv, ParserTypeOK
  <2>. QED  BY <1>1, <1>3, <1>6, <2>1 DEF ParserInv, ParserTypeOK, ParseRecords
<1>8. \A x \in Messages : /\ parses[x] \in Nat /\ parses'[x] \in Nat /\ parses[x] <= parses'[x]
                          /\ x # e => parses'[x] = parses[x]
  BY <1>2, <1>3
<1>9. /\ crossed \subseteq crossed'
      /\ \A o \in Parsers : parse[o].message = e => e \in crossed'
  BY <1>2
<1>10. ASSUME NEW o \in Parsers
       PROVE  (ParseSound(parse[o]) /\ (parse[o].stage # "none" => ParseHolds(o, parse[o])))'
  <2>1. CASE o = s
    <3>1. parse'[o] = q /\ parses'[e] = parses[e] + 1 /\ parses'[e] \in Nat
      BY <1>2, <1>3, <1>6, <2>1
    <3>2. e \notin crossed' => \A u \in Parsers : parse'[u].message = e => u = s
      BY <1>6, <1>9
    <3>3. ParseHolds(o, parse[o])'
      <4>1. /\ parse'[o].message = e /\ parse'[o].number = parses'[e]
            /\ parse'[o].by = by /\ parse'[o].old = results'[e]
        BY <1>1, <1>5, <3>1
      <4>. QED  BY <1>1, <2>1, <3>1, <3>2, <4>1 DEF ParseHolds
    <3>. QED  BY <1>4, <3>1, <3>3
  <2>2. CASE o # s
    <3>1. parse'[o] = parse[o] /\ ParseSound(parse[o])
      BY <1>6, <2>2 DEF ParserInv
    <3>2. ASSUME parse[o].stage # "none"
          PROVE  ParseHolds(o, parse[o])'
      <4>. DEFINE p == parse[o]
                  m == p.message
      <4>1. ParseHolds(o, p) /\ m \in Messages /\ p.number \in Nat
        BY <3>2, NoParseNoMessage, ParseType DEF ParserInv
      <4>2. p.number <= parses'[m]
        BY <1>8, <4>1 DEF ParseHolds
      <4>3. IF p.by = "ingest" THEN writer' = o /\ status'[m] = "NONE" /\ p.old = {} ELSE status'[m] # "NONE"
        BY <1>1, <4>1 DEF ParseHolds
      <4>4. ASSUME m \notin crossed'
            PROVE  p.old = results'[m] /\ \A u \in Parsers : parse'[u].message = m => u = o
        <5>1. m \notin crossed /\ m # e
          BY <1>9, <4>4
        <5>2. \A u \in Parsers : parse'[u].message = m => parse[u].message = m
          BY <1>5, <1>6, <5>1
        <5>. QED  BY <1>1, <4>1, <5>1, <5>2 DEF ParseHolds
      <4>. HIDE DEF m
      <4>5. ParseHolds(o, p)'
        BY <3>1, <4>2, <4>3, <4>4 DEF ParseHolds, m
      <4>. QED  BY <4>5
    <3>. QED  BY <3>1, <3>2
  <2>. QED  BY <2>1, <2>2
<1>11. ASSUME NEW x \in Messages
       PROVE  RowsHold(x)'
  <2>1. RowsHold(x) /\ \A y \in results[x] : y.parse \in Nat
    BY DEF ParserInv, ParserTypeOK, ResultRows
  <2>2. parses[x] \in Nat /\ parses'[x] \in Nat /\ parses[x] <= parses'[x]
    BY <1>8
  <2>. QED  BY <1>1, <1>9, <2>1, <2>2 DEF RowsHold
<1>12. ASSUME NEW t \in Applicants
       PROVE  TaskHolds(t)'
  <2>. DEFINE x == task[t].result
  <2>1. TaskHolds(t) /\ x \in ResultRows \cup {NoValue}
    BY DEF ParserInv, ParserTypeOK
  <2>2. CASE x = NoValue
    BY <1>1, <2>1, <2>2 DEF TaskHolds
  <2>3. CASE x # NoValue
    <3>1. x.message \in Messages /\ x.parse \in Nat
      BY <2>1, <2>3 DEF ResultRows
    <3>2. parses[x.message] > x.parse => parses'[x.message] > x.parse
      BY <1>8, <3>1
    <3>. QED  BY <1>1, <2>1, <3>2 DEF TaskHolds
  <2>. QED  BY <2>2, <2>3
<1>. QED  BY <1>7, <1>10, <1>11, <1>12 DEF ParserInv

\* A session ends without a trace.
LEMMA ParseAbortsKeeps ==
  ASSUME ParserInv, NEW s \in Parsers, ParseAborts(s)
  PROVE  ParserInv'
<1>1. /\ UNCHANGED <<active, priority, status, category, received, results, task, created, now,
                     failures, open, raised, parses, crossed, halved>>
      /\ faults' = faults + 1 /\ parse' = [parse EXCEPT ![s] = NoParse]
      /\ writer' = IF writer = s THEN NoValue ELSE writer
  BY DEF ParseAborts, ruleVars, messageVars, taskVars, breakerVars
<1>2. parse' = [o \in Parsers |-> IF o = s THEN NoParse ELSE parse[o]] /\ parse' \in [Parsers -> ParseRecords]
  BY <1>1, NoParseSound DEF ParserInv, ParserTypeOK, ParseRecords
<1>3. writer' \in Parsers \cup {NoValue} /\ faults' \in Nat
  BY <1>1 DEF ParserInv, ParserTypeOK
<1>4. ParserTypeOK' /\ IsFiniteSet(active)'
  BY <1>1, <1>2, <1>3 DEF ParserInv, ParserTypeOK, ParseRecords
<1>5. ASSUME NEW o \in Parsers
      PROVE  (ParseSound(parse[o]) /\ (parse[o].stage # "none" => ParseHolds(o, parse[o])))'
  <2>1. CASE o = s
    BY <1>2, <2>1, NoParseSound, ParseFields
  <2>2. CASE o # s
    <3>1. parse'[o] = parse[o] /\ ParseSound(parse[o])
      BY <1>2, <2>2 DEF ParserInv
    <3>2. ASSUME parse[o].stage # "none"
          PROVE  ParseHolds(o, parse[o])'
      <4>1. ParseHolds(o, parse[o]) /\ parse[o].message \in Messages
        BY <3>2, NoParseNoMessage DEF ParserInv
      <4>2. \A u \in Parsers : parse'[u].message = parse[o].message => parse[u].message = parse[o].message
        <5>1. NoParse.message \notin Messages
          <6>1. NoParse.message = NoValue
            BY DEF NoParse, Parse
          <6>. QED  BY <6>1, ParserAssumption
        <5>. QED  BY <1>2, <4>1, <5>1
      <4>3. writer = o => writer' = o
        BY <1>1, <2>2
      <4>. QED  BY <1>1, <3>1, <4>1, <4>2, <4>3 DEF ParseHolds
    <3>. QED  BY <3>1, <3>2
  <2>. QED  BY <2>1, <2>2
<1>6. \A x \in Messages : RowsHold(x)'
  BY <1>1 DEF ParserInv, RowsHold
<1>7. \A t \in Applicants : TaskHolds(t)'
  BY <1>1 DEF ParserInv, TaskHolds
<1>. QED  BY <1>4, <1>5, <1>6, <1>7 DEF ParserInv

\* The rows of a parse, stored with their outcome, are what ResultsOfOneParse asks for.
LEMMA StoredIsOneParse ==
  ASSUME NEW found, NEW e, NEW n, FoundSound(found, e, n)
  PROVE  /\ Stored(found) \in SUBSET ResultRows
         /\ \A x \in Stored(found) : x.message = e /\ x.parse = n
         /\ OneParse(Stored(found)) /\ Tells(Outcome(found), CategoryOf(found), Stored(found))
         /\ found # <<>> => found[1] \in Stored(found)
<1>1. found \in Seq(ResultRows) /\ DOMAIN found = 1..Len(found) /\ Len(found) \in Nat
  BY LenProperties DEF FoundSound
<1>2. Stored(found) = {found[i] : i \in 1..Len(found)} /\ Range(found) = Stored(found)
  BY <1>1 DEF Stored, Range
<1>3. \A x \in Stored(found) : \E i \in 1..Len(found) : x = found[i]
  BY <1>2
<1>4. Stored(found) \in SUBSET ResultRows /\ \A x \in Stored(found) : x.message = e /\ x.parse = n
  BY <1>1, <1>3 DEF FoundSound
<1>5. ASSUME found # <<>>
      PROVE  found[1] \in Stored(found)
  <2>1. 1 \in 1..Len(found)
    BY <1>1, <1>5, EmptySeq
  <2>. QED  BY <1>2, <2>1
<1>6. found = <<>> => Stored(found) = {}
  BY <1>2
<1>7. ASSUME NEW x \in Stored(found), NEW y \in Stored(found)
      PROVE  x.parse = y.parse /\ (x.value = y.value /\ x.rule = NoValue => x = y)
  <2>1. PICK i \in 1..Len(found) : x = found[i]
    BY <1>3
  <2>2. PICK j \in 1..Len(found) : y = found[j]
    BY <1>3
  <2>. QED  BY <2>1, <2>2 DEF FoundSound
<1>8. (Outcome(found) = "PARSED") = (Stored(found) # {})
  BY <1>5, <1>6 DEF Outcome
<1>9. (CategoryOf(found) = "verification") =
        (\E x \in Stored(found) : x.type \in {"OTP", "ACTIVATION_LINK"})
  <2>1. (Types(Stored(found)) \cap {"OTP", "ACTIVATION_LINK"} # {}) =
          (\E x \in Stored(found) : x.type \in {"OTP", "ACTIVATION_LINK"})
    BY DEF Types
  <2>2. (CategoryFor(Types(Stored(found))) = "verification") =
          (Types(Stored(found)) \cap {"OTP", "ACTIVATION_LINK"} # {})
    BY DEF CategoryFor
  <2>. QED  BY <1>2, <2>1, <2>2 DEF CategoryOf
<1>. QED  BY <1>4, <1>5, <1>7, <1>8, <1>9 DEF OneParse, Tells

\* The results of a parse are stored and its message is matched with tasks.
LEMMA StoreResultsKeeps ==
  ASSUME ParserInv, NEW s \in Parsers, parse[s].stage # "none",
         NEW outcome \in {"PARSED", "NO_MATCH", "PARSE_FAILED"},
         NEW kind \in {"verification", "security", "link", "normal"},
         StoreResults(s, outcome, kind),
         NEW chosen, NEW given, given = <<>> \/ given = parse[s].found, MatchMail(chosen, given),
         halved' \subseteq Messages, \A m \in halved : m \in halved' \/ m = parse[s].message,
         parse[s].message \in halved'
           \/ (outcome = Outcome(parse[s].found) /\ kind = CategoryOf(parse[s].found)),
         failures' \in Nat, raised' \in Nat, open' \in BOOLEAN, faults' \in Nat
  PROVE  ParserInv'
<1>. DEFINE p == parse[s]
            e == p.message
            rows == Remaining(p) \cup Stored(p.found)
<1>1. /\ UNCHANGED <<active, priority, received, created, now, parses, crossed>>
      /\ CanWrite(s) /\ writer' = NoValue
      /\ parse' = [parse EXCEPT ![s] = NoParse]
      /\ results' = [results EXCEPT ![e] = rows] /\ status' = [status EXCEPT ![e] = outcome]
      /\ category' = [category EXCEPT ![e] = kind]
      /\ MatchMail(chosen, given) /\ (given = <<>> \/ given = p.found)
      /\ halved' \subseteq Messages /\ (\A m \in halved : m \in halved' \/ m = e)
      /\ e \in halved' \/ (outcome = Outcome(p.found) /\ kind = CategoryOf(p.found))
  BY DEF StoreResults, ruleVars
<1>2. /\ e \in Messages /\ p.number \in Nat /\ p.old \in SUBSET ResultRows
      /\ ParseSound(p) /\ ParseHolds(s, p) /\ FoundSound(p.found, e, p.number)
  BY NoParseNoMessage, ParseType DEF ParserInv, ParseSound
<1>3. /\ Stored(p.found) \in SUBSET ResultRows
      /\ \A x \in Stored(p.found) : x.message = e /\ x.parse = p.number
      /\ OneParse(Stored(p.found)) /\ Tells(Outcome(p.found), CategoryOf(p.found), Stored(p.found))
      /\ p.found # <<>> => p.found[1] \in Stored(p.found)
  <2>. HIDE DEF p, e
  <2>. QED  BY <1>2, StoredIsOneParse DEF p, e
<1>4. /\ results[e] \in SUBSET ResultRows /\ parses[e] \in Nat /\ RowsHold(e)
      /\ results \in [Messages -> SUBSET ResultRows] /\ status \in [Messages -> {"NONE", "PARSED", "NO_MATCH", "PARSE_FAILED"}]
      /\ category \in [Messages -> {"verification", "security", "link", "normal"}]
      /\ parses \in [Messages -> Nat]
  BY <1>2 DEF ParserInv, ParserTypeOK
<1>6. rows \in SUBSET ResultRows
  BY <1>3, <1>4 DEF Remaining
<1>. HIDE DEF p, e, rows
<1>7. /\ \A m \in Messages : results'[m] = IF m = e THEN rows ELSE results[m]
      /\ \A m \in Messages : status'[m] = IF m = e THEN outcome ELSE status[m]
      /\ \A m \in Messages : category'[m] = IF m = e THEN kind ELSE category[m]
  BY <1>1, <1>4
<1>8. /\ results' \in [Messages -> SUBSET ResultRows]
      /\ status' \in [Messages -> {"NONE", "PARSED", "NO_MATCH", "PARSE_FAILED"}]
      /\ category' \in [Messages -> {"verification", "security", "link", "normal"}]
  BY <1>1, <1>4, <1>6
<1>9. parse' = [o \in Parsers |-> IF o = s THEN NoParse ELSE parse[o]] /\ parse' \in [Parsers -> ParseRecords]
  BY <1>1, NoParseSound DEF ParserInv, ParserTypeOK, ParseRecords
<1>10. p.number <= parses[e] /\ \A x \in results[e] : x \in p.old => x.parse < p.number
  BY <1>2 DEF ParseSound, ParseHolds, e
<1>11. \A t \in Applicants :
         /\ t \notin chosen => task'[t] = task[t]
         /\ t \in chosen =>
              /\ task'[t].state # "NONE"
              /\ \/ task'[t].result = NoValue /\ task'[t] = [state |-> "EMAIL_RECEIVED", result |-> NoValue]
                 \/ /\ task'[t].result = p.found[1] /\ p.found[1] \in Stored(p.found)
                    /\ task'[t] = [state |-> "COMPLETED", result |-> p.found[1]]
  <2>1. ASSUME NEW t \in Applicants, t \notin chosen
        PROVE  task'[t] = task[t]
    BY <1>1, <2>1 DEF MatchMail
  <2>2. ASSUME NEW t \in Applicants, t \in chosen
        PROVE  /\ task'[t].state # "NONE"
               /\ \/ task'[t].result = NoValue /\ task'[t] = [state |-> "EMAIL_RECEIVED", result |-> NoValue]
                  \/ /\ task'[t].result = p.found[1] /\ p.found[1] \in Stored(p.found)
                     /\ task'[t] = [state |-> "COMPLETED", result |-> p.found[1]]
    <3>1. task'[t] = IF given = <<>> THEN [state |-> "EMAIL_RECEIVED", result |-> NoValue]
                     ELSE [state |-> "COMPLETED", result |-> given[1]]
      BY <1>1, <2>2 DEF MatchMail
    <3>2. CASE given = <<>>
      <4>1. task'[t] = [state |-> "EMAIL_RECEIVED", result |-> NoValue]
        BY <3>1, <3>2
      <4>. QED  BY <4>1
    <3>3. CASE given # <<>>
      <4>1. given = p.found /\ p.found # <<>>
        BY <1>1, <3>3
      <4>2. task'[t] = [state |-> "COMPLETED", result |-> p.found[1]] /\ p.found[1] \in Stored(p.found)
        BY <1>3, <3>1, <4>1
      <4>. QED  BY <4>2
    <3>. QED  BY <3>2, <3>3
  <2>. QED  BY <2>1, <2>2
<1>12. task' \in [Applicants -> [state : {"NONE", "WAITING_EMAIL", "EMAIL_RECEIVED", "COMPLETED"},
                                 result : ResultRows \cup {NoValue}]]
  <2>1. task' = [t \in Applicants |-> task'[t]]
    BY <1>1 DEF MatchMail
  <2>2. ASSUME NEW t \in Applicants
        PROVE  task'[t] \in [state : {"NONE", "WAITING_EMAIL", "EMAIL_RECEIVED", "COMPLETED"},
                             result : ResultRows \cup {NoValue}]
    <3>1. CASE t \notin chosen
      BY <1>11, <3>1 DEF ParserInv, ParserTypeOK
    <3>2. CASE task'[t] = [state |-> "EMAIL_RECEIVED", result |-> NoValue]
      BY <3>2
    <3>3. CASE task'[t] = [state |-> "COMPLETED", result |-> p.found[1]] /\ p.found[1] \in Stored(p.found)
      <4>1. p.found[1] \in ResultRows
        BY <1>3, <3>3
      <4>. QED  BY <3>3, <4>1
    <3>. QED  BY <1>11, <3>1, <3>2, <3>3
  <2>. QED  BY <2>1, <2>2
<1>13. ParserTypeOK' /\ IsFiniteSet(active)'
  BY <1>1, <1>8, <1>9, <1>12 DEF ParserInv, ParserTypeOK, ParseRecords
<1>14. ASSUME NEW o \in Parsers
       PROVE  (ParseSound(parse[o]) /\ (parse[o].stage # "none" => ParseHolds(o, parse[o])))'
  <2>1. CASE o = s
    BY <1>9, <2>1, NoParseSound, ParseFields
  <2>2. CASE o # s
    <3>. DEFINE q == parse[o]
                m == q.message
    <3>1. parse'[o] = q /\ ParseSound(q)
      BY <1>9, <2>2 DEF ParserInv
    <3>2. ASSUME q.stage # "none"
          PROVE  ParseHolds(o, q)'
      <4>1. ParseHolds(o, q) /\ m \in Messages
        BY <3>2, NoParseNoMessage DEF ParserInv
      <4>2. q.by # "ingest"
        BY <1>1, <2>2, <3>2, NewHasLock
      <4>3. status'[m] # "NONE"
        BY <1>7, <4>1, <4>2 DEF ParseHolds
      <4>4. ASSUME m \notin crossed
            PROVE  q.old = results'[m] /\ \A u \in Parsers : parse'[u].message = m => u = o
        <5>1. m # e
          BY <2>2, <4>1, <4>4 DEF ParseHolds, e, p
        <5>2. NoParse.message # m
          <6>1. NoParse.message = NoValue
            BY DEF NoParse, Parse
          <6>. QED  BY <4>1, <6>1, ParserAssumption
        <5>. QED  BY <1>7, <1>9, <4>1, <4>4, <5>1, <5>2 DEF ParseHolds
      <4>5. q.number <= parses'[m]
        BY <1>1, <4>1 DEF ParseHolds
      <4>. HIDE DEF m
      <4>. QED  BY <1>1, <3>1, <4>2, <4>3, <4>4, <4>5 DEF ParseHolds, m
    <3>. QED  BY <3>1, <3>2
  <2>. QED  BY <2>1, <2>2
<1>15. ASSUME NEW m \in Messages
       PROVE  RowsHold(m)'
  <2>1. RowsHold(m)
    BY DEF ParserInv
  <2>2. CASE m # e
    BY <1>1, <1>7, <2>1, <2>2 DEF RowsHold
  <2>3. CASE m = e
    <3>1. results'[m] = rows /\ status'[m] = outcome /\ category'[m] = kind
      BY <1>7, <2>3
    <3>2. \A x \in rows : x \in results[e] \/ x \in Stored(p.found)
      BY DEF rows, Remaining, e, p
    <3>3. \A x \in rows : x.message = m /\ x.parse <= parses[m]
      BY <1>3, <1>4, <1>10, <2>3, <3>2 DEF RowsHold
    <3>4. ASSUME m \notin crossed
          PROVE  OneParse(rows) /\ (m \notin halved' => Tells(outcome, kind, rows))
      <4>1. p.old = results[e]
        BY <1>2, <2>3, <3>4 DEF ParseHolds, e
      <4>2. rows = Stored(p.found)
        BY <4>1 DEF rows, Remaining, e
      <4>3. m \notin halved' => outcome = Outcome(p.found) /\ kind = CategoryOf(p.found)
        BY <1>1, <2>3
      <4>. QED  BY <1>3, <4>2, <4>3
    <3>. QED  BY <1>1, <3>1, <3>3, <3>4 DEF RowsHold
  <2>. QED  BY <2>2, <2>3
<1>16. ASSUME NEW t \in Applicants
       PROVE  TaskHolds(t)'
  <2>1. TaskHolds(t) /\ task[t].result \in ResultRows \cup {NoValue}
    BY DEF ParserInv, ParserTypeOK
  <2>2. CASE t \notin chosen
    <3>. DEFINE x == task[t].result
    <3>1. task'[t] = task[t]
      BY <1>11, <2>2
    <3>2. ASSUME x # NoValue
          PROVE  status'[x.message] # "NONE" /\ (x \in results'[x.message] \/ parses[x.message] > x.parse)
      <4>1. x.message \in Messages /\ x.parse \in Nat
        BY <2>1, <3>2 DEF ResultRows
      <4>2. status'[x.message] # "NONE"
        BY <1>7, <2>1, <3>2, <4>1 DEF TaskHolds
      <4>3. CASE x \in results[x.message] /\ x.message = e
        <5>1. CASE x \in p.old
          BY <1>2, <1>4, <1>10, <4>1, <4>2, <4>3, <5>1
        <5>2. CASE x \notin p.old
          BY <1>7, <4>1, <4>2, <4>3, <5>2 DEF rows, Remaining, e
        <5>. QED  BY <5>1, <5>2
      <4>4. CASE x \in results[x.message] /\ x.message # e
        BY <1>7, <4>1, <4>2, <4>4
      <4>5. CASE parses[x.message] > x.parse
        BY <4>2, <4>5
      <4>6. x \in results[x.message] \/ parses[x.message] > x.parse
        BY <2>1, <3>2 DEF TaskHolds
      <4>. QED  BY <4>2, <4>3, <4>4, <4>5, <4>6
    <3>. QED  BY <1>1, <2>1, <3>1, <3>2 DEF TaskHolds
  <2>3. CASE t \in chosen
    <3>. DEFINE x == task'[t].result
    <3>1. task'[t].state # "NONE"
      BY <1>11, <2>3
    <3>2. ASSUME x # NoValue
          PROVE  x.message = e /\ x \in results'[e] /\ status'[e] # "NONE"
      <4>1. x \in Stored(p.found)
        BY <1>11, <2>3, <3>2
      <4>. QED  BY <1>2, <1>3, <1>7, <4>1 DEF rows
    <3>. HIDE DEF x
    <3>. QED  BY <1>1, <3>1, <3>2 DEF TaskHolds, x
  <2>. QED  BY <2>2, <2>3
<1>. QED  BY <1>13, <1>14, <1>15, <1>16 DEF ParserInv

\* The outcome of a parse is a status, and its category one.
LEMMA OutcomeType ==
  ASSUME NEW found
  PROVE  /\ Outcome(found) \in {"PARSED", "NO_MATCH", "PARSE_FAILED"}
         /\ CategoryOf(found) \in {"verification", "security", "link", "normal"}
BY DEF Outcome, CategoryOf, CategoryFor

\* A parse comes to its end.
LEMMA ParseCommitKeeps ==
  ASSUME ParserInv, NEW s \in Parsers, NEW chosen, ParseCommit(s, chosen)
  PROVE  ParserInv'
<1>. DEFINE found == parse[s].found
<1>1. /\ parse[s].stage # "none" /\ StoreResults(s, Outcome(found), CategoryOf(found))
      /\ MatchMail(chosen, found) /\ halved' = halved \ {parse[s].message}
  BY DEF ParseCommit
<1>2. failures' \in Nat /\ raised' \in Nat /\ open' \in BOOLEAN /\ faults' \in Nat
  BY DEF ParseCommit, breakerVars, ParserInv, ParserTypeOK
<1>3. halved' \subseteq Messages /\ \A m \in halved : m \in halved' \/ m = parse[s].message
  BY <1>1 DEF ParserInv, ParserTypeOK
<1>. QED  BY <1>1, <1>2, <1>3, OutcomeType, StoreResultsKeeps

\* What a parse that fails does beside what is stored.
LEMMA FailureKeeps ==
  ASSUME ParserInv, NEW s \in Parsers, NEW by, HasFailed(s, by)
  PROVE  /\ parse[s].stage # "none" /\ parse[s].by = by
         /\ halved' \subseteq Messages /\ (\A m \in halved : m \in halved') /\ parse[s].message \in halved'
         /\ failures' \in Nat /\ raised' \in Nat /\ open' \in BOOLEAN /\ faults' \in Nat
<1>1. /\ parse[s].stage # "none" /\ parse[s].by = by
      /\ halved' = halved \cup {parse[s].message} /\ faults' = faults + 1 /\ open' = open
      /\ (failures' = 0 /\ raised' = 0) \/ UNCHANGED <<failures, raised>>
  BY DEF HasFailed
<1>2. parse[s].message \in Messages
  BY <1>1, NoParseNoMessage
<1>3. failures \in Nat /\ raised \in Nat /\ open \in BOOLEAN /\ faults \in Nat /\ halved \subseteq Messages
  BY DEF ParserInv, ParserTypeOK
<1>. QED  BY <1>1, <1>2, <1>3

\* The parse of a new message fails.
LEMMA ParseFailsKeeps ==
  ASSUME ParserInv, NEW s \in Parsers, NEW chosen, ParseFails(s, chosen)
  PROVE  ParserInv'
<1>1. /\ HasFailed(s, "ingest")
      /\ StoreResults(s, "PARSE_FAILED", CategoryOf(parse[s].found)) /\ MatchMail(chosen, <<>>)
  BY DEF ParseFails
<1>. QED  BY <1>1, FailureKeeps, OutcomeType, StoreResultsKeeps

\* The parse of a job fails: no task is touched.
LEMMA JobFailsKeeps ==
  ASSUME ParserInv, NEW s \in Parsers, JobFails(s)
  PROVE  ParserInv'
<1>. DEFINE e == parse[s].message
            found == parse[s].found
<1>1. HasFailed(s, "job") /\ UNCHANGED task
  BY DEF JobFails
<1>2. parse[s].stage # "none" /\ parse[s].by = "job" /\ e \in Messages
  BY <1>1, FailureKeeps, NoParseNoMessage
<1>3. status[e] # "NONE"
  BY <1>2 DEF ParserInv, ParseHolds
<1>4. MatchMail({}, <<>>)
  BY <1>1 DEF MatchMail, ParserInv, ParserTypeOK
<1>5. PICK outcome, kind :
        /\ StoreResults(s, outcome, kind)
        /\ \/ outcome = status[e] /\ kind = category[e]
           \/ outcome = Outcome(found) /\ kind = CategoryOf(found)
  BY DEF JobFails
<1>6. /\ status[e] \in {"PARSED", "NO_MATCH", "PARSE_FAILED"}
      /\ category[e] \in {"verification", "security", "link", "normal"}
  BY <1>2, <1>3 DEF ParserInv, ParserTypeOK
<1>7. /\ outcome \in {"PARSED", "NO_MATCH", "PARSE_FAILED"}
      /\ kind \in {"verification", "security", "link", "normal"}
  BY <1>5, <1>6, OutcomeType
<1>8. /\ halved' \subseteq Messages /\ (\A m \in halved : m \in halved') /\ e \in halved'
      /\ failures' \in Nat /\ raised' \in Nat /\ open' \in BOOLEAN /\ faults' \in Nat
  BY <1>1, FailureKeeps
<1>9. StoreResults(s, outcome, kind)
  BY <1>5
<1>. QED  BY <1>2, <1>4, <1>7, <1>8, <1>9, StoreResultsKeeps

\* The initial states satisfy the invariant.
LEMMA ParserInvInit == ParserInit => ParserInv
<1>. SUFFICES ASSUME ParserInit PROVE ParserInv
  OBVIOUS
<1>1. parse = [s \in Parsers |-> NoParse] /\ parse \in [Parsers -> ParseRecords]
  BY NoParseSound DEF ParserInit
<1>2. ParserTypeOK
  <2>1. [state |-> "NONE", result |-> NoValue] \in
          [state : {"NONE", "WAITING_EMAIL", "EMAIL_RECEIVED", "COMPLETED"}, result : ResultRows \cup {NoValue}]
    OBVIOUS
  <2>2. task \in [Applicants -> [state : {"NONE", "WAITING_EMAIL", "EMAIL_RECEIVED", "COMPLETED"},
                                 result : ResultRows \cup {NoValue}]]
    <3>. DEFINE none == [state |-> "NONE", result |-> NoValue]
    <3>1. task = [t \in Applicants |-> none]
      BY DEF ParserInit
    <3>. HIDE DEF none
    <3>. QED  BY <2>1, <3>1 DEF none
  <2>. QED  BY <1>1, <2>2 DEF ParserInit, ParserTypeOK, ParseRecords
<1>3. IsFiniteSet(active)
  BY FS_EmptySet DEF ParserInit
<1>4. \A s \in Parsers : ParseSound(parse[s]) /\ parse[s].stage = "none"
  BY <1>1, NoParseSound, ParseFields
<1>5. ASSUME NEW e \in Messages
      PROVE  RowsHold(e)
  <2>1. results[e] = {} /\ status[e] = "NONE" /\ category[e] = "normal"
    BY DEF ParserInit
  <2>. QED  BY <2>1 DEF RowsHold, OneParse, Tells
<1>6. ASSUME NEW t \in Applicants
      PROVE  TaskHolds(t)
  <2>1. task[t].result = NoValue
    BY DEF ParserInit
  <2>. QED  BY <2>1 DEF TaskHolds
<1>. QED  BY <1>2, <1>3, <1>4, <1>5, <1>6 DEF ParserInv

\* Every step preserves it.
LEMMA ParserInvKept ==
  ASSUME ParserInv, [ParserNext]_parserVars
  PROVE  ParserInv'
<1>1. CASE UNCHANGED parserVars
  <2>1. /\ UNCHANGED <<messageVars, parse, writer, parses, crossed, halved>>
        /\ UNCHANGED <<active, priority, status, category, received, results, task, created, now,
                       parse, writer, failures, open, raised, parses, crossed, halved, faults>>
    BY <1>1 DEF parserVars, ruleVars, messageVars, taskVars, breakerVars
  <2>2. ParserTypeOK' /\ IsFiniteSet(active)'
    BY <2>1 DEF ParserInv, ParserTypeOK
  <2>3. \A t \in Applicants : TaskHolds(t)'
    BY <2>1 DEF ParserInv, TaskHolds
  <2>. QED  BY <2>1, <2>2, <2>3, SessionsStay DEF ParserInv
<1>2. ASSUME NEW r \in Rules, NEW on \in BOOLEAN, NEW p \in Priorities, ChangeRule(r, on, p)
      PROVE  ParserInv'
  BY <1>2, ChangeRuleKeeps
<1>3. ASSUME NEW t \in Applicants, CreateApplicant(t)
      PROVE  ParserInv'
  BY <1>3, CreateApplicantKeeps
<1>4. ASSUME NEW s \in Parsers, ParseStep(s)
      PROVE  ParserInv'
  <2>1. CASE ApplyRules(s)
    BY <2>1, ApplyRulesKeeps
  <2>2. CASE LlmRaises(s) \/ LlmQuiet(s)
    BY <2>2, LlmFailsKeeps
  <2>3. ASSUME NEW code \in Values \cup {NoValue}, NEW link \in Values \cup {NoValue}, LlmAnswers(s, code, link)
        PROVE  ParserInv'
    BY <2>3, LlmAnswersKeeps
  <2>4. ASSUME NEW chosen \in SUBSET Applicants, ParseCommit(s, chosen)
        PROVE  ParserInv'
    BY <2>4, ParseCommitKeeps
  <2>5. ASSUME NEW chosen \in SUBSET Applicants, ParseFails(s, chosen)
        PROVE  ParserInv'
    BY <2>5, ParseFailsKeeps
  <2>6. CASE JobFails(s)
    BY <2>6, JobFailsKeeps
  <2>. QED  BY <1>4, <2>1, <2>2, <2>3, <2>4, <2>5, <2>6 DEF ParseStep
<1>5. ASSUME NEW s \in Parsers, NEW e \in Messages, NEW by \in {"job", "api"}, ParseAgain(s, e, by)
      PROVE  ParserInv'
  BY <1>5, ParseAgainKeeps
<1>6. ASSUME NEW s \in Parsers, NEW e \in Messages, NEW time \in 0..now, IngestNew(s, e, time)
      PROVE  ParserInv'
  BY <1>6, IngestNewKeeps
<1>7. ASSUME NEW s \in Parsers, ParseAborts(s)
      PROVE  ParserInv'
  BY <1>7, ParseAbortsKeeps
<1>. QED  BY <1>1, <1>2, <1>3, <1>4, <1>5, <1>6, <1>7 DEF ParserNext

\* So it holds in every state.
LEMMA ParserInvHolds == ParserSpec => []ParserInv
BY ParserInvInit, ParserInvKept, PTL DEF ParserSpec

\* Every column, and what the sessions hold, has a value of its type.
THEOREM ParserTyping == ParserSpec => []ParserTypeOK
<1>1. ParserInv => ParserTypeOK
  BY DEF ParserInv
<1>. QED  BY <1>1, ParserInvHolds, PTL

\* The loop over the rules finds what the best of the rules that match find, in their
\* order, and no more of them than the limit, however many rules there are.
THEOREM LoopFinds == ParserSpec => []BestRulesWin
<1>1. ASSUME ParserInv, NEW e \in Messages
      PROVE  LET hits == {r \in active : Hits(r, e)}
                 best == {r \in hits : Cardinality({q \in hits : Before(q, r)}) < MaxResults}
                 found == RuleResults(e, 0) IN
             /\ {found[i].rule : i \in DOMAIN found} = best
             /\ \A i, j \in DOMAIN found : i < j => Before(found[i].rule, found[j].rule)
  <2>. DEFINE found == RuleResults(e, 0)
  <2>1. FoundBest(e, 0, active, found)
    BY <1>1, LoopFindsBest DEF ParserInv, ParserTypeOK
  <2>. HIDE DEF found
  <2>2. DOMAIN found = 1..Len(found)
    BY <2>1, LenProperties DEF FoundBest
  <2>. QED  BY <2>1, <2>2 DEF FoundBest, Best, Matching, found
<1>2. ParserInv => BestRulesWin
  BY <1>1 DEF BestRulesWin
<1>. QED  BY <1>2, ParserInvHolds, PTL

\* A message shows the results of one parse, of which the model has repeated none, also
\* where a failed parse has been stored in part, unless two sessions have parsed it at
\* once; and its status and category are those of its results, but for such a parse.
THEOREM ResultsAreOfOneParse == ParserSpec => []ResultsOfOneParse
<1>1. ParserInv => ResultsOfOneParse
  BY DEF ParserInv, RowsHold, OneParse, Tells, ResultsOfOneParse
<1>. QED  BY <1>1, ParserInvHolds, PTL

\* A task that is completed refers to a result that exists, until its message is
\* parsed again.
THEOREM ResultExists == ParserSpec => []ResultOfTask
<1>1. ParserInv => ResultOfTask
  BY DEF ParserInv, TaskHolds, ResultOfTask
<1>. QED  BY <1>1, ParserInvHolds, PTL

-----------------------------------------------------------------------------
(* The circuit breaker *)

\* The sessions that are asking the model.
Asking == {s \in Parsers : parse[s].stage = "llm"}

\* The breaker opens at its last failure, while the others that ask go on.
BreakerInv ==
  /\ parse = [s \in Parsers |-> parse[s]]
  /\ failures \in Nat /\ raised = failures /\ open \in BOOLEAN
  /\ ~open => failures < MaxFailures
  /\ open => raised + Cardinality(Asking) <= MaxFailures - 1 + Cardinality(Parsers)

\* How many sessions there are, and how many of them ask.
LEMMA AskingCount ==
  /\ Cardinality(Parsers) \in Nat /\ MaxFailures \in Nat /\ MaxFailures >= 1
  /\ IsFiniteSet(Asking) /\ Cardinality(Asking) \in Nat /\ Cardinality(Asking) <= Cardinality(Parsers)
<1>1. IsFiniteSet(Parsers) /\ Cardinality(Parsers) \in Nat
  BY ParserAssumption, FS_CardinalityType
<1>2. Asking \in SUBSET Parsers
  BY DEF Asking
<1>3. IsFiniteSet(Asking) /\ Cardinality(Asking) <= Cardinality(Parsers)
  BY <1>1, <1>2, FS_Subset
<1>4. MaxFailures \in Nat /\ MaxFailures >= 1
  BY ParserAssumption
<1>. QED  BY <1>1, <1>3, <1>4, FS_CardinalityType

\* A step that leaves the breaker alone and lets no session ask while it is open.
LEMMA BreakerUntouched ==
  ASSUME BreakerInv, UNCHANGED breakerVars, parse' = [s \in Parsers |-> parse'[s]],
         open => Asking' \subseteq Asking
  PROVE  BreakerInv'
<1>1. /\ UNCHANGED <<failures, open, raised>>
  BY DEF breakerVars
<1>2. CASE ~open
  BY <1>1, <1>2 DEF BreakerInv
<1>3. CASE open
  <2>1. Asking' \in SUBSET Asking
    BY <1>3
  <2>2. IsFiniteSet(Asking') /\ Cardinality(Asking') <= Cardinality(Asking)
    BY <2>1, AskingCount, FS_Subset
  <2>3. Cardinality(Asking') \in Nat
    BY <2>2, FS_CardinalityType
  <2>. QED  BY <1>1, <1>3, <2>2, <2>3, AskingCount DEF BreakerInv
<1>. QED  BY <1>2, <1>3

\* A session whose parse changes, and does not ask the model next.
LEMMA LeavesModel ==
  ASSUME BreakerInv, NEW s \in Parsers, NEW p, parse' = [parse EXCEPT ![s] = p], p.stage # "llm"
  PROVE  parse' = [t \in Parsers |-> parse'[t]] /\ Asking' = Asking \ {s}
<1>1. parse' = [t \in Parsers |-> IF t = s THEN p ELSE parse[t]]
  BY DEF BreakerInv
<1>. QED  BY <1>1 DEF Asking

\* The stage of a parse.
LEMMA StageOf ==
  ASSUME NEW p, NEW stage, NEW found, NEW e, NEW n, NEW by, NEW old
  PROVE  /\ Found(p, stage, found).stage = stage /\ NoParse.stage = "none"
         /\ Parse(stage, e, n, by, old, found).stage = stage
BY DEF Found, NoParse, Parse

\* The model raises once more.
LEMMA RaiseKeeps ==
  ASSUME BreakerInv, NEW s \in Parsers, LlmRaises(s)
  PROVE  BreakerInv'
<1>1. Asking' = Asking \ {s} /\ parse' = [t \in Parsers |-> parse'[t]]
  <2>1. parse' = [parse EXCEPT ![s] = Found(parse[s], "store", parse[s].found)]
    BY DEF LlmRaises
  <2>2. Found(parse[s], "store", parse[s].found).stage # "llm"
    BY StageOf
  <2>. QED  BY <2>1, <2>2, LeavesModel
<1>2. Cardinality(Asking') = Cardinality(Asking) - 1
  <2>1. s \in Asking
    BY DEF Asking, LlmRaises
  <2>2. IsFiniteSet(Asking)
    BY AskingCount
  <2>3. Cardinality(Asking \ {s}) = Cardinality(Asking) - 1
    BY <2>1, <2>2, FS_RemoveElement
  <2>. QED  BY <1>1, <2>3
<1>3. /\ failures' = failures + 1 /\ raised' = raised + 1
      /\ open' = (open \/ failures + 1 >= MaxFailures)
  BY DEF LlmRaises, TooMany
<1>4. failures \in Nat /\ raised = failures /\ (~open => failures < MaxFailures)
  BY DEF BreakerInv
<1>5. open' => raised' + Cardinality(Asking') <= MaxFailures - 1 + Cardinality(Parsers)
  <2>1. CASE open
    BY <1>2, <1>3, <1>4, <2>1, AskingCount DEF BreakerInv
  <2>2. CASE ~open
    BY <1>2, <1>3, <1>4, <2>2, AskingCount
  <2>. QED  BY <2>1, <2>2
<1>6. open' \in BOOLEAN /\ (~open' => failures' < MaxFailures)
  <2>1. open' \in BOOLEAN
    BY <1>3
  <2>2. ASSUME ~open'
        PROVE  failures' < MaxFailures
    <3>1. ~(failures + 1 >= MaxFailures)
      BY <1>3, <2>2
    <3>. QED  BY <1>3, <1>4, <3>1, AskingCount
  <2>. QED  BY <2>1, <2>2
<1>. QED  BY <1>1, <1>3, <1>4, <1>5, <1>6 DEF BreakerInv

\* The model answers: the circuit stays as it is, the count starts again.
LEMMA AnswerKeeps ==
  ASSUME BreakerInv, NEW s \in Parsers, NEW code, NEW link, LlmAnswers(s, code, link)
  PROVE  BreakerInv'
<1>1. Asking' = Asking \ {s} /\ parse' = [t \in Parsers |-> parse'[t]]
  <2>1. PICK found : parse' = [parse EXCEPT ![s] = Found(parse[s], "store", found)]
    BY DEF LlmAnswers
  <2>2. Found(parse[s], "store", found).stage # "llm"
    BY StageOf
  <2>. QED  BY <2>1, <2>2, LeavesModel
<1>2. Cardinality(Asking') = Cardinality(Asking) - 1
  <2>1. s \in Asking
    BY DEF Asking, LlmAnswers
  <2>2. IsFiniteSet(Asking)
    BY AskingCount
  <2>3. Cardinality(Asking \ {s}) = Cardinality(Asking) - 1
    BY <2>1, <2>2, FS_RemoveElement
  <2>. QED  BY <1>1, <2>3
<1>3. failures' = 0 /\ raised' = 0 /\ open' = open
  BY DEF LlmAnswers
<1>. QED  BY <1>1, <1>2, <1>3, AskingCount DEF BreakerInv

\* A parse fails, perhaps after the model has answered.
LEMMA FailureKeepsBreaker ==
  ASSUME BreakerInv, NEW s \in Parsers, NEW by, HasFailed(s, by), parse' = [parse EXCEPT ![s] = NoParse]
  PROVE  BreakerInv'
<1>1. Asking' = Asking \ {s} /\ parse' = [t \in Parsers |-> parse'[t]]
  BY LeavesModel, StageOf
<1>2. CASE UNCHANGED breakerVars
  BY <1>1, <1>2, BreakerUntouched
<1>3. CASE failures' = 0 /\ raised' = 0 /\ open' = open
  <2>1. Asking' \in SUBSET Asking
    BY <1>1
  <2>2. Cardinality(Asking') <= Cardinality(Asking) /\ Cardinality(Asking') \in Nat
    BY <2>1, AskingCount, FS_Subset, FS_CardinalityType
  <2>. QED  BY <1>1, <1>3, <2>2, AskingCount DEF BreakerInv
<1>. QED  BY <1>2, <1>3 DEF HasFailed, breakerVars

\* The rules decide whether the model is asked: never while the circuit is open.
LEMMA RulesKeep ==
  ASSUME BreakerInv, NEW s \in Parsers, ApplyRules(s)
  PROVE  BreakerInv'
<1>1. PICK stage, found :
        /\ stage \in {"llm", "store"}
        /\ parse' = [parse EXCEPT ![s] = Found(parse[s], stage, found)]
        /\ open => stage = "store"
  BY DEF ApplyRules, BreakerInv
<1>2. UNCHANGED breakerVars
  BY DEF ApplyRules
<1>3. parse' = [t \in Parsers |-> parse'[t]]
  BY <1>1 DEF BreakerInv
<1>4. ASSUME open
      PROVE  Asking' \subseteq Asking
  <2>1. Found(parse[s], stage, found).stage # "llm"
    BY <1>1, <1>4, StageOf
  <2>. QED  BY <1>1, <2>1, LeavesModel
<1>. QED  BY <1>2, <1>3, <1>4, BreakerUntouched

\* The others change no parse.
LEMMA ParsesUnchanged ==
  ASSUME BreakerInv, UNCHANGED breakerVars, parse' = parse
  PROVE  BreakerInv'
<1>1. Asking' = Asking
  BY DEF Asking
<1>. QED  BY <1>1, BreakerUntouched DEF BreakerInv

\* Every step keeps the breaker.
LEMMA ParserKept ==
  ASSUME BreakerInv, [ParserNext]_parserVars
  PROVE  BreakerInv'
<1>1. CASE UNCHANGED parserVars
  BY <1>1, ParsesUnchanged DEF parserVars
<1>2. ASSUME NEW r \in Rules, NEW on \in BOOLEAN, NEW p \in Priorities, ChangeRule(r, on, p)
      PROVE  BreakerInv'
  BY <1>2, ParsesUnchanged DEF ChangeRule
<1>3. ASSUME NEW t \in Applicants, CreateApplicant(t)
      PROVE  BreakerInv'
  BY <1>3, ParsesUnchanged DEF CreateApplicant
<1>4. ASSUME NEW s \in Parsers, ParseStep(s)
      PROVE  BreakerInv'
  <2>1. CASE ApplyRules(s)
    BY <2>1, RulesKeep
  <2>2. CASE LlmRaises(s)
    BY <2>2, RaiseKeeps
  <2>3. ASSUME NEW code, NEW link, LlmAnswers(s, code, link)
        PROVE  BreakerInv'
    BY <2>3, AnswerKeeps
  <2>4. CASE LlmQuiet(s)
    <3>1. UNCHANGED breakerVars /\ parse' = [parse EXCEPT ![s] = Found(parse[s], "store", parse[s].found)]
      BY <2>4 DEF LlmQuiet
    <3>2. Found(parse[s], "store", parse[s].found).stage # "llm"
      BY StageOf
    <3>3. parse' = [t \in Parsers |-> parse'[t]] /\ Asking' \subseteq Asking
      BY <3>1, <3>2, LeavesModel
    <3>. QED  BY <3>1, <3>3, BreakerUntouched
  <2>5. ASSUME NEW chosen, ParseCommit(s, chosen)
        PROVE  BreakerInv'
    <3>1. UNCHANGED breakerVars /\ parse' = [parse EXCEPT ![s] = NoParse]
      BY <2>5 DEF ParseCommit, StoreResults
    <3>. QED  BY <3>1, LeavesModel, StageOf, BreakerUntouched
  <2>6. ASSUME NEW chosen, ParseFails(s, chosen)
        PROVE  BreakerInv'
    BY <2>6, FailureKeepsBreaker DEF ParseFails, StoreResults
  <2>7. CASE JobFails(s)
    <3>1. HasFailed(s, "job") /\ parse' = [parse EXCEPT ![s] = NoParse]
      BY <2>7 DEF JobFails, StoreResults
    <3>. QED  BY <3>1, FailureKeepsBreaker
  <2>. QED  BY <1>4, <2>1, <2>2, <2>3, <2>4, <2>5, <2>6, <2>7 DEF ParseStep
<1>5. ASSUME NEW s \in Parsers, NEW e \in Messages,
             (\E by \in {"job", "api"} : ParseAgain(s, e, by)) \/ \E time \in 0..now : IngestNew(s, e, time)
      PROVE  BreakerInv'
  <2>1. UNCHANGED breakerVars
    BY <1>5 DEF ParseAgain, IngestNew
  <2>2. PICK by, old : parse' = [parse EXCEPT ![s] = Parse("rules", e, parses[e] + 1, by, old, <<>>)]
    BY <1>5 DEF ParseAgain, IngestNew
  <2>. QED  BY <2>1, <2>2, LeavesModel, StageOf, BreakerUntouched
<1>6. ASSUME NEW s \in Parsers, ParseAborts(s)
      PROVE  BreakerInv'
  <2>1. UNCHANGED breakerVars /\ parse' = [parse EXCEPT ![s] = NoParse]
    BY <1>6 DEF ParseAborts
  <2>. QED  BY <2>1, LeavesModel, StageOf, BreakerUntouched
<1>. QED  BY <1>1, <1>2, <1>3, <1>4, <1>5, <1>6 DEF ParserNext

\* Until the model answers, no more calls of it raise than the breaker bears, but for
\* those that are under way when the circuit opens.  Calls that fail without raising
\* are not counted by the code, and this says nothing of them.
THEOREM RaisingCalls == ParserSpec => []RaisesBounded
<1>1. ParserInit => BreakerInv
  <2>. SUFFICES ASSUME ParserInit PROVE BreakerInv
    OBVIOUS
  <2>1. parse = [s \in Parsers |-> parse[s]]
    BY DEF ParserInit
  <2>2. failures = 0 /\ raised = 0 /\ open = FALSE
    BY DEF ParserInit
  <2>3. ~open /\ open \in BOOLEAN
    BY <2>2
  <2>4. failures \in Nat /\ raised = failures /\ failures < MaxFailures
    BY <2>2, AskingCount
  <2>. QED  BY <2>1, <2>3, <2>4 DEF BreakerInv
<1>2. BreakerInv /\ [ParserNext]_parserVars => BreakerInv'
  BY ParserKept
<1>3. BreakerInv => RaisesBounded
  BY AskingCount DEF BreakerInv, RaisesBounded
<1>. QED  BY <1>1, <1>2, <1>3, PTL DEF ParserSpec
=============================================================================
