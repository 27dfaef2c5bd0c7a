----------------------- MODULE PatternDispatch_proofs -----------------------
(***************************************************************************)
(* For any hooks, any number of rounds and any limits: no tool is called   *)
(* over an objection, the parts of a debate's result agree, the passes of  *)
(* a reflection explain its answer, a tree of thoughts stays within its    *)
(* bounds, and a report rests on the evidence retrieved.  In a tree of two *)
(* levels, which is what the router asks for, the branch reported is a     *)
(* best one.                                                               *)
(***************************************************************************)
EXTENDS PatternDispatch, FiniteSetTheorems, SequenceTheorems, WellFoundedInduction, TLAPS

-----------------------------------------------------------------------------
(* Numbers, functions, orders and sequences *)

\* Every set of natural numbers has a least one: the intervals below them are
\* finite sets, which strict inclusion orders well.
LEMMA Least == ASSUME NEW S \in SUBSET Nat, S # {} PROVE \E m \in S : \A k \in S : m <= k
<1> DEFINE T == {0 .. k : k \in S}
           R == StrictSubsetOrdering(Nat)
<1>1. IsWellFoundedOn(R, FiniteSubsetsOf(Nat))
  BY FS_StrictSubsetOrderingWellFounded
<1>2. T \subseteq FiniteSubsetsOf(Nat) /\ T # {}
  <2>1. ASSUME NEW k \in S PROVE 0 .. k \in FiniteSubsetsOf(Nat)
    <3>1. k \in Int /\ 0 \in Int /\ 0 .. k \in SUBSET Nat
      OBVIOUS
    <3> QED BY <3>1, FS_Interval DEF FiniteSubsetsOf
  <2> QED BY <2>1
<1>3. PICK t \in T : \A u \in T : ~ (<<u, t>> \in R)
  <2> HIDE DEF T, R
  <2> QED BY <1>1, <1>2, WFMin
<1>4. PICK m \in S : t = 0 .. m
  OBVIOUS
<1>5. ASSUME NEW k \in S, k < m PROVE FALSE
  <2>1. 0 .. k \in T /\ (0 .. k) \in SUBSET Nat /\ t \in SUBSET Nat
    BY <1>4
  <2>2. 0 .. k \subseteq t /\ m \in t /\ m \notin 0 .. k
    BY <1>4, <1>5
  <2>3. <<0 .. k, t>> \in R
    BY <2>1, <2>2 DEF StrictSubsetOrdering
  <2> QED BY <1>3, <2>1, <2>3
<1> QED BY <1>5

\* A set of natural numbers with 0 and every successor is the set of all.  It
\* stands for induction where the predicate is the membership of a set.
LEMMA Induct == ASSUME NEW S \in SUBSET Nat, 0 \in S, \A n \in S : n + 1 \in S PROVE S = Nat
<1>1. SUFFICES ASSUME Nat \ S # {} PROVE FALSE
  OBVIOUS
<1>2. PICK m \in Nat \ S : \A k \in Nat \ S : m <= k
  BY <1>1, Least
<1>3. m # 0 /\ m - 1 \in Nat /\ m - 1 \in S
  BY <1>2
<1> QED BY <1>2, <1>3

\* A bounded set of natural numbers has a largest one.
LEMMA Largest ==
    ASSUME NEW S \in SUBSET Nat, NEW n \in Nat, \A k \in S : k <= n, S # {}
    PROVE  Max(S) \in S /\ \A k \in S : Max(S) >= k
<1> DEFINE T == {n - k : k \in S}
<1>1. T \in SUBSET Nat /\ T # {}
  <2>1. \A k \in S : n - k \in Nat
    OBVIOUS
  <2> QED
    BY <2>1
<1>2. PICK m \in T : \A k \in T : m <= k
  <2> HIDE DEF T
  <2> QED
    BY <1>1, Least
<1>3. PICK x \in S : m = n - x
  OBVIOUS
<1>4. \A k \in S : x >= k
  <2> TAKE k \in S
  <2>1. n - x <= n - k
    BY <1>2, <1>3
  <2> QED
    BY <2>1
<1> QED
  BY <1>4 DEF Max

\* The functions on 0 .. n that a definition by recursion describes: a at 0, and
\* succ[d] of the value before at d.
Moves(T, n) == [1 .. n -> [T -> T]]

Runs(T, a, n, succ) ==
    {g \in [0 .. n -> T] : g[0] = a /\ \A d \in 1 .. n : g[d] = succ[d][g[d - 1]]}

\* Such a function exists, so that a recursive function satisfies its definition.
LEMMA Unfold ==
    ASSUME NEW T, NEW a \in T, NEW n \in Nat, NEW succ \in Moves(T, n)
    PROVE  \E g \in Runs(T, a, n, succ) : TRUE
<1> DEFINE Ends(m) == \E g \in [0 .. m -> T] :
                          g[0] = a /\ \A d \in 1 .. m : g[d] = succ[d][g[d - 1]]
           Good == {m \in Nat : m <= n => Ends(m)}
<1>1. Ends(0)
  <2> DEFINE g == [d \in 0 .. 0 |-> a]
  <2>1. g \in [0 .. 0 -> T] /\ g[0] = a /\ \A d \in 1 .. 0 : g[d] = succ[d][g[d - 1]]
    OBVIOUS
  <2> QED
    BY <2>1
<1>2. ASSUME NEW m \in Nat, Ends(m), m + 1 <= n PROVE Ends(m + 1)
  <2> PICK g \in [0 .. m -> T] : g[0] = a /\ \A d \in 1 .. m : g[d] = succ[d][g[d - 1]]
    BY <1>2
  <2> DEFINE last == succ[m + 1][g[m]]
             h == [d \in 0 .. m + 1 |-> IF d = m + 1 THEN last ELSE g[d]]
  <2>1. last \in T
    <3>1. m + 1 \in 1 .. n /\ m \in 0 .. m
      BY <1>2
    <3>2. succ[m + 1] \in [T -> T] /\ g[m] \in T
      BY <3>1 DEF Moves
    <3> QED
      BY <3>2
  <2> HIDE DEF last
  <2>2. \A d \in 0 .. m + 1 : d = m + 1 \/ d \in 0 .. m
    OBVIOUS
  <2>3. h \in [0 .. m + 1 -> T]
    BY <2>1, <2>2
  <2>4. h[0] = a /\ h[m + 1] = last /\ \A d \in 0 .. m : h[d] = g[d]
    OBVIOUS
  <2> HIDE DEF h
  <2>5. ASSUME NEW d \in 1 .. m + 1 PROVE h[d] = succ[d][h[d - 1]]
    <3>1. CASE d = m + 1
      <4>1. d - 1 = m /\ m \in 0 .. m
        BY <3>1
      <4>2. h[d - 1] = g[m] /\ h[d] = last
        BY <3>1, <4>1, <2>4
      <4> QED
        BY <3>1, <4>2 DEF last
    <3>2. CASE d # m + 1
      <4>1. d \in 1 .. m /\ d \in 0 .. m /\ d - 1 \in 0 .. m
        BY <3>2
      <4>2. h[d] = g[d] /\ h[d - 1] = g[d - 1]
        BY <4>1, <2>4
      <4> QED
        BY <4>1, <4>2
    <3> QED
      BY <3>1, <3>2
  <2> QED
    BY <2>3, <2>4, <2>5
<1> HIDE DEF Ends
<1>3. 0 \in Good
  BY <1>1
<1>4. ASSUME NEW m \in Good PROVE m + 1 \in Good
  BY <1>2
<1>5. Good = Nat
  <2>1. Good \subseteq Nat
    OBVIOUS
  <2> HIDE DEF Good
  <2> QED
    BY <1>3, <1>4, <2>1, Induct
<1>6. Ends(n)
  BY <1>5
<1> QED
  BY <1>6 DEF Ends, Runs

\* A product grows with its factor.
LEMMA TimesGrows == ASSUME NEW a \in Nat, NEW b \in Nat, NEW c \in Nat, a <= b PROVE c * a <= c * b
<1>1. PICK e \in Nat : b = a + e
  <2>1. b - a \in Nat /\ b = a + (b - a)
    OBVIOUS
  <2> QED
    BY <2>1
<1>2. c * (a + e) = c * a + c * e /\ c * e \in Nat /\ c * a \in Nat
  OBVIOUS
<1> QED
  BY <1>1, <1>2

\* The members of S that R puts before i, and: R is a strict order of all of S.
AheadOf(i, R, S) == {j \in S : <<j, i>> \in R}

Orders(R, S) ==
    /\ \A i \in S : <<i, i>> \notin R
    /\ \A h, i, j \in S : <<h, i>> \in R /\ <<i, j>> \in R => <<h, j>> \in R
    /\ \A i, j \in S : i # j => <<i, j>> \in R \/ <<j, i>> \in R

\* In a finite ordered set, every rank is taken: the ranks are as many as the
\* members, and no two members have the same.
LEMMA RankOnto ==
    ASSUME NEW S, IsFiniteSet(S), NEW R, Orders(R, S), NEW k \in 1 .. Cardinality(S)
    PROVE  \E i \in S : Cardinality(AheadOf(i, R, S)) = k - 1
<1> DEFINE Lower(i) == AheadOf(i, R, S)
           N == 0 .. Cardinality(S) - 1
           rank == [i \in S |-> Cardinality(Lower(i))]
<1>1. Cardinality(S) \in Nat /\ IsFiniteSet(N) /\ Cardinality(N) = Cardinality(S)
  <2>1. Cardinality(S) \in Nat
    BY FS_CardinalityType
  <2>2. 0 \in Int /\ Cardinality(S) - 1 \in Int
    BY <2>1
  <2> QED
    BY <2>1, <2>2, FS_Interval
<1>2. \A i \in S : IsFiniteSet(Lower(i)) /\ Cardinality(Lower(i)) \in Nat
  BY FS_Subset, FS_CardinalityType DEF AheadOf
<1>3. ASSUME NEW i \in S, NEW T, IsFiniteSet(T), Lower(i) \subseteq T, i \in T
      PROVE  Cardinality(Lower(i)) < Cardinality(T)
  <2>1. Lower(i) # T
    BY <1>3 DEF AheadOf, Orders
  <2> HIDE DEF Lower
  <2>2. Cardinality(Lower(i)) <= Cardinality(T) /\ Cardinality(Lower(i)) # Cardinality(T)
    BY <2>1, <1>3, FS_Subset
  <2> QED
    BY <2>2, <1>2, <1>3, FS_CardinalityType
<1>4. rank \in [S -> N]
  <2> SUFFICES ASSUME NEW i \in S PROVE Cardinality(Lower(i)) \in N
    OBVIOUS
  <2>1. Cardinality(Lower(i)) < Cardinality(S)
    <3>1. Lower(i) \subseteq S
      BY DEF AheadOf
    <3> HIDE DEF Lower
    <3> QED
      BY <3>1, <1>3
  <2> HIDE DEF Lower
  <2> QED
    BY <2>1, <1>1, <1>2
<1>5. ASSUME NEW i \in S, NEW j \in S, <<i, j>> \in R PROVE rank[i] < rank[j]
  <2>1. Lower(i) \subseteq Lower(j) /\ i \in Lower(j)
    BY <1>5 DEF AheadOf, Orders
  <2> HIDE DEF Lower
  <2> QED
    BY <2>1, <1>2, <1>3
<1>6. rank \in Injection(S, N)
  <2>1. ASSUME NEW i \in S, NEW j \in S, rank[i] = rank[j] PROVE i = j
    <3>1. rank[i] \in Int
      BY <1>4, <1>1
    <3> HIDE DEF rank
    <3>2. ~(<<i, j>> \in R) /\ ~(<<j, i>> \in R)
      <4>1. ~(rank[i] < rank[j]) /\ ~(rank[j] < rank[i])
        BY <2>1, <3>1
      <4> QED
        BY <4>1, <1>5
    <3> QED
      BY <3>2 DEF Orders
  <2> HIDE DEF rank
  <2> QED
    BY <1>4, <2>1 DEF Injection, IsInjective
<1>7. rank \in Surjection(S, N)
  <2> HIDE DEF rank, N
  <2> QED
    BY <1>1, <1>6, FS_Injection
<1>8. PICK i \in S : rank[i] = k - 1
  <2>1. k - 1 \in N
    BY <1>1
  <2> HIDE DEF rank, N
  <2> QED
    BY <1>7, <2>1 DEF Surjection
<1> QED
  BY <1>8

\* References of one and two parts, and the last part of them.
LEMMA RefIn ==
    ASSUME NEW T, NEW a \in T, NEW b \in T
    PROVE  /\ <<a>> \in Seq(T) /\ <<a>>[Len(<<a>>)] = a
           /\ <<a, b>> \in Seq(T) /\ <<a, b>>[Len(<<a, b>>)] = b
OBVIOUS

\* Sequences of a set, put one after the other, are a sequence of the set.
LEMMA FlattenIn == ASSUME NEW T, NEW seqs \in Seq(Seq(T)) PROVE FlattenSeq(seqs) \in Seq(T)
<1> DEFINE n == Len(seqs)
           F(f) == [i \in 1 .. n |-> IF i = 1 THEN seqs[i] ELSE f[i - 1] \o seqs[i]]
           Good(m) == \E g \in [1 .. m -> Seq(T)] :
                         \A i \in 1 .. m : g[i] = IF i = 1 THEN seqs[i] ELSE g[i - 1] \o seqs[i]
           flat == CHOOSE f : f = F(f)
<1>0. n \in Nat /\ \A i \in 1 .. n : seqs[i] \in Seq(T)
  BY LenProperties, ElementOfSeq
<1>1. CASE n = 0
  <2>1. seqs = <<>>
    BY <1>1, EmptySeq
  <2> QED
    BY <2>1, <1>1, EmptySeq DEF FlattenSeq
<1>2. CASE n # 0
  <2>1. ASSUME NEW m \in Nat, Good(m), m + 1 <= n PROVE Good(m + 1)
    <3> PICK g \in [1 .. m -> Seq(T)] :
            \A i \in 1 .. m : g[i] = IF i = 1 THEN seqs[i] ELSE g[i - 1] \o seqs[i]
      BY <2>1
    <3> DEFINE last == IF m = 0 THEN seqs[1] ELSE g[m] \o seqs[m + 1]
               h == [i \in 1 .. m + 1 |-> IF i = m + 1 THEN last ELSE g[i]]
    <3>1. last \in Seq(T)
      <4>1. m + 1 \in 1 .. n
        BY <1>0, <2>1
      <4>2. CASE m = 0
        BY <4>1, <4>2, <1>0
      <4>3. CASE m # 0
        <5>1. m \in 1 .. m
          BY <4>3
        <5>2. g[m] \in Seq(T) /\ seqs[m + 1] \in Seq(T)
          BY <4>1, <5>1, <1>0
        <5> QED
          BY <4>3, <5>2, ConcatProperties
      <4> QED
        BY <4>2, <4>3
    <3> HIDE DEF last
    <3>2. \A i \in 1 .. m + 1 : i = m + 1 \/ i \in 1 .. m
      OBVIOUS
    <3>3. h \in [1 .. m + 1 -> Seq(T)]
      BY <3>1, <3>2
    <3>4. ASSUME NEW i \in 1 .. m + 1
          PROVE  h[i] = IF i = 1 THEN seqs[i] ELSE h[i - 1] \o seqs[i]
      <4>1. CASE i = m + 1 /\ m = 0
        BY <4>1 DEF last
      <4>2. CASE i = m + 1 /\ m # 0
        <5>1. m \in 1 .. m /\ m # m + 1 /\ m \in 1 .. m + 1
          BY <4>2
        <5>2. h[m] = g[m] /\ h[m + 1] = g[m] \o seqs[m + 1]
          BY <4>2, <5>1 DEF last
        <5>3. i # 1 /\ i - 1 = m
          BY <4>2, <5>1
        <5> HIDE DEF h
        <5> QED
          BY <4>2, <5>2, <5>3
      <4>3. CASE i # m + 1
        <5>1. i \in 1 .. m /\ h[i] = g[i]
          BY <4>3
        <5>2. i # 1 => h[i - 1] = g[i - 1]
          BY <5>1
        <5> QED
          BY <5>1, <5>2
      <4> QED
        BY <4>1, <4>2, <4>3
    <3> HIDE DEF h
    <3> QED
      BY <3>3, <3>4
  <2>2. Good(0)
    <3> DEFINE g == [i \in 1 .. 0 |-> <<>>]
    <3>1. g \in [1 .. 0 -> Seq(T)]
      OBVIOUS
    <3>2. \A i \in 1 .. 0 : g[i] = IF i = 1 THEN seqs[i] ELSE g[i - 1] \o seqs[i]
      OBVIOUS
    <3> HIDE DEF g
    <3> QED
      BY <3>1, <3>2
  <2>3. Good(n)
    <3> DEFINE G == {m \in Nat : m <= n => Good(m)}
    <3> HIDE DEF Good
    <3>1. 0 \in G
      BY <2>2
    <3>2. ASSUME NEW m \in G PROVE m + 1 \in G
      BY <1>0, <2>1
    <3>3. G = Nat
      <4>1. G \subseteq Nat
        OBVIOUS
      <4> HIDE DEF G
      <4> QED
        BY <3>1, <3>2, <4>1, Induct
    <3> QED
      BY <1>0, <3>3
  <2>4. PICK g \in [1 .. n -> Seq(T)] :
            \A i \in 1 .. n : g[i] = IF i = 1 THEN seqs[i] ELSE g[i - 1] \o seqs[i]
    BY <2>3
  <2>5. g = F(g)
    BY <2>4
  <2>6. flat = F(flat)
    <3> HIDE DEF F
    <3> QED
      BY <2>5
  <2>7. \A i \in 1 .. n : flat[i] = IF i = 1 THEN seqs[i] ELSE flat[i - 1] \o seqs[i]
    <3> HIDE DEF flat
    <3> QED
      BY <2>6
  <2> HIDE DEF flat
  <2>8. flat[n] \in Seq(T)
    <3> DEFINE G == {m \in Nat : m + 1 <= n => flat[m + 1] \in Seq(T)}
    <3>1. 0 \in G
      BY <1>0, <2>7
    <3>2. ASSUME NEW m \in G PROVE m + 1 \in G
      <4> SUFFICES ASSUME m + 2 <= n PROVE flat[m + 2] \in Seq(T)
        OBVIOUS
      <4>1. m + 2 \in 1 .. n /\ m + 2 # 1 /\ (m + 2) - 1 = m + 1 /\ m + 1 <= n
        BY <1>0
      <4>2. flat[m + 2] = flat[m + 1] \o seqs[m + 2] /\ seqs[m + 2] \in Seq(T)
        BY <1>0, <2>7, <4>1
      <4>3. flat[m + 1] \in Seq(T)
        BY <4>1
      <4> QED
        BY <4>2, <4>3, ConcatProperties
    <3>3. G = Nat
      <4>1. G \subseteq Nat
        OBVIOUS
      <4> HIDE DEF G
      <4> QED
        BY <3>1, <3>2, <4>1, Induct
    <3>4. PICK m \in Nat : n = m + 1
      <4>1. n - 1 \in Nat /\ n = (n - 1) + 1
        BY <1>0, <1>2
      <4> QED
        BY <4>1
    <3>5. m \in G
      BY <3>3
    <3> QED
      BY <3>4, <3>5
  <2>9. FlattenSeq(seqs) = flat[n]
    BY <1>0, <1>2 DEF FlattenSeq, flat
  <2> QED
    BY <2>8, <2>9
<1> QED
  BY <1>1, <1>2

-----------------------------------------------------------------------------
(* Hooks and tool calls *)

Ahead == {"before", "rag_hook", "search", "fetch", "pack", "call", "panic"}
Behind == {"workspace", "audit", "audit_lost", "after"}

\* What each step of a call knows of the hooks, of the call and of its traces.
ToolInv ==
    /\ step \in Ahead \cup Behind \cup {"ended"}
    /\ answers = [call |-> answers.call, rag |-> answers.rag]
    /\ called \/ step \in (Ahead \ {"before"}) \cup Behind => ~Denied(answers.call)
    /\ context \/ step \in {"search", "fetch", "pack"} => ~Denied(answers.rag)
    /\ step \in Ahead => ~called
    /\ step \in Ahead \ {"call"} => ~context
    /\ step \in Behind => called
    /\ step # "ended" => told \subseteq {"rag_after", "rag_error"}
    /\ step = "audit_lost" => ~success
    /\ success \in BOOLEAN
    /\ ~called => ~success /\ ~auditID /\ record = "none" /\ ~item
                  /\ told \subseteq {"rag_after", "rag_error"}
    /\ record \in {"none", IF success THEN "success" ELSE "failure"}
    /\ auditID => record # "none"
    /\ item => success \/ tool = "sandbox_execution"
    /\ "on_error" \in told <=> ("after" \in told /\ ~success)
    /\ step = "ended" /\ success => "after" \in told

LEMMA ToolSafe == ASSUME ToolInv PROVE ToolCallIsGuarded
<1>1. ASSUME hookConfig.blocking, NEW said, ~Denied(said), NEW i \in DOMAIN hooks
      PROVE  ~Objects(i, said)
  BY <1>1 DEF Denied, Enforced, Objects
<1> QED
  BY <1>1 DEF ToolInv, ToolCallIsGuarded

LEMMA ToolStarts == ASSUME ToolInit PROVE ToolInv
BY DEF ToolInit, ToolInv, Ahead, Behind

\* The traces follow one another.
LEMMA TrailFacts ==
    /\ Head(Trail) \in {"workspace", "audit"}
    /\ \A s \in {"workspace", "audit"} : Following(s) \in {"workspace", "audit", "after"}
<1>1. CASE tool = "skill"
  <2>1. Trail = <<"audit", "workspace", "after">>
    BY <1>1 DEF Trail
  <2>2. ASSUME NEW s \in {"workspace", "audit"}
        PROVE  Following(s) \in {"workspace", "audit", "after"}
    <3>1. \E i \in 2..3 : Trail[i - 1] = s
      BY <2>1, <2>2
    <3>2. (CHOOSE i \in 2..3 : Trail[i - 1] = s) \in 2..3
      BY <3>1
    <3> QED
      BY <2>1, <3>2 DEF Following
  <2> QED
    BY <2>1, <2>2
<1>2. CASE tool # "skill"
  <2>1. Trail = <<"workspace", "audit", "after">>
    BY <1>2 DEF Trail
  <2>2. ASSUME NEW s \in {"workspace", "audit"}
        PROVE  Following(s) \in {"workspace", "audit", "after"}
    <3>1. \E i \in 2..3 : Trail[i - 1] = s
      BY <2>1, <2>2
    <3>2. (CHOOSE i \in 2..3 : Trail[i - 1] = s) \in 2..3
      BY <3>1
    <3> QED
      BY <2>1, <3>2 DEF Following
  <2> QED
    BY <2>1, <2>2
<1> QED
  BY <1>1, <1>2

LEMMA ToolSteps == ASSUME ToolInv, ToolNext PROVE ToolInv'
<1>1. \A said : (Denied(said) <=> \E i \in DOMAIN hooks : Enforced(hooks[i], said[i]))
  BY DEF Denied
<1>2. CASE BeforeToolCall
  <2> PICK said \in Heard(tool) : BeforeToolCall!(said)
    BY <1>2 DEF BeforeToolCall
  <2>1. answers' = [call |-> said, rag |-> answers.rag]
    BY DEF ToolInv
  <2>2. Denied(answers.rag)' <=> Denied(answers.rag)
    BY <2>1 DEF Denied, Enforced, callConfig
  <2>3. Denied(answers.call)' <=> Denied(said)
    BY <2>1 DEF Denied, Enforced, callConfig
  <2>4. /\ step = "before" /\ step' \in {"ended", "rag_hook", "call"}
        /\ step' # "ended" => ~Denied(said)
    OBVIOUS
  <2>5. UNCHANGED <<tool, context, called, success, record, auditID, item, told>>
    BY DEF callConfig, callVars, traceVars
  <2>6. ~called /\ ~success
    BY <2>4 DEF ToolInv, Ahead
  <2> HIDE DEF Denied
  <2> QED
    BY <2>1, <2>2, <2>3, <2>4, <2>5, <2>6 DEF ToolInv, Ahead, Behind
<1>3. CASE BeforeRetrieval
  <2> PICK said \in Heard("rag_retrieval") : BeforeRetrieval!(said)
    BY <1>3 DEF BeforeRetrieval
  <2>1. answers' = [call |-> answers.call, rag |-> said]
    BY DEF ToolInv
  <2>2. Denied(answers.call)' <=> Denied(answers.call)
    BY <2>1 DEF Denied, Enforced, callConfig
  <2>3. Denied(answers.rag)' <=> Denied(said)
    BY <2>1 DEF Denied, Enforced, callConfig
  <2>4. /\ step = "rag_hook" /\ step' \in {"call", "search"}
        /\ step' = "search" => ~Denied(said)
    OBVIOUS
  <2>5. UNCHANGED <<tool, context, called, success, record, auditID, item, told>>
    BY DEF callConfig, callVars, traceVars
  <2>6. ~called /\ ~context
    BY <2>4 DEF ToolInv, Ahead
  <2> HIDE DEF Denied
  <2> QED
    BY <2>1, <2>2, <2>3, <2>4, <2>5, <2>6 DEF ToolInv, Ahead, Behind
<1>4. ASSUME UNCHANGED <<callConfig, answers>>
      PROVE  /\ Denied(answers.call)' <=> Denied(answers.call)
             /\ Denied(answers.rag)' <=> Denied(answers.rag)
             /\ UNCHANGED <<tool, answers>>
  BY <1>4 DEF Denied, Enforced, callConfig
<1>5. CASE RetrieveContext
  BY <1>4, <1>5 DEF RetrieveContext, ToolInv, Ahead, Behind, callVars
<1>6. CASE CallTool
  BY <1>4, <1>6, TrailFacts DEF CallTool, Successes, ToolInv, Ahead, Behind, traceVars
<1>7. CASE AppendWorkspace
  BY <1>4, <1>7, TrailFacts DEF AppendWorkspace, ToolInv, Ahead, Behind, callVars
<1>8. CASE AuditToolCall
  BY <1>4, <1>8, TrailFacts DEF AuditToolCall, ToolInv, Ahead, Behind, callVars
<1>9. CASE AfterToolCall
  BY <1>4, <1>9 DEF AfterToolCall, ToolInv, Ahead, Behind, callVars
<1> QED
  BY <1>2, <1>3, <1>5, <1>6, <1>7, <1>8, <1>9 DEF ToolNext

LEMMA ToolRests == ASSUME ToolInv, UNCHANGED toolVars PROVE ToolInv'
<1>1. /\ Denied(answers.call)' <=> Denied(answers.call)
      /\ Denied(answers.rag)' <=> Denied(answers.rag)
  BY DEF Denied, Enforced, toolVars
<1> QED
  BY <1>1 DEF ToolInv, toolVars

-----------------------------------------------------------------------------
(* Debate *)

\* What the place in the debate says about the winner and the verdict.
DebateInv ==
    /\ floor \in Sides \cup {"moderator", "close", "judge", "done", "error"}
    /\ floor # "done" => position = "tie" /\ ~consensusReached
    /\ floor = "moderator" => roundVerdict = "none"
    /\ floor = "close" /\ roundVerdict \in Sides =>
          /\ winner = IF roundVerdict = "pro" THEN proTurn ELSE conTurn
          /\ verdictOf = rounds + 1
    /\ floor = "judge" => ~EarlyConsensus
    /\ consensusReached \in BOOLEAN
    /\ WinnerAgrees

LEMMA DebateStarts == ASSUME DebateInit PROVE DebateInv
BY DEF DebateInit, DebateInv, WinnerAgrees, Sides

LEMMA DebateSteps == ASSUME DebateInv, DebateNext PROVE DebateInv'
<1>1. CASE GenerateArguments
  BY <1>1 DEF GenerateArguments, DebateInv, WinnerAgrees, EarlyConsensus, Sides
<1>2. CASE JudgeRound
  BY <1>2 DEF JudgeRound, TurnOf, Verdicts, DebateInv, WinnerAgrees, EarlyConsensus, Sides
<1>3. CASE CloseRound
  BY <1>3 DEF CloseRound, DebateInv, WinnerAgrees, EarlyConsensus, Sides
<1>4. CASE FinalJudge
  BY <1>4 DEF FinalJudge, TurnOf, Verdicts, DebateInv, WinnerAgrees, EarlyConsensus, Sides
<1>5. CASE FinalJudgeLost
  BY <1>5 DEF FinalJudgeLost, DebateInv, WinnerAgrees, EarlyConsensus, Sides
<1> QED
  BY <1>1, <1>2, <1>3, <1>4, <1>5 DEF DebateNext

LEMMA DebateRests == ASSUME DebateInv, UNCHANGED debateVars PROVE DebateInv'
BY DEF DebateInv, debateVars, WinnerAgrees, EarlyConsensus

-----------------------------------------------------------------------------
(* Reflection *)

\* Every pass recorded while the loop goes on was revised, and its number is the
\* number of the draft.
ReflectionInv ==
    /\ threshold \in Int /\ score \in Int
    /\ iterations \in Seq([draft : Int, score : Int, revised : BOOLEAN])
    /\ review \in {"draft", "evaluate", "revise", "done", "failed"}
    /\ review \in {"draft", "failed"} => iterations = <<>> /\ draft = 0
    /\ review \in {"evaluate", "revise"} =>
          /\ draft = Len(iterations)
          /\ \A i \in 1 .. Len(iterations) :
                iterations[i].score < threshold /\ iterations[i].revised
    /\ review = "revise" => score < threshold
    /\ PassesExplainAnswer

LEMMA ReflectionStarts == ASSUME ReflectionInit PROVE ReflectionInv
BY ReflectionAssumption DEF ReflectionInit, ReflectionInv, PassesExplainAnswer

\* One more pass of the current draft, the last one of the loop or not.
LEMMA PassAppended ==
    ASSUME ReflectionInv, review \in {"evaluate", "revise"}, NEW given \in Int,
           NEW revised \in BOOLEAN
    PROVE  LET passes == Append(iterations, Pass(given, revised))
               n == Len(passes)
           IN  /\ passes \in Seq([draft : Int, score : Int, revised : BOOLEAN])
               /\ n = Len(iterations) + 1 /\ n > 0 /\ passes # <<>>
               /\ passes[n] = [draft |-> draft, score |-> given, revised |-> revised]
               /\ passes[n].draft = draft /\ passes[n].score = given
               /\ passes[n].revised = revised
               /\ draft = n - 1
               /\ \A i \in 1 .. n : passes[i].draft = i - 1
               /\ \A i \in 1 .. n - 1 : passes[i].score < threshold /\ passes[i].revised
<1> DEFINE P == [draft : Int, score : Int, revised : BOOLEAN]
           passes == Append(iterations, Pass(given, revised))
           n == Len(passes)
<1>1. iterations \in Seq(P) /\ draft = Len(iterations) /\ Len(iterations) \in Nat
  BY DEF ReflectionInv
<1>2. /\ Pass(given, revised) \in P
      /\ Pass(given, revised).draft = draft /\ Pass(given, revised).score = given
      /\ Pass(given, revised).revised = revised
  BY <1>1 DEF Pass
<1>3. /\ passes \in Seq(P) /\ n = Len(iterations) + 1
      /\ passes[n] = Pass(given, revised)
      /\ \A i \in 1 .. n - 1 : passes[i] = iterations[i]
  <2> HIDE DEF P
  <2> QED
    BY <1>1, <1>2
<1>4. /\ \A i \in 1 .. Len(iterations) : iterations[i].draft = i - 1
      /\ \A i \in 1 .. Len(iterations) : iterations[i].score < threshold /\ iterations[i].revised
  BY DEF ReflectionInv, PassesExplainAnswer
<1>5. \A i \in 1 .. n - 1 :
          passes[i].draft = i - 1 /\ passes[i].score < threshold /\ passes[i].revised
  BY <1>1, <1>3, <1>4
<1>6. \A i \in 1 .. n : passes[i].draft = i - 1
  <2> TAKE i \in 1 .. n
  <2>1. CASE i = n
    BY <2>1, <1>1, <1>2, <1>3
  <2>2. CASE i # n
    BY <2>2, <1>1, <1>3, <1>5
  <2> QED
    BY <2>1, <2>2
<1>7. Pass(given, revised) = [draft |-> draft, score |-> given, revised |-> revised]
  BY DEF Pass
<1>8. passes # <<>> /\ n > 0
  <2>1. n > 0
    BY <1>1, <1>3
  <2> HIDE DEF passes
  <2>2. Len(<<>>) = 0
    OBVIOUS
  <2> QED
    BY <2>1, <2>2
<1> HIDE DEF passes, n
<1> QED
  BY <1>1, <1>2, <1>3, <1>5, <1>6, <1>7, <1>8 DEF passes, n

LEMMA ReflectionSteps == ASSUME ReflectionInv, ReflectionNext PROVE ReflectionInv'
<1> DEFINE P == [draft : Int, score : Int, revised : BOOLEAN]
<1>0. /\ Len(iterations) \in Nat /\ EvaluationScore \in Int /\ MaxIterations \in Int
      /\ threshold \in Int /\ score \in Int
  BY ReflectionAssumption DEF ReflectionInv, EvaluationScore
<1>1. CASE GenerateInitialDraft
  BY <1>1 DEF GenerateInitialDraft, ReflectionInv, PassesExplainAnswer
<1>2. CASE EvaluateDraft
  <2>1. CASE EvaluationScore >= threshold
    <3> DEFINE passes == Append(iterations, Pass(EvaluationScore, FALSE))
    <3>1. /\ review = "evaluate" /\ score' = EvaluationScore
          /\ review' = "done" /\ iterations' = passes /\ reflected' = Status(passes)
          /\ UNCHANGED <<threshold, draft>>
      BY <1>2, <2>1 DEF EvaluateDraft, Finish
    <3>2. /\ passes \in Seq(P) /\ passes # <<>>
          /\ passes[Len(passes)].draft = draft
          /\ passes[Len(passes)].score = EvaluationScore
          /\ passes[Len(passes)].revised = FALSE
          /\ \A i \in 1 .. Len(passes) : passes[i].draft = i - 1
          /\ \A i \in 1 .. Len(passes) - 1 : passes[i].score < threshold /\ passes[i].revised
      BY <1>0, <3>1, PassAppended
    <3> HIDE DEF passes
    <3>3. Status(passes) = "ok"
      BY <1>0, <2>1, <3>2 DEF Status, LastScore
    <3> HIDE DEF P
    <3>4. PassesExplainAnswer'
      BY <1>0, <2>1, <3>1, <3>2, <3>3 DEF ReflectionInv, PassesExplainAnswer
    <3> QED
      BY <1>0, <3>1, <3>2, <3>4 DEF ReflectionInv, P
  <2>2. CASE ~(EvaluationScore >= threshold)
    <3>1. /\ review = "evaluate" /\ review' = "revise" /\ score' = EvaluationScore
          /\ UNCHANGED <<iterations, reflected, threshold, draft>>
      BY <1>2, <2>2 DEF EvaluateDraft
    <3> QED
      BY <1>0, <2>2, <3>1 DEF ReflectionInv, PassesExplainAnswer
  <2> QED
    BY <2>1, <2>2
<1>3. CASE EvaluateLost
  <2>1. /\ review = "evaluate" /\ review' = "done" /\ iterations' = iterations
        /\ reflected' = Status(iterations) /\ UNCHANGED <<threshold, draft, score>>
    BY <1>3 DEF EvaluateLost, Finish
  <2>2. ASSUME Len(iterations) > 0
        PROVE  /\ iterations[Len(iterations)].revised /\ draft = Len(iterations)
               /\ iterations[Len(iterations)].score < threshold
               /\ iterations[Len(iterations)].draft = Len(iterations) - 1
               /\ iterations # <<>>
    BY <1>0, <2>1, <2>2 DEF ReflectionInv, PassesExplainAnswer
  <2>3. Len(iterations) > 0 => Status(iterations) = "max_iterations_reached"
    BY <2>2 DEF Status, LastScore
  <2>4. PassesExplainAnswer'
    BY <1>0, <2>1, <2>2, <2>3 DEF ReflectionInv, PassesExplainAnswer
  <2> QED
    BY <1>0, <2>1, <2>4 DEF ReflectionInv
<1>4. CASE ReviseDraft
  <2> DEFINE passes == Append(iterations, Pass(score, TRUE))
  <2>1. /\ review = "revise" /\ draft' = draft + 1 /\ UNCHANGED <<threshold, score>>
        /\ iterations' = passes
        /\ \/ review' = "evaluate"
           \/ review' = "done" /\ reflected' = Status(passes)
    BY <1>4 DEF ReviseDraft, Finish
  <2>2. /\ passes \in Seq(P) /\ passes # <<>> /\ Len(passes) = Len(iterations) + 1
        /\ passes[Len(passes)].draft = draft
        /\ passes[Len(passes)].score = score
        /\ passes[Len(passes)].revised = TRUE /\ draft = Len(passes) - 1
        /\ \A i \in 1 .. Len(passes) : passes[i].draft = i - 1
        /\ \A i \in 1 .. Len(passes) - 1 : passes[i].score < threshold /\ passes[i].revised
    BY <1>0, <2>1, PassAppended
  <2> HIDE DEF passes
  <2>3. score < threshold
    BY <2>1 DEF ReflectionInv
  <2>4. Status(passes) = "max_iterations_reached"
    BY <2>2, <2>3 DEF Status, LastScore
  <2>5. \A i \in 1 .. Len(passes) : passes[i].score < threshold /\ passes[i].revised
    <3> TAKE i \in 1 .. Len(passes)
    <3>1. CASE i = Len(passes)
      BY <3>1, <2>2, <2>3
    <3>2. CASE i # Len(passes)
      BY <3>2, <2>2, <1>0
    <3> QED
      BY <3>1, <3>2
  <2> HIDE DEF P
  <2>6. PassesExplainAnswer'
    BY <1>0, <2>1, <2>2, <2>4 DEF PassesExplainAnswer
  <2> QED
    BY <1>0, <2>1, <2>2, <2>5, <2>6 DEF ReflectionInv, P
<1>5. CASE ReviseLost
  <2> DEFINE passes == Append(iterations, Pass(score, FALSE))
  <2>1. /\ review = "revise" /\ review' = "done" /\ UNCHANGED <<threshold, draft, score>>
        /\ iterations' = passes /\ reflected' = Status(passes)
    BY <1>5 DEF ReviseLost, Finish
  <2>2. /\ passes \in Seq(P) /\ passes # <<>>
        /\ passes[Len(passes)].draft = draft
        /\ passes[Len(passes)].score = score
        /\ passes[Len(passes)].revised = FALSE
        /\ \A i \in 1 .. Len(passes) : passes[i].draft = i - 1
        /\ \A i \in 1 .. Len(passes) - 1 : passes[i].score < threshold /\ passes[i].revised
    BY <1>0, <2>1, PassAppended
  <2> HIDE DEF passes
  <2>3. score < threshold
    BY <2>1 DEF ReflectionInv
  <2>4. Status(passes) = "max_iterations_reached"
    BY <2>2, <2>3 DEF Status, LastScore
  <2> HIDE DEF P
  <2>5. PassesExplainAnswer'
    BY <1>0, <2>1, <2>2, <2>3, <2>4 DEF ReflectionInv, PassesExplainAnswer
  <2> QED
    BY <1>0, <2>1, <2>2, <2>5 DEF ReflectionInv, P
<1> QED
  BY <1>1, <1>2, <1>3, <1>4, <1>5 DEF ReflectionNext

LEMMA ReflectionRests == ASSUME ReflectionInv, UNCHANGED reflectionVars PROVE ReflectionInv'
BY DEF ReflectionInv, reflectionVars, PassesExplainAnswer

-----------------------------------------------------------------------------
(* Tree of thoughts: its bounds *)

\* Sorted lists every member of a set of numbers once.
LEMMA SortedFacts ==
    ASSUME NEW S \in SUBSET Int, IsFiniteSet(S)
    PROVE  /\ Sorted(S) \in Seq(S) /\ Len(Sorted(S)) = Cardinality(S)
           /\ \A i, j \in 1 .. Cardinality(S) : Sorted(S)[i] = Sorted(S)[j] => i = j
<1> DEFINE R == {p \in S \X S : p[1] < p[2]}
           Place(k) == CHOOSE i \in S : Cardinality({j \in S : j < i}) = k - 1
<1>1. Cardinality(S) \in Nat
  BY FS_CardinalityType
<1>2. \A i \in S : i \in Int
  OBVIOUS
<1>3. ASSUME NEW k \in 1 .. Cardinality(S)
      PROVE  Place(k) \in S /\ Cardinality({j \in S : j < Place(k)}) = k - 1
  <2>1. \A i \in S : AheadOf(i, R, S) = {j \in S : j < i}
    BY DEF AheadOf
  <2>2. Orders(R, S)
    BY <1>2 DEF Orders
  <2>3. \E i \in S : Cardinality(AheadOf(i, R, S)) = k - 1
    <3> HIDE DEF R
    <3> QED
      BY <2>2, RankOnto
  <2> HIDE DEF R
  <2> QED
    BY <2>1, <2>3
<1>4. Sorted(S) = [k \in 1 .. Cardinality(S) |-> Place(k)]
  BY DEF Sorted
<1>5. Sorted(S) \in [1 .. Cardinality(S) -> S]
  <2> HIDE DEF Place
  <2> QED
    BY <1>3, <1>4
<1>6. ASSUME NEW i \in 1 .. Cardinality(S), NEW j \in 1 .. Cardinality(S), Place(i) = Place(j)
      PROVE  i = j
  <2>1. Cardinality({h \in S : h < Place(i)}) = Cardinality({h \in S : h < Place(j)})
    BY <1>6
  <2> HIDE DEF Place
  <2> QED
    BY <2>1, <1>1, <1>3
<1> HIDE DEF Place
<1> QED
  BY <1>1, <1>4, <1>5, <1>6

\* The thoughts a full tree has at a depth are the branching of those above, and
\* the last level expanded has most of them.
LEMMA WidthExists ==
    \E g \in [0 .. MaxDepth -> Nat] :
        g[0] = 1 /\ \A d \in 1 .. MaxDepth : g[d] = Branching * g[d - 1]
<1> DEFINE succ == [d \in 1 .. MaxDepth |-> [w \in Nat |-> Branching * w]]
<1>1. Branching \in Nat /\ MaxDepth \in Nat
  BY TreeAssumption
<1>2. succ \in Moves(Nat, MaxDepth)
  BY <1>1 DEF Moves
<1>3. \A d \in 1 .. MaxDepth, w \in Nat : succ[d][w] = Branching * w
  OBVIOUS
<1> HIDE DEF succ
<1>4. PICK g \in Runs(Nat, 1, MaxDepth, succ) : TRUE
  BY <1>1, <1>2, Unfold
<1>5. g \in [0 .. MaxDepth -> Nat] /\ g[0] = 1
      /\ \A d \in 1 .. MaxDepth : g[d] = succ[d][g[d - 1]]
  BY DEF Runs
<1>6. \A d \in 1 .. MaxDepth : g[d - 1] \in Nat
  BY <1>1, <1>5
<1> QED
  BY <1>3, <1>5, <1>6

LEMMA Widths ==
    /\ LevelWidth[0] = 1
    /\ \A d \in 0 .. MaxDepth : LevelWidth[d] \in Nat \ {0}
    /\ \A d \in 1 .. MaxDepth : LevelWidth[d] = Branching * LevelWidth[d - 1]
<1> DEFINE F(f) == [d \in 0 .. MaxDepth |-> IF d = 0 THEN 1 ELSE Branching * f[d - 1]]
<1>0. Branching \in Nat \ {0} /\ MaxDepth \in Nat
  BY TreeAssumption
<1>1. \E f : f = F(f)
  <2> PICK g \in [0 .. MaxDepth -> Nat] :
          g[0] = 1 /\ \A d \in 1 .. MaxDepth : g[d] = Branching * g[d - 1]
    BY WidthExists
  <2>1. \A d \in 0 .. MaxDepth : g[d] = IF d = 0 THEN 1 ELSE Branching * g[d - 1]
    BY <1>0
  <2>2. g = F(g)
    BY <2>1
  <2> QED
    BY <2>2
<1>2. LevelWidth = F(LevelWidth)
  <2>1. LevelWidth = CHOOSE f : f = F(f)
    BY DEF LevelWidth
  <2> HIDE DEF F
  <2> QED
    BY <1>1, <2>1
<1>3. \A d \in 0 .. MaxDepth : LevelWidth[d] = IF d = 0 THEN 1 ELSE Branching * LevelWidth[d - 1]
  BY <1>2
<1>4. /\ LevelWidth[0] = 1
      /\ \A d \in 1 .. MaxDepth : LevelWidth[d] = Branching * LevelWidth[d - 1]
  BY <1>0, <1>3
<1>5. \A d \in 0 .. MaxDepth : LevelWidth[d] \in Nat \ {0}
  <2> DEFINE Good == {n \in Nat : n <= MaxDepth => LevelWidth[n] \in Nat \ {0}}
  <2>1. 0 \in Good
    BY <1>4
  <2>2. ASSUME NEW n \in Good PROVE n + 1 \in Good
    <3>1. CASE n + 1 <= MaxDepth
      <4>1. n + 1 \in 1 .. MaxDepth /\ n \in Nat /\ LevelWidth[n] \in Nat \ {0}
        BY <3>1, <1>0
      <4>2. LevelWidth[n + 1] = Branching * LevelWidth[n]
        BY <4>1, <1>4
      <4>3. Branching * LevelWidth[n] \in Nat \ {0}
        BY <4>1, <1>0
      <4> QED
        BY <4>1, <4>2, <4>3
    <3>2. CASE ~(n + 1 <= MaxDepth)
      BY <3>2
    <3> QED
      BY <3>1, <3>2
  <2>3. Good = Nat
    <3> HIDE DEF Good
    <3>1. Good \subseteq Nat
      BY DEF Good
    <3> QED
      BY <2>1, <2>2, <3>1, Induct
  <2> QED
    BY <2>3, <1>0
<1> QED
  BY <1>4, <1>5

LEMMA WidthGrows ==
    ASSUME NEW d \in 0 .. MaxDepth - 1
    PROVE  LevelWidth[d] <= LevelWidth[MaxDepth - 1]
<1> DEFINE Good == {n \in Nat : d + n <= MaxDepth - 1 => LevelWidth[d] <= LevelWidth[d + n]}
<1>0. Branching \in Nat \ {0} /\ MaxDepth \in Nat \ {0} /\ d \in Nat
  BY TreeAssumption
<1>1. 0 \in Good
  BY <1>0, Widths
<1>2. ASSUME NEW n \in Good PROVE n + 1 \in Good
  <2>1. CASE d + (n + 1) <= MaxDepth - 1
    <3>1. /\ d + n \in 0 .. MaxDepth /\ d + n + 1 \in 1 .. MaxDepth /\ n \in Nat
          /\ (d + n + 1) - 1 = d + n /\ d + (n + 1) = d + n + 1 /\ d \in 0 .. MaxDepth
      BY <2>1, <1>0
    <3>2. /\ LevelWidth[d] <= LevelWidth[d + n] /\ LevelWidth[d + n] \in Nat
          /\ LevelWidth[d] \in Nat
          /\ LevelWidth[d + n + 1] = Branching * LevelWidth[d + n]
      BY <2>1, <1>0, <3>1, Widths
    <3>3. LevelWidth[d + n] <= Branching * LevelWidth[d + n]
      BY <1>0, <3>2
    <3>4. LevelWidth[d] <= LevelWidth[d + n + 1]
      BY <1>0, <3>2, <3>3
    <3> QED
      BY <3>1, <3>4
  <2>2. CASE ~(d + (n + 1) <= MaxDepth - 1)
    BY <2>2
  <2> QED
    BY <2>1, <2>2
<1>3. Good = Nat
  <2> HIDE DEF Good
  <2>1. Good \subseteq Nat
    BY DEF Good
  <2> QED
    BY <1>1, <1>2, <2>1, Induct
<1>4. \A n \in Nat : d + n <= MaxDepth - 1 => LevelWidth[d] <= LevelWidth[d + n]
  BY <1>3
<1>5. MaxDepth - 1 - d \in Nat /\ d + (MaxDepth - 1 - d) = MaxDepth - 1
  BY <1>0
<1> HIDE DEF Good
<1> QED
  BY <1>0, <1>4, <1>5

\* The records of a tree.
Thoughts ==
    [id : Nat \X Nat, parent : (Nat \X Nat) \cup {<<>>}, depth : Nat, score : Int, from : Nat]

\* The cost of expanding one node.
Cost == Max(ReplyTokens) + Branching * ScoreTokens

\* The tokens that no search reaches.
Ceiling == TokenBudget + LevelWidth[MaxDepth - 1] * Cost

\* The values the search takes.
TreeTyped ==
    /\ search \in {"expand", "score", "path", "synthesize", "done", "error"}
    /\ tree \in Seq(Thoughts) /\ Len(tree) > 0
    /\ level \in Nat /\ tokens \in Nat
    /\ queue \in Seq(1 .. Len(tree)) /\ fresh \in Seq(1 .. ReplyLines)
    /\ search = "score" => Len(queue) > 0 /\ Len(fresh) > 0

\* The thoughts that wait for a score count against the size.
SizeInv ==
    /\ Len(tree) <= MaxTotalNodes - 1 + Branching
    /\ search = "score" => Len(tree) + Len(fresh) <= MaxTotalNodes - 1 + Branching

\* The next level holds no more than what the nodes of this level may still add.
LevelInv == search \in {"expand", "score"} =>
    /\ level <= MaxDepth - 1
    /\ \A k \in 1 .. Len(tree) : tree[k].depth <= level + 1
    /\ search = "expand" =>
          Cardinality(NodesAtDepth(level + 1)) + Branching * Len(queue) <= LevelWidth[level + 1]
    /\ search = "score" =>
          Cardinality(NodesAtDepth(level + 1)) + Branching * (Len(queue) - 1) + Len(fresh)
              <= LevelWidth[level + 1]

\* What the nodes of the level not expanded may still cost is covered.
BudgetInv ==
    /\ tokens < Ceiling
    /\ search = "expand" => tokens + Len(queue) * Cost < Ceiling
    /\ search = "score" => tokens + (Len(queue) - 1) * Cost + Len(fresh) * ScoreTokens < Ceiling

TreeInv == TreeTyped /\ SizeInv /\ LevelInv /\ BudgetInv

\* The limits, and what expanding a node costs at most.
LEMMA CostFacts ==
    /\ Branching \in Nat \ {0} /\ MaxDepth \in Nat \ {0} /\ MaxTotalNodes \in Nat \ {0}
    /\ TokenBudget \in Nat \ {0} /\ ScoreTokens \in Nat
    /\ Max(ReplyTokens) \in Nat /\ \A t \in ReplyTokens : t \in Nat /\ t <= Max(ReplyTokens)
    /\ Cost \in Nat /\ LevelWidth[MaxDepth - 1] \in Nat \ {0} /\ Ceiling \in Nat
    /\ TokenBudget <= Ceiling /\ Cost < Ceiling
<1>1. /\ Branching \in Nat \ {0} /\ MaxDepth \in Nat \ {0} /\ MaxTotalNodes \in Nat \ {0}
      /\ TokenBudget \in Nat \ {0} /\ ScoreTokens \in Nat
  BY TreeAssumption
<1>2. Max(ReplyTokens) \in ReplyTokens /\ \A t \in ReplyTokens : Max(ReplyTokens) >= t
  BY TreeAssumption DEF Max
<1>3. Max(ReplyTokens) \in Nat /\ \A t \in ReplyTokens : t \in Nat /\ t <= Max(ReplyTokens)
  BY <1>2, TreeAssumption
<1>4. Branching * ScoreTokens \in Nat /\ Cost \in Nat
  BY <1>1, <1>3 DEF Cost
<1>5. LevelWidth[MaxDepth - 1] \in Nat \ {0}
  BY <1>1, Widths
<1>6. ASSUME NEW w \in Nat \ {0}, NEW c \in Nat PROVE w * c \in Nat /\ c <= w * c
  OBVIOUS
<1>7. LevelWidth[MaxDepth - 1] * Cost \in Nat /\ Cost <= LevelWidth[MaxDepth - 1] * Cost
  BY <1>4, <1>5, <1>6
<1> QED
  BY <1>1, <1>3, <1>4, <1>5, <1>7 DEF Ceiling

\* The nodes of a depth are finitely many positions of the tree.
LEMMA DepthFinite ==
    ASSUME TreeTyped, NEW d
    PROVE  /\ NodesAtDepth(d) \subseteq 1 .. Len(tree) /\ NodesAtDepth(d) \in SUBSET Int
           /\ IsFiniteSet(NodesAtDepth(d))
           /\ Cardinality(NodesAtDepth(d)) \in Nat
<1>1. Len(tree) \in Int /\ DOMAIN tree = 1 .. Len(tree)
  BY LenProperties DEF TreeTyped
<1>2. IsFiniteSet(1 .. Len(tree))
  BY <1>1, FS_Interval
<1>3. NodesAtDepth(d) \subseteq 1 .. Len(tree)
  BY <1>1 DEF NodesAtDepth
<1> QED
  BY <1>1, <1>2, <1>3, FS_Subset, FS_CardinalityType

\* A thought that is kept is one node more at the depth below the level.
LEMMA Grown ==
    ASSUME TreeTyped, search = "score", NEW s \in Scores, NEW line \in 1 .. ReplyLines,
           UNCHANGED level,
           tree' = Append(tree, Thought(line, s)),
           \A k \in 1 .. Len(tree) : tree[k].depth <= level + 1
    PROVE  /\ tree' \in Seq(Thoughts) /\ Len(tree') = Len(tree) + 1
           /\ \A k \in 1 .. Len(tree') : tree'[k].depth <= level + 1
           /\ Cardinality(NodesAtDepth(level + 1)') = Cardinality(NodesAtDepth(level + 1)) + 1
<1> DEFINE new == Thought(line, s)
<1>0. /\ tree \in Seq(Thoughts) /\ Len(tree) \in Nat /\ Head(queue) \in 1 .. Len(tree)
      /\ level \in Nat /\ queue \in Seq(1 .. Len(tree))
  <2>1. queue # <<>> /\ queue \in Seq(1 .. Len(tree))
    BY DEF TreeTyped
  <2> QED
    BY <2>1, HeadTailProperties DEF TreeTyped
<1>1. new \in Thoughts /\ new.depth = level + 1
  <2>1. tree[Head(queue)] \in Thoughts
    BY <1>0, ElementOfSeq
  <2>2. tree[Head(queue)].id \in Nat \X Nat
    BY <2>1 DEF Thoughts
  <2>3. line \in Nat /\ s \in Int /\ level + 1 \in Nat /\ Head(queue) \in Nat
        /\ <<level + 1, line>> \in Nat \X Nat
    <3>1. ReplyLines \in Nat /\ Scores \subseteq Int
      BY TreeAssumption
    <3>2. line \in Nat /\ s \in Int /\ level + 1 \in Nat /\ Head(queue) \in Nat
      BY <1>0, <3>1
    <3> QED
      BY <3>2
  <2>4. /\ new.id = <<level + 1, line>> /\ new.depth = level + 1 /\ new.score = s
        /\ new.parent = tree[Head(queue)].id /\ new.from = Head(queue)
    BY DEF Thought
  <2>5. new \in Thoughts
    BY <2>2, <2>3 DEF Thought, Thoughts
  <2> QED
    BY <2>4, <2>5
<1> HIDE DEF new
<1>2. /\ tree' \in Seq(Thoughts) /\ Len(tree') = Len(tree) + 1
      /\ \A k \in 1 .. Len(tree) : tree'[k] = tree[k]
      /\ tree'[Len(tree) + 1] = new
  BY <1>0, <1>1, AppendProperties DEF new
<1>3. \A k \in 1 .. Len(tree') : k \in 1 .. Len(tree) \/ k = Len(tree) + 1
  BY <1>0, <1>2
<1>4. \A k \in 1 .. Len(tree') : tree'[k].depth <= level + 1
  BY <1>0, <1>1, <1>2, <1>3
<1>5. DOMAIN tree = 1 .. Len(tree) /\ DOMAIN tree' = 1 .. Len(tree) + 1
  BY <1>0, <1>2, LenProperties
<1>6. NodesAtDepth(level + 1)' = NodesAtDepth(level + 1) \cup {Len(tree) + 1}
  <2>1. NodesAtDepth(level + 1)' = {k \in 1 .. Len(tree) + 1 : tree'[k].depth = level + 1}
    BY <1>5 DEF NodesAtDepth
  <2>2. NodesAtDepth(level + 1) = {k \in 1 .. Len(tree) : tree[k].depth = level + 1}
    BY <1>5 DEF NodesAtDepth
  <2>3. 1 .. Len(tree) + 1 = (1 .. Len(tree)) \cup {Len(tree) + 1}
    BY <1>0
  <2> QED
    BY <2>1, <2>2, <2>3, <1>1, <1>2
<1>7. Len(tree) + 1 \notin NodesAtDepth(level + 1) /\ IsFiniteSet(NodesAtDepth(level + 1))
  BY <1>0, DepthFinite
<1> QED
  BY <1>2, <1>4, <1>6, <1>7, FS_AddElement

LEMMA TreeStarts == ASSUME TreeInit PROVE TreeInv
<1>1. /\ search = "expand" /\ tree = <<Root>> /\ level = 0 /\ queue = <<1>>
      /\ fresh = <<>> /\ tokens = 0
  BY DEF TreeInit
<1>2. Root \in Thoughts /\ Root.depth = 0
  <2>1. <<0, 0>> \in Nat \X Nat
    OBVIOUS
  <2> QED
    BY <2>1 DEF Root, Thoughts
<1>3. TreeTyped /\ Len(tree) = 1 /\ Len(queue) = 1 /\ tree[1] = Root
  <2>1. <<Root>> \in Seq(Thoughts) /\ Len(<<Root>>) = 1 /\ <<Root>>[1] = Root
    BY <1>2
  <2>2. <<1>> \in Seq(1 .. 1) /\ <<>> \in Seq(1 .. ReplyLines) /\ Len(<<1>>) = 1
    OBVIOUS
  <2> QED
    BY <1>1, <2>1, <2>2 DEF TreeTyped
<1>4. SizeInv
  BY <1>1, <1>3, CostFacts DEF SizeInv
<1>5. LevelInv
  <2>1. DOMAIN tree = 1 .. 1
    BY <1>3, LenProperties DEF TreeTyped
  <2>2. NodesAtDepth(1) = {}
    BY <2>1, <1>2, <1>3 DEF NodesAtDepth
  <2>3. Cardinality(NodesAtDepth(1)) = 0
    BY <2>2, FS_EmptySet
  <2>4. LevelWidth[1] = Branching * LevelWidth[0] /\ LevelWidth[0] = 1
    BY Widths, CostFacts
  <2>5. level + 1 = 1 /\ Branching * 1 = Branching /\ Branching \in Nat
    BY <1>1, CostFacts
  <2>6. \A k \in 1 .. Len(tree) : tree[k].depth <= level + 1
    BY <1>1, <1>2, <1>3
  <2> QED
    BY <1>1, <1>3, <2>3, <2>4, <2>5, <2>6, CostFacts DEF LevelInv
<1>6. BudgetInv
  BY <1>1, <1>3, CostFacts DEF BudgetInv
<1> QED
  BY <1>3, <1>4, <1>5, <1>6 DEF TreeInv

LEMMA TreeRests == ASSUME TreeInv, UNCHANGED treeVars PROVE TreeInv'
BY DEF TreeInv, TreeTyped, SizeInv, LevelInv, BudgetInv, NodesAtDepth, treeVars

\* Nothing is counted once the search is over.
LEMMA TreeEnds ==
    ASSUME TreeInv, search' \in {"path", "synthesize", "done", "error"}, level' \in Nat,
           UNCHANGED <<tree, queue, fresh, tokens>>
    PROVE  TreeInv'
BY DEF TreeInv, TreeTyped, SizeInv, LevelInv, BudgetInv

\* The next level is as wide as its nodes are many, and costs no more than that.
LEMMA LevelStep == ASSUME TreeInv, NextLevel PROVE TreeInv'
<1>1. CASE search' = "path"
  BY <1>1, TreeEnds DEF NextLevel, TreeInv, TreeTyped
<1>2. CASE search' # "path"
  <2> DEFINE next == NodesAtDepth(level + 1)
             n == Cardinality(next)
  <2>1. /\ search = "expand" /\ search' = "expand" /\ queue = <<>> /\ level' = level + 1
        /\ level + 1 < MaxDepth /\ tokens < TokenBudget /\ queue' = Sorted(next)
        /\ UNCHANGED <<tree, fresh, tokens>>
    BY <1>2 DEF NextLevel
  <2>2. /\ level \in Nat /\ tokens \in Nat /\ Len(tree) \in Nat
        /\ \A k \in 1 .. Len(tree) : tree[k].depth <= level + 1
        /\ n + Branching * Len(queue) <= LevelWidth[level + 1]
        /\ DOMAIN tree = 1 .. Len(tree)
        /\ \A k \in 1 .. Len(tree) : tree[k].depth \in Nat
    <3>1. DOMAIN tree = 1 .. Len(tree) /\ \A k \in 1 .. Len(tree) : tree[k] \in Thoughts
      BY LenProperties, ElementOfSeq DEF TreeInv, TreeTyped
    <3> QED
      BY <2>1, <3>1 DEF TreeInv, TreeTyped, LevelInv, Thoughts
  <2>3. n \in Nat /\ IsFiniteSet(next) /\ next \in SUBSET Int /\ next \subseteq 1 .. Len(tree)
    BY DepthFinite DEF TreeInv
  <2>4. n <= LevelWidth[level + 1]
    <3>1. Len(queue) = 0 /\ Branching * 0 = 0
      BY <2>1, CostFacts
    <3> QED
      BY <2>2, <2>3, <3>1
  <2>5. Sorted(next) \in Seq(next) /\ Len(Sorted(next)) = n
    BY <2>3, SortedFacts
  <2>6. queue' \in Seq(1 .. Len(tree)) /\ Len(queue') = n
    BY <2>1, <2>3, <2>5, SeqMonotonic
  <2> HIDE DEF n, next
  <2>7. TreeTyped' /\ SizeInv'
    BY <2>1, <2>2, <2>6 DEF TreeInv, TreeTyped, SizeInv
  <2>8. LevelInv'
    <3>1. NodesAtDepth(level + 1)' = {k \in 1 .. Len(tree) : tree[k].depth = level + 2}
      BY <2>1, <2>2 DEF NodesAtDepth
    <3>2. \A k \in 1 .. Len(tree) : ~(tree[k].depth = level + 2)
      BY <2>2
    <3>3. NodesAtDepth(level + 1)' = {}
      BY <3>1, <3>2
    <3>4. Cardinality(NodesAtDepth(level + 1)') = 0
      BY <3>3, FS_EmptySet
    <3>5. LevelWidth[level + 2] = Branching * LevelWidth[level + 1]
          /\ LevelWidth[level + 1] \in Nat
      <4>1. level + 2 \in 1 .. MaxDepth /\ (level + 2) - 1 = level + 1
            /\ level + 1 \in 0 .. MaxDepth
        BY <2>1, <2>2, CostFacts
      <4> QED
        BY <4>1, Widths
    <3>6. Branching * n <= Branching * LevelWidth[level + 1]
      BY <3>5, <2>3, <2>4, CostFacts, TimesGrows
    <3>7. Branching * n \in Nat
      BY <2>3, CostFacts
    <3>8. level' + 1 = level + 2 /\ level' <= MaxDepth - 1
          /\ \A k \in 1 .. Len(tree') : tree'[k].depth <= level' + 1
      BY <2>1, <2>2, CostFacts
    <3> QED
      BY <2>1, <2>6, <3>4, <3>5, <3>6, <3>7, <3>8 DEF LevelInv
  <2>9. BudgetInv'
    <3>1. LevelWidth[level + 1] <= LevelWidth[MaxDepth - 1] /\ LevelWidth[level + 1] \in Nat
          /\ LevelWidth[MaxDepth - 1] \in Nat
      <4>1. level + 1 \in 0 .. MaxDepth - 1 /\ level + 1 \in 0 .. MaxDepth
        BY <2>1, <2>2, CostFacts
      <4> QED
        BY <4>1, WidthGrows, Widths, CostFacts
    <3>2. n <= LevelWidth[MaxDepth - 1]
      BY <3>1, <2>3, <2>4
    <3>3. Cost * n <= Cost * LevelWidth[MaxDepth - 1]
      BY <3>1, <3>2, <2>3, CostFacts, TimesGrows
    <3>4. n * Cost <= LevelWidth[MaxDepth - 1] * Cost
          /\ n * Cost \in Nat /\ LevelWidth[MaxDepth - 1] * Cost \in Nat
      BY <3>1, <3>3, <2>3, CostFacts
    <3>5. tokens + n * Cost < Ceiling /\ tokens < Ceiling
      BY <3>4, <2>1, <2>2, CostFacts DEF Ceiling
    <3> QED
      BY <2>1, <2>6, <3>5 DEF BudgetInv
  <2> QED
    BY <2>7, <2>8, <2>9 DEF TreeInv
<1> QED
  BY <1>1, <1>2

\* What a full tree leaves unexpanded costs nothing.
LEMMA StopStep == ASSUME TreeInv, StopLevel PROVE TreeInv'
<1>1. /\ search = "expand" /\ search' = "expand" /\ queue' = <<>> /\ Len(queue') = 0
      /\ UNCHANGED <<tree, level, fresh, tokens>>
  BY DEF StopLevel
<1>2. /\ Branching * 0 = 0 /\ 0 * Cost = 0 /\ Branching * Len(queue) \in Nat
      /\ tokens \in Nat
  <2>1. Len(queue) \in Nat
    BY DEF TreeInv, TreeTyped
  <2> QED
    BY <2>1, CostFacts DEF TreeInv, TreeTyped
<1>3. TreeTyped' /\ SizeInv'
  BY <1>1 DEF TreeInv, TreeTyped, SizeInv
<1>4. LevelInv'
  <2>1. NodesAtDepth(level + 1)' = NodesAtDepth(level + 1)
        /\ Cardinality(NodesAtDepth(level + 1)) \in Nat
    BY <1>1, DepthFinite DEF NodesAtDepth, TreeInv
  <2>2. LevelWidth[level + 1] \in Nat
    <3>1. level + 1 \in 0 .. MaxDepth
      BY <1>1, CostFacts DEF TreeInv, TreeTyped, LevelInv
    <3> QED
      BY <3>1, Widths
  <2> QED
    BY <1>1, <1>2, <2>1, <2>2 DEF TreeInv, LevelInv
<1>5. BudgetInv'
  BY <1>1, <1>2, CostFacts DEF TreeInv, BudgetInv
<1> QED
  BY <1>3, <1>4, <1>5 DEF TreeInv

\* What the actions on the head of the queue need of the rest of it.
LEMMA QueueFacts ==
    ASSUME TreeInv, queue # <<>>, search \in {"expand", "score"}
    PROVE  /\ Len(queue) \in Nat \ {0} /\ Len(tree) \in Nat /\ tokens \in Nat /\ level \in Nat
           /\ Tail(queue) \in Seq(1 .. Len(tree)) /\ Len(Tail(queue)) = Len(queue) - 1
           /\ Branching * (Len(queue) - 1) \in Nat /\ (Len(queue) - 1) * Cost \in Nat
           /\ Branching * Len(queue) = Branching * (Len(queue) - 1) + Branching
           /\ Len(queue) * Cost = (Len(queue) - 1) * Cost + Cost
           /\ Cardinality(NodesAtDepth(level + 1)) \in Nat
           /\ LevelWidth[level + 1] \in Nat
<1>1. queue \in Seq(1 .. Len(tree)) /\ Len(tree) \in Nat /\ tokens \in Nat /\ level \in Nat
  BY DEF TreeInv, TreeTyped
<1>2. /\ Len(queue) \in Nat \ {0}
      /\ Tail(queue) \in Seq(1 .. Len(tree)) /\ Len(Tail(queue)) = Len(queue) - 1
  BY <1>1, EmptySeq, HeadTailProperties
<1>3. \A a, b \in Nat : a * b \in Nat
  OBVIOUS
<1>4. Len(queue) - 1 \in Nat /\ Branching \in Nat /\ Cost \in Nat
  BY <1>2, CostFacts
<1>5. Branching * (Len(queue) - 1) \in Nat /\ (Len(queue) - 1) * Cost \in Nat
  BY <1>3, <1>4
<1>6. /\ Branching * Len(queue) = Branching * (Len(queue) - 1) + Branching
      /\ Len(queue) * Cost = (Len(queue) - 1) * Cost + Cost
  <2>1. ASSUME NEW a \in Nat, NEW b \in Nat
        PROVE  a * b = a * (b - 1) + a /\ b * a = (b - 1) * a + a
    OBVIOUS
  <2> QED
    BY <1>2, <1>4, <2>1
<1>7. LevelWidth[level + 1] \in Nat
  <2>1. level + 1 \in 0 .. MaxDepth
    BY <1>1, CostFacts DEF TreeInv, LevelInv
  <2> QED
    BY <2>1, Widths
<1> QED
  BY <1>1, <1>2, <1>5, <1>6, <1>7, DepthFinite DEF TreeInv

\* A reply has at most Branching thoughts, on lines of their own.
LEMMA ReplyFacts ==
    ASSUME NEW reply \in Replies
    PROVE  /\ reply \in Seq(1 .. ReplyLines) /\ Len(reply) \in 1 .. Branching
           /\ \A i, j \in 1 .. Len(reply) : reply[i] = reply[j] => i = j
<1>1. PICK K \in SUBSET (1 .. ReplyLines) : Cardinality(K) \in 1 .. Branching /\ reply = Sorted(K)
  BY DEF Replies
<1>2. IsFiniteSet(K) /\ K \in SUBSET Int
  <2>1. 1 \in Int /\ ReplyLines \in Int
    BY TreeAssumption
  <2>2. IsFiniteSet(1 .. ReplyLines)
    BY <2>1, FS_Interval
  <2>3. 1 .. ReplyLines \subseteq Int
    OBVIOUS
  <2> QED
    BY <2>2, <2>3, FS_Subset
<1>3. /\ Sorted(K) \in Seq(K) /\ Len(Sorted(K)) = Cardinality(K)
      /\ \A i, j \in 1 .. Cardinality(K) : Sorted(K)[i] = Sorted(K)[j] => i = j
  BY <1>2, SortedFacts
<1> QED
  BY <1>1, <1>3, SeqMonotonic

\* A reply is paid out of the share of its node, and what is left pays its scores.
LEMMA GenerateStep == ASSUME TreeInv, GenerateThoughts PROVE TreeInv'
<1>1. PICK t \in ReplyTokens : tokens' = tokens + t
  BY DEF GenerateThoughts
<1>2. /\ search = "expand" /\ search' = "score" /\ queue # <<>> /\ Len(tree) < MaxTotalNodes
      /\ fresh' \in Replies /\ UNCHANGED <<tree, level, queue>>
  <2>1. Len(tree) \in Nat
    BY DEF TreeInv, TreeTyped
  <2> QED
    BY <2>1, CostFacts DEF GenerateThoughts, TreeIsFull
<1>3. fresh' \in Seq(1 .. ReplyLines) /\ Len(fresh') \in 1 .. Branching
  BY <1>2, ReplyFacts
<1>4. t \in Nat /\ t <= Max(ReplyTokens)
  BY CostFacts
<1>5. TreeTyped' /\ SizeInv'
  <2>1. tokens \in Nat /\ Len(tree) \in Nat /\ Len(queue) \in Nat \ {0}
    BY <1>2, QueueFacts
  <2>2. tokens' \in Nat /\ Len(fresh') > 0 /\ Len(fresh') <= Branching
    BY <1>1, <1>3, <1>4, <2>1, CostFacts
  <2>3. TreeTyped'
    BY <1>2, <1>3, <2>1, <2>2 DEF TreeInv, TreeTyped
  <2>4. SizeInv'
    BY <1>2, <1>3, <2>1, <2>2, CostFacts DEF SizeInv
  <2> QED
    BY <2>3, <2>4
<1>6. LevelInv'
  <2>1. NodesAtDepth(level + 1)' = NodesAtDepth(level + 1)
    BY <1>2 DEF NodesAtDepth
  <2>2. /\ level <= MaxDepth - 1
        /\ \A k \in 1 .. Len(tree) : tree[k].depth <= level + 1
        /\ Cardinality(NodesAtDepth(level + 1)) + Branching * Len(queue) <= LevelWidth[level + 1]
    BY <1>2 DEF TreeInv, LevelInv
  <2>3. Cardinality(NodesAtDepth(level + 1)) + Branching * (Len(queue) - 1) + Len(fresh')
            <= LevelWidth[level + 1]
    <3> DEFINE n == Cardinality(NodesAtDepth(level + 1))
               q == Branching * (Len(queue) - 1)
               w == LevelWidth[level + 1]
    <3>1. /\ n \in Nat /\ q \in Nat /\ w \in Nat /\ Branching \in Nat
          /\ Branching * Len(queue) = q + Branching
      BY <1>2, QueueFacts, CostFacts
    <3>2. n + Branching * Len(queue) <= w
      BY <2>2
    <3> HIDE DEF n, q, w
    <3>3. n + (q + Branching) <= w
      BY <3>1, <3>2
    <3>4. n + q + Len(fresh') <= w
      BY <1>3, <3>1, <3>3
    <3> QED
      BY <3>4 DEF n, q, w
  <2> QED
    BY <1>2, <2>1, <2>2, <2>3 DEF LevelInv
<1>7. BudgetInv'
  <2>1. tokens + Len(queue) * Cost < Ceiling
    BY <1>2 DEF TreeInv, BudgetInv
  <2>2. tokens + (Len(queue) - 1) * Cost + Cost < Ceiling
    BY <1>2, <2>1, QueueFacts, CostFacts
  <2>3. Len(fresh') * ScoreTokens <= Branching * ScoreTokens /\ Len(fresh') * ScoreTokens \in Nat
    <3>1. ScoreTokens * Len(fresh') <= ScoreTokens * Branching
      BY <1>3, CostFacts, TimesGrows
    <3>2. \A a, b \in Nat : a * b = b * a /\ a * b \in Nat
      OBVIOUS
    <3> QED
      BY <1>3, <3>1, <3>2, CostFacts
  <2>4. Branching * ScoreTokens \in Nat /\ Cost = Max(ReplyTokens) + Branching * ScoreTokens
    BY CostFacts DEF Cost
  <2>5. tokens' + (Len(queue) - 1) * Cost + Len(fresh') * ScoreTokens < Ceiling
    <3> DEFINE q == (Len(queue) - 1) * Cost
               f == Len(fresh') * ScoreTokens
               b == Branching * ScoreTokens
    <3>1. q \in Nat /\ f \in Nat /\ b \in Nat /\ tokens \in Nat /\ Max(ReplyTokens) \in Nat
          /\ Ceiling \in Nat /\ t \in Nat
      BY <1>2, <1>4, <2>3, <2>4, QueueFacts, CostFacts
    <3>2. tokens + q + (Max(ReplyTokens) + b) < Ceiling /\ f <= b
      BY <2>2, <2>3, <2>4
    <3> HIDE DEF q, f, b
    <3>3. (tokens + t) + q + f < Ceiling
      BY <1>4, <3>1, <3>2
    <3> QED
      BY <1>1, <3>3 DEF q, f
  <2>6. tokens' < Ceiling
    <3> DEFINE q == (Len(queue) - 1) * Cost
               f == Len(fresh') * ScoreTokens
    <3>1. q \in Nat /\ f \in Nat /\ tokens \in Nat /\ t \in Nat /\ Ceiling \in Nat
      BY <1>2, <1>4, <2>3, QueueFacts, CostFacts
    <3>2. (tokens + t) + q + f < Ceiling
      BY <1>1, <2>5
    <3> HIDE DEF q, f
    <3>3. tokens + t < Ceiling
      BY <3>1, <3>2
    <3> QED
      BY <1>1, <3>3
  <2> QED
    BY <1>2, <2>5, <2>6 DEF BudgetInv
<1> QED
  BY <1>5, <1>6, <1>7 DEF TreeInv

\* A node whose reply is lost costs nothing.
LEMMA LostStep == ASSUME TreeInv, GenerateLost PROVE TreeInv'
<1>1. /\ search = "expand" /\ search' = "expand" /\ queue # <<>> /\ queue' = Tail(queue)
      /\ UNCHANGED <<tree, level, fresh, tokens>>
  BY DEF GenerateLost
<1>2. TreeTyped' /\ SizeInv'
  BY <1>1, QueueFacts DEF TreeInv, TreeTyped, SizeInv
<1>3. LevelInv'
  <2>1. NodesAtDepth(level + 1)' = NodesAtDepth(level + 1)
    BY <1>1 DEF NodesAtDepth
  <2>2. /\ level <= MaxDepth - 1
        /\ \A k \in 1 .. Len(tree) : tree[k].depth <= level + 1
        /\ Cardinality(NodesAtDepth(level + 1)) + Branching * Len(queue) <= LevelWidth[level + 1]
    BY <1>1 DEF TreeInv, LevelInv
  <2>3. Cardinality(NodesAtDepth(level + 1)) + Branching * Len(queue') <= LevelWidth[level + 1]
    <3> DEFINE n == Cardinality(NodesAtDepth(level + 1))
               q == Branching * (Len(queue) - 1)
               w == LevelWidth[level + 1]
    <3>1. /\ n \in Nat /\ q \in Nat /\ w \in Nat /\ Branching \in Nat
          /\ Branching * Len(queue) = q + Branching /\ Len(queue') = Len(queue) - 1
      BY <1>1, QueueFacts, CostFacts
    <3>2. n + Branching * Len(queue) <= w
      BY <2>2
    <3> HIDE DEF n, w
    <3>3. n + q <= w
      <4> HIDE DEF q
      <4> QED
        BY <3>1, <3>2
    <3> QED
      BY <3>1, <3>3 DEF n, w
  <2> QED
    BY <1>1, <2>1, <2>2, <2>3 DEF LevelInv
<1>4. BudgetInv'
  BY <1>1, QueueFacts, CostFacts DEF TreeInv, BudgetInv
<1> QED
  BY <1>2, <1>3, <1>4 DEF TreeInv

\* A score is paid out of its share, and a thought takes the place it waited for.
LEMMA ScoreStep == ASSUME TreeInv, ScoreThought \/ ScoreLost PROVE TreeInv'
<1>1. /\ search = "score" /\ fresh' = Tail(fresh) /\ UNCHANGED level
      /\ \/ Len(fresh) = 1 /\ queue' = Tail(queue) /\ search' = "expand"
         \/ Len(fresh) # 1 /\ queue' = queue /\ search' = "score"
  BY DEF ScoreThought, ScoreLost, ThoughtDone
<1>2. /\ fresh \in Seq(1 .. ReplyLines) /\ fresh # <<>> /\ queue # <<>>
      /\ tree \in Seq(Thoughts) /\ TreeTyped
      /\ Head(fresh) \in 1 .. ReplyLines
      /\ Tail(fresh) \in Seq(1 .. ReplyLines) /\ Len(Tail(fresh)) = Len(fresh) - 1
      /\ Len(fresh) \in Nat \ {0}
  <2>1. fresh \in Seq(1 .. ReplyLines) /\ Len(fresh) > 0 /\ Len(queue) > 0
        /\ tree \in Seq(Thoughts) /\ TreeTyped
    BY <1>1 DEF TreeInv, TreeTyped
  <2>2. fresh # <<>> /\ queue # <<>>
    BY <2>1
  <2> QED
    BY <2>1, <2>2, HeadTailProperties, EmptySeq
<1> DEFINE N == Cardinality(NodesAtDepth(level + 1))
<1>3. /\ tree' \in Seq(Thoughts) /\ Len(tree') \in Len(tree) .. Len(tree) + 1
      /\ \A k \in 1 .. Len(tree') : tree'[k].depth <= level + 1
      /\ N' \in N .. N + 1
      /\ tokens' \in tokens .. tokens + ScoreTokens
  <2>1. \A k \in 1 .. Len(tree) : tree[k].depth <= level + 1
    BY <1>1 DEF TreeInv, LevelInv
  <2>2. N \in Nat /\ Len(tree) \in Nat /\ tokens \in Nat /\ ScoreTokens \in Nat
    BY <1>1, <1>2, QueueFacts, CostFacts
  <2>3. tokens' \in tokens .. tokens + ScoreTokens
    BY <2>2 DEF ScoreThought, ScoreLost
  <2>4. CASE tree' = tree
    <3>1. N' = N
      BY <1>1, <2>4 DEF NodesAtDepth
    <3> HIDE DEF N
    <3> QED
      BY <1>2, <2>1, <2>2, <2>3, <2>4, <3>1
  <2>5. CASE tree' # tree
    <3>1. PICK s \in Scores : tree' = Append(tree, Thought(Head(fresh), s))
      BY <2>5 DEF ScoreThought, ScoreLost, ReadScores
    <3>2. /\ tree' \in Seq(Thoughts) /\ Len(tree') = Len(tree) + 1
          /\ \A k \in 1 .. Len(tree') : tree'[k].depth <= level + 1
          /\ N' = N + 1
      BY <1>1, <1>2, <2>1, <3>1, Grown
    <3> HIDE DEF N
    <3> QED
      BY <2>2, <2>3, <3>2
  <2> QED
    BY <2>4, <2>5
<1>4. queue \in Seq(1 .. Len(tree')) /\ Tail(queue) \in Seq(1 .. Len(tree'))
  <2>1. queue \in Seq(1 .. Len(tree)) /\ Tail(queue) \in Seq(1 .. Len(tree))
        /\ 1 .. Len(tree) \subseteq 1 .. Len(tree')
    BY <1>1, <1>2, <1>3, QueueFacts DEF TreeTyped
  <2> QED
    BY <2>1, SeqMonotonic
<1>5. /\ N \in Nat /\ Len(queue) \in Nat \ {0} /\ Len(tree) \in Nat /\ tokens \in Nat
      /\ level \in Nat /\ Len(Tail(queue)) = Len(queue) - 1
      /\ Branching * (Len(queue) - 1) \in Nat /\ (Len(queue) - 1) * Cost \in Nat
      /\ LevelWidth[level + 1] \in Nat /\ ScoreTokens \in Nat /\ Ceiling \in Nat
      /\ Branching \in Nat /\ MaxTotalNodes \in Nat /\ MaxDepth \in Nat /\ Cost \in Nat
  BY <1>1, <1>2, QueueFacts, CostFacts
<1>6. Len(fresh) * ScoreTokens = (Len(fresh) - 1) * ScoreTokens + ScoreTokens
      /\ (Len(fresh) - 1) * ScoreTokens \in Nat
  <2>1. ASSUME NEW a \in Nat \ {0}, NEW b \in Nat
        PROVE  a * b = (a - 1) * b + b /\ (a - 1) * b \in Nat
    <3>1. PICK c \in Nat : a = c + 1
      <4>1. a - 1 \in Nat /\ a = (a - 1) + 1
        OBVIOUS
      <4> QED
        BY <4>1
    <3>2. (c + 1) * b = c * b + b /\ c * b \in Nat /\ (c + 1) - 1 = c
      OBVIOUS
    <3> QED
      BY <3>1, <3>2
  <2> QED
    BY <1>2, <1>5, <2>1
<1> HIDE DEF N
<1>7. TreeTyped'
  <2>1. level' \in Nat /\ tokens' \in Nat /\ Len(tree') > 0
    BY <1>1, <1>2, <1>3, <1>5 DEF TreeTyped
  <2>2. queue' \in Seq(1 .. Len(tree')) /\ fresh' \in Seq(1 .. ReplyLines)
    BY <1>1, <1>2, <1>4
  <2>3. search' = "score" => Len(queue') > 0 /\ Len(fresh') > 0
    BY <1>1, <1>2, <1>5
  <2> QED
    BY <1>1, <1>3, <2>1, <2>2, <2>3 DEF TreeTyped
<1>8. SizeInv'
  <2>1. /\ Len(tree) + Len(fresh) <= MaxTotalNodes - 1 + Branching
        /\ Len(fresh') = Len(fresh) - 1 /\ Len(fresh) \in Nat \ {0}
    BY <1>1, <1>2 DEF TreeInv, SizeInv
  <2>2. Len(tree') \in Nat /\ Len(tree') <= Len(tree) + 1
    BY <1>3, <1>5
  <2> QED
    BY <1>5, <2>1, <2>2 DEF SizeInv
<1>9. LevelInv'
  <2>1. /\ level <= MaxDepth - 1
        /\ N + Branching * (Len(queue) - 1) + Len(fresh) <= LevelWidth[level + 1]
    BY <1>1 DEF TreeInv, LevelInv, N
  <2>2. N' + Branching * (Len(queue) - 1) + Len(fresh) - 1 <= LevelWidth[level + 1]
    BY <1>2, <1>3, <1>5, <2>1
  <2>3. N' = Cardinality(NodesAtDepth(level + 1)')
    BY <1>1 DEF N
  <2>4. CASE Len(fresh) = 1
    <3>1. N' + Branching * (Len(queue) - 1) <= LevelWidth[level + 1]
      BY <1>2, <1>3, <1>5, <2>2, <2>4
    <3>2. search' = "expand" /\ Len(queue') = Len(queue) - 1
      BY <1>1, <1>5, <2>4
    <3> QED
      BY <1>1, <1>3, <2>1, <2>3, <3>1, <3>2 DEF LevelInv
  <2>5. CASE Len(fresh) # 1
    <3>1. N' + Branching * (Len(queue) - 1) + (Len(fresh) - 1) <= LevelWidth[level + 1]
      BY <1>2, <1>3, <1>5, <2>2
    <3> QED
      BY <1>1, <1>2, <1>3, <2>1, <2>3, <2>5, <3>1 DEF LevelInv
  <2> QED
    BY <2>4, <2>5
<1>10. BudgetInv'
  <2>1. tokens + (Len(queue) - 1) * Cost + Len(fresh) * ScoreTokens < Ceiling
    BY <1>1 DEF TreeInv, BudgetInv
  <2>2. tokens' + (Len(queue) - 1) * Cost + (Len(fresh) - 1) * ScoreTokens < Ceiling
    BY <1>3, <1>5, <1>6, <2>1
  <2>3. tokens' < Ceiling /\ tokens' + (Len(queue) - 1) * Cost < Ceiling
    BY <1>3, <1>5, <1>6, <2>2
  <2> QED
    BY <1>1, <1>2, <1>5, <2>2, <2>3 DEF BudgetInv
<1> QED
  BY <1>7, <1>8, <1>9, <1>10 DEF TreeInv

LEMMA TreeSteps == ASSUME TreeInv, TreeNext PROVE TreeInv'
<1>1. CASE FindBestPath \/ SynthesizeToTResult \/ PathOrSynthesisLost
  BY <1>1, TreeEnds DEF FindBestPath, SynthesizeToTResult, PathOrSynthesisLost, TreeInv, TreeTyped
<1> QED
  BY <1>1, LevelStep, StopStep, GenerateStep, LostStep, ScoreStep DEF TreeNext

-----------------------------------------------------------------------------
(* Tree of thoughts: the best branch of a tree of two levels *)

\* Every thought lies below the node it names as its parent.
Grounded ==
    /\ tree[1] = Root
    /\ \A k \in 1 .. Len(tree) :
          tree[k].id \in {tree[k].depth} \X Nat /\ tree[k].depth <= MaxDepth
    /\ \A k \in 2 .. Len(tree) :
          /\ tree[k].depth >= 1 /\ tree[k].from \in 1 .. Len(tree)
          /\ tree[tree[k].from].depth = tree[k].depth - 1
          /\ tree[k].parent = tree[tree[k].from].id

\* The thoughts below the root have identifiers of their own.
Distinct == \A j, k \in NodesAtDepth(1) : tree[j].id = tree[k].id => j = k

\* Only the root is expanded at level 0, and once.
RootInv ==
    /\ search \in {"expand", "score"} =>
          \A i \in 1 .. Len(queue) : tree[queue[i]].depth = level
    /\ search = "expand" /\ level = 0 => queue = <<>> \/ (Len(queue) = 1 /\ Len(tree) = 1)
    /\ search = "score" /\ level = 0 =>
          /\ Len(queue) = 1
          /\ \A i, j \in 1 .. Len(fresh) : fresh[i] = fresh[j] => i = j
          /\ \A k \in NodesAtDepth(1), i \in 1 .. Len(fresh) : tree[k].id # <<1, fresh[i]>>

\* No leaf is chosen while the tree may grow.
LeafInv == search \in {"expand", "score", "path"} => leaf = 0

GroundInv == Grounded /\ Distinct /\ RootInv /\ LeafInv

\* The nodes of a tree.
LEMMA TreeFacts ==
    ASSUME TreeTyped
    PROVE  /\ Len(tree) \in Nat \ {0} /\ DOMAIN tree = 1 .. Len(tree)
           /\ \A k \in 1 .. Len(tree) : tree[k] \in Thoughts /\ tree[k].depth \in Nat
                                        /\ tree[k].score \in Int
<1>1. tree \in Seq(Thoughts) /\ Len(tree) > 0
  BY DEF TreeTyped
<1>2. Len(tree) \in Nat \ {0} /\ DOMAIN tree = 1 .. Len(tree)
  BY <1>1, LenProperties
<1>3. \A k \in 1 .. Len(tree) : tree[k] \in Thoughts
  BY <1>1, ElementOfSeq
<1>4. \A k \in 1 .. Len(tree) : tree[k].depth \in Nat /\ tree[k].score \in Int
  BY <1>3 DEF Thoughts
<1> QED
  BY <1>2, <1>3, <1>4

\* A parent is found by its identifier.
LEMMA ParentFound ==
    ASSUME MaxDepth <= 2, TreeTyped, Grounded, Distinct, NEW k \in 2 .. Len(tree)
    PROVE  NodeMap(tree[k].parent) = tree[k].from
<1> DEFINE p == tree[k].from
           same == {j \in DOMAIN tree : tree[j].id = tree[k].parent}
<1>1. /\ p \in 1 .. Len(tree) /\ tree[k].parent = tree[p].id
      /\ tree[p].depth = tree[k].depth - 1 /\ tree[k].depth \in 1 .. 2
      /\ DOMAIN tree = 1 .. Len(tree) /\ tree[1].depth = 0
  <2>1. /\ Len(tree) \in Nat /\ DOMAIN tree = 1 .. Len(tree) /\ MaxDepth \in Nat
        /\ k \in 1 .. Len(tree) /\ tree[k].depth \in Nat
    BY TreeFacts, TreeAssumption
  <2>2. tree[k].depth <= MaxDepth /\ tree[k].depth >= 1 /\ tree[1].depth = 0
    BY <2>1 DEF Grounded, Root
  <2> QED
    BY <2>1, <2>2 DEF Grounded
<1>2. ASSUME NEW j \in same PROVE j = p
  <2>1. j \in 1 .. Len(tree) /\ tree[j].id = tree[p].id
    BY <1>1
  <2>2. tree[j].id \in {tree[j].depth} \X Nat /\ tree[p].id \in {tree[p].depth} \X Nat
    BY <1>1, <2>1 DEF Grounded
  <2>3. tree[j].depth = tree[p].depth
    BY <2>1, <2>2
  <2>4. CASE tree[p].depth = 0
    <3>1. \A i \in 1 .. Len(tree) : tree[i].depth = 0 => i = 1
      BY TreeFacts DEF Grounded
    <3> QED
      BY <1>1, <2>1, <2>3, <2>4, <3>1
  <2>5. CASE tree[p].depth = 1
    BY <1>1, <2>1, <2>3, <2>5 DEF Distinct, NodesAtDepth
  <2> QED
    BY <1>1, <2>4, <2>5
<1>3. same = {p}
  <2>1. p \in same
    BY <1>1
  <2> HIDE DEF same
  <2> QED
    BY <1>2, <2>1
<1>4. p \in Int
  BY <1>1, TreeFacts
<1>5. Max({p}) = p
  BY <1>4 DEF Max
<1> QED
  BY <1>3, <1>5 DEF NodeMap

\* The branch of a node of a tree of two levels, written out.
Climb(k) ==
    [d \in 0 .. tree[k].depth |->
        IF d = tree[k].depth THEN k
        ELSE IF d = tree[k].depth - 1 THEN tree[k].from ELSE tree[tree[k].from].from]

\* The branch traced by identifiers is the branch the node grew on.
LEMMA BranchFound ==
    ASSUME MaxDepth <= 2, TreeTyped, Grounded, Distinct, NEW k \in 1 .. Len(tree)
    PROVE  /\ Trace(k) = Climb(k) /\ Branch(k) = Climb(k)
           /\ Climb(k) \in [0 .. tree[k].depth -> 1 .. Len(tree)]
<1> DEFINE D == tree[k].depth
           p == tree[k].from
           q == tree[p].from
           c == Climb(k)
           B(f) == [d \in 0 .. D |-> IF d = D THEN k ELSE tree[f[d + 1]].from]
           T(f) == [d \in 0 .. D |-> IF d = D THEN k ELSE NodeMap(tree[f[d + 1]].parent)]
<1>1. D \in 0 .. 2 /\ tree[1].depth = 0
  <2>1. D \in Nat /\ MaxDepth \in Nat /\ D <= MaxDepth
    BY TreeFacts, TreeAssumption DEF Grounded
  <2> QED
    BY <2>1 DEF Grounded, Root
<1>2. D >= 1 => /\ k \in 2 .. Len(tree) /\ p \in 1 .. Len(tree) /\ tree[p].depth = D - 1
                /\ NodeMap(tree[k].parent) = p
  <2>1. D >= 1 => k \in 2 .. Len(tree)
    BY <1>1, TreeFacts
  <2> QED
    BY <2>1, ParentFound DEF Grounded
<1>3. D = 2 => /\ p \in 2 .. Len(tree) /\ q \in 1 .. Len(tree)
               /\ NodeMap(tree[p].parent) = q
  <2>1. D = 2 => p \in 2 .. Len(tree)
    BY <1>1, <1>2, TreeFacts
  <2> QED
    BY <2>1, ParentFound DEF Grounded
<1>0. /\ D \in 0 .. D /\ D \in Int
      /\ D >= 1 => D - 1 \in 0 .. D /\ (D - 1) + 1 = D /\ D - 1 # D
      /\ D = 2 => 0 \in 0 .. D /\ 0 + 1 = D - 1 /\ 0 # D /\ 0 # D - 1
      /\ \A d \in 0 .. D : d = D \/ (D >= 1 /\ d = D - 1) \/ (D = 2 /\ d = 0)
  <2> HIDE DEF D
  <2>1. D = 0 \/ D = 1 \/ D = 2
    BY <1>1
  <2> QED
    BY <2>1
<1>c. c = [d \in 0 .. D |-> IF d = D THEN k ELSE IF d = D - 1 THEN p ELSE q]
  BY DEF Climb
<1> HIDE DEF c, D, p, q
<1>4. /\ c = [d \in 0 .. D |-> c[d]] /\ c[D] = k
      /\ D >= 1 => c[D - 1] = p
      /\ D = 2 => c[0] = q
  BY <1>0, <1>c
<1>5. c \in [0 .. D -> 1 .. Len(tree)]
  <2>1. \A d \in 0 .. D : c[d] \in 1 .. Len(tree)
    BY <1>0, <1>2, <1>3, <1>4
  <2> QED
    BY <1>4, <2>1
<1>6. ASSUME NEW f, f = B(f) PROVE f = c
  <2>1. f = [d \in 0 .. D |-> f[d]]
    BY <1>6
  <2>2. \A d \in 0 .. D : f[d] = IF d = D THEN k ELSE tree[f[d + 1]].from
    BY <1>6
  <2>3. f[D] = k
    BY <1>0, <2>2
  <2>4. D >= 1 => f[D - 1] = p
    BY <1>0, <2>2, <2>3 DEF p
  <2>5. D = 2 => f[0] = q
    BY <1>0, <2>2, <2>4 DEF q
  <2>6. \A d \in 0 .. D : f[d] = c[d]
    BY <1>0, <1>4, <2>3, <2>4, <2>5
  <2> QED
    BY <1>4, <2>1, <2>6
<1>7. ASSUME NEW f, f = T(f) PROVE f = c
  <2>1. f = [d \in 0 .. D |-> f[d]]
    BY <1>7
  <2>2. \A d \in 0 .. D : f[d] = IF d = D THEN k ELSE NodeMap(tree[f[d + 1]].parent)
    BY <1>7
  <2>3. f[D] = k
    BY <1>0, <2>2
  <2>4. D >= 1 => f[D - 1] = p
    BY <1>0, <1>2, <2>2, <2>3
  <2>5. D = 2 => f[0] = q
    BY <1>0, <1>3, <2>2, <2>4
  <2>6. \A d \in 0 .. D : f[d] = c[d]
    BY <1>0, <1>4, <2>3, <2>4, <2>5
  <2> QED
    BY <1>4, <2>1, <2>6
<1>8. c = B(c) /\ c = T(c)
  <2>1. ASSUME NEW d \in 0 .. D
        PROVE  /\ c[d] = IF d = D THEN k ELSE tree[c[d + 1]].from
               /\ c[d] = IF d = D THEN k ELSE NodeMap(tree[c[d + 1]].parent)
    <3>1. CASE d = D
      BY <1>4, <3>1
    <3>2. CASE D >= 1 /\ d = D - 1
      <4>1. d + 1 = D /\ d # D /\ c[d] = p /\ c[d + 1] = k
        BY <1>0, <1>4, <3>2
      <4> QED
        BY <1>2, <3>2, <4>1 DEF p
    <3>3. CASE D = 2 /\ d = 0
      <4>1. d + 1 = D - 1 /\ d # D /\ c[d] = q /\ c[d + 1] = p
        BY <1>0, <1>4, <3>3
      <4> QED
        BY <1>3, <3>3, <4>1 DEF q
    <3> QED
      BY <1>0, <3>1, <3>2, <3>3
  <2>2. c = [d \in 0 .. D |-> IF d = D THEN k ELSE tree[c[d + 1]].from]
    BY <1>4, <2>1
  <2>3. c = [d \in 0 .. D |-> IF d = D THEN k ELSE NodeMap(tree[c[d + 1]].parent)]
    BY <1>4, <2>1
  <2> QED
    BY <2>2, <2>3
<1>9. Branch(k) = c
  <2>1. Branch(k) = CHOOSE f : f = B(f)
    BY DEF Branch, D
  <2>2. (CHOOSE f : f = B(f)) = B(CHOOSE f : f = B(f))
    <3> HIDE DEF B
    <3> QED
      BY <1>8
  <2> HIDE DEF B
  <2> QED
    BY <1>6, <2>1, <2>2
<1>10. Trace(k) = c
  <2>1. Trace(k) = CHOOSE f : f = T(f)
    BY DEF Trace, D
  <2>2. (CHOOSE f : f = T(f)) = T(CHOOSE f : f = T(f))
    <3> HIDE DEF T
    <3> QED
      BY <1>8
  <2> HIDE DEF T
  <2> QED
    BY <1>7, <2>1, <2>2
<1> QED
  BY <1>5, <1>9, <1>10 DEF c, D

\* The sum of the scores on a branch is a number.
LEMMA ScoreIsInt ==
    ASSUME TreeTyped, NEW n \in Nat, NEW branch \in [0 .. n -> 1 .. Len(tree)]
    PROVE  ScoreOf(branch) \in Int
<1> DEFINE F(f) == [d \in DOMAIN branch |->
                      tree[branch[d]].score + (IF d = 0 THEN 0 ELSE f[d - 1])]
           sum == CHOOSE f : f = F(f)
           succ == [d \in 1 .. n |-> [w \in Int |-> tree[branch[d]].score + w]]
<1>1. \A d \in 0 .. n : tree[branch[d]].score \in Int
  <2> TAKE d \in 0 .. n
  <2>1. branch[d] \in 1 .. Len(tree)
    OBVIOUS
  <2>2. tree[branch[d]] \in Thoughts
    BY <2>1, ElementOfSeq DEF TreeTyped
  <2> QED
    BY <2>2 DEF Thoughts
<1>2. succ \in Moves(Int, n)
  BY <1>1 DEF Moves
<1>3. \A d \in 1 .. n, w \in Int : succ[d][w] = tree[branch[d]].score + w
  OBVIOUS
<1> HIDE DEF succ
<1>4. PICK g \in [0 .. n -> Int] :
          /\ g[0] = tree[branch[0]].score
          /\ \A d \in 1 .. n : g[d] = succ[d][g[d - 1]]
  <2>1. tree[branch[0]].score \in Int
    BY <1>1
  <2>2. \E g \in Runs(Int, tree[branch[0]].score, n, succ) : TRUE
    BY <1>2, <2>1, Unfold
  <2> QED
    BY <2>2 DEF Runs
<1>5. g = F(g)
  <2>1. ASSUME NEW d \in 0 .. n
        PROVE  g[d] = tree[branch[d]].score + (IF d = 0 THEN 0 ELSE g[d - 1])
    <3>1. CASE d = 0
      BY <1>1, <1>4, <3>1
    <3>2. CASE d # 0
      <4>1. d \in 1 .. n /\ g[d - 1] \in Int
        BY <3>2
      <4> QED
        BY <1>3, <1>4, <3>2, <4>1
    <3> QED
      BY <3>1, <3>2
  <2> QED
    BY <2>1
<1>6. sum = F(sum)
  <2> HIDE DEF F
  <2> QED
    BY <1>5
<1>7. \A d \in 0 .. n : sum[d] = tree[branch[d]].score + (IF d = 0 THEN 0 ELSE sum[d - 1])
  <2> HIDE DEF sum
  <2> QED
    BY <1>6
<1>8. ScoreOf(branch) = sum[Max(DOMAIN branch)]
  BY DEF ScoreOf
<1> HIDE DEF sum
<1>9. \A d \in 0 .. n : sum[d] \in Int
  <2> DEFINE Good == {d \in Nat : d <= n => sum[d] \in Int}
  <2>1. 0 \in Good
    <3>1. 0 \in 0 .. n
      OBVIOUS
    <3>2. sum[0] = tree[branch[0]].score + 0
      BY <1>7, <3>1
    <3> QED
      BY <1>1, <3>1, <3>2
  <2>2. ASSUME NEW d \in Good PROVE d + 1 \in Good
    <3> SUFFICES ASSUME d + 1 <= n PROVE sum[d + 1] \in Int
      OBVIOUS
    <3>1. d + 1 \in 0 .. n /\ d + 1 # 0 /\ (d + 1) - 1 = d /\ sum[d] \in Int
      OBVIOUS
    <3>2. sum[d + 1] = tree[branch[d + 1]].score + sum[d]
      BY <1>7, <3>1
    <3> QED
      BY <1>1, <3>1, <3>2
  <2>3. Good = Nat
    <3>1. Good \subseteq Nat
      OBVIOUS
    <3> HIDE DEF Good
    <3> QED
      BY <2>1, <2>2, <3>1, Induct
  <2>4. \A d \in 0 .. n : d \in Good
    <3> HIDE DEF Good
    <3> QED
      BY <2>3
  <2> QED
    BY <2>4
<1>10. Max(DOMAIN branch) \in 0 .. n
  <2>1. n \in 0 .. n /\ \A y \in 0 .. n : n >= y
    OBVIOUS
  <2>2. DOMAIN branch = 0 .. n
    OBVIOUS
  <2> QED
    BY <2>1, <2>2 DEF Max
<1> QED
  BY <1>8, <1>9, <1>10

\* A name of a parent leads to a node one level up, whichever parent it is.
LEMMA ParentNamed ==
    ASSUME TreeTyped, Grounded, NEW k \in 1 .. Len(tree), tree[k].depth >= 1
    PROVE  /\ NodeMap(tree[k].parent) \in 1 .. Len(tree)
           /\ tree[NodeMap(tree[k].parent)].depth = tree[k].depth - 1
<1> DEFINE p == tree[k].from
           same == {j \in DOMAIN tree : tree[j].id = tree[k].parent}
<1>1. DOMAIN tree = 1 .. Len(tree) /\ Len(tree) \in Nat /\ tree[1].depth = 0
  BY TreeFacts DEF Grounded, Root
<1>2. k \in 2 .. Len(tree)
  BY <1>1
<1>3. /\ p \in 1 .. Len(tree) /\ tree[k].parent = tree[p].id
      /\ tree[p].depth = tree[k].depth - 1
  BY <1>2 DEF Grounded
<1>4. same \in SUBSET Nat /\ same # {} /\ \A j \in same : j <= Len(tree)
  BY <1>1, <1>3
<1>5. Max(same) \in same
  <2> HIDE DEF same
  <2> QED
    BY <1>1, <1>4, Largest
<1>6. NodeMap(tree[k].parent) \in same
  BY <1>5 DEF NodeMap
<1>7. ASSUME NEW j \in same PROVE j \in 1 .. Len(tree) /\ tree[j].depth = tree[p].depth
  <2>1. j \in 1 .. Len(tree) /\ tree[j].id = tree[p].id
    BY <1>1, <1>3
  <2>2. tree[j].id \in {tree[j].depth} \X Nat /\ tree[p].id \in {tree[p].depth} \X Nat
    BY <1>3, <2>1 DEF Grounded
  <2> QED
    BY <2>1, <2>2
<1> HIDE DEF same
<1> QED
  BY <1>3, <1>6, <1>7

\* A trace is a function to nodes of the tree, at any depth.
LEMMA TraceIn ==
    ASSUME TreeTyped, Grounded, NEW k \in 1 .. Len(tree)
    PROVE  Trace(k) \in [0 .. tree[k].depth -> 1 .. Len(tree)]
<1> DEFINE N == 1 .. Len(tree)
           D == tree[k].depth
           T(f) == [d \in 0 .. D |-> IF d = D THEN k ELSE NodeMap(tree[f[d + 1]].parent)]
           next == [w \in N |-> IF tree[w].depth >= 1 THEN NodeMap(tree[w].parent) ELSE k]
           succ == [d \in 1 .. D |-> next]
           up == CHOOSE f : f = T(f)
<1>1. D \in Nat
  BY TreeFacts
<1>2. \A w \in N : tree[w].depth >= 1 =>
          /\ NodeMap(tree[w].parent) \in N
          /\ tree[NodeMap(tree[w].parent)].depth = tree[w].depth - 1
  BY ParentNamed
<1>3. next \in [N -> N]
  BY <1>2
<1> HIDE DEF next
<1>4. succ \in Moves(N, D)
  BY <1>3 DEF Moves
<1>5. PICK g \in [0 .. D -> N] : g[0] = k /\ \A d \in 1 .. D : g[d] = next[g[d - 1]]
  <2>1. \E g \in Runs(N, k, D, succ) : TRUE
    BY <1>1, <1>4, Unfold
  <2> QED
    BY <2>1 DEF Runs
<1> HIDE DEF N, D, succ
<1>6. \A j \in 0 .. D : g[j] \in N /\ tree[g[j]].depth = D - j
  <2> DEFINE Good == {j \in Nat : j <= D => tree[g[j]].depth = D - j}
  <2>1. 0 \in Good
    BY <1>1, <1>5 DEF D
  <2>2. ASSUME NEW j \in Good PROVE j + 1 \in Good
    <3> SUFFICES ASSUME j + 1 <= D PROVE tree[g[j + 1]].depth = D - (j + 1)
      OBVIOUS
    <3>1. j \in 0 .. D /\ j + 1 \in 1 .. D /\ (j + 1) - 1 = j /\ D - j >= 1
      BY <1>1
    <3>2. g[j] \in N /\ tree[g[j]].depth = D - j
      BY <1>1, <1>5, <3>1
    <3>3. g[j + 1] = NodeMap(tree[g[j]].parent)
      BY <1>5, <3>1, <3>2 DEF next
    <3>4. tree[g[j + 1]].depth = (D - j) - 1
      BY <1>2, <3>1, <3>2, <3>3
    <3> QED
      BY <1>1, <3>4
  <2>3. Good = Nat
    <3>1. Good \subseteq Nat
      OBVIOUS
    <3> HIDE DEF Good
    <3> QED
      BY <2>1, <2>2, <3>1, Induct
  <2>4. \A j \in 0 .. D : j \in Good
    <3> HIDE DEF Good
    <3> QED
      BY <1>1, <2>3
  <2> QED
    BY <1>5, <2>4
<1> DEFINE h == [d \in 0 .. D |-> g[D - d]]
<1>7. h = T(h)
  <2>1. ASSUME NEW d \in 0 .. D
        PROVE  h[d] = IF d = D THEN k ELSE NodeMap(tree[h[d + 1]].parent)
    <3>1. CASE d = D
      <4>1. D - d = 0 /\ d \in 0 .. D
        BY <1>1, <3>1
      <4> QED
        BY <1>5, <3>1, <4>1
    <3>2. CASE d # D
      <4>1. /\ d + 1 \in 0 .. D /\ D - (d + 1) \in 0 .. D /\ D - d \in 1 .. D
            /\ (D - d) - 1 = D - (d + 1) /\ D - (D - (d + 1)) >= 1
        BY <1>1, <3>2
      <4>2. g[D - (d + 1)] \in N /\ tree[g[D - (d + 1)]].depth >= 1
        BY <1>6, <4>1
      <4>3. g[D - d] = NodeMap(tree[g[D - (d + 1)]].parent)
        BY <1>5, <4>1, <4>2 DEF next
      <4> QED
        BY <3>2, <4>1, <4>3
    <3> QED
      BY <3>1, <3>2
  <2> QED
    BY <2>1
<1>8. up = T(up)
  <2> HIDE DEF T, h
  <2> QED
    BY <1>7
<1>9. Trace(k) = up
  BY DEF Trace, D
<1> HIDE DEF up, h
<1>10. /\ up = [d \in 0 .. D |-> up[d]]
       /\ \A d \in 0 .. D : up[d] = IF d = D THEN k ELSE NodeMap(tree[up[d + 1]].parent)
  <2>1. up = [d \in 0 .. D |-> IF d = D THEN k ELSE NodeMap(tree[up[d + 1]].parent)]
    BY <1>8
  <2> QED
    BY <2>1
<1>11. \A d \in 0 .. D : up[d] \in N
  <2> DEFINE Good == {j \in Nat : j <= D => up[D - j] \in N /\ tree[up[D - j]].depth = D - j}
  <2>1. 0 \in Good
    <3>1. D - 0 = D /\ D \in 0 .. D
      BY <1>1
    <3>2. up[D] = k /\ k \in N
      BY <1>10, <3>1 DEF N
    <3> QED
      BY <3>1, <3>2 DEF D
  <2>2. ASSUME NEW j \in Good PROVE j + 1 \in Good
    <3> SUFFICES ASSUME j + 1 <= D
                 PROVE  up[D - (j + 1)] \in N /\ tree[up[D - (j + 1)]].depth = D - (j + 1)
      OBVIOUS
    <3>1. /\ D - (j + 1) \in 0 .. D /\ D - (j + 1) # D /\ (D - (j + 1)) + 1 = D - j
          /\ D - j >= 1 /\ (D - j) - 1 = D - (j + 1) /\ j <= D
      BY <1>1
    <3>2. up[D - j] \in N /\ tree[up[D - j]].depth = D - j
      BY <3>1
    <3>3. up[D - (j + 1)] = NodeMap(tree[up[D - j]].parent)
      BY <1>10, <3>1
    <3> QED
      BY <1>2, <3>1, <3>2, <3>3
  <2>3. Good = Nat
    <3>1. Good \subseteq Nat
      OBVIOUS
    <3> HIDE DEF Good
    <3> QED
      BY <2>1, <2>2, <3>1, Induct
  <2>4. ASSUME NEW d \in 0 .. D PROVE up[d] \in N
    <3>1. D - d \in Nat /\ D - d <= D /\ D - (D - d) = d
      BY <1>1
    <3>2. D - d \in Good
      <4> HIDE DEF Good
      <4> QED
        BY <2>3, <3>1
    <3> QED
      BY <3>1, <3>2
  <2> QED
    BY <2>4
<1> QED
  BY <1>9, <1>10, <1>11 DEF N, D

\* The order that the choice of the leaf follows has a first node, so the leaf is
\* one of the deepest nodes and no other traced branch has a higher score.
LEMMA LeafChosen ==
    ASSUME TreeTyped, Grounded
    PROVE  /\ BestLeaf \in NodesAtDepth(MaxNodeDepth)
           /\ NodesAtDepth(MaxNodeDepth) \subseteq 1 .. Len(tree)
           /\ \A k \in NodesAtDepth(MaxNodeDepth) :
                 ScoreOf(Trace(BestLeaf)) >= ScoreOf(Trace(k))
<1> DEFINE deepest == NodesAtDepth(MaxNodeDepth)
           sc == [k \in deepest |-> ScoreOf(Trace(k))]
           R == {p \in deepest \X deepest :
                    \/ sc[p[1]] > sc[p[2]]
                    \/ sc[p[1]] = sc[p[2]] /\ p[1] < p[2]}
<1>1. deepest \subseteq 1 .. Len(tree) /\ IsFiniteSet(deepest) /\ deepest # {}
  <2>1. deepest \subseteq 1 .. Len(tree) /\ IsFiniteSet(deepest)
    BY DepthFinite
  <2> DEFINE S == {tree[k].depth : k \in DOMAIN tree}
  <2>2. S \in SUBSET Nat /\ S # {} /\ (\A d \in S : d <= MaxDepth) /\ MaxDepth \in Nat
    BY TreeFacts, TreeAssumption DEF Grounded
  <2>3. Max(S) \in S
    <3> HIDE DEF S
    <3> QED
      BY <2>2, Largest
  <2>4. PICK k \in DOMAIN tree : tree[k].depth = Max(S)
    BY <2>3
  <2>5. k \in deepest
    BY <2>4 DEF NodesAtDepth, MaxNodeDepth
  <2> QED
    BY <2>1, <2>5
<1>2. \A k \in deepest : k \in Int
  BY <1>1, TreeFacts
<1>3. \A k \in deepest : ScoreOf(Trace(k)) \in Int
  <2> HIDE DEF deepest
  <2> TAKE k \in deepest
  <2>1. k \in 1 .. Len(tree) /\ tree[k].depth \in Nat
    BY <1>1, TreeFacts
  <2>2. Trace(k) \in [0 .. tree[k].depth -> 1 .. Len(tree)]
    BY <2>1, TraceIn
  <2> QED
    BY <2>1, <2>2, ScoreIsInt
<1> HIDE DEF deepest
<1>4. \A k \in deepest : sc[k] = ScoreOf(Trace(k)) /\ sc[k] \in Int
  BY <1>3
<1> HIDE DEF sc
<1>5. \A i, j \in deepest : <<i, j>> \in R <=> \/ sc[i] > sc[j]
                                               \/ sc[i] = sc[j] /\ i < j
  OBVIOUS
<1> HIDE DEF R
<1>6. Orders(R, deepest)
  <2>1. \A i \in deepest : <<i, i>> \notin R
    BY <1>2, <1>4, <1>5
  <2>2. \A h, i, j \in deepest : <<h, i>> \in R /\ <<i, j>> \in R => <<h, j>> \in R
    BY <1>2, <1>4, <1>5
  <2>3. \A i, j \in deepest : i # j => <<i, j>> \in R \/ <<j, i>> \in R
    BY <1>2, <1>4, <1>5
  <2> QED
    BY <2>1, <2>2, <2>3 DEF Orders
<1>7. PICK top \in deepest : AheadOf(top, R, deepest) = {}
  <2>1. Cardinality(deepest) \in Nat \ {0}
    BY <1>1, FS_CardinalityType, FS_EmptySet
  <2>2. 1 \in 1 .. Cardinality(deepest)
    BY <2>1
  <2>3. PICK i \in deepest : Cardinality(AheadOf(i, R, deepest)) = 1 - 1
    BY <1>1, <1>6, <2>2, RankOnto
  <2>4. IsFiniteSet(AheadOf(i, R, deepest)) /\ Cardinality(AheadOf(i, R, deepest)) = 0
    <3>1. AheadOf(i, R, deepest) \subseteq deepest
      BY DEF AheadOf
    <3> QED
      BY <1>1, <2>3, <3>1, FS_Subset
  <2> QED
    BY <2>4, FS_EmptySet
<1>8. \A j \in deepest : \/ ScoreOf(Trace(top)) > ScoreOf(Trace(j))
                         \/ ScoreOf(Trace(top)) = ScoreOf(Trace(j)) /\ top <= j
  <2> TAKE j \in deepest
  <2>1. j = top \/ <<top, j>> \in R
    BY <1>6, <1>7 DEF AheadOf, Orders
  <2> QED
    BY <1>2, <1>4, <1>5, <2>1
<1>9. /\ BestLeaf \in deepest
      /\ \A j \in deepest : \/ ScoreOf(Trace(BestLeaf)) > ScoreOf(Trace(j))
                            \/ ScoreOf(Trace(BestLeaf)) = ScoreOf(Trace(j)) /\ BestLeaf <= j
  BY <1>8 DEF BestLeaf, deepest
<1>10. \A j \in deepest : ScoreOf(Trace(BestLeaf)) >= ScoreOf(Trace(j))
  BY <1>3, <1>9
<1> QED
  BY <1>1, <1>9, <1>10 DEF deepest

\* In a tree of two levels that is the branch the leaf grew on.
LEMMA LeafIsBest ==
    ASSUME MaxDepth <= 2, TreeTyped, Grounded, Distinct
    PROVE  \A k \in NodesAtDepth(MaxNodeDepth) :
               ScoreOf(Branch(BestLeaf)) >= ScoreOf(Branch(k))
<1>1. \A k \in NodesAtDepth(MaxNodeDepth) : Trace(k) = Branch(k)
  BY LeafChosen, BranchFound
<1> QED
  BY <1>1, LeafChosen

\* BestBranchChosen with the tree and the leaf as parameters: it is the same of
\* trees and leaves that are the same.
SumOn(t, branch) ==
    LET sum[d \in DOMAIN branch] ==
            t[branch[d]].score + (IF d = 0 THEN 0 ELSE sum[d - 1])
    IN  sum[Max(DOMAIN branch)]

BranchOn(t, k) ==
    LET up[d \in 0 .. t[k].depth] ==
            IF d = t[k].depth THEN k ELSE t[up[d + 1]].from
    IN  up

BestOn(t, l) ==
    \A k \in {j \in DOMAIN t : t[j].depth = Max({t[i].depth : i \in DOMAIN t})} :
        SumOn(t, BranchOn(t, l)) >= SumOn(t, BranchOn(t, k))

LEMMA BestFacts ==
    /\ BestBranchChosen <=> (leaf # 0 => BestOn(tree, leaf))
    /\ BestBranchChosen' <=> (leaf' # 0 => BestOn(tree', leaf'))
    /\ BestOn(tree, BestLeaf) <=> \A k \in NodesAtDepth(MaxNodeDepth) :
                                      ScoreOf(Branch(BestLeaf)) >= ScoreOf(Branch(k))
<1>1. BestBranchChosen <=> (leaf # 0 => BestOn(tree, leaf))
  BY DEF BestBranchChosen, NodesAtDepth, MaxNodeDepth, ScoreOf, Branch, BestOn, SumOn, BranchOn
<1>2. BestBranchChosen' <=> (leaf' # 0 => BestOn(tree', leaf'))
  BY DEF BestBranchChosen, NodesAtDepth, MaxNodeDepth, ScoreOf, Branch, BestOn, SumOn, BranchOn
<1>3. BestOn(tree, BestLeaf) <=> \A k \in NodesAtDepth(MaxNodeDepth) :
                                     ScoreOf(Branch(BestLeaf)) >= ScoreOf(Branch(k))
  BY DEF NodesAtDepth, MaxNodeDepth, ScoreOf, Branch, BestOn, SumOn, BranchOn
<1> QED
  BY <1>1, <1>2, <1>3

LEMMA GroundStarts == ASSUME TreeInit PROVE GroundInv
<1>1. /\ search = "expand" /\ tree = <<Root>> /\ level = 0 /\ queue = <<1>> /\ leaf = 0
      /\ Len(tree) = 1 /\ tree[1] = Root /\ DOMAIN tree = 1 .. 1 /\ Len(queue) = 1
      /\ queue[1] = 1
  BY DEF TreeInit
<1>2. Root.depth = 0 /\ Root.id = <<0, 0>> /\ <<0, 0>> \in {0} \X Nat /\ MaxDepth >= 0
  BY TreeAssumption DEF Root
<1>3. Grounded
  BY <1>1, <1>2 DEF Grounded
<1>4. Distinct
  BY <1>1, <1>2 DEF Distinct, NodesAtDepth
<1> QED
  BY <1>1, <1>2, <1>3, <1>4 DEF GroundInv, RootInv, LeafInv

\* What is known of the branches stays true while the tree does not grow.
LEMMA GroundKept ==
    ASSUME GroundInv, UNCHANGED tree
    PROVE  Grounded' /\ Distinct' /\ NodesAtDepth(1)' = NodesAtDepth(1)
BY DEF GroundInv, Grounded, Distinct, NodesAtDepth

LEMMA GroundRests == ASSUME GroundInv, UNCHANGED treeVars PROVE GroundInv'
<1>1. UNCHANGED <<search, tree, level, queue, fresh, leaf>>
  BY DEF treeVars
<1> QED
  BY <1>1, GroundKept DEF GroundInv, RootInv, LeafInv

\* A new level is expanded, or the rest of this one is not.
LEMMA GroundLevel ==
    ASSUME TreeInv, GroundInv, NextLevel \/ StopLevel \/ GenerateLost
    PROVE  GroundInv'
<1>1. /\ search = "expand" /\ search' \in {"expand", "path"}
      /\ UNCHANGED <<tree, fresh, leaf>> /\ leaf = 0 /\ level \in Nat
  BY DEF NextLevel, StopLevel, GenerateLost, GroundInv, LeafInv, TreeInv, TreeTyped
<1>2. Grounded' /\ Distinct' /\ LeafInv'
  BY <1>1, GroundKept DEF LeafInv
<1>3. RootInv'
  <2>1. CASE NextLevel /\ search' = "expand"
    <3>1. level' = level + 1 /\ queue' = Sorted(NodesAtDepth(level + 1))
      BY <2>1 DEF NextLevel
    <3>2. /\ Sorted(NodesAtDepth(level + 1)) \in Seq(NodesAtDepth(level + 1))
      BY DepthFinite, SortedFacts DEF TreeInv
    <3>3. \A i \in 1 .. Len(queue') : queue'[i] \in NodesAtDepth(level + 1)
      BY <3>1, <3>2, ElementOfSeq
    <3>4. \A i \in 1 .. Len(queue') : tree'[queue'[i]].depth = level'
      BY <1>1, <3>1, <3>3 DEF NodesAtDepth
    <3> QED
      BY <1>1, <2>1, <3>1, <3>4 DEF RootInv
  <2>2. CASE NextLevel /\ search' = "path"
    BY <2>2 DEF RootInv
  <2>3. CASE StopLevel
    <3>1. search' = "expand" /\ queue' = <<>> /\ Len(queue') = 0 /\ UNCHANGED level
      BY <2>3 DEF StopLevel
    <3> QED
      BY <3>1 DEF RootInv
  <2>4. CASE GenerateLost
    <3>1. search' = "expand" /\ queue # <<>> /\ queue' = Tail(queue) /\ UNCHANGED level
      BY <2>4 DEF GenerateLost
    <3>2. queue \in Seq(1 .. Len(tree))
      BY DEF TreeInv, TreeTyped
    <3>3. /\ Len(queue') = Len(queue) - 1 /\ Len(queue) \in Nat
          /\ queue' \in Seq(1 .. Len(tree))
          /\ \A i \in 1 .. Len(queue') : queue'[i] = queue[i + 1] /\ i + 1 \in 1 .. Len(queue)
      BY <3>1, <3>2, HeadTailProperties, LenProperties
    <3>4. \A i \in 1 .. Len(queue') : tree'[queue'[i]].depth = level'
      BY <1>1, <3>1, <3>3 DEF GroundInv, RootInv
    <3>5. level = 0 => queue' = <<>>
      <4>1. level = 0 => Len(queue') = 0
        BY <1>1, <3>1, <3>3 DEF GroundInv, RootInv
      <4> QED
        BY <3>3, <4>1, EmptySeq
    <3> QED
      BY <3>1, <3>4, <3>5 DEF RootInv
  <2> QED
    BY <1>1, <2>1, <2>2, <2>3, <2>4
<1> QED
  BY <1>2, <1>3 DEF GroundInv

\* The root is expanded when there is no other node.
LEMMA GroundGenerate == ASSUME TreeInv, GroundInv, GenerateThoughts PROVE GroundInv'
<1>1. /\ search = "expand" /\ search' = "score" /\ queue # <<>> /\ fresh' \in Replies
      /\ UNCHANGED <<tree, level, queue, leaf>> /\ leaf = 0
  BY DEF GenerateThoughts, GroundInv, LeafInv
<1>2. Grounded' /\ Distinct' /\ LeafInv'
  BY <1>1, GroundKept DEF LeafInv
<1>3. \A i, j \in 1 .. Len(fresh') : fresh'[i] = fresh'[j] => i = j
  BY <1>1, ReplyFacts
<1>4. level = 0 => NodesAtDepth(1) = {} /\ Len(queue) = 1
  <2> SUFFICES ASSUME level = 0 PROVE NodesAtDepth(1) = {} /\ Len(queue) = 1
    OBVIOUS
  <2>1. Len(queue) = 1 /\ Len(tree) = 1
    BY <1>1 DEF GroundInv, RootInv
  <2>2. DOMAIN tree = 1 .. 1 /\ tree[1].depth = 0
    BY <2>1, TreeFacts DEF TreeInv, GroundInv, Grounded, Root
  <2> QED
    BY <2>1, <2>2 DEF NodesAtDepth
<1>5. NodesAtDepth(1)' = NodesAtDepth(1)
  BY <1>1 DEF NodesAtDepth
<1>6. RootInv'
  BY <1>1, <1>3, <1>4, <1>5 DEF GroundInv, RootInv
<1> QED
  BY <1>2, <1>6 DEF GroundInv

\* A thought kept below the root has an identifier of its own.
LEMMA GroundScore == ASSUME TreeInv, GroundInv, ScoreThought \/ ScoreLost PROVE GroundInv'
<1>1. /\ search = "score" /\ fresh' = Tail(fresh) /\ UNCHANGED <<level, leaf>> /\ leaf = 0
      /\ \/ Len(fresh) = 1 /\ queue' = Tail(queue) /\ search' = "expand"
         \/ Len(fresh) # 1 /\ queue' = queue /\ search' = "score"
      /\ \/ tree' = tree
         \/ \E s \in Scores : tree' = Append(tree, Thought(Head(fresh), s))
  BY DEF ScoreThought, ScoreLost, ThoughtDone, ReadScores, GroundInv, LeafInv
<1>2. /\ fresh \in Seq(1 .. ReplyLines) /\ queue \in Seq(1 .. Len(tree))
      /\ fresh # <<>> /\ queue # <<>> /\ tree \in Seq(Thoughts) /\ level \in Nat
      /\ level <= MaxDepth - 1
  BY <1>1 DEF TreeInv, TreeTyped, LevelInv
<1>3. /\ Head(fresh) = fresh[1] /\ Head(fresh) \in 1 .. ReplyLines
      /\ Len(fresh') = Len(fresh) - 1
      /\ Len(fresh) \in Nat \ {0}
      /\ \A i \in 1 .. Len(fresh') : fresh'[i] = fresh[i + 1] /\ i + 1 \in 2 .. Len(fresh)
  <2>1. /\ Head(fresh) = fresh[1] /\ Head(fresh) \in 1 .. ReplyLines
        /\ Tail(fresh) \in Seq(1 .. ReplyLines)
        /\ Len(Tail(fresh)) = Len(fresh) - 1 /\ Len(fresh) \in Nat
        /\ \A i \in 1 .. Len(Tail(fresh)) : Tail(fresh)[i] = fresh[i + 1]
    <3>1. fresh \in Seq(1 .. ReplyLines) /\ fresh # <<>>
      BY <1>2
    <3>2. Head(fresh) = fresh[1] /\ Len(fresh) \in Nat
      BY <3>1, LenProperties
    <3> QED
      BY <3>1, <3>2, HeadTailProperties
  <2>2. Len(fresh) # 0
    BY <1>2, EmptySeq
  <2>3. \A i \in 1 .. Len(Tail(fresh)) : i + 1 \in 2 .. Len(fresh)
    BY <2>1
  <2> QED
    BY <1>1, <2>1, <2>2, <2>3
<1>4. /\ Head(queue) = queue[1] /\ Head(queue) \in 1 .. Len(tree)
      /\ Tail(queue) \in Seq(1 .. Len(tree)) /\ Len(Tail(queue)) = Len(queue) - 1
      /\ Len(queue) \in Nat \ {0} /\ 1 \in 1 .. Len(queue)
      /\ \A i \in 1 .. Len(Tail(queue)) : Tail(queue)[i] = queue[i + 1] /\ i + 1 \in 1 .. Len(queue)
  BY <1>2, HeadTailProperties, LenProperties, EmptySeq
<1>5. /\ \A i \in 1 .. Len(queue) : tree[queue[i]].depth = level /\ queue[i] \in 1 .. Len(tree)
      /\ level = 0 =>
          /\ Len(queue) = 1
          /\ \A i, j \in 1 .. Len(fresh) : fresh[i] = fresh[j] => i = j
          /\ \A k \in NodesAtDepth(1), i \in 1 .. Len(fresh) : tree[k].id # <<1, fresh[i]>>
  BY <1>1, <1>2, ElementOfSeq DEF GroundInv, RootInv
<1>6. Len(tree) \in Nat \ {0} /\ DOMAIN tree = 1 .. Len(tree)
  BY TreeFacts DEF TreeInv
\* The queue that is left.
<1>7. /\ level = 0 /\ search' = "expand" => queue' = <<>>
      /\ level = 0 /\ search' = "score" => Len(queue') = 1
      /\ \A i \in 1 .. Len(queue') : queue'[i] \in 1 .. Len(tree) /\ tree[queue'[i]].depth = level
  <2>1. level = 0 => Len(queue) = 1 /\ Tail(queue) = <<>>
    <3> SUFFICES ASSUME level = 0 PROVE Len(queue) = 1 /\ Tail(queue) = <<>>
      OBVIOUS
    <3>1. Len(queue) = 1
      BY <1>5
    <3>2. Len(Tail(queue)) = 0
      BY <1>4, <3>1
    <3> QED
      BY <1>4, <3>1, <3>2, EmptySeq
  <2>2. \A i \in 1 .. Len(Tail(queue)) :
            Tail(queue)[i] \in 1 .. Len(tree) /\ tree[Tail(queue)[i]].depth = level
    BY <1>4, <1>5
  <2> QED
    BY <1>1, <1>5, <2>1, <2>2
<1>8. LeafInv'
  BY <1>1 DEF LeafInv
<1>9. CASE tree' = tree
  <2>1. Grounded' /\ Distinct' /\ NodesAtDepth(1)' = NodesAtDepth(1)
    BY <1>1, <1>9, GroundKept
  <2>2. RootInv'
    <3>1. level' = 0 => \A i, j \in 1 .. Len(fresh') : fresh'[i] = fresh'[j] => i = j
      <4> SUFFICES ASSUME level' = 0, NEW i \in 1 .. Len(fresh'), NEW j \in 1 .. Len(fresh'),
                          fresh'[i] = fresh'[j]
                   PROVE  i = j
        OBVIOUS
      <4>1. i + 1 \in 1 .. Len(fresh) /\ j + 1 \in 1 .. Len(fresh)
            /\ fresh[i + 1] = fresh[j + 1] /\ level = 0
        BY <1>1, <1>3
      <4>2. i + 1 = j + 1
        BY <1>5, <4>1
      <4> QED
        BY <1>3, <4>2
    <3>2. level' = 0 => \A k \in NodesAtDepth(1)', i \in 1 .. Len(fresh') :
                            tree'[k].id # <<1, fresh'[i]>>
      BY <1>1, <1>3, <1>5, <1>9, <2>1
    <3> QED
      BY <1>1, <1>7, <1>9, <3>1, <3>2 DEF RootInv
  <2> QED
    BY <1>8, <2>1, <2>2 DEF GroundInv
<1>10. CASE tree' # tree
  <2> PICK s \in Scores : tree' = Append(tree, Thought(Head(fresh), s))
    BY <1>1, <1>10
  <2> DEFINE new == Thought(Head(fresh), s)
             n == Len(tree) + 1
             p == Head(queue)
  <2>1. /\ Len(tree') = n /\ tree'[n] = new /\ DOMAIN tree' = 1 .. n
        /\ \A k \in 1 .. Len(tree) : tree'[k] = tree[k]
        /\ \A k \in 1 .. n : k \in 1 .. Len(tree) \/ k = n
        /\ n \in Int /\ n \notin 1 .. Len(tree) /\ 1 .. Len(tree) \subseteq 1 .. n
    <3>1. new \in Thoughts
      <4>1. tree[p] \in Thoughts
        BY <1>2, <1>4, ElementOfSeq
      <4>2. tree[p].id \in Nat \X Nat
        BY <4>1 DEF Thoughts
      <4>3. Head(fresh) \in Nat /\ s \in Int /\ level + 1 \in Nat /\ p \in Nat
        <5>1. Head(fresh) \in 1 .. ReplyLines /\ p \in 1 .. Len(tree) /\ level \in Nat
          BY <1>2, <1>3, <1>4
        <5>2. s \in Int
          BY TreeAssumption
        <5> HIDE DEF p
        <5> QED
          BY <5>1, <5>2
      <4>4. <<level + 1, Head(fresh)>> \in Nat \X Nat
        BY <4>3
      <4> QED
        BY <4>2, <4>3, <4>4 DEF Thought, Thoughts
    <3> HIDE DEF new
    <3>2. /\ tree' \in Seq(Thoughts) /\ Len(tree') = n /\ tree'[n] = new
          /\ \A k \in 1 .. Len(tree) : tree'[k] = tree[k]
      BY <1>2, <3>1, AppendProperties DEF new
    <3> QED
      BY <1>6, <3>2, LenProperties
  <2>2. /\ new.id = <<level + 1, Head(fresh)>> /\ new.depth = level + 1
        /\ new.parent = tree[p].id /\ new.from = p
        /\ p \in 1 .. Len(tree) /\ tree[p].depth = level
    BY <1>4, <1>5 DEF Thought
  <2> HIDE DEF new, n, p
  <2>3. Grounded'
    <3>1. tree'[1] = Root
      BY <1>6, <2>1 DEF GroundInv, Grounded
    <3>2. ASSUME NEW k \in 1 .. Len(tree')
          PROVE  tree'[k].id \in {tree'[k].depth} \X Nat /\ tree'[k].depth <= MaxDepth
      <4>1. CASE k = n
        <5>1. Head(fresh) \in Nat /\ level + 1 <= MaxDepth
          <6>1. Head(fresh) \in 1 .. ReplyLines /\ level \in Nat /\ level <= MaxDepth - 1
            BY <1>2, <1>3
          <6>2. MaxDepth \in Nat
            BY CostFacts
          <6> QED
            BY <6>1, <6>2
        <5>2. <<level + 1, Head(fresh)>> \in {level + 1} \X Nat
          BY <5>1
        <5> QED
          BY <2>1, <2>2, <4>1, <5>1, <5>2
      <4>2. CASE k # n
        BY <2>1, <4>2 DEF GroundInv, Grounded
      <4> QED
        BY <4>1, <4>2
    <3>3. ASSUME NEW k \in 2 .. Len(tree')
          PROVE  /\ tree'[k].depth >= 1 /\ tree'[k].from \in 1 .. Len(tree')
                 /\ tree'[tree'[k].from].depth = tree'[k].depth - 1
                 /\ tree'[k].parent = tree'[tree'[k].from].id
      <4>1. CASE k = n
        <5>1. level + 1 >= 1 /\ (level + 1) - 1 = level
          BY <1>2
        <5> QED
          BY <2>1, <2>2, <4>1, <5>1
      <4>2. CASE k # n
        <5>1. k \in 2 .. Len(tree) /\ k \in 1 .. Len(tree)
          BY <1>6, <2>1, <4>2
        <5>2. /\ tree[k].depth >= 1 /\ tree[k].from \in 1 .. Len(tree)
              /\ tree[tree[k].from].depth = tree[k].depth - 1
              /\ tree[k].parent = tree[tree[k].from].id
          BY <5>1 DEF GroundInv, Grounded
        <5> QED
          BY <2>1, <5>1, <5>2
      <4> QED
        BY <4>1, <4>2
    <3> QED
      BY <3>1, <3>2, <3>3 DEF Grounded
  <2>4. NodesAtDepth(1)' = NodesAtDepth(1) \cup (IF level = 0 THEN {n} ELSE {})
    <3>1. NodesAtDepth(1)' = {k \in 1 .. n : tree'[k].depth = 1}
      BY <2>1 DEF NodesAtDepth
    <3>2. NodesAtDepth(1) = {k \in 1 .. Len(tree) : tree[k].depth = 1}
      BY <1>6 DEF NodesAtDepth
    <3>3. n \in 1 .. n /\ (level + 1 = 1 <=> level = 0)
      BY <1>2, <1>6 DEF n
    <3> QED
      BY <2>1, <2>2, <3>1, <3>2, <3>3
  <2>5. level = 0 => \A k \in NodesAtDepth(1) : k \in 1 .. Len(tree) /\ tree'[k].id # new.id
    <3>1. \A k \in NodesAtDepth(1) : k \in 1 .. Len(tree)
      BY <1>6 DEF NodesAtDepth
    <3>2. 1 \in 1 .. Len(fresh)
      BY <1>3
    <3>3. level = 0 => \A k \in NodesAtDepth(1) : tree[k].id # <<1, fresh[1]>>
      BY <1>5, <3>2
    <3>4. level = 0 => new.id = <<1, fresh[1]>>
      BY <1>3, <2>2
    <3> QED
      BY <2>1, <3>1, <3>3, <3>4
  <2>6. Distinct'
    <3> SUFFICES ASSUME NEW j \in NodesAtDepth(1)', NEW k \in NodesAtDepth(1)',
                        tree'[j].id = tree'[k].id
                 PROVE  j = k
      BY DEF Distinct
    <3>1. \A i \in NodesAtDepth(1) : i \in 1 .. Len(tree) /\ tree'[i] = tree[i]
      BY <1>6, <2>1 DEF NodesAtDepth
    <3>2. CASE j \in NodesAtDepth(1) /\ k \in NodesAtDepth(1)
      BY <3>1, <3>2 DEF GroundInv, Distinct
    <3>3. CASE ~(j \in NodesAtDepth(1) /\ k \in NodesAtDepth(1))
      BY <2>1, <2>4, <2>5, <3>3
    <3> QED
      BY <3>2, <3>3
  <2>7. RootInv'
    <3>1. \A i \in 1 .. Len(queue') : tree'[queue'[i]].depth = level'
      BY <1>1, <1>7, <2>1
    <3>2. level' = 0 => \A i, j \in 1 .. Len(fresh') : fresh'[i] = fresh'[j] => i = j
      <4> SUFFICES ASSUME level' = 0, NEW i \in 1 .. Len(fresh'), NEW j \in 1 .. Len(fresh'),
                          fresh'[i] = fresh'[j]
                   PROVE  i = j
        OBVIOUS
      <4>1. i + 1 \in 1 .. Len(fresh) /\ j + 1 \in 1 .. Len(fresh)
            /\ fresh[i + 1] = fresh[j + 1] /\ level = 0
        BY <1>1, <1>3
      <4>2. i + 1 = j + 1
        BY <1>5, <4>1
      <4> QED
        BY <1>3, <4>2
    <3>3. ASSUME level' = 0, NEW k \in NodesAtDepth(1)', NEW i \in 1 .. Len(fresh')
          PROVE  tree'[k].id # <<1, fresh'[i]>>
      <4>1. level = 0 /\ fresh'[i] = fresh[i + 1] /\ i + 1 \in 1 .. Len(fresh) /\ i + 1 # 1
            /\ 1 \in 1 .. Len(fresh)
        BY <1>1, <1>3, <3>3
      <4>2. CASE k = n
        <5>1. fresh[i + 1] # fresh[1]
          BY <1>5, <4>1
        <5>2. level + 1 = 1
          BY <4>1
        <5>3. tree'[k].id = <<1, fresh[1]>>
          BY <1>3, <2>1, <2>2, <4>2, <5>2
        <5>4. <<1, fresh[1]>>[2] # <<1, fresh'[i]>>[2]
          BY <4>1, <5>1
        <5> QED
          BY <5>3, <5>4
      <4>3. CASE k # n
        <5>1. k \in NodesAtDepth(1) /\ k \in 1 .. Len(tree)
          BY <1>6, <2>4, <4>3 DEF NodesAtDepth
        <5> QED
          BY <1>5, <2>1, <4>1, <5>1
      <4> QED
        BY <4>2, <4>3
    <3> QED
      BY <1>1, <1>7, <3>1, <3>2, <3>3 DEF RootInv
  <2> QED
    BY <1>8, <2>3, <2>6, <2>7 DEF GroundInv
<1> QED
  BY <1>9, <1>10

LEMMA GroundSteps == ASSUME TreeInv, GroundInv, TreeNext PROVE GroundInv'
<1>1. CASE FindBestPath \/ SynthesizeToTResult \/ PathOrSynthesisLost
  <2>1. search' \in {"synthesize", "done", "error"} /\ UNCHANGED tree
    BY <1>1 DEF FindBestPath, SynthesizeToTResult, PathOrSynthesisLost
  <2> QED
    BY <2>1, GroundKept DEF GroundInv, RootInv, LeafInv
<1> QED
  BY <1>1, GroundLevel, GroundGenerate, GroundScore DEF TreeNext

\* The branch is chosen when the tree is complete.
LEMMA BranchSteps ==
    ASSUME MaxDepth <= 2, TreeInv, GroundInv, GroundInv', BestBranchChosen,
           TreeNext \/ UNCHANGED treeVars
    PROVE  BestBranchChosen'
<1>1. CASE FindBestPath
  <2>1. leaf' = BestLeaf /\ tree' = tree
    BY <1>1 DEF FindBestPath
  <2>2. \A k \in NodesAtDepth(MaxNodeDepth) :
            ScoreOf(Branch(BestLeaf)) >= ScoreOf(Branch(k))
    BY LeafIsBest DEF TreeInv, GroundInv
  <2> QED
    BY <2>1, <2>2, BestFacts
<1>2. CASE SynthesizeToTResult \/ PathOrSynthesisLost \/ UNCHANGED treeVars
  <2>1. UNCHANGED <<tree, leaf>>
    BY <1>2 DEF SynthesizeToTResult, PathOrSynthesisLost, treeVars
  <2> QED
    BY <2>1, BestFacts
<1>3. CASE \/ NextLevel \/ StopLevel \/ GenerateThoughts \/ GenerateLost
           \/ ScoreThought \/ ScoreLost
  <2>1. leaf' = leaf /\ search \in {"expand", "score"}
    BY <1>3 DEF NextLevel, StopLevel, GenerateThoughts, GenerateLost, ScoreThought, ScoreLost,
                ThoughtDone
  <2>2. leaf' = 0
    BY <2>1 DEF GroundInv, LeafInv
  <2> QED
    BY <2>2 DEF BestBranchChosen
<1> QED
  BY <1>1, <1>2, <1>3 DEF TreeNext

-----------------------------------------------------------------------------
(* Research *)

\* The records of the evidence.
Items == [id : SubqueryIds \X STRING \X Nat, type : STRING, source : STRING \cup Chunks,
          ref : Seq(SubqueryIds \cup STRING \cup Chunks), credibility : 0 .. 10]

\* A source is the last part of the reference.
Retrieved == {e \in Items : e.source = e.ref[Len(e.ref)]}

\* What the sources give are such records.
LEMMA ItemIn ==
    ASSUME NEW sub \in SubqueryIds, NEW type \in STRING, NEW j \in Nat,
           NEW source \in STRING \cup Chunks,
           NEW ref \in Seq(SubqueryIds \cup STRING \cup Chunks), ref[Len(ref)] = source,
           NEW credibility \in 0 .. 10
    PROVE  Item(sub, type, j, source, ref, credibility) \in Retrieved
<1>1. <<sub, type, j>> \in SubqueryIds \X STRING \X Nat
  OBVIOUS
<1> DEFINE e == Item(sub, type, j, source, ref, credibility)
<1>2. /\ e = [id |-> <<sub, type, j>>, type |-> type, source |-> source, ref |-> ref,
              credibility |-> credibility]
      /\ e.source = source /\ e.ref = ref
  BY DEF Item
<1>3. e \in Items
  BY <1>1, <1>2 DEF Items
<1> HIDE DEF e
<1> QED
  BY <1>2, <1>3 DEF Retrieved, e

LEMMA HitsIn ==
    ASSUME NEW sub \in SubqueryIds, "local_rag" \in STRING
    PROVE  Hits(sub) \subseteq Seq(Retrieved)
<1> SUFFICES ASSUME NEW hits \in Hits(sub) PROVE hits \in Seq(Retrieved)
  OBVIOUS
<1>1. PICK C \in SUBSET Chunks : \E relevant \in SUBSET C :
          hits = [i \in DOMAIN SetToSeq(C) |->
                    Item(sub, "local_rag", i - 1, SetToSeq(C)[i], <<SetToSeq(C)[i]>>,
                         IF SetToSeq(C)[i] \in relevant THEN 9 ELSE 3)]
  BY DEF Hits
<1>2. PICK relevant \in SUBSET C :
          hits = [i \in DOMAIN SetToSeq(C) |->
                    Item(sub, "local_rag", i - 1, SetToSeq(C)[i], <<SetToSeq(C)[i]>>,
                         IF SetToSeq(C)[i] \in relevant THEN 9 ELSE 3)]
  BY <1>1
<1> DEFINE found == SetToSeq(C)
           n == Cardinality(C)
<1>3. IsFiniteSet(C) /\ n \in Nat
  BY ResearchAssumption, FS_Subset, FS_CardinalityType
<1>4. found \in [1 .. n -> C]
  <2>1. \E f \in [1 .. n -> C] : IsInjective(f)
    BY <1>3, FS_CardinalityType DEF ExistsBijection, Bijection, Injection, IsInjective
  <2> QED
    BY <2>1 DEF SetToSeq
<1> HIDE DEF found, n
<1>5. DOMAIN found = 1 .. n
  BY <1>4
<1>6. ASSUME NEW i \in 1 .. n PROVE hits[i] \in Retrieved
  <2>1. found[i] \in Chunks /\ i - 1 \in Nat
    BY <1>3, <1>4
  <2>2. /\ <<found[i]>> \in Seq(SubqueryIds \cup STRING \cup Chunks)
        /\ <<found[i]>>[Len(<<found[i]>>)] = found[i]
    <3>1. found[i] \in SubqueryIds \cup STRING \cup Chunks
      BY <2>1
    <3> QED
      BY <3>1, RefIn
  <2>3. "local_rag" \in STRING /\ (IF found[i] \in relevant THEN 9 ELSE 3) \in Int
    <3>0. "local_rag" \in STRING
      OBVIOUS
    <3>1. 9 \in Int /\ 3 \in Int
      OBVIOUS
    <3>2. (IF found[i] \in relevant THEN 9 ELSE 3) \in {9, 3}
      OBVIOUS
    <3> QED
      BY <3>0, <3>1, <3>2
  <2>4. Item(sub, "local_rag", i - 1, found[i], <<found[i]>>,
             IF found[i] \in relevant THEN 9 ELSE 3) \in Retrieved
    <3>1. (IF found[i] \in relevant THEN 9 ELSE 3) \in 0 .. 10
      OBVIOUS
    <3> QED
      BY <2>1, <2>2, <2>3, <3>1, ItemIn
  <2> QED
    BY <1>2, <1>5, <2>4 DEF found
<1>7. hits \in [1 .. n -> Retrieved]
  <2>1. hits = [i \in 1 .. n |-> hits[i]]
    BY <1>2, <1>5 DEF found
  <2> QED
    BY <1>6, <2>1
<1> QED
  BY <1>3, <1>7

LEMMA SourceIn ==
    ASSUME NEW sub \in SubqueryIds, NEW type \in STRING
    PROVE  FromSource(sub, type) \subseteq Seq(Retrieved)
<1>1. Placeholder(sub, type) \in Retrieved
  <2> DEFINE T == SubqueryIds \cup STRING \cup Chunks
  <2>0. 0 \in Nat /\ 1 \in Nat /\ 5 \in Int /\ 6 \in Int
    OBVIOUS
  <2>1. sub \in T /\ type \in T /\ type \in STRING \cup Chunks
    OBVIOUS
  <2> HIDE DEF T
  <2>2. /\ <<sub, type>> \in Seq(T) /\ <<sub, type>>[Len(<<sub, type>>)] = type
        /\ <<type>> \in Seq(T) /\ <<type>>[Len(<<type>>)] = type
    BY <2>1, RefIn
  <2>3. 5 \in 0 .. 10 /\ 6 \in 0 .. 10
    OBVIOUS
  <2>4. Item(sub, type, 0, type, <<sub, type>>, 6) \in Retrieved
    BY <2>0, <2>1, <2>2, <2>3, ItemIn DEF T
  <2>5. Item(sub, type, 1, type, <<type>>, 5) \in Retrieved
    BY <2>0, <2>1, <2>2, <2>3, ItemIn DEF T
  <2> QED
    BY <2>4, <2>5 DEF Placeholder
<1>2. <<Placeholder(sub, type)>> \in Seq(Retrieved)
  BY <1>1, RefIn
<1>3. CASE type = "local_rag"
  <2>1. "local_rag" \in STRING
    BY <1>3
  <2> QED
    BY <1>2, <2>1, HitsIn DEF FromSource
<1>4. CASE type # "local_rag"
  BY <1>2, <1>4 DEF FromSource
<1> QED
  BY <1>3, <1>4

LEMMA SourcesIn ==
    ASSUME NEW sub \in SubqueryIds
    PROVE  FromSources(sub) \subseteq Seq(Retrieved)
<1> SUFFICES ASSUME NEW items \in FromSources(sub) PROVE items \in Seq(Retrieved)
  OBVIOUS
<1>1. SourceTypes \in Seq(STRING) /\ DOMAIN SourceTypes = 1 .. Len(SourceTypes)
      /\ Len(SourceTypes) \in Nat
  BY ResearchAssumption, LenProperties
<1>2. PICK f \in [DOMAIN SourceTypes ->
                     UNION {FromSource(sub, SourceTypes[i]) : i \in DOMAIN SourceTypes}] :
          /\ \A i \in DOMAIN SourceTypes : f[i] \in FromSource(sub, SourceTypes[i])
          /\ items = FlattenSeq(f)
  BY DEF FromSources
<1>3. \A i \in 1 .. Len(SourceTypes) : f[i] \in Seq(Retrieved)
  BY <1>1, <1>2, SourceIn, ElementOfSeq
<1>4. f \in [1 .. Len(SourceTypes) -> Seq(Retrieved)]
  BY <1>1, <1>2, <1>3
<1>5. f \in Seq(Seq(Retrieved))
  BY <1>1, <1>4
<1> QED
  BY <1>2, <1>5, FlattenIn

\* The cap keeps a beginning.
LEMMA CappedFacts ==
    ASSUME NEW T, NEW items \in Seq(T)
    PROVE  Capped(items) \in Seq(T) /\ Len(Capped(items)) <= MaxEvidenceItems
<1> DEFINE m == Min({Len(items), MaxEvidenceItems})
<1>1. Len(items) \in Nat /\ MaxEvidenceItems \in Nat
  BY LenProperties, ResearchAssumption
<1>2. m \in Nat /\ m <= Len(items) /\ m <= MaxEvidenceItems
  <2>1. \E x \in {Len(items), MaxEvidenceItems} :
            \A y \in {Len(items), MaxEvidenceItems} : x =< y
    BY <1>1
  <2>2. m \in {Len(items), MaxEvidenceItems}
        /\ \A y \in {Len(items), MaxEvidenceItems} : m =< y
    BY <2>1 DEF Min
  <2> HIDE DEF m
  <2> QED
    BY <1>1, <2>2
<1> HIDE DEF m
<1>3. \A i \in 1 .. m : items[i] \in T
  BY <1>1, <1>2, ElementOfSeq
<1>4. SubSeq(items, 1, m) \in Seq(T) /\ Len(SubSeq(items, 1, m)) = IF 1 <= m THEN m - 1 + 1 ELSE 0
  BY <1>2, <1>3, SubSeqProperties
<1>5. Capped(items) = SubSeq(items, 1, m)
  BY DEF Capped, m
<1> QED
  BY <1>1, <1>2, <1>4, <1>5

\* Items arranged by an order of their positions are some of the items.
LEMMA ArrangedFacts ==
    ASSUME NEW T, NEW items \in Seq(T), NEW S \in SUBSET (1 .. Len(items)), NEW R, Orders(R, S)
    PROVE  /\ Arranged(items, S, R) \in Seq(T) /\ Len(Arranged(items, S, R)) <= Len(items)
           /\ \A k \in 1 .. Len(Arranged(items, S, R)) :
                 \E i \in S : Arranged(items, S, R)[k] = items[i]
<1> DEFINE Place(k) == CHOOSE i \in S : Cardinality({j \in S : <<j, i>> \in R}) = k - 1
           out == Arranged(items, S, R)
<1> HIDE DEF Place, out
<1>1. Len(items) \in Nat /\ \A i \in 1 .. Len(items) : items[i] \in T
  BY LenProperties, ElementOfSeq
<1>2. IsFiniteSet(S) /\ Cardinality(S) \in Nat /\ Cardinality(S) <= Len(items)
  <2>1. 1 \in Int /\ Len(items) \in Int
    BY <1>1
  <2>2. IsFiniteSet(1 .. Len(items)) /\ Cardinality(1 .. Len(items)) = Len(items)
    <3>1. /\ IsFiniteSet(1 .. Len(items))
          /\ Cardinality(1 .. Len(items)) = IF 1 > Len(items) THEN 0 ELSE Len(items) - 1 + 1
      BY <2>1, FS_Interval
    <3> QED
      BY <1>1, <3>1
  <2>3. IsFiniteSet(S) /\ Cardinality(S) <= Cardinality(1 .. Len(items))
    BY <2>2, FS_Subset
  <2> QED
    BY <2>2, <2>3, FS_CardinalityType
<1>3. ASSUME NEW k \in 1 .. Cardinality(S) PROVE Place(k) \in S
  <2>1. \E i \in S : Cardinality(AheadOf(i, R, S)) = k - 1
    BY <1>2, RankOnto
  <2>2. \A i \in S : AheadOf(i, R, S) = {j \in S : <<j, i>> \in R}
    BY DEF AheadOf
  <2> QED
    BY <2>1, <2>2 DEF Place
<1>4. out = [k \in 1 .. Cardinality(S) |-> items[Place(k)]]
  BY DEF Arranged, out, Place
<1>5. \A k \in 1 .. Cardinality(S) : Place(k) \in S /\ items[Place(k)] \in T
  BY <1>1, <1>3
<1>6. out \in [1 .. Cardinality(S) -> T]
  BY <1>4, <1>5
<1>7. out \in Seq(T) /\ Len(out) = Cardinality(S)
  BY <1>2, <1>6
<1>8. \A k \in 1 .. Len(out) : \E i \in S : out[k] = items[i]
  BY <1>4, <1>5, <1>7
<1> QED
  BY <1>2, <1>7, <1>8 DEF out

\* The references retrieved.
Refs == {evidence[i].ref : i \in DOMAIN evidence}

\* The values the research takes.
ResearchTyped ==
    /\ research \in {"plan", "retrieve", "score", "detect", "reflect", "report", "done", "error"}
    /\ subqueries \in Seq(SubqueryIds)
    /\ evidence \in Seq(Retrieved) /\ Len(evidence) <= MaxEvidenceItems
    /\ research = "score" => unscored \subseteq 1 .. Len(evidence)
    /\ filtered \in Seq(Retrieved)

\* The references counted stay the references of the evidence.
CountInv == research \in {"score", "detect", "reflect", "report", "done"} =>
    sourceCount = Cardinality(Refs)

\* The evidence kept is evidence retrieved, and credible if the filter ran.
KeptInv == research \in {"detect", "reflect", "report", "done"} =>
    /\ \A k \in 1 .. Len(filtered) : \E i \in 1 .. Len(evidence) : filtered[k] = evidence[i]
    /\ Len(filtered) <= Len(evidence)
    /\ filterHeld => \A i \in 1 .. Len(filtered) : Credible(filtered[i])

\* What is marked was in a contradiction between evidence kept at the time.
FlagInv == research \in {"reflect", "report", "done"} =>
    /\ flagged = UNION contradictions
    /\ flagged \subseteq Ids(evidence)
    /\ research = "reflect" => setting.reflect
    /\ ~setting.reflect => flagged \subseteq Ids(filtered)

ResearchInv == ResearchTyped /\ CountInv /\ KeptInv /\ FlagInv

LEMMA ResearchStarts == ASSUME ResearchInit PROVE ResearchInv
<1>1. <<>> \in Seq(SubqueryIds) /\ <<>> \in Seq(Retrieved) /\ Len(<<>>) = 0
  BY EmptySeq
<1>2. MaxEvidenceItems \in Nat
  BY ResearchAssumption
<1> QED
  BY <1>1, <1>2 DEF ResearchInit, ResearchInv, ResearchTyped, CountInv, KeptInv, FlagInv

LEMMA ResearchRests == ASSUME ResearchInv, UNCHANGED researchVars PROVE ResearchInv'
BY DEF ResearchInv, ResearchTyped, CountInv, KeptInv, FlagInv, Refs, Ids, Credible, researchVars

\* Nothing is counted or kept before the retrieval ends.
LEMMA RetrieveStep ==
    ASSUME ResearchInv, PlanResearch \/ RetrieveEvidence \/ EndRetrieval
    PROVE  ResearchInv'
<1>1. CASE PlanResearch
  <2>1. subqueries' \in Seq(SubqueryIds)
    BY <1>1 DEF PlanResearch, SeqOf
  <2> QED
    BY <1>1, <2>1 DEF PlanResearch, ResearchInv, ResearchTyped, CountInv, KeptInv, FlagInv
<1>2. CASE RetrieveEvidence
  <2>1. /\ research = "retrieve" /\ research' = "retrieve" /\ subqueries # <<>>
        /\ subqueries' = Tail(subqueries) /\ filtered' = filtered
        /\ \/ \E items \in FromSources(Head(subqueries)) : evidence' = Capped(evidence \o items)
           \/ evidence' = evidence
    BY <1>2 DEF RetrieveEvidence, RetrievalOver
  <2>2. Head(subqueries) \in SubqueryIds /\ subqueries' \in Seq(SubqueryIds)
    BY <2>1, HeadTailProperties DEF ResearchInv, ResearchTyped
  <2>3. evidence' \in Seq(Retrieved) /\ Len(evidence') <= MaxEvidenceItems
    <3>1. CASE evidence' = evidence
      BY <3>1 DEF ResearchInv, ResearchTyped
    <3>2. CASE evidence' # evidence
      <4>1. PICK items \in FromSources(Head(subqueries)) : evidence' = Capped(evidence \o items)
        BY <2>1, <3>2
      <4>2. items \in Seq(Retrieved) /\ evidence \in Seq(Retrieved)
        BY <2>2, SourcesIn DEF ResearchInv, ResearchTyped
      <4>3. evidence \o items \in Seq(Retrieved)
        BY <4>2, ConcatProperties
      <4> QED
        BY <4>1, <4>3, CappedFacts
    <3> QED
      BY <3>1, <3>2
  <2> QED
    BY <2>1, <2>2, <2>3 DEF ResearchInv, ResearchTyped, CountInv, KeptInv, FlagInv
<1>3. CASE EndRetrieval
  <2>1. /\ research' = "score" /\ sourceCount' = Cardinality(Refs) /\ unscored' = DOMAIN evidence
        /\ UNCHANGED <<subqueries, evidence, filtered>>
    BY <1>3 DEF EndRetrieval, Refs
  <2>2. DOMAIN evidence = 1 .. Len(evidence)
    BY LenProperties DEF ResearchInv, ResearchTyped
  <2> QED
    BY <2>1, <2>2 DEF ResearchInv, ResearchTyped, CountInv, KeptInv, FlagInv, Refs
<1> QED
  BY <1>1, <1>2, <1>3

\* A source scored is the same source.
LEMMA SourceScored == ASSUME ResearchInv, ScoreSource PROVE ResearchInv'
<1>0. /\ research = "score" /\ research' = "score" /\ unscored # {}
      /\ unscored \subseteq 1 .. Len(evidence) /\ evidence \in Seq(Retrieved)
      /\ UNCHANGED <<subqueries, sourceCount, filtered>>
      /\ unscored' \subseteq unscored
  BY DEF ScoreSource, ResearchInv, ResearchTyped
<1> DEFINE i == Min(unscored)
<1>1. i \in 1 .. Len(evidence)
  <2>1. unscored \in SUBSET Nat
    BY <1>0
  <2>2. \E m \in unscored : \A k \in unscored : m =< k
    BY <1>0, <2>1, Least
  <2>3. i \in unscored
    BY <2>2 DEF Min
  <2> QED
    BY <1>0, <2>3
<1> HIDE DEF i
<1>2. DOMAIN evidence = 1 .. Len(evidence) /\ Len(evidence) \in Nat
      /\ \A k \in 1 .. Len(evidence) : evidence[k] \in Retrieved
  BY <1>0, LenProperties, ElementOfSeq
<1>3. /\ evidence' \in Seq(Retrieved) /\ Len(evidence') = Len(evidence)
      /\ \A k \in 1 .. Len(evidence) : evidence'[k].ref = evidence[k].ref
  <2>1. CASE evidence' = evidence
    BY <2>1, <1>0
  <2>2. CASE evidence' # evidence
    <3> DEFINE c == SourceCredibility(evidence[i].type)
               e == [evidence[i] EXCEPT !.credibility = c]
    <3>1. evidence' = [evidence EXCEPT ![i] = e]
      BY <2>2 DEF ScoreSource, i
    <3>2. c \in 0 .. 10
      BY DEF SourceCredibility
    <3> HIDE DEF c
    <3>3. evidence[i] \in Retrieved
      BY <1>1, <1>2
    <3>4. e \in Retrieved /\ e.ref = evidence[i].ref
      <4>1. e \in Items
        BY <3>2, <3>3 DEF Retrieved, Items
      <4>2. e.ref = evidence[i].ref /\ e.source = evidence[i].source
        BY <3>3 DEF Retrieved, Items
      <4> HIDE DEF e
      <4> QED
        BY <3>3, <4>1, <4>2 DEF Retrieved
    <3> HIDE DEF e
    <3>5. evidence' \in Seq(Retrieved) /\ Len(evidence') = Len(evidence)
      BY <1>0, <1>1, <3>1, <3>4, ExceptSeq
    <3>6. \A k \in 1 .. Len(evidence) : evidence'[k] = IF k = i THEN e ELSE evidence[k]
      BY <1>2, <3>1
    <3> QED
      BY <3>4, <3>5, <3>6
  <2> QED
    BY <2>1, <2>2
<1>4. Refs' = Refs
  <2>1. DOMAIN evidence' = 1 .. Len(evidence)
    BY <1>3, LenProperties
  <2> QED
    BY <1>2, <1>3, <2>1 DEF Refs
<1> QED
  BY <1>0, <1>3, <1>4 DEF ResearchInv, ResearchTyped, CountInv, KeptInv, FlagInv

\* The filter keeps evidence as it is, in another order.
LEMMA FilterStep == ASSUME ResearchInv, FilterByCredibility PROVE ResearchInv'
<1>0. /\ research = "score" /\ research' = "detect"
      /\ UNCHANGED <<subqueries, evidence, sourceCount>>
      /\ evidence \in Seq(Retrieved) /\ Len(evidence) \in Nat
      /\ DOMAIN evidence = 1 .. Len(evidence)
      /\ \A i \in 1 .. Len(evidence) : evidence[i] \in Retrieved
  BY LenProperties, ElementOfSeq DEF FilterByCredibility, ResearchInv, ResearchTyped
<1> DEFINE S == {i \in 1 .. Len(evidence) : Credible(evidence[i])}
<1>1. /\ filtered' \in Seq(Retrieved) /\ Len(filtered') <= Len(evidence)
      /\ \A k \in 1 .. Len(filtered') : \E i \in 1 .. Len(evidence) :
            filtered'[k] = evidence[i] /\ (filterHeld' => Credible(evidence[i]))
  <2>1. CASE filterHeld' = FALSE /\ filtered' = evidence
    BY <2>1, <1>0
  <2>2. CASE ~(filterHeld' = FALSE /\ filtered' = evidence)
    <3>1. filtered' = Arranged(evidence, S, MoreCredible)
      <4>1. {i \in DOMAIN evidence : Credible(evidence[i])} = S
        BY <1>0
      <4> QED
        BY <2>2, <4>1 DEF FilterByCredibility
    <3>2. \A i \in S : i \in Int /\ evidence[i].credibility \in Int /\ i \in DOMAIN evidence
      <4>1. \A i \in 1 .. Len(evidence) : evidence[i].credibility \in 0 .. 10
        BY <1>0 DEF Retrieved, Items
      <4> QED
        BY <1>0, <4>1
    <3>3. S \in SUBSET (1 .. Len(evidence))
      OBVIOUS
    <3> HIDE DEF S
    <3>4. Orders(MoreCredible, S)
      <4>0. \A i, j \in S : <<i, j>> \in MoreCredible <=>
                \/ evidence[i].credibility > evidence[j].credibility
                \/ evidence[i].credibility = evidence[j].credibility /\ i < j
        <5> TAKE i, j \in S
        <5>1. /\ <<i, j>> \in (DOMAIN evidence) \X (DOMAIN evidence)
              /\ <<i, j>>[1] = i /\ <<i, j>>[2] = j
          BY <3>2
        <5> QED
          BY <5>1 DEF MoreCredible
      <4>1. \A i \in S : <<i, i>> \notin MoreCredible
        BY <3>2, <4>0
      <4>2. \A h, i, j \in S : <<h, i>> \in MoreCredible /\ <<i, j>> \in MoreCredible
                                  => <<h, j>> \in MoreCredible
        BY <3>2, <4>0
      <4>3. \A i, j \in S : i # j => <<i, j>> \in MoreCredible \/ <<j, i>> \in MoreCredible
        BY <3>2, <4>0
      <4> QED
        BY <4>1, <4>2, <4>3 DEF Orders
    <3>8. /\ filtered' \in Seq(Retrieved) /\ Len(filtered') <= Len(evidence)
          /\ \A k \in 1 .. Len(filtered') : \E i \in S : filtered'[k] = evidence[i]
      BY <1>0, <3>1, <3>3, <3>4, ArrangedFacts
    <3>9. \A i \in S : i \in 1 .. Len(evidence) /\ Credible(evidence[i])
      BY DEF S
    <3> QED
      BY <3>8, <3>9
  <2> QED
    BY <2>1, <2>2
<1>2. \A k \in 1 .. Len(evidence) : Credible(evidence[k])' <=> Credible(evidence[k])
  BY <1>0 DEF Credible
<1>3. \A k \in 1 .. Len(filtered') : filterHeld' => Credible(filtered[k])'
  BY <1>1 DEF Credible
<1> HIDE DEF S
<1>4. Refs' = Refs
  BY <1>0 DEF Refs
<1> QED
  BY <1>0, <1>1, <1>3, <1>4 DEF ResearchInv, ResearchTyped, CountInv, KeptInv, FlagInv

\* Only evidence kept is compared.
LEMMA DetectStep == ASSUME ResearchInv, DetectContradictions PROVE ResearchInv'
<1>0. /\ research = "detect" /\ contradictions' \in SUBSET Conflicts
      /\ flagged' = UNION contradictions'
      /\ research' = IF setting.reflect THEN "reflect" ELSE "report"
      /\ UNCHANGED <<setting, subqueries, evidence, sourceCount, filterHeld, filtered>>
  BY DEF DetectContradictions
<1>1. /\ DOMAIN filtered = 1 .. Len(filtered) /\ DOMAIN evidence = 1 .. Len(evidence)
      /\ Len(filtered) \in Nat
  BY LenProperties DEF ResearchInv, ResearchTyped
<1>2. UNION Conflicts \subseteq Ids(filtered)
  <2> SUFFICES ASSUME NEW pair \in Conflicts, NEW id \in pair PROVE id \in Ids(filtered)
    OBVIOUS
  <2>1. PICK i \in DOMAIN filtered :
            pair \in {{filtered[i].id, filtered[j].id} : j \in i + 1 .. Len(filtered)}
    BY DEF Conflicts
  <2>2. PICK j \in i + 1 .. Len(filtered) : pair = {filtered[i].id, filtered[j].id}
    BY <2>1
  <2>3. j \in DOMAIN filtered
    BY <1>1
  <2> QED
    BY <2>2, <2>3 DEF Ids
<1>3. flagged' \subseteq Ids(filtered)
  BY <1>0, <1>2
<1>4. Ids(filtered) \subseteq Ids(evidence)
  BY <1>0, <1>1 DEF Ids, ResearchInv, KeptInv
<1>5. /\ Ids(filtered)' = Ids(filtered) /\ Ids(evidence)' = Ids(evidence) /\ Refs' = Refs
      /\ \A i \in 1 .. Len(filtered) : Credible(filtered[i])' <=> Credible(filtered[i])
  BY <1>0 DEF Ids, Refs, Credible
<1>6. ResearchTyped' /\ CountInv' /\ KeptInv'
  BY <1>0, <1>5 DEF ResearchInv, ResearchTyped, CountInv, KeptInv
<1>7. FlagInv'
  BY <1>0, <1>3, <1>4, <1>5 DEF FlagInv
<1> QED
  BY <1>6, <1>7 DEF ResearchInv

\* The reviewer discards evidence and changes no other.
LEMMA ReflectStep == ASSUME ResearchInv, ReflectionBeforeSynthesis PROVE ResearchInv'
<1>0. /\ research = "reflect" /\ research' = "report" /\ setting.reflect
      /\ UNCHANGED <<setting, subqueries, evidence, sourceCount, filterHeld, contradictions,
                     flagged>>
      /\ filtered \in Seq(Retrieved) /\ Len(filtered) \in Nat /\ Len(evidence) \in Nat
      /\ DOMAIN filtered = 1 .. Len(filtered)
  BY LenProperties DEF ReflectionBeforeSynthesis, ResearchInv, ResearchTyped, FlagInv
<1>1. PICK discard \in SUBSET {filtered[i].id : i \in DOMAIN filtered} :
          filtered' = Arranged(filtered, {i \in DOMAIN filtered : filtered[i].id \notin discard},
                               Earlier)
  BY DEF ReflectionBeforeSynthesis
<1> DEFINE S == {i \in 1 .. Len(filtered) : filtered[i].id \notin discard}
<1>2. filtered' = Arranged(filtered, S, Earlier)
  <2>1. {i \in DOMAIN filtered : filtered[i].id \notin discard} = S
    BY <1>0
  <2> QED
    BY <1>1, <2>1
<1>3. S \in SUBSET (1 .. Len(filtered)) /\ \A i \in S : i \in Int /\ i \in DOMAIN filtered
  BY <1>0
<1> HIDE DEF S
<1>4. Orders(Earlier, S)
  <2>0. \A i, j \in S : <<i, j>> \in Earlier <=> i < j
    <3> TAKE i, j \in S
    <3>1. <<i, j>> \in (DOMAIN filtered) \X (DOMAIN filtered) /\ <<i, j>>[1] = i /\ <<i, j>>[2] = j
      BY <1>3
    <3> QED
      BY <3>1 DEF Earlier
  <2>1. \A i \in S : <<i, i>> \notin Earlier
    BY <1>3, <2>0
  <2>2. \A h, i, j \in S : <<h, i>> \in Earlier /\ <<i, j>> \in Earlier => <<h, j>> \in Earlier
    BY <1>3, <2>0
  <2>3. \A i, j \in S : i # j => <<i, j>> \in Earlier \/ <<j, i>> \in Earlier
    BY <1>3, <2>0
  <2> QED
    BY <2>1, <2>2, <2>3 DEF Orders
<1>8. /\ filtered' \in Seq(Retrieved) /\ Len(filtered') <= Len(filtered)
      /\ \A k \in 1 .. Len(filtered') : \E i \in S : filtered'[k] = filtered[i]
  BY <1>0, <1>2, <1>3, <1>4, ArrangedFacts
<1>9. \A k \in 1 .. Len(filtered') : \E i \in 1 .. Len(filtered) : filtered'[k] = filtered[i]
  BY <1>3, <1>8
<1>10. ResearchTyped' /\ CountInv' /\ FlagInv'
  <2>1. Refs' = Refs /\ Ids(evidence)' = Ids(evidence)
    BY <1>0 DEF Refs, Ids
  <2> QED
    BY <1>0, <1>8, <2>1 DEF ResearchInv, ResearchTyped, CountInv, FlagInv
<1>11. KeptInv'
  <2>1. Len(filtered') \in Nat
    BY <1>8, LenProperties
  <2>2. /\ \A k \in 1 .. Len(filtered) : \E i \in 1 .. Len(evidence) : filtered[k] = evidence[i]
        /\ Len(filtered) <= Len(evidence)
        /\ filterHeld => \A i \in 1 .. Len(filtered) : Credible(filtered[i])
    BY <1>0 DEF ResearchInv, KeptInv
  <2>3. \A k \in 1 .. Len(filtered') : \E i \in 1 .. Len(evidence) : filtered'[k] = evidence[i]
    BY <1>9, <2>2
  <2>4. filterHeld => \A k \in 1 .. Len(filtered') : Credible(filtered[k])'
    BY <1>9, <2>2 DEF Credible
  <2> QED
    BY <1>0, <1>8, <2>1, <2>2, <2>3, <2>4 DEF KeptInv
<1> QED
  BY <1>10, <1>11 DEF ResearchInv

LEMMA ResearchSteps == ASSUME ResearchInv, ResearchNext PROVE ResearchInv'
<1>1. CASE GenerateReport \/ PlanOrReportLost
  <2>1. /\ research' \in {"done", "error"} /\ (research' = "done" => research = "report")
        /\ UNCHANGED <<setting, subqueries, evidence, unscored, sourceCount, filterHeld, filtered,
                       contradictions, flagged>>
    BY <1>1 DEF GenerateReport, PlanOrReportLost
  <2>2. Refs' = Refs /\ Ids(evidence)' = Ids(evidence) /\ Ids(filtered)' = Ids(filtered)
    BY <2>1 DEF Refs, Ids
  <2>3. ResearchTyped' /\ CountInv'
    BY <2>1, <2>2 DEF ResearchInv, ResearchTyped, CountInv
  <2>4. KeptInv'
    BY <2>1 DEF ResearchInv, KeptInv, Credible
  <2>5. FlagInv'
    BY <2>1, <2>2 DEF ResearchInv, FlagInv
  <2> QED
    BY <2>3, <2>4, <2>5 DEF ResearchInv
<1> QED
  BY <1>1, RetrieveStep, SourceScored, FilterStep, DetectStep, ReflectStep DEF ResearchNext

\* Every source is the last part of a reference, so the sources kept are no more
\* than the references counted.
LEMMA SourcesCounted ==
    ASSUME ResearchInv, research = "done"
    PROVE  Cardinality({filtered[i].source : i \in DOMAIN filtered}) <= sourceCount
<1> DEFINE named == {filtered[i].source : i \in DOMAIN filtered}
           last == [r \in Refs |-> r[Len(r)]]
           ends == {last[r] : r \in Refs}
<1>1. /\ DOMAIN filtered = 1 .. Len(filtered) /\ DOMAIN evidence = 1 .. Len(evidence)
      /\ Len(evidence) \in Nat
      /\ \A i \in 1 .. Len(evidence) : evidence[i] \in Retrieved
  BY LenProperties, ElementOfSeq DEF ResearchInv, ResearchTyped
<1>2. IsFiniteSet(Refs)
  <2>1. 1 \in Int /\ Len(evidence) \in Int
    BY <1>1
  <2>2. IsFiniteSet(1 .. Len(evidence))
    BY <2>1, FS_Interval
  <2> DEFINE f == [i \in 1 .. Len(evidence) |-> evidence[i].ref]
  <2>3. f \in Surjection(1 .. Len(evidence), Refs)
    BY <1>1 DEF Surjection, Refs
  <2> HIDE DEF f
  <2> QED
    BY <2>2, <2>3, FS_Surjection
<1>3. named \subseteq ends
  <2> SUFFICES ASSUME NEW k \in 1 .. Len(filtered) PROVE filtered[k].source \in ends
    BY <1>1
  <2>1. PICK i \in 1 .. Len(evidence) : filtered[k] = evidence[i]
    BY DEF ResearchInv, KeptInv
  <2>2. evidence[i].ref \in Refs /\ evidence[i].source = evidence[i].ref[Len(evidence[i].ref)]
    BY <1>1 DEF Refs, Retrieved
  <2> QED
    BY <2>1, <2>2
<1>4. last \in Surjection(Refs, ends)
  BY DEF Surjection
<1>5. IsFiniteSet(ends) /\ Cardinality(ends) <= Cardinality(Refs)
  <2> HIDE DEF last, ends
  <2> QED
    BY <1>2, <1>4, FS_Surjection
<1>6. IsFiniteSet(named) /\ Cardinality(named) <= Cardinality(ends)
  <2> HIDE DEF named, ends
  <2> QED
    BY <1>3, <1>5, FS_Subset
<1>7. Cardinality(Refs) = sourceCount
  BY DEF ResearchInv, CountInv
<1>8. Cardinality(named) \in Nat /\ Cardinality(ends) \in Nat /\ Cardinality(Refs) \in Nat
  <2> HIDE DEF named, ends
  <2> QED
    BY <1>2, <1>5, <1>6, FS_CardinalityType
<1> HIDE DEF ends, last
<1> QED
  BY <1>5, <1>6, <1>7, <1>8

\* The report of a research that is done.
LEMMA ReportSafe == ASSUME ResearchInv PROVE ReportIsSupported
<1> SUFFICES ASSUME research = "done" PROVE ReportIsSupported
  BY DEF ReportIsSupported
<1>1. /\ DOMAIN filtered = 1 .. Len(filtered) /\ DOMAIN evidence = 1 .. Len(evidence)
      /\ Len(evidence) \in Nat /\ Len(filtered) \in Nat /\ MaxEvidenceItems \in Nat
      /\ Len(evidence) <= MaxEvidenceItems
  BY LenProperties, ResearchAssumption DEF ResearchInv, ResearchTyped
<1>2. Range(filtered) \subseteq Range(evidence)
  BY <1>1 DEF ResearchInv, KeptInv, Range
<1>3. Len(filtered) <= MaxEvidenceItems
  BY <1>1 DEF ResearchInv, KeptInv
<1> QED
  BY <1>1, <1>2, <1>3, SourcesCounted DEF ReportIsSupported, ResearchInv, KeptInv, FlagInv

-----------------------------------------------------------------------------
(* Types *)

\* A round is under way until it is closed.
DebateTyped ==
    /\ debate.rounds \in Nat \ {0} /\ DebateTypeOK
    /\ floor \in Sides \cup {"moderator", "close"} => rounds < debate.rounds

LEMMA DebateTypes ==
    /\ DebateInit => DebateTyped
    /\ DebateTyped /\ (DebateNext \/ UNCHANGED debateVars) => DebateTyped'
<1>1. ASSUME DebateInit PROVE DebateTyped
  <2>1. debate.rounds \in 1 .. MaxDebateRounds
    BY <1>1 DEF DebateInit
  <2>2. debate.rounds \in Nat \ {0}
    BY <2>1
  <2> QED
    BY <1>1, <2>2 DEF DebateInit, DebateTyped, DebateTypeOK, NoTurn, Sides, Verdicts
<1> DEFINE Turns == [side : Sides \cup {"none"}, round : 0 .. debate.rounds, ok : BOOLEAN]
<1>2. ASSUME DebateTyped, DebateNext PROVE DebateTyped'
  <2>0. /\ debate.rounds \in Nat \ {0} /\ UNCHANGED debate
        /\ {proTurn, conTurn, winner} \subseteq Turns
    BY <1>2 DEF DebateTyped, DebateTypeOK, DebateNext, GenerateArguments, JudgeRound,
                CloseRound, FinalJudge, FinalJudgeLost
  <2>1. CASE GenerateArguments
    <3>1. \A side \in Sides, ok \in BOOLEAN : Turn(side, ok) \in Turns
      BY <1>2, <2>0, <2>1 DEF Turn, DebateTyped, DebateTypeOK, GenerateArguments
    <3>2. {proTurn', conTurn', winner'} \subseteq Turns
      BY <2>0, <2>1, <3>1 DEF GenerateArguments, Sides
    <3>3. floor' \in {"con", "moderator", "close"} /\ debateCalls' \in Nat
      BY <1>2, <2>1 DEF GenerateArguments, Sides, DebateTyped, DebateTypeOK
    <3> QED
      BY <1>2, <2>0, <2>1, <3>2, <3>3
      DEF GenerateArguments, DebateTyped, DebateTypeOK, Sides, Verdicts
  <2>2. CASE JudgeRound
    <3>1. \A v \in Verdicts : TurnOf(v) \in Turns
      BY <2>0 DEF TurnOf
    <3> QED
      BY <1>2, <2>0, <2>2, <3>1 DEF JudgeRound, DebateTyped, DebateTypeOK, Sides
  <2>3. CASE CloseRound
    BY <1>2, <2>0, <2>3
    DEF CloseRound, EarlyConsensus, DebateTyped, DebateTypeOK, Sides, Verdicts
  <2>4. CASE FinalJudge
    <3>1. \A v \in Verdicts : TurnOf(v) \in Turns
      BY <2>0 DEF TurnOf
    <3> QED
      BY <1>2, <2>0, <2>4, <3>1 DEF FinalJudge, DebateTyped, DebateTypeOK, Sides
  <2>5. CASE FinalJudgeLost
    BY <1>2, <2>5 DEF FinalJudgeLost, DebateTyped, DebateTypeOK, Sides
  <2> QED
    BY <1>2, <2>1, <2>2, <2>3, <2>4, <2>5 DEF DebateNext
<1>3. ASSUME DebateTyped, UNCHANGED debateVars PROVE DebateTyped'
  BY <1>3 DEF DebateTyped, DebateTypeOK, debateVars
<1> QED
  BY <1>1, <1>2, <1>3

\* The loop has a pass left while it goes on.
ReflectionTyped ==
    /\ ReflectionTypeOK
    /\ review \in {"evaluate", "revise"} => Len(iterations) < MaxIterations

LEMMA ReflectionTypes ==
    ASSUME MaxIterations > 0
    PROVE  /\ ReflectionInit => ReflectionTyped
           /\ ReflectionTyped /\ ReflectionInv /\ (ReflectionNext \/ UNCHANGED reflectionVars)
                 => ReflectionTyped'
<1>0. MaxIterations \in Nat \ {0} /\ 0 \in 0 .. MaxIterations
  BY ReflectionAssumption
<1>1. ReflectionInit => ReflectionTyped
  BY <1>0 DEF ReflectionInit, ReflectionTyped, ReflectionTypeOK
<1>2. ASSUME ReflectionTyped, ReflectionInv, ReflectionNext PROVE ReflectionTyped'
  <2>0. /\ iterations \in Seq([draft : Int, score : Int, revised : BOOLEAN])
        /\ Len(iterations) \in Nat /\ DOMAIN iterations = 1 .. Len(iterations)
        /\ draft \in 0 .. MaxIterations /\ threshold' = threshold
        /\ \A i \in 1 .. Len(iterations) : iterations[i].draft \in 0 .. MaxIterations
        /\ review \in {"evaluate", "revise"} => draft = Len(iterations)
    <3>1. iterations \in Seq([draft : Int, score : Int, revised : BOOLEAN])
      BY <1>2 DEF ReflectionInv
    <3>2. Len(iterations) \in Nat /\ DOMAIN iterations = 1 .. Len(iterations)
      BY <3>1, LenProperties
    <3> QED
      BY <1>2, <3>1, <3>2 DEF ReflectionInv, ReflectionTyped, ReflectionTypeOK, ReflectionNext,
         GenerateInitialDraft, EvaluateDraft, EvaluateLost, ReviseDraft, ReviseLost
  <2> DEFINE Longer(passes) ==
               /\ Len(passes) = Len(iterations) + 1
               /\ \A i \in DOMAIN passes : passes[i].draft \in 0 .. MaxIterations
  <2>1. review \in {"evaluate", "revise"} => \A given \in Int :
            /\ Longer(Append(iterations, Pass(given, TRUE)))
            /\ Longer(Append(iterations, Pass(given, FALSE)))
    <3> SUFFICES ASSUME review \in {"evaluate", "revise"}, NEW given \in Int
                 PROVE  /\ Longer(Append(iterations, Pass(given, TRUE)))
                        /\ Longer(Append(iterations, Pass(given, FALSE)))
      OBVIOUS
    <3>1. Len(iterations) < MaxIterations
      BY <1>2 DEF ReflectionTyped
    <3>2. ASSUME NEW passes \in Seq([draft : Int, score : Int, revised : BOOLEAN]),
                 Len(passes) = Len(iterations) + 1,
                 \A i \in 1 .. Len(passes) : passes[i].draft = i - 1
          PROVE  Longer(passes)
      <4>1. DOMAIN passes = 1 .. Len(passes)
        BY <3>2, LenProperties
      <4>2. \A i \in 1 .. Len(passes) : i - 1 \in 0 .. MaxIterations
        <5>1. Len(iterations) \in Nat /\ MaxIterations \in Nat
          BY <1>0, <2>0
        <5>2. \A i \in 1 .. Len(iterations) + 1 : i - 1 \in 0 .. MaxIterations
          BY <3>1, <5>1
        <5> QED
          BY <3>2, <5>2
      <4> QED
        BY <3>2, <4>1, <4>2
    <3>3. /\ Append(iterations, Pass(given, TRUE))
                \in Seq([draft : Int, score : Int, revised : BOOLEAN])
          /\ Len(Append(iterations, Pass(given, TRUE))) = Len(iterations) + 1
          /\ \A i \in 1 .. Len(Append(iterations, Pass(given, TRUE))) :
                Append(iterations, Pass(given, TRUE))[i].draft = i - 1
      BY <1>2, PassAppended
    <3>4. /\ Append(iterations, Pass(given, FALSE))
                \in Seq([draft : Int, score : Int, revised : BOOLEAN])
          /\ Len(Append(iterations, Pass(given, FALSE))) = Len(iterations) + 1
          /\ \A i \in 1 .. Len(Append(iterations, Pass(given, FALSE))) :
                Append(iterations, Pass(given, FALSE))[i].draft = i - 1
      BY <1>2, PassAppended
    <3> HIDE DEF Longer
    <3> QED
      BY <3>2, <3>3, <3>4
  <2>2. CASE GenerateInitialDraft
    <3>1. Len(iterations) = 0
      BY <1>2, <2>2 DEF GenerateInitialDraft, ReflectionInv
    <3> QED
      BY <1>0, <1>2, <2>2, <3>1 DEF GenerateInitialDraft, ReflectionTyped, ReflectionTypeOK
  <2>3. CASE EvaluateDraft
    <3>1. EvaluationScore \in Int
      BY DEF EvaluationScore
    <3>2. /\ review' \in {"done", "revise"} /\ score' = EvaluationScore /\ draft' = draft
          /\ reflected' \in {reflected, "ok", "max_iterations_reached"}
          /\ review' = "revise" => UNCHANGED iterations
          /\ iterations' \in {iterations, Append(iterations, Pass(EvaluationScore, FALSE))}
      BY <2>3 DEF EvaluateDraft, Finish, Status
    <3>3. \A i \in DOMAIN iterations' : iterations'[i].draft \in 0 .. MaxIterations
      BY <2>0, <2>1, <2>3, <3>1, <3>2 DEF EvaluateDraft
    <3> QED
      BY <1>2, <2>0, <2>3, <3>2, <3>3 DEF EvaluateDraft, ReflectionTyped, ReflectionTypeOK
  <2>4. CASE EvaluateLost \/ ReviseLost
    <3>1. /\ review' = "done" /\ UNCHANGED <<threshold, draft, score>>
          /\ reflected' \in {"ok", "max_iterations_reached"}
          /\ iterations' \in {iterations, Append(iterations, Pass(score, FALSE))}
      BY <2>4 DEF EvaluateLost, ReviseLost, Finish, Status
    <3>2. score \in Int
      BY <1>2 DEF ReflectionInv
    <3>3. \A i \in DOMAIN iterations' : iterations'[i].draft \in 0 .. MaxIterations
      BY <2>0, <2>1, <2>4, <3>1, <3>2 DEF EvaluateLost, ReviseLost
    <3> QED
      BY <1>2, <3>1, <3>3 DEF ReflectionTyped, ReflectionTypeOK
  <2>5. CASE ReviseDraft
    <3> DEFINE passes == Append(iterations, Pass(score, TRUE))
    <3>1. score \in Int
      BY <1>2 DEF ReflectionInv
    <3>2. /\ Len(passes) = Len(iterations) + 1
          /\ \A i \in DOMAIN passes : passes[i].draft \in 0 .. MaxIterations
      BY <2>1, <2>5, <3>1 DEF ReviseDraft
    <3>3. /\ review = "revise" /\ draft' = draft + 1 /\ score' = score
          /\ iterations' = passes
          /\ review' \in {"evaluate", "done"}
          /\ review' = "evaluate" => Len(passes) < MaxIterations
          /\ reflected' \in {reflected, "ok", "max_iterations_reached"}
      BY <2>5 DEF ReviseDraft, Finish, Status
    <3> HIDE DEF passes
    <3>4. draft' \in 0 .. MaxIterations
      BY <1>0, <1>2, <2>0, <3>3 DEF ReflectionTyped
    <3> QED
      BY <1>2, <2>0, <3>2, <3>3, <3>4 DEF ReflectionTyped, ReflectionTypeOK
  <2> QED
    BY <1>2, <2>2, <2>3, <2>4, <2>5 DEF ReflectionNext
<1>3. ReflectionTyped /\ UNCHANGED reflectionVars => ReflectionTyped'
  BY DEF ReflectionTyped, ReflectionTypeOK, reflectionVars
<1> QED
  BY <1>1, <1>2, <1>3

LEMMA ToolTypes ==
    /\ ToolInit => ToolTypeOK
    /\ ToolTypeOK /\ (ToolNext \/ UNCHANGED toolVars) => ToolTypeOK'
<1>1. ASSUME ToolInit PROVE ToolTypeOK
  <2>1. hooks \in Seq(Registrations)
    <3>1. PICK m \in 0 .. MaxHooks : hooks \in [1 .. m -> Registrations]
      BY <1>1 DEF ToolInit, SeqOf
    <3> QED
      BY <3>1
  <2> QED
    BY <1>1, <2>1 DEF ToolInit, ToolTypeOK
<1>2. ASSUME ToolTypeOK, ToolNext PROVE ToolTypeOK'
  <2>0. hooks' = hooks /\ tool' = tool /\ retrieving' = retrieving /\ parameters' = parameters
    BY <1>2 DEF ToolNext, BeforeToolCall, BeforeRetrieval, RetrieveContext, CallTool,
                AppendWorkspace, AuditToolCall, AfterToolCall, callConfig
  <2>1. CASE BeforeToolCall \/ BeforeRetrieval \/ AfterToolCall
    BY <1>2, <2>0, <2>1 DEF BeforeToolCall, BeforeRetrieval, AfterToolCall,
       callVars, traceVars, ToolTypeOK
  <2>4. CASE RetrieveContext
    <3>1. told' \subseteq {"after", "on_error", "rag_after", "rag_error"}
      <4>1. told' = told \/ told' = told \union {"rag_after"} \/ told' = told \union {"rag_error"}
        BY <2>4 DEF RetrieveContext
      <4> QED
        BY <1>2, <4>1 DEF ToolTypeOK
    <3>2. step' \in {"fetch", "pack", "panic", "call"}
      BY <2>4 DEF RetrieveContext
    <3>3. context' \in BOOLEAN
      BY <1>2, <2>4, Zenon DEF RetrieveContext, ToolTypeOK
    <3>4. UNCHANGED <<called, success, record, auditID, item>>
      BY <2>4 DEF RetrieveContext, callVars
    <3>5. /\ tool' \in Tools /\ retrieving' \in BOOLEAN /\ parameters' \in BOOLEAN
          /\ hooks' \in Seq(Registrations)
      BY <1>2, <2>0, Zenon DEF ToolTypeOK
    <3>6. /\ called' \in BOOLEAN /\ success' \in BOOLEAN /\ record' \in {"none", "success", "failure"}
          /\ auditID' \in BOOLEAN /\ item' \in BOOLEAN
      BY <1>2, <3>4, Zenon DEF ToolTypeOK
    <3>7. step' \in {"before", "rag_hook", "search", "fetch", "pack", "call", "workspace", "audit",
                     "audit_lost", "after", "ended", "panic"}
      BY <3>2
    <3> QED
      BY <3>1, <3>3, <3>5, <3>6, <3>7, Zenon DEF ToolTypeOK
  <2>2. CASE CallTool
    BY <1>2, <2>0, <2>2, TrailFacts DEF CallTool, Successes, traceVars, ToolTypeOK
  <2>3. CASE AppendWorkspace \/ AuditToolCall
    BY <1>2, <2>0, <2>3, TrailFacts DEF AppendWorkspace, AuditToolCall, callVars, ToolTypeOK
  <2> QED
    BY <1>2, <2>1, <2>2, <2>3, <2>4 DEF ToolNext
<1>3. ToolTypeOK /\ UNCHANGED toolVars => ToolTypeOK'
  BY DEF ToolTypeOK, toolVars
<1> QED
  BY <1>1, <1>2, <1>3

\* Nothing waits for a score after the scoring, and no more is counted than kept.
ResearchCounts ==
    /\ research # "score" => unscored = {}
    /\ sourceCount \in 0 .. MaxEvidenceItems

LEMMA RefsCounted ==
    ASSUME ResearchInv PROVE Cardinality(Refs) \in 0 .. MaxEvidenceItems
<1>1. DOMAIN evidence = 1 .. Len(evidence) /\ Len(evidence) \in Nat
  BY LenProperties DEF ResearchInv, ResearchTyped
<1>2. IsFiniteSet(1 .. Len(evidence)) /\ Cardinality(1 .. Len(evidence)) = Len(evidence)
  <2>1. 1 \in Int /\ Len(evidence) \in Int
    BY <1>1
  <2>2. Cardinality(1 .. Len(evidence)) = IF 1 > Len(evidence) THEN 0 ELSE Len(evidence) - 1 + 1
    BY <2>1, FS_Interval
  <2> QED
    BY <1>1, <2>1, <2>2, FS_Interval
<1> DEFINE f == [i \in 1 .. Len(evidence) |-> evidence[i].ref]
<1>3. f \in Surjection(1 .. Len(evidence), Refs)
  BY <1>1 DEF Surjection, Refs
<1> HIDE DEF f
<1>4. IsFiniteSet(Refs) /\ Cardinality(Refs) <= Len(evidence)
  BY <1>2, <1>3, FS_Surjection
<1>5. Cardinality(Refs) \in Nat
  BY <1>4, FS_CardinalityType
<1>6. Len(evidence) <= MaxEvidenceItems /\ MaxEvidenceItems \in Nat
  BY ResearchAssumption DEF ResearchInv, ResearchTyped
<1> QED
  BY <1>1, <1>4, <1>5, <1>6

LEMMA ResearchTypes ==
    /\ ResearchInit => ResearchCounts
    /\ ResearchInv /\ ResearchCounts /\ (ResearchNext \/ UNCHANGED researchVars)
          => ResearchCounts'
    /\ ResearchInv /\ ResearchCounts => ResearchTypeOK
<1>1. ResearchInit => ResearchCounts
  BY ResearchAssumption DEF ResearchInit, ResearchCounts
<1>2. ASSUME ResearchInv, ResearchCounts, ResearchNext PROVE ResearchCounts'
  <2>1. CASE EndRetrieval
    <3>1. sourceCount' = Cardinality(Refs) /\ research' = "score"
      BY <2>1 DEF EndRetrieval, Refs
    <3> QED
      BY <1>2, <3>1, RefsCounted DEF ResearchCounts
  <2>2. CASE ScoreSource
    BY <1>2, <2>2 DEF ScoreSource, ResearchCounts
  <2>3. CASE \/ PlanResearch \/ RetrieveEvidence \/ FilterByCredibility \/ DetectContradictions
             \/ ReflectionBeforeSynthesis \/ GenerateReport \/ PlanOrReportLost
    <3>1. unscored' = unscored /\ sourceCount' = sourceCount /\ unscored = {}
      BY <1>2, <2>3 DEF PlanResearch, RetrieveEvidence, FilterByCredibility,
         DetectContradictions, ReflectionBeforeSynthesis, GenerateReport, PlanOrReportLost,
         ResearchCounts
    <3> QED
      BY <1>2, <3>1 DEF ResearchCounts
  <2> QED
    BY <1>2, <2>1, <2>2, <2>3 DEF ResearchNext
<1>3. ResearchCounts /\ UNCHANGED researchVars => ResearchCounts'
  BY DEF ResearchCounts, researchVars
<1>4. ASSUME ResearchInv, ResearchCounts PROVE ResearchTypeOK
  <2>1. ASSUME NEW s \in Seq(Retrieved), NEW i \in DOMAIN s PROVE s[i].credibility \in 0 .. 10
    <3>1. s[i] \in Retrieved
      BY ElementOfSeq, LenProperties
    <3> QED
      BY <3>1 DEF Retrieved, Items
  <2>2. evidence \in Seq(Retrieved) /\ filtered \in Seq(Retrieved)
    BY <1>4 DEF ResearchInv, ResearchTyped
  <2>3. DOMAIN evidence = 1 .. Len(evidence)
    BY <2>2, LenProperties
  <2>4. Range(subqueries) \subseteq SubqueryIds
    BY <1>4, ElementOfSeq, LenProperties DEF ResearchInv, ResearchTyped, Range
  <2>5. unscored \subseteq DOMAIN evidence
    BY <1>4, <2>3 DEF ResearchCounts, ResearchInv, ResearchTyped
  <2> QED
    BY <1>4, <2>1, <2>2, <2>4, <2>5 DEF ResearchTypeOK, ResearchCounts, ResearchInv, ResearchTyped
<1> QED
  BY <1>1, <1>2, <1>3, <1>4

\* Parents are added before their children, and a path names nodes of the tree.
TreeKept ==
    /\ \A k \in 1 .. Len(tree) : tree[k].from \in 0 .. k - 1
    /\ Len(fresh) <= Branching
    /\ search \in {"expand", "score", "path"} => bestPath = <<>>
    /\ \A i \in DOMAIN bestPath : \E k \in 1 .. Len(tree) : bestPath[i] = tree[k].id
    /\ \A i \in DOMAIN used : used[i] \in 1 .. Len(tree)
    /\ search \in {"expand", "score"} => used = <<>>

LEMMA KeptStarts == ASSUME TreeInit PROVE TreeKept
<1>1. /\ tree = <<Root>> /\ Len(tree) = 1 /\ tree[1].from = 0 /\ fresh = <<>> /\ Len(fresh) = 0
      /\ bestPath = <<>> /\ used = <<>>
  BY DEF TreeInit, Root
<1>2. DOMAIN <<>> = {}
  OBVIOUS
<1> QED
  BY <1>1, <1>2, CostFacts DEF TreeKept

LEMMA KeptRests == ASSUME TreeKept, UNCHANGED treeVars PROVE TreeKept'
BY DEF TreeKept, treeVars

\* The path is taken from the trace of the leaf.
LEMMA KeptPath == ASSUME TreeInv, GroundInv, TreeKept, FindBestPath PROVE TreeKept'
<1>1. /\ leaf' = BestLeaf /\ search' = "synthesize" /\ UNCHANGED <<tree, fresh, used>>
      /\ bestPath' = [i \in 1 .. MaxNodeDepth + 1 |-> tree[Trace(BestLeaf)[i - 1]].id]
  BY DEF FindBestPath
<1>2. BestLeaf \in 1 .. Len(tree) /\ tree[BestLeaf].depth = MaxNodeDepth
  <2>1. BestLeaf \in NodesAtDepth(MaxNodeDepth) /\ BestLeaf \in 1 .. Len(tree)
    BY LeafChosen DEF TreeInv, GroundInv
  <2> QED
    BY <2>1 DEF NodesAtDepth
<1>3. Trace(BestLeaf) \in [0 .. MaxNodeDepth -> 1 .. Len(tree)] /\ MaxNodeDepth \in Nat
  BY <1>2, TraceIn, TreeFacts DEF TreeInv, GroundInv
<1>4. ASSUME NEW i \in 1 .. MaxNodeDepth + 1
      PROVE  \E k \in 1 .. Len(tree) : bestPath'[i] = tree[k].id
  <2>1. i - 1 \in 0 .. MaxNodeDepth
    BY <1>3
  <2>2. Trace(BestLeaf)[i - 1] \in 1 .. Len(tree)
    BY <1>3, <2>1
  <2> QED
    BY <1>1, <2>2
<1>5. DOMAIN bestPath' = 1 .. MaxNodeDepth + 1
  BY <1>1
<1> QED
  BY <1>1, <1>4, <1>5 DEF TreeKept

\* An identifier on the path leads to a node that has it.
LEMMA KeptSynthesis == ASSUME TreeInv, TreeKept, SynthesizeToTResult PROVE TreeKept'
<1>1. /\ search' = "done" /\ UNCHANGED <<tree, fresh, bestPath>>
      /\ used' = [i \in DOMAIN bestPath |-> NodeMap(bestPath[i])]
  BY DEF SynthesizeToTResult
<1>2. ASSUME NEW i \in DOMAIN bestPath PROVE NodeMap(bestPath[i]) \in 1 .. Len(tree)
  <2> DEFINE same == {j \in DOMAIN tree : tree[j].id = bestPath[i]}
  <2>1. DOMAIN tree = 1 .. Len(tree) /\ Len(tree) \in Nat
    BY TreeFacts DEF TreeInv
  <2>2. same \in SUBSET Nat /\ same # {} /\ \A j \in same : j <= Len(tree)
    BY <2>1 DEF TreeKept
  <2>3. Max(same) \in same
    <3> HIDE DEF same
    <3> QED
      BY <2>1, <2>2, Largest
  <2> QED
    BY <2>1, <2>3 DEF NodeMap
<1> QED
  BY <1>1, <1>2 DEF TreeKept

\* A thought is added behind the node it was expanded from.
LEMMA KeptScore == ASSUME TreeInv, TreeKept, ScoreThought \/ ScoreLost PROVE TreeKept'
<1>1. /\ search = "score" /\ search' \in {"expand", "score"} /\ fresh' = Tail(fresh)
      /\ UNCHANGED <<bestPath, used>> /\ bestPath = <<>> /\ used = <<>>
      /\ \/ tree' = tree
         \/ \E s \in Scores : tree' = Append(tree, Thought(Head(fresh), s))
  BY DEF ScoreThought, ScoreLost, ThoughtDone, ReadScores, TreeKept
<1>2. Len(fresh') <= Branching
  <2>1. fresh \in Seq(1 .. ReplyLines) /\ Len(fresh) > 0
    BY <1>1 DEF TreeInv, TreeTyped
  <2>2. Len(Tail(fresh)) = Len(fresh) - 1 /\ Len(fresh) \in Nat
    BY <2>1, HeadTailProperties, EmptySeq, LenProperties
  <2> QED
    BY <1>1, <2>2, CostFacts DEF TreeKept
<1>3. \A k \in 1 .. Len(tree') : tree'[k].from \in 0 .. k - 1
  <2>1. CASE tree' = tree
    BY <2>1 DEF TreeKept
  <2>2. CASE tree' # tree
    <3> PICK s \in Scores : tree' = Append(tree, Thought(Head(fresh), s))
      BY <1>1, <2>2
    <3> DEFINE new == Thought(Head(fresh), s)
    <3>1. Len(tree) \in Nat \ {0} /\ tree \in Seq(Thoughts)
      BY TreeFacts DEF TreeInv, TreeTyped
    <3>2. Head(queue) \in 1 .. Len(tree)
      <4>1. queue \in Seq(1 .. Len(tree)) /\ Len(queue) > 0
        BY <1>1 DEF TreeInv, TreeTyped
      <4> QED
        BY <4>1, EmptySeq, HeadTailProperties
    <3>3. new.from = Head(queue)
      BY DEF Thought
    <3>4. /\ Len(tree') = Len(tree) + 1 /\ tree'[Len(tree) + 1] = new
          /\ \A k \in 1 .. Len(tree) : tree'[k] = tree[k]
      <4> HIDE DEF new
      <4> QED
        BY <3>1 DEF new
    <3> HIDE DEF new
    <3>5. \A k \in 1 .. Len(tree) + 1 : k \in 1 .. Len(tree) \/ k = Len(tree) + 1
      BY <3>1
    <3>6. new.from \in 0 .. (Len(tree) + 1) - 1
      BY <3>1, <3>2, <3>3
    <3> QED
      BY <3>4, <3>5, <3>6 DEF TreeKept
  <2> QED
    BY <2>1, <2>2
<1>4. DOMAIN <<>> = {}
  OBVIOUS
<1> QED
  BY <1>1, <1>2, <1>3, <1>4 DEF TreeKept

LEMMA TreeTypes ==
    /\ TreeInv /\ GroundInv /\ TreeKept /\ TreeNext => TreeKept'
    /\ TreeInv /\ GroundInv /\ TreeKept => TreeTypeOK
<1>1. ASSUME TreeInv, GroundInv, TreeKept, TreeNext PROVE TreeKept'
  <2>1. CASE NextLevel \/ StopLevel \/ GenerateLost \/ PathOrSynthesisLost
    <3>1. /\ UNCHANGED <<tree, fresh, bestPath, used>>
          /\ \/ search \in {"expand"} /\ search' \in {"expand", "path"}
             \/ search' = "error"
      BY <2>1 DEF NextLevel, StopLevel, GenerateLost, PathOrSynthesisLost
    <3> QED
      BY <1>1, <3>1 DEF TreeKept
  <2>2. CASE GenerateThoughts
    <3>1. /\ UNCHANGED <<tree, bestPath, used>> /\ search = "expand" /\ search' = "score"
          /\ fresh' \in Replies
      BY <2>2 DEF GenerateThoughts
    <3>2. Len(fresh') <= Branching
      BY <3>1, ReplyFacts, CostFacts
    <3> QED
      BY <1>1, <3>1, <3>2 DEF TreeKept
  <2> QED
    BY <1>1, <2>1, <2>2, KeptPath, KeptSynthesis, KeptScore DEF TreeNext
<1>2. ASSUME TreeInv, GroundInv, TreeKept PROVE TreeTypeOK
  <2>1. DOMAIN tree = 1 .. Len(tree) /\ MaxDepth \in Nat
    BY <1>2, TreeFacts, TreeAssumption DEF TreeInv
  <2>2. \A k \in DOMAIN tree : tree[k].depth \in 0 .. MaxDepth /\ tree[k].from \in 0 .. k - 1
    BY <1>2, <2>1, TreeFacts DEF TreeInv, GroundInv, Grounded, TreeKept
  <2>3. Range(queue) \subseteq DOMAIN tree /\ Range(fresh) \subseteq 1 .. ReplyLines
    <3>1. ASSUME NEW S, NEW q \in Seq(S) PROVE Range(q) \subseteq S
      BY <3>1, ElementOfSeq, LenProperties DEF Range
    <3>2. queue \in Seq(1 .. Len(tree)) /\ fresh \in Seq(1 .. ReplyLines)
      BY <1>2 DEF TreeInv, TreeTyped
    <3>3. Range(queue) \subseteq 1 .. Len(tree) /\ Range(fresh) \subseteq 1 .. ReplyLines
      BY <3>1, <3>2
    <3> QED
      BY <2>1, <3>3
  <2>4. Range(used) \subseteq DOMAIN tree
    BY <1>2, <2>1 DEF TreeKept, Range
  <2> QED
    BY <1>2, <2>2, <2>3, <2>4 DEF TreeTypeOK, TreeInv, TreeTyped, TreeKept
<1> QED
  BY <1>1, <1>2

-----------------------------------------------------------------------------
(* The patterns together *)

\* A step of the dispatch is a step of one pattern and leaves the others alone.
LEMMA OneMoves ==
    ASSUME [Next]_vars
    PROVE  /\ ToolNext \/ UNCHANGED toolVars
           /\ DebateNext \/ UNCHANGED debateVars
           /\ ReflectionNext \/ UNCHANGED reflectionVars
           /\ TreeNext \/ UNCHANGED treeVars
           /\ ResearchNext \/ UNCHANGED researchVars
<1>1. CASE RunTree
  BY <1>1 DEF RunTree
<1>2. CASE RunDebate
  BY <1>2 DEF RunDebate
<1>3. CASE RunReflection
  BY <1>3 DEF RunReflection
<1>4. CASE RunResearch
  BY <1>4 DEF RunResearch
<1>5. CASE RunTool
  BY <1>5 DEF RunTool
<1>6. CASE UNCHANGED patternVars
  BY <1>6 DEF patternVars
<1>7. Report \/ Finished \/ UNCHANGED vars => UNCHANGED patternVars
  BY DEF Report, Finished, vars
<1> QED
  BY <1>1, <1>2, <1>3, <1>4, <1>5, <1>6, <1>7 DEF Next

\* Every variable of every pattern keeps its type, for any limits, hooks and stores:
\* a path and its summaries are nodes of the tree at any depth, although they are
\* looked up by identifiers that repeat.  The workflow replaces a limit of the
\* iterations that is not positive by its default.
THEOREM TypeCorrect == ASSUME MaxIterations > 0 PROVE Spec => []TypeOK
<1> DEFINE Inv == /\ TreeInv /\ GroundInv /\ TreeKept /\ DebateTyped
                  /\ ReflectionInv /\ ReflectionTyped /\ ResearchInv /\ ResearchCounts
                  /\ ToolTypeOK /\ mode \in Modes /\ outcome \in {"pending", "ok", "error"}
<1>1. Init => Inv
  BY TreeStarts, GroundStarts, KeptStarts, DebateTypes, ReflectionStarts, ReflectionTypes,
     ResearchStarts, ResearchTypes, ToolTypes DEF Init
<1>2. ASSUME Inv, [Next]_vars PROVE Inv'
  <2>1. mode' \in Modes /\ outcome' \in {"pending", "ok", "error"}
    BY <1>2 DEF Next, RunTree, RunDebate, RunReflection, RunResearch, RunTool, Report, Finished,
                vars
  <2>2. TreeInv' /\ GroundInv' /\ TreeKept'
    BY <1>2, OneMoves, TreeSteps, TreeRests, GroundSteps, GroundRests, TreeTypes, KeptRests
  <2>3. DebateTyped' /\ ToolTypeOK'
    BY <1>2, OneMoves, DebateTypes, ToolTypes
  <2>4. ReflectionInv' /\ ReflectionTyped'
    BY <1>2, OneMoves, ReflectionSteps, ReflectionRests, ReflectionTypes
  <2>5. ResearchInv' /\ ResearchCounts'
    BY <1>2, OneMoves, ResearchSteps, ResearchRests, ResearchTypes
  <2> QED
    BY <2>1, <2>2, <2>3, <2>4, <2>5
<1>3. Inv => TypeOK
  BY TreeTypes, ResearchTypes DEF TypeOK, DebateTyped, ReflectionTyped
<1> QED
  BY <1>1, <1>2, <1>3, PTL DEF Spec

\* No tool is called, and no context retrieved, over the objection of a blocking
\* hook, for any list of hooks; the traces of a call agree with its result.
THEOREM ToolCallsGuarded == Spec => []ToolCallIsGuarded
<1>1. Init => ToolInv
  BY ToolStarts DEF Init
<1>2. ToolInv /\ [Next]_vars => ToolInv'
  BY OneMoves, ToolSteps, ToolRests
<1>3. ToolInv => ToolCallIsGuarded
  BY ToolSafe
<1> QED
  BY <1>1, <1>2, <1>3, PTL DEF Spec

\* The winner, the position, the verdict and the consensus of a debate agree, for
\* any number of rounds, with or without a moderator.
THEOREM DebateAgrees == Spec => []WinnerAgrees
<1>1. Init => DebateInv
  BY DebateStarts DEF Init
<1>2. DebateInv /\ [Next]_vars => DebateInv'
  BY OneMoves, DebateSteps, DebateRests
<1>3. DebateInv => WinnerAgrees
  BY DEF DebateInv
<1> QED
  BY <1>1, <1>2, <1>3, PTL DEF Spec

\* The passes recorded explain the draft and the status of a reflection, for any
\* threshold and any limit of the iterations.
THEOREM ReflectionExplained == Spec => []PassesExplainAnswer
<1>1. Init => ReflectionInv
  BY ReflectionStarts DEF Init
<1>2. ReflectionInv /\ [Next]_vars => ReflectionInv'
  BY OneMoves, ReflectionSteps, ReflectionRests
<1>3. ReflectionInv => PassesExplainAnswer
  BY DEF ReflectionInv
<1> QED
  BY <1>1, <1>2, <1>3, PTL DEF Spec

\* The tree of thoughts outgrows its limit by less than one reply and the tokens
\* outgrow the budget by less than one level, for all limits, costs and scores,
\* although the size is looked at once per reply and the budget once per level.
THEOREM SearchWithinBounds == Spec => []SearchBounded
<1>1. Init => TreeInv
  BY TreeStarts DEF Init
<1>2. TreeInv /\ [Next]_vars => TreeInv'
  BY OneMoves, TreeSteps, TreeRests
<1>3. TreeInv => SearchBounded
  BY DEF TreeInv, SizeInv, BudgetInv, Ceiling, Cost, SearchBounded
<1> QED
  BY <1>1, <1>2, <1>3, PTL DEF Spec

\* The branch reported as best is a best one in the trees that dispatchToT asks
\* for, which have two levels below the root.  Deeper trees have thoughts of
\* different parents with one identifier above the last level, and may report
\* another branch.
THEOREM BestBranchFound == ASSUME MaxDepth <= 2 PROVE Spec => []BestBranchChosen
<1> DEFINE Inv == TreeInv /\ GroundInv /\ BestBranchChosen
<1>1. Init => Inv
  <2>1. TreeInit => leaf = 0
    BY DEF TreeInit
  <2> QED
    BY <2>1, TreeStarts, GroundStarts DEF Init, BestBranchChosen
<1>2. Inv /\ [Next]_vars => Inv'
  BY OneMoves, TreeSteps, TreeRests, GroundSteps, GroundRests, BranchSteps
<1>3. Inv => BestBranchChosen
  OBVIOUS
<1> QED
  BY <1>1, <1>2, <1>3, PTL DEF Spec

\* A report rests on evidence that was retrieved, credible unless the filter was
\* lost, and within the counts, whichever steps of the research failed.
THEOREM ReportSupported == Spec => []ReportIsSupported
<1>1. Init => ResearchInv
  BY ResearchStarts DEF Init
<1>2. ResearchInv /\ [Next]_vars => ResearchInv'
  BY OneMoves, ResearchSteps, ResearchRests
<1>3. ResearchInv => ReportIsSupported
  BY ReportSafe
<1> QED
  BY <1>1, <1>2, <1>3, PTL DEF Spec
=============================================================================
