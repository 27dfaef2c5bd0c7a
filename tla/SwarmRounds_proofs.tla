------------------------- MODULE SwarmRounds_proofs -------------------------
(***************************************************************************)
(* For any number of workers and rounds, any order of answers, timers and  *)
(* hand-offs and any number of refusals: the counters of a swarm account   *)
(* for every worker activity it scheduled, and its verdict agrees.         *)
(***************************************************************************)
EXTENDS SwarmRounds, FiniteSetTheorems, SequenceTheorems, TLAPS

\* The futures of the round.
Asked == {w \in Ids : future[w] # "none"}
Handing == IF pc = "handoff" THEN 1 ELSE 0

Shape ==
    /\ Workers \subseteq Ids
    /\ future \in [Ids -> Futures] /\ left \in Int
    /\ tally \in [succeeded : Nat, failed : Nat, timedOut : Nat]
    /\ runs \in Nat /\ lost \in Nat
    /\ pc \in {"hook", "search", "fetch", "pack", "round", "wait", "handoff", "summary", "ended"}

\* The loop that waits has an iteration for every future of the round, and for the
\* one whose hand-off is under way; outside the loop there is none.
Awaited ==
    /\ pc \notin {"wait", "handoff"} => Asked = {}
    /\ pc \in {"wait", "handoff"} => Cardinality(Asked) + Handing <= left

Counting == runs = Counted + Cardinality(Asked) + Handing

Ruling ==
    /\ status \in {"none", "completed", "partial_success", "failed"}
    /\ status # "none" <=> pc = "ended"
    /\ status # "none" => status = Verdict

IInv == Shape /\ Awaited /\ Counting /\ Ruling

-----------------------------------------------------------------------------
(* Sizes *)

LEMMA LargestCount ==
    /\ MaxCount \in Int
    /\ \A n \in Counts \union {DefaultCount} : n <= MaxCount
<1> DEFINE S == Counts \union {DefaultCount}
<1>1. S \subseteq Int /\ \E largest \in S : \A n \in S : n <= largest
  BY SwarmAssumption
<1>2. MaxCount = CHOOSE x \in S : \A y \in S : x >= y
  BY DEF MaxCount, Max
<1> HIDE DEF S
<1>3. \E x \in S : \A y \in S : x >= y
  BY <1>1
<1>4. MaxCount \in S /\ \A y \in S : MaxCount >= y
  BY <1>2, <1>3
<1>5. MaxCount \in Int /\ \A n \in S : n <= MaxCount
  BY <1>1, <1>4
<1> QED
  BY <1>5 DEF S

LEMMA CountFits == ASSUME NEW n \in Counts PROVE 1 .. WorkerCount(n) \subseteq Ids
BY LargestCount, SwarmAssumption DEF WorkerCount, Ids

LEMMA SizeOfIds == ASSUME NEW S \in SUBSET Ids
                   PROVE  IsFiniteSet(S) /\ Cardinality(S) \in Nat
<1>1. IsFiniteSet(Ids)
  BY LargestCount, SwarmAssumption, FS_Interval DEF Ids
<1> QED
  BY <1>1, FS_Subset, FS_CardinalityType

LEMMA SmallerSet == ASSUME NEW S \in SUBSET Ids, NEW R \in SUBSET S
                    PROVE  Cardinality(R) <= Cardinality(S)
BY SizeOfIds, FS_Subset

LEMMA OneLess == ASSUME NEW S \in SUBSET Ids, NEW w \in S
                 PROVE  Cardinality(S \ {w}) = Cardinality(S) - 1
BY SizeOfIds, FS_RemoveElement

LEMMA NoMember == Cardinality({}) = 0
BY FS_EmptySet

LEMMA IsEmpty == ASSUME NEW S \in SUBSET Ids, Cardinality(S) <= 0 PROVE S = {}
BY SizeOfIds, FS_EmptySet

-----------------------------------------------------------------------------
(* The invariant *)

LEMMA Starts == ASSUME Init PROVE IInv
<1>1. Workers \subseteq Ids
  BY CountFits DEF Init, Workers
<1>2. Asked = {} /\ Handing = 0 /\ Counted = 0
  BY DEF Init, Asked, Handing, Counted
<1> QED
  BY <1>1, <1>2, NoMember DEF Init, IInv, Shape, Awaited, Counting, Ruling, Futures

\* A step that touches no future, counter or run, and stays out of the loop.
LEMMA Idles ==
    ASSUME IInv, UNCHANGED <<count, future, left, tally, runs, lost, status>>,
           \/ UNCHANGED pc
           \/ /\ pc \in {"hook", "search", "fetch", "pack", "round"}
              /\ pc' \in {"search", "fetch", "pack", "round", "summary"}
    PROVE  IInv'
<1>1. UNCHANGED <<Workers, Asked, Handing, Counted, Verdict>>
  BY DEF Workers, Asked, Handing, Counted, Verdict, IInv, Shape
<1> QED
  BY <1>1 DEF IInv, Shape, Awaited, Counting, Ruling

\* One answer is collected: a future less, and one more in a counter.
LEMMA Answered ==
    ASSUME IInv, NEW w \in Ids, pc = "wait", future[w] \in Ready,
           future' = [future EXCEPT ![w] = "none"],
           tally' = IF future[w] = "error" THEN [tally EXCEPT !.failed = @ + 1]
                    ELSE [tally EXCEPT !.succeeded = @ + 1],
           UNCHANGED <<count, lost, status>>,
           \/ pc' = "wait" /\ left' = left - 1 /\ runs' = runs
           \/ pc' = "handoff" /\ left' = left /\ runs' = runs + 1
    PROVE  IInv'
<1>1. /\ Asked' = Asked \ {w} /\ w \in Asked /\ Asked \in SUBSET Ids
      /\ future' \in [Ids -> Futures]
  BY DEF IInv, Shape, Asked, Ready, Futures
<1>2. /\ Cardinality(Asked') = Cardinality(Asked) - 1 /\ Cardinality(Asked) \in Nat
  BY <1>1, OneLess, SizeOfIds
<1>3. /\ tally' \in [succeeded : Nat, failed : Nat, timedOut : Nat]
      /\ Counted' = Counted + 1 /\ Counted \in Nat
  <2>1. CASE future[w] = "error"
    BY <2>1 DEF IInv, Shape, Counted
  <2>2. CASE future[w] # "error"
    BY <2>2 DEF IInv, Shape, Counted
  <2> QED
    BY <2>1, <2>2
<1>4. Workers' \subseteq Ids
  BY DEF IInv, Shape, Workers
<1>5. Handing = 0 /\ Handing' = (IF pc' = "handoff" THEN 1 ELSE 0) /\ status = "none"
  BY DEF Handing, IInv, Ruling
<1> QED
  BY <1>1, <1>2, <1>3, <1>4, <1>5 DEF IInv, Shape, Awaited, Counting, Ruling

LEMMA Steps == ASSUME IInv, [Next]_vars PROVE IInv'
<1> USE DEF leader, stats, boxes, signals
<1>1. CASE BeforeRetrieval
  BY <1>1, Idles DEF BeforeRetrieval
<1>2. CASE Retrieve
  BY <1>2, Idles DEF Retrieve, AfterRetrieval
<1>3. CASE StartRound
  <2> PICK out \in SUBSET RoundTasks :
          /\ runs' = runs + Cardinality(RoundTasks \ out)
          /\ future' = [w \in Ids |-> IF w \in RoundTasks \ out THEN "running" ELSE "none"]
    BY <1>3 DEF StartRound
  <2> DEFINE launched == RoundTasks \ out
  <2>0. /\ pc = "round" /\ pc' = "wait" /\ left' = Cardinality(RoundTasks)
        /\ UNCHANGED <<count, tally, lost, status>>
        /\ future' = [w \in Ids |-> IF w \in launched THEN "running" ELSE "none"]
        /\ runs' = runs + Cardinality(launched)
    BY <1>3 DEF StartRound
  <2>1. RoundTasks \in SUBSET Ids /\ launched \in SUBSET RoundTasks
    BY DEF RoundTasks, WithMail, IInv, Shape
  <2>2. /\ Cardinality(launched) <= Cardinality(RoundTasks)
        /\ Cardinality(launched) \in Nat /\ Cardinality(RoundTasks) \in Nat
    BY <2>1, SmallerSet, SizeOfIds
  <2> HIDE DEF launched
  <2>3. Asked' = launched /\ future' \in [Ids -> Futures]
    BY <2>0, <2>1 DEF Asked, Futures, Pending
  <2>4. Asked = {} /\ Cardinality(Asked) = 0 /\ Handing = 0 /\ Handing' = 0
    BY <2>0, NoMember DEF IInv, Awaited, Handing
  <2>5. UNCHANGED <<Workers, Counted>> /\ Counted \in Nat
    BY <2>0 DEF Workers, Counted, IInv, Shape
  <2> QED
    BY <2>0, <2>2, <2>3, <2>4, <2>5 DEF IInv, Shape, Awaited, Counting, Ruling
<1>4. CASE StopRounds
  BY <1>4, Idles DEF StopRounds
<1>5. ASSUME NEW w \in Ids, Collect(w) PROVE IInv'
  BY <1>5, Answered DEF Collect, Account, Iterations
<1>6. CASE HandoffReturns
  <2> PICK f \in Ready : HandoffReturns!(f)
    BY <1>6 DEF HandoffReturns
  <2>1. /\ pc = "handoff" /\ pc' = "wait" /\ left' = left - 1
        /\ UNCHANGED <<count, future, runs, status>>
        /\ \/ lost' = lost + 1 /\ UNCHANGED tally
           \/ tally' = [tally EXCEPT !.succeeded = @ + 1] /\ UNCHANGED lost
    BY <1>6 DEF HandoffReturns, Iterations
  <2>2. /\ UNCHANGED <<Workers, Asked>> /\ Handing = 1 /\ Handing' = 0
        /\ Cardinality(Asked) \in Nat
    BY <2>1, SizeOfIds DEF Workers, Asked, Handing
  <2>3. /\ tally' \in [succeeded : Nat, failed : Nat, timedOut : Nat] /\ lost' \in Nat
        /\ Counted' = Counted + 1 /\ Counted \in Nat
    BY <2>1 DEF IInv, Shape, Counted
  <2> QED
    BY <2>1, <2>2, <2>3 DEF IInv, Shape, Awaited, Counting, Ruling
<1>7. CASE TimerExpires
  <2>1. /\ pc = "wait" /\ pc' = "wait" /\ left > 0
        /\ \A w \in Ids : future[w] \notin Ready
        /\ left' \in {0, left - 1}
        /\ tally' = [tally EXCEPT !.timedOut = @ + Cardinality(Outstanding)]
        /\ future' = [w \in Ids |-> "none"]
        /\ UNCHANGED <<count, runs, lost, status>>
    BY <1>7 DEF TimerExpires, IdleIteration, Late
  <2>2. Outstanding = Asked /\ Asked' = {}
    BY <2>1 DEF Outstanding, Asked, IInv, Shape, Futures, Pending
  <2>3. Cardinality(Asked') = 0 /\ Cardinality(Asked) \in Nat
    BY <2>2, NoMember, SizeOfIds DEF Asked
  <2>4. /\ tally' \in [succeeded : Nat, failed : Nat, timedOut : Nat]
        /\ Counted' = Counted + Cardinality(Asked) /\ Counted \in Nat
    BY <2>1, <2>2, <2>3 DEF IInv, Shape, Counted
  <2>5. UNCHANGED <<Workers, Handing>> /\ Handing = 0
    BY <2>1 DEF Workers, Handing
  <2>6. left' \in Int /\ left' >= 0 /\ future' \in [Ids -> Futures]
    BY <2>1 DEF IInv, Shape, Futures
  <2> QED
    BY <2>1, <2>2, <2>3, <2>4, <2>5, <2>6 DEF IInv, Shape, Awaited, Counting, Ruling
<1>8. CASE EndRound
  <2>1. /\ pc = "wait" /\ left = 0 /\ pc' = "round" /\ future' = [w \in Ids |-> "none"]
        /\ UNCHANGED <<count, left, tally, runs, lost, status>>
    BY <1>8 DEF EndRound
  <2>2. Asked = {}
    BY <2>1, SizeOfIds, IsEmpty DEF IInv, Awaited, Handing, Asked
  <2>3. Asked' = {} /\ future' \in [Ids -> Futures]
    BY <2>1 DEF Asked, Futures
  <2>4. UNCHANGED <<Workers, Handing, Counted>>
    BY <2>1 DEF Workers, Handing, Counted
  <2> QED
    BY <2>1, <2>2, <2>3, <2>4 DEF IInv, Shape, Awaited, Counting, Ruling
<1>9. CASE Finish
  <2>1. /\ pc = "summary" /\ pc' = "ended" /\ status' = Verdict
        /\ UNCHANGED <<count, future, left, tally, runs, lost>>
    BY <1>9 DEF Finish
  <2>2. UNCHANGED <<Workers, Asked, Handing, Counted, Verdict>>
    BY <2>1 DEF Workers, Asked, Handing, Counted, Verdict
  <2>3. Verdict \in {"completed", "partial_success", "failed"}
    BY DEF Verdict
  <2> QED
    BY <2>1, <2>2, <2>3 DEF IInv, Shape, Awaited, Counting, Ruling
<1>10. ASSUME NEW w \in Ids, WorkerFinishes(w) PROVE IInv'
  <2> PICK f \in Ready : WorkerFinishes(w)!(f)
    BY <1>10 DEF WorkerFinishes
  <2>1. /\ future[w] = "running" /\ future' = [future EXCEPT ![w] = f]
        /\ UNCHANGED <<count, pc, left, tally, runs, lost, status>>
    BY <1>10 DEF WorkerFinishes
  <2>2. Asked' = Asked /\ future' \in [Ids -> Futures]
    BY <1>10, <2>1 DEF Asked, IInv, Shape, Ready, Futures
  <2>3. UNCHANGED <<Workers, Handing, Counted, Verdict>>
    BY <2>1 DEF Workers, Handing, Counted, Verdict
  <2> QED
    BY <2>1, <2>2, <2>3 DEF IInv, Shape, Awaited, Counting, Ruling
<1>11. CASE SendSignal
  BY <1>11, Idles DEF SendSignal
<1>12. CASE UNCHANGED vars
  BY <1>12, Idles DEF vars
<1> QED
  BY <1>1, <1>2, <1>3, <1>4, <1>5, <1>6, <1>7, <1>8, <1>9, <1>10, <1>11, <1>12
     DEF Next, Leader, Ended

LEMMA Safe == ASSUME IInv PROVE EveryRunCounted
<1>1. /\ InFlight = Cardinality(Asked) + Handing
      /\ Cardinality(Asked) \in Nat /\ Handing \in {0, 1}
  BY SizeOfIds DEF InFlight, Asked, Handing
<1>2. runs = Counted + InFlight
  BY <1>1 DEF IInv, Counting, Counted, Shape
<1>3. status # "none" => Cardinality(Asked) = 0 /\ Handing = 0 /\ status = Verdict
  BY NoMember DEF IInv, Ruling, Awaited, Handing
<1>4. /\ tally.succeeded \in Nat /\ tally.failed \in Nat /\ tally.timedOut \in Nat
      /\ lost \in Nat /\ runs \in Nat
  BY DEF IInv, Shape
<1> QED
  BY <1>1, <1>2, <1>3, <1>4 DEF EveryRunCounted, Counted, Verdict

LEMMA Inductive == Spec => []IInv
<1>1. Init => IInv
  BY Starts
<1>2. IInv /\ [Next]_vars => IInv'
  BY Steps
<1> QED
  BY <1>1, <1>2, PTL DEF Spec

\* Every worker activity a swarm schedules is awaited or counted exactly once at
\* every moment, and the verdict agrees with the counts, for any numbers of workers
\* and rounds.
THEOREM RunsCounted == Spec => []EveryRunCounted
<1>1. IInv => EveryRunCounted
  BY Safe
<1> QED
  BY <1>1, Inductive, PTL

-----------------------------------------------------------------------------
(* Types *)

\* What the types rest on.
Placed ==
    /\ \A w \in Ids : future[w] # "none" => w \in Workers
    /\ pc \in {"wait", "handoff"} => MoreRounds
    /\ pc = "handoff" => handing \in Workers /\ FirstRound
    /\ mailbox <= sent

TypeInv == IInv /\ TypeOK /\ Placed

LEMMA RoleType == ASSUME NEW w \in Ids PROVE AddresseeOf(w) \in {0, 2, 3}
<1>1. ((w - 1) % 5) + 1 \in 1 .. 5
  BY LargestCount DEF Ids
<1>2. RoleOf(w) \in {"researcher", "analyst", "critic", "synthesizer", "reviewer"}
  BY <1>1 DEF RoleOf, Roles
<1> QED
  BY <1>2 DEF AddresseeOf

LEMMA OutboundType ==
    ASSUME NEW w \in Ids PROVE Outbound(w) \subseteq {m \in Messages : m.from = w /\ FirstRound}
BY RoleType, LargestCount DEF Outbound, Messages, Ids

\* The sequence of a set with at most one element.
LEMMA NoneInOrder == SetToSeq({}) = <<>>
<1>1. Cardinality({}) = 0
  BY FS_EmptySet
<1>2. \A f \in [1 .. 0 -> {}] : f = <<>>
  OBVIOUS
<1>3. <<>> \in [1 .. 0 -> {}] /\ IsInjective(<<>>)
  BY DEF IsInjective
<1> QED
  BY <1>1, <1>2, <1>3 DEF SetToSeq

LEMMA OneInOrder == ASSUME NEW m PROVE SetToSeq({m}) = <<m>>
<1>1. Cardinality({m}) = 1
  BY FS_Singleton
<1>2. \A f \in [1 .. 1 -> {m}] : f = <<m>>
  OBVIOUS
<1>3. <<m>> \in [1 .. 1 -> {m}] /\ IsInjective(<<m>>)
  BY DEF IsInjective
<1> QED
  BY <1>1, <1>2, <1>3 DEF SetToSeq

LEMMA OneMore ==
    ASSUME NEW S, NEW s \in Seq(S), NEW m \in S
    PROVE  s \o <<m>> = Append(s, m) /\ Append(s, m) \in Seq(S)
<1>1. <<m>> \in Seq(S) /\ Len(<<m>>) = 1 /\ <<m>>[1] = m
  OBVIOUS
<1>2. /\ s \o <<m>> \in Seq(S) /\ Len(s \o <<m>>) = Len(s) + 1
      /\ \A i \in 1 .. Len(s) + 1 :
            (s \o <<m>>)[i] = IF i <= Len(s) THEN s[i] ELSE <<m>>[i - Len(s)]
  BY <1>1, ConcatProperties
<1>3. /\ Append(s, m) \in Seq(S) /\ Len(Append(s, m)) = Len(s) + 1 /\ Len(s) \in Nat
      /\ \A i \in 1 .. Len(s) : Append(s, m)[i] = s[i]
      /\ Append(s, m)[Len(s) + 1] = m
  BY AppendProperties
<1>4. \A i \in 1 .. Len(s) + 1 : (s \o <<m>>)[i] = Append(s, m)[i]
  BY <1>1, <1>2, <1>3
<1> QED
  BY <1>2, <1>3, <1>4, SeqEqual

\* Routing the answer of a worker adds at most its one message to an inbox, and
\* nothing after the first round.
LEMMA RouteStep ==
    ASSUME TypeOK, NEW w \in Ids, Route(w)
    PROVE  /\ inbox' \in [Ids -> Seq(Messages)] /\ logged' \subseteq Messages
           /\ \A v \in Ids : \/ inbox'[v] = inbox[v]
                             \/ \E m \in Messages : /\ m.from = w /\ FirstRound
                                                    /\ m.to = v /\ v = AddresseeOf(w)
                                                    /\ inbox'[v] = Append(inbox[v], m)
<1> DEFINE Sent(v) == {m \in Routed(w) : Deliverable(m) /\ m.to = v}
<1>1. /\ inbox' = [v \in Ids |-> inbox[v] \o SetToSeq(Sent(v))]
      /\ logged' = logged \union {m \in Routed(w) : ~Deliverable(m)}
  BY DEF Route
<1>2. Routed(w) \subseteq {m \in Messages : m.from = w /\ FirstRound}
  BY OutboundType DEF Routed
<1>3. \A v : Sent(v) = {} \/ \E m \in Messages : /\ m.from = w /\ FirstRound /\ m.to = v
                                                 /\ v = AddresseeOf(w) /\ Sent(v) = {m}
  BY <1>2 DEF Routed, Outbound
<1>4. ASSUME NEW v \in Ids
      PROVE  /\ inbox'[v] \in Seq(Messages)
             /\ \/ inbox'[v] = inbox[v]
                \/ \E m \in Messages : /\ m.from = w /\ FirstRound
                                       /\ m.to = v /\ v = AddresseeOf(w)
                                       /\ inbox'[v] = Append(inbox[v], m)
  <2>1. inbox[v] \in Seq(Messages) /\ inbox'[v] = inbox[v] \o SetToSeq(Sent(v))
    BY <1>1 DEF TypeOK
  <2>2. CASE Sent(v) = {}
    <3>1. inbox'[v] = inbox[v] \o <<>>
      BY <2>1, <2>2, NoneInOrder
    <3> QED
      BY <2>1, <3>1, ConcatEmptySeq
  <2>3. CASE Sent(v) # {}
    <3>1. PICK m \in Messages : /\ m.from = w /\ FirstRound /\ m.to = v
                                /\ v = AddresseeOf(w) /\ Sent(v) = {m}
      BY <1>3, <2>3
    <3>2. inbox'[v] = inbox[v] \o <<m>>
      BY <2>1, <3>1, OneInOrder
    <3>3. inbox'[v] = Append(inbox[v], m) /\ inbox'[v] \in Seq(Messages)
      BY <2>1, <3>2, OneMore
    <3> QED
      BY <3>1, <3>3
  <2> QED
    BY <2>2, <2>3
<1>5. inbox' \in [Ids -> Seq(Messages)]
  BY <1>1, <1>4
<1>6. logged' \subseteq Messages
  BY <1>1, <1>2 DEF TypeOK
<1> QED
  BY <1>4, <1>5, <1>6

LEMMA TypeStarts == ASSUME Init PROVE TypeOK /\ Placed
<1>1. count \in Ids /\ maxRounds \in Nat \ {0}
  BY LargestCount, SwarmAssumption DEF Init, WorkerCount, MaxP2PRounds, Ids
<1>2. MaxCount \in Nat
  BY LargestCount, SwarmAssumption
<1>3. /\ inbox \in [Ids -> Seq(Messages)] /\ given \in [Ids -> Nat]
      /\ board \in Seq(Workers) /\ future \in [Ids -> Futures]
  BY DEF Init, Futures
<1>4. 0 \in 0 .. MaxSignals /\ 0 \in 0 .. MaxFaults /\ 0 \in 0 .. MaxCount
  BY <1>2, SwarmAssumption
<1>5. pc \in DOMAIN AfterRetrieval \union {"hook", "round", "wait", "handoff", "summary", "ended"}
  BY DEF Init
<1>6. /\ tally \in [succeeded : Nat, failed : Nat, timedOut : Nat] /\ context \in BOOLEAN
      /\ round \in 0 .. (maxRounds + 1) /\ logged \subseteq Messages
      /\ status \in {"none", "completed", "partial_success", "failed"}
  <2>1. context \in BOOLEAN
    BY DEF Init
  <2>2. round \in 0 .. (maxRounds + 1) /\ logged \subseteq Messages
    BY <1>1 DEF Init
  <2> QED
    BY <2>1, <2>2, Starts DEF IInv, Shape, Ruling
<1>7. /\ left = 0 /\ handing = Nobody /\ mailbox = 0 /\ sent = 0 /\ refused = 0
      /\ runs = 0 /\ empty = 0 /\ lost = 0
  BY DEF Init
<1>8. TypeOK
  BY <1>1, <1>3, <1>4, <1>5, <1>6, <1>7 DEF TypeOK
<1> QED
  BY <1>7, <1>8 DEF Init, Placed

LEMMA TypeSteps == ASSUME TypeInv, [Next]_vars PROVE TypeOK' /\ Placed'
<1> USE DEF TypeInv, leader, stats, boxes, signals
<1> TypeOK /\ Placed /\ IInv
  OBVIOUS
<1>0. /\ Workers \subseteq Ids /\ MaxCount \in Nat
      /\ round \in Nat /\ maxRounds \in Nat \ {0} /\ IInv'
  BY LargestCount, SwarmAssumption, Steps DEF TypeOK, Workers, Ids
<1>1. CASE BeforeRetrieval \/ Retrieve
  <2>1. /\ pc' \in DOMAIN AfterRetrieval \union {"round"} /\ context' \in BOOLEAN
        /\ UNCHANGED <<count, maxRounds, round, future, left, handing, inbox, logged, board,
                       mailbox, sent, tally, runs, empty, lost, refused, given, status>>
    <3>1. CASE BeforeRetrieval
      BY <3>1 DEF BeforeRetrieval, AfterRetrieval, TypeOK
    <3>2. CASE Retrieve
      <4>1. PICK ok \in BOOLEAN : pc' = IF ok THEN AfterRetrieval[pc] ELSE "round"
        BY <3>2 DEF Retrieve
      <4>2. pc' \in DOMAIN AfterRetrieval \union {"round"}
        BY <3>2, <4>1 DEF Retrieve, AfterRetrieval
      <4>3. context' \in BOOLEAN
        BY <3>2, Zenon DEF Retrieve
      <4> QED
        BY <3>2, <4>2, <4>3 DEF Retrieve
    <3> QED
      BY <1>1, <3>1, <3>2
  <2>2. pc' \notin {"wait", "handoff"}
    BY <2>1 DEF AfterRetrieval
  <2> QED
    BY <2>1, <2>2 DEF TypeOK, Placed, Workers, MoreRounds, FirstRound
<1>2. CASE SendSignal
  <2>1. mailbox' \in 0 .. MaxSignals /\ sent' \in 0 .. MaxSignals /\ mailbox' <= sent'
    BY <1>2, SwarmAssumption DEF SendSignal, TypeOK, Placed
  <2> QED
    BY <1>2, <2>1 DEF SendSignal, TypeOK, Placed, Workers, MoreRounds, FirstRound
<1>3. CASE StartRound
  <2>1. PICK out \in SUBSET RoundTasks :
          /\ refused + Cardinality(out) <= MaxFaults
          /\ refused' = refused + Cardinality(out)
          /\ future' = [w \in Ids |-> IF w \in RoundTasks \ out THEN "running" ELSE "none"]
          /\ given' = [w \in Ids |-> given[w] + IF w \in Authors(RoundTasks \ out) THEN 1 ELSE 0]
          /\ runs' = runs + Cardinality(RoundTasks \ out)
    BY <1>3 DEF StartRound
  <2>2. RoundTasks \subseteq Workers /\ RoundTasks \in SUBSET Ids /\ out \in SUBSET Ids
        /\ RoundTasks \ out \in SUBSET Ids
    BY <1>0, <2>1 DEF RoundTasks, WithMail
  <2>3. Cardinality(out) \in Nat /\ Cardinality(RoundTasks \ out) \in Nat
    BY <2>2, SizeOfIds
  <2>4. refused' \in 0 .. MaxFaults /\ runs' \in Nat
    <3>1. refused \in 0 .. MaxFaults /\ runs \in Nat
      BY Zenon DEF TypeOK
    <3> QED
      BY <2>1, <2>3, <3>1, SwarmAssumption
  <2>5. /\ future' \in [Ids -> Futures]
        /\ \A w \in Ids : future'[w] # "none" => w \in Workers
    BY <2>1, <2>2 DEF Futures, Pending
  <2>6. given' \in [Ids -> Nat]
    BY <2>1 DEF TypeOK
  <2>7. left' \in 0 .. MaxCount
    <3>1. IsFiniteSet(Ids) /\ Cardinality(Ids) = MaxCount
      BY <1>0, FS_Interval DEF Ids
    <3>2. Cardinality(RoundTasks) <= Cardinality(Ids) /\ Cardinality(RoundTasks) \in Nat
      BY <2>2, <3>1, SmallerSet, SizeOfIds
    <3> QED
      BY <1>0, <1>3, <3>1, <3>2 DEF StartRound
  <2>8. mailbox' \in 0 .. MaxSignals /\ mailbox' <= sent
    BY <1>3, SwarmAssumption DEF StartRound, TakeSignal, TypeOK, Placed
  <2>9. /\ pc' = "wait" /\ MoreRounds
        /\ UNCHANGED <<count, maxRounds, context, round, handing, inbox, logged, board, sent,
                       tally, empty, lost, status>>
    BY <1>3 DEF StartRound
  <2> QED
    BY <2>4, <2>5, <2>6, <2>7, <2>8, <2>9 DEF TypeOK, Placed, Workers, MoreRounds
<1>4. CASE StopRounds
  <2>1. mailbox' \in 0 .. MaxSignals /\ mailbox' <= sent
    BY <1>4, SwarmAssumption DEF StopRounds, TakeSignal, TypeOK, Placed
  <2>2. /\ pc' = "summary"
        /\ UNCHANGED <<count, maxRounds, context, round, future, left, handing, inbox, logged,
                       board, sent, tally, runs, empty, lost, refused, given, status>>
    BY <1>4 DEF StopRounds
  <2> QED
    BY <2>1, <2>2 DEF TypeOK, Placed, Workers
<1>5. ASSUME NEW w \in Ids, Collect(w) PROVE TypeOK' /\ Placed'
  <2>1. /\ pc = "wait" /\ left > 0 /\ future[w] \in Ready
        /\ UNCHANGED <<count, maxRounds, context, round, mailbox, sent, lost, refused, given,
                       status>>
    BY <1>5 DEF Collect
  <2>2. w \in Workers
    BY <2>1 DEF Placed, Ready
  <2>3. /\ future' \in [Ids -> Futures]
        /\ \A v \in Ids : future'[v] # "none" => future[v] # "none"
    BY <1>5 DEF Collect, Account, TypeOK, Futures
  <2>4. /\ tally' \in [succeeded : Nat, failed : Nat, timedOut : Nat] /\ empty' \in Nat
        /\ runs' \in Nat
    <3>1. empty \in Nat
      BY DEF TypeOK
    <3>2. empty' \in Nat
      BY <1>5, <3>1 DEF Collect, Account
    <3> QED
      BY <1>0, <3>2 DEF IInv, Shape
  <2>5. board' \in Seq(Workers)
    BY <1>5, <2>2 DEF Collect, Account, TypeOK
  <2>6. inbox' \in [Ids -> Seq(Messages)] /\ logged' \subseteq Messages
    <3>1. Route(w) \/ NoRoute
      BY <1>5 DEF Collect
    <3>2. CASE Route(w)
      BY <3>2, RouteStep
    <3>3. CASE NoRoute
      BY <3>3 DEF NoRoute, TypeOK
    <3> QED
      BY <3>1, <3>2, <3>3
  <2>7. left' \in 0 .. MaxCount
    <3>1. left \in 0 .. MaxCount
      BY DEF TypeOK
    <3>2. left' \in {left, left - 1}
      BY <1>5 DEF Collect, Iterations
    <3> QED
      BY <1>0, <2>1, <3>1, <3>2
  <2>8. \/ pc' = "handoff" /\ handing' = w /\ FirstRound
        \/ pc' = "wait" /\ handing' = handing
    BY <1>5, <2>1 DEF Collect, WantsHandoff
  <2>9. TypeOK'
    BY <2>1, <2>2, <2>3, <2>4, <2>5, <2>6, <2>7, <2>8 DEF TypeOK, Workers
  <2> QED
    BY <2>1, <2>2, <2>3, <2>8, <2>9 DEF Placed, Workers, MoreRounds, FirstRound
<1>6. CASE HandoffReturns
  <2>1. /\ pc = "handoff" /\ pc' = "wait" /\ left' = left - 1 /\ handing' = Nobody
        /\ Route(handing)
        /\ UNCHANGED <<count, maxRounds, context, round, future, board, mailbox, sent, runs,
                       refused, given, status>>
    BY <1>6 DEF HandoffReturns, Iterations
  <2>2. /\ tally' \in [succeeded : Nat, failed : Nat, timedOut : Nat]
        /\ lost' \in Nat /\ empty' \in Nat
    <3>1. empty' \in Nat
      BY <1>6 DEF HandoffReturns, TypeOK
    <3> QED
      BY <1>0, <3>1 DEF IInv, Shape
  <2>3. handing \in Ids
    BY <1>0, <2>1 DEF Placed
  <2>4. inbox' \in [Ids -> Seq(Messages)] /\ logged' \subseteq Messages
    BY <2>1, <2>3, RouteStep
  <2>5. Cardinality(Asked) \in Nat /\ Cardinality(Asked) + 1 <= left
    BY <2>1, SizeOfIds DEF IInv, Awaited, Handing, Asked
  <2>6. left' \in 0 .. MaxCount
    BY <1>0, <2>1, <2>5 DEF TypeOK
  <2> QED
    BY <2>1, <2>2, <2>4, <2>6 DEF TypeOK, Placed, Workers, MoreRounds
<1>7. CASE TimerExpires
  <2>1. /\ pc' = pc /\ pc = "wait" /\ left > 0 /\ left' \in {0, left - 1}
        /\ tally' = [tally EXCEPT !.timedOut = @ + Cardinality(Outstanding)]
        /\ future' = [w \in Ids |-> "none"]
        /\ UNCHANGED <<count, maxRounds, context, round, handing, inbox, logged, board,
                       mailbox, sent, runs, empty, lost, refused, given, status>>
    BY <1>7 DEF TimerExpires, IdleIteration, Late
  <2>2. Cardinality(Outstanding) \in Nat
    BY SizeOfIds DEF Outstanding
  <2>3. tally' \in [succeeded : Nat, failed : Nat, timedOut : Nat]
    BY <1>0 DEF IInv, Shape
  <2>4. future' \in [Ids -> Futures] /\ left' \in 0 .. MaxCount
    <3>1. left \in 0 .. MaxCount
      BY DEF TypeOK
    <3> QED
      BY <1>0, <2>1, <3>1 DEF Futures
  <2> QED
    BY <2>1, <2>3, <2>4 DEF TypeOK, Placed, Workers, MoreRounds
<1>8. CASE EndRound
  <2>1. /\ pc = "wait" /\ pc' = "round" /\ round' = round + 1
        /\ future' = [w \in Ids |-> "none"]
        /\ UNCHANGED <<count, maxRounds, context, left, handing, inbox, logged, board, mailbox,
                       sent, tally, runs, empty, lost, refused, given, status>>
    BY <1>8 DEF EndRound
  <2>2. future' \in [Ids -> Futures] /\ round' \in 0 .. maxRounds + 1
    BY <1>0, <2>1 DEF Placed, MoreRounds, Futures
  <2> QED
    BY <2>1, <2>2 DEF TypeOK, Placed, Workers
<1>9. CASE Finish
  <2>1. status' \in {"completed", "partial_success", "failed"} /\ pc' = "ended"
        /\ UNCHANGED <<count, maxRounds, context, round, future, left, handing, inbox, logged,
                       board, mailbox, sent, tally, runs, empty, lost, refused, given>>
    BY <1>9 DEF Finish, Verdict
  <2> QED
    BY <2>1 DEF TypeOK, Placed, Workers
<1>10. ASSUME NEW w \in Ids, WorkerFinishes(w) PROVE TypeOK' /\ Placed'
  <2>1. PICK f \in Ready : /\ future[w] = "running"
                           /\ future' = [future EXCEPT ![w] = f]
    BY <1>10 DEF WorkerFinishes
  <2>2. /\ future' \in [Ids -> Futures]
        /\ \A v \in Ids : future'[v] # "none" => future[v] # "none"
    BY <2>1 DEF TypeOK, Futures
  <2> QED
    BY <1>10, <2>2 DEF WorkerFinishes, TypeOK, Placed, Workers, MoreRounds, FirstRound
<1>11. CASE UNCHANGED vars
  BY <1>11 DEF vars, TypeOK, Placed, Workers, MoreRounds, FirstRound
<1> QED
  BY <1>1, <1>2, <1>3, <1>4, <1>5, <1>6, <1>7, <1>8, <1>9, <1>10, <1>11
     DEF Next, Leader, Ended

LEMMA TypeInductive == Spec => []TypeInv
<1>1. Init => TypeInv
  BY Starts, TypeStarts DEF TypeInv
<1>2. TypeInv /\ [Next]_vars => TypeInv'
  BY Steps, TypeSteps DEF TypeInv
<1> QED
  BY <1>1, <1>2, PTL DEF Spec

\* Every variable of a swarm keeps its type: no loop waits for more answers than it
\* asked for, no round is started beyond the last, no inbox holds anything else than
\* messages, for any numbers of workers and rounds.
THEOREM TypeCorrect == Spec => []TypeOK
<1>1. TypeInv => TypeOK
  BY DEF TypeInv
<1> QED
  BY <1>1, TypeInductive, PTL

-----------------------------------------------------------------------------
(* The mail *)

\* A worker whose message is in an inbox, or whose item is on the board.
Mailed(w) == \E v \in Ids : \E i \in 1 .. Len(inbox[v]) : inbox[v][i].from = w
Posted(w) == \E i \in 1 .. Len(board) : board[i] = w

\* An inbox holds what was written to its worker.
Addressed(v) ==
    \A i \in 1 .. Len(inbox[v]) : inbox[v][i].to = v /\ AddresseeOf(inbox[v][i].from) = v

\* A worker writes in the first round only, and once: when it has written its future
\* is gone, and the message of the one that hands off is not routed yet.
WritesOnce ==
    /\ \A v \in Ids : IsInjective(inbox[v]) /\ Addressed(v)
    /\ IsInjective(board)
    /\ round = 0 => \A w \in Ids : Mailed(w) \/ Posted(w) =>
                        pc \in {"wait", "handoff"} /\ future[w] = "none"
    /\ pc = "handoff" => ~Mailed(handing) /\ future[handing] = "none"

\* The rounds after the first that were started, and the workers who were not handed
\* their mail in each of them.
Started == IF pc \in {"wait", "handoff"} THEN round ELSE round - 1
Missing == {w \in Workers : \E m \in ToSet(inbox[w]) : given[m.from] # Started}

\* Who has mail is run in every round after the first, or was refused it.
GivenInTime ==
    /\ round = 0 => \A w \in Ids : given[w] = 0
    /\ round # 0 => Cardinality(Missing) <= refused
    /\ pc \in {"summary", "ended"} => round >= 1
    /\ pc \in {"hook", "search", "fetch", "pack"} => round = 0

MailInv == WritesOnce /\ GivenInTime

\* A sequence without repetitions and a new element at its end.
LEMMA AppendsNew ==
    ASSUME NEW S, NEW s \in Seq(S), NEW m \in S, IsInjective(s),
           \A i \in 1 .. Len(s) : s[i] # m
    PROVE  IsInjective(Append(s, m))
<1>1. /\ DOMAIN s = 1 .. Len(s) /\ Len(s) \in Nat
      /\ DOMAIN Append(s, m) = 1 .. Len(s) + 1
      /\ \A i \in 1 .. Len(s) : Append(s, m)[i] = s[i]
      /\ Append(s, m)[Len(s) + 1] = m
  OBVIOUS
<1>2. \A i \in 1 .. Len(s) + 1 : i \in 1 .. Len(s) \/ i = Len(s) + 1
  BY <1>1
<1> QED
  BY <1>1, <1>2 DEF IsInjective

\* What is said of the writer of a message that is routed.
LEMMA RouteOnce ==
    ASSUME TypeInv, WritesOnce, NEW w \in Ids, Route(w), ~Mailed(w)
    PROVE  /\ \A v \in Ids : IsInjective(inbox'[v]) /\ Addressed(v)'
           /\ \A u \in Ids : Mailed(u)' => Mailed(u) \/ u = w
           /\ ~FirstRound => inbox' = inbox
<1>1. /\ inbox' \in [Ids -> Seq(Messages)]
      /\ \A v \in Ids : \/ inbox'[v] = inbox[v]
                        \/ \E m \in Messages : /\ m.from = w /\ FirstRound
                                               /\ m.to = v /\ v = AddresseeOf(w)
                                               /\ inbox'[v] = Append(inbox[v], m)
  BY RouteStep DEF TypeInv
<1>2. inbox \in [Ids -> Seq(Messages)]
  BY DEF TypeInv, TypeOK
<1>3. ASSUME NEW v \in Ids
      PROVE  /\ IsInjective(inbox'[v])
             /\ \A i \in 1 .. Len(inbox'[v]) :
                   \/ /\ inbox'[v][i].from = w /\ inbox'[v][i].to = v
                      /\ v = AddresseeOf(w)
                   \/ i \in 1 .. Len(inbox[v]) /\ inbox'[v][i] = inbox[v][i]
  <2>1. CASE inbox'[v] = inbox[v]
    BY <2>1 DEF WritesOnce
  <2>2. CASE inbox'[v] # inbox[v]
    <3>1. PICK m \in Messages : /\ m.from = w /\ inbox'[v] = Append(inbox[v], m)
                                /\ m.to = v /\ v = AddresseeOf(w)
      BY <1>1, <2>2
    <3>2. \A i \in 1 .. Len(inbox[v]) : inbox[v][i] # m
      BY <3>1 DEF Mailed
    <3>3. inbox[v] \in Seq(Messages) /\ IsInjective(inbox[v])
      BY <1>2 DEF WritesOnce
    <3>4. IsInjective(inbox'[v])
      BY <3>1, <3>2, <3>3, AppendsNew
    <3>5. \A i \in 1 .. Len(inbox'[v]) :
             \/ inbox'[v][i] = m
             \/ i \in 1 .. Len(inbox[v]) /\ inbox'[v][i] = inbox[v][i]
      BY <3>1, <3>3
    <3> QED
      BY <3>1, <3>4, <3>5
  <2> QED
    BY <2>1, <2>2
<1>4. ASSUME NEW u \in Ids, \E v \in Ids : \E i \in 1 .. Len(inbox'[v]) : inbox'[v][i].from = u
      PROVE  Mailed(u) \/ u = w
  <2>1. PICK v \in Ids : \E i \in 1 .. Len(inbox'[v]) : inbox'[v][i].from = u
    BY <1>4
  <2>2. PICK i \in 1 .. Len(inbox'[v]) : inbox'[v][i].from = u
    BY <2>1
  <2> QED
    BY <1>3, <2>2 DEF Mailed
<1>5. ~FirstRound => inbox' = inbox
  BY <1>1, <1>2
<1>6. ASSUME NEW v \in Ids
      PROVE  \A i \in 1 .. Len(inbox'[v]) :
                inbox'[v][i].to = v /\ AddresseeOf(inbox'[v][i].from) = v
  <2>1. Addressed(v)
    BY DEF WritesOnce
  <2> QED
    BY <1>3, <2>1 DEF Addressed
<1>7. \A v \in Ids : Addressed(v)'
  BY <1>6 DEF Addressed, AddresseeOf, RoleOf
<1> QED
  BY <1>3, <1>4, <1>5, <1>7 DEF Mailed

LEMMA MailStarts == ASSUME Init PROVE MailInv
<1>1. /\ \A v \in Ids : inbox[v] = <<>> /\ given[v] = 0
      /\ board = <<>> /\ round = 0 /\ pc \in {"hook", "round"}
  BY DEF Init
<1>2. Len(<<>>) = 0 /\ IsInjective(<<>>)
  BY DEF IsInjective
<1>3. \A w : ~Mailed(w) /\ ~Posted(w)
  BY <1>1, <1>2 DEF Mailed, Posted
<1>4. \A v \in Ids : Addressed(v)
  BY <1>1, <1>2 DEF Addressed
<1> QED
  BY <1>1, <1>2, <1>3, <1>4 DEF MailInv, WritesOnce, GivenInTime

\* A step that moves no mail, ends no future of the round but by itself, and stays
\* in the round.
LEMMA WritesStay ==
    ASSUME TypeInv, WritesOnce, UNCHANGED <<inbox, board, round>>,
           pc \in {"wait", "handoff"} => pc' \in {"wait", "handoff"},
           pc' = "handoff" => pc = "handoff" /\ handing' = handing,
           \A w \in Ids : pc \in {"wait", "handoff"} /\ future[w] = "none" => future'[w] = "none"
    PROVE  WritesOnce'
<1>1. \A w : /\ Mailed(w)' = Mailed(w) /\ Posted(w)' = Posted(w)
            /\ Addressed(w)' = Addressed(w)
  BY DEF Mailed, Posted, Addressed, AddresseeOf, RoleOf
<1>2. pc = "handoff" => handing \in Ids
  BY DEF TypeInv, Placed, IInv, Shape
<1>3. pc' = "handoff" => ~Mailed(handing)' /\ future'[handing'] = "none"
  BY <1>1, <1>2 DEF WritesOnce, Mailed
<1> QED
  BY <1>1, <1>3 DEF WritesOnce

LEMMA WriteSteps == ASSUME TypeInv, MailInv, [Next]_vars PROVE WritesOnce'
<1> USE DEF MailInv, leader, stats, boxes, signals
<1> WritesOnce /\ TypeOK /\ Placed /\ IInv
  BY DEF TypeInv
<1>0. /\ Workers \subseteq Ids /\ round \in Nat /\ maxRounds \in Nat \ {0}
      /\ future \in [Ids -> Futures] /\ board \in Seq(Workers)
  BY DEF IInv, Shape, TypeOK
<1>1. CASE BeforeRetrieval \/ Retrieve
  BY <1>1, WritesStay DEF BeforeRetrieval, Retrieve, AfterRetrieval
<1>2. CASE SendSignal
  BY <1>2, WritesStay DEF SendSignal
<1>3. CASE StartRound
  BY <1>3, WritesStay DEF StartRound
<1>4. CASE StopRounds
  BY <1>4, WritesStay DEF StopRounds
<1>5. ASSUME NEW w \in Ids, Collect(w) PROVE WritesOnce'
  <2>1. /\ pc = "wait" /\ future[w] # "none" /\ round' = round
        /\ future' = [future EXCEPT ![w] = "none"]
        /\ board' = board \/ (board' = Append(board, w) /\ FirstRound)
        /\ \/ pc' = "handoff" /\ handing' = w /\ NoRoute
           \/ pc' = "wait" /\ (Route(w) \/ NoRoute)
    BY <1>5 DEF Collect, Account, Appends, Ready
  <2>2. FirstRound => ~Mailed(w) /\ ~Posted(w)
    BY <2>1 DEF WritesOnce, FirstRound
  <2>3. /\ \A v \in Ids : IsInjective(inbox'[v]) /\ Addressed(v)'
        /\ \A u \in Ids : Mailed(u)' => Mailed(u) \/ (u = w /\ pc' = "wait")
    <3>1. CASE NoRoute
      BY <3>1 DEF NoRoute, WritesOnce, Mailed, Addressed, AddresseeOf, RoleOf
    <3>2. CASE Route(w) /\ FirstRound /\ pc' = "wait"
      BY <2>2, <3>2, RouteOnce
    <3>3. CASE Route(w) /\ ~FirstRound
      <4>1. inbox' = inbox
        <5>1. \A v \in Ids : inbox'[v] = inbox[v]
          BY <3>3, RouteStep
        <5>2. inbox' \in [Ids -> Seq(Messages)] /\ inbox \in [Ids -> Seq(Messages)]
          BY <3>3, RouteStep DEF TypeOK
        <5> QED
          BY <5>1, <5>2
      <4> QED
        BY <4>1 DEF WritesOnce, Mailed, Addressed, AddresseeOf, RoleOf
    <3> QED
      BY <2>1, <3>1, <3>2, <3>3
  <2>4. /\ IsInjective(board')
        /\ \A u \in Ids : Posted(u)' => Posted(u) \/ u = w
    <3>1. CASE board' = board
      BY <3>1 DEF WritesOnce, Posted
    <3>2. CASE board' = Append(board, w) /\ FirstRound
      <4>1. w \in Workers
        BY <2>1 DEF Placed
      <4>2. IsInjective(board')
        BY <1>0, <2>2, <3>2, <4>1, AppendsNew DEF WritesOnce, Posted
      <4>3. \A i \in 1 .. Len(board') :
               board'[i] = w \/ (i \in 1 .. Len(board) /\ board'[i] = board[i])
        BY <1>0, <3>2, <4>1
      <4> QED
        BY <4>2, <4>3 DEF Posted
    <3> QED
      BY <2>1, <3>1, <3>2
  <2>5. \A u \in Ids : future'[u] = IF u = w THEN "none" ELSE future[u]
    BY <1>0, <2>1
  <2>6. round' = 0 => \A u \in Ids : Mailed(u)' \/ Posted(u)' =>
                         pc' \in {"wait", "handoff"} /\ future'[u] = "none"
    BY <2>1, <2>3, <2>4, <2>5 DEF WritesOnce
  <2>7. pc' = "handoff" => handing' = w /\ ~Mailed(w)' /\ future'[w] = "none"
    <3>1. pc' = "handoff" => FirstRound
      BY <1>5, <2>1 DEF Collect, WantsHandoff
    <3> QED
      BY <2>1, <2>2, <2>3, <2>5, <3>1
  <2>8. pc' = "handoff" => ~Mailed(handing)' /\ future'[handing'] = "none"
    BY <2>7 DEF Mailed
  <2> QED
    BY <2>3, <2>4, <2>6, <2>8 DEF WritesOnce
<1>6. CASE HandoffReturns
  <2>1. /\ pc = "handoff" /\ pc' = "wait" /\ Route(handing)
        /\ UNCHANGED <<round, future, board>>
    BY <1>6 DEF HandoffReturns
  <2>2. handing \in Ids /\ ~Mailed(handing) /\ future[handing] = "none"
    BY <1>0, <2>1 DEF Placed, WritesOnce
  <2>3. /\ \A v \in Ids : IsInjective(inbox'[v]) /\ Addressed(v)'
        /\ \A u \in Ids : Mailed(u)' => Mailed(u) \/ u = handing
    BY <2>1, <2>2, RouteOnce
  <2>4. \A u : Posted(u)' = Posted(u)
    BY <2>1 DEF Posted
  <2> QED
    BY <2>1, <2>2, <2>3, <2>4 DEF WritesOnce
<1>7. CASE TimerExpires
  BY <1>7, WritesStay DEF TimerExpires
<1>8. CASE EndRound
  <2>1. /\ pc' = "round" /\ round' = round + 1 /\ UNCHANGED <<inbox, board>>
    BY <1>8 DEF EndRound
  <2>2. \A v : Addressed(v)' = Addressed(v)
    BY <2>1 DEF Addressed, AddresseeOf, RoleOf
  <2> QED
    BY <1>0, <2>1, <2>2 DEF WritesOnce
<1>9. CASE Finish
  BY <1>9, WritesStay DEF Finish
<1>10. ASSUME NEW w \in Ids, WorkerFinishes(w) PROVE WritesOnce'
  <2>1. /\ \E f \in Ready : future' = [future EXCEPT ![w] = f]
        /\ future[w] = "running" /\ UNCHANGED <<pc, round, handing, inbox, board>>
    BY <1>10 DEF WorkerFinishes
  <2>2. \A v \in Ids : future[v] = "none" => future'[v] = "none"
    BY <1>0, <2>1
  <2> QED
    BY <2>1, <2>2, WritesStay
<1>11. CASE UNCHANGED vars
  BY <1>11, WritesStay DEF vars
<1> QED
  BY <1>1, <1>2, <1>3, <1>4, <1>5, <1>6, <1>7, <1>8, <1>9, <1>10, <1>11
     DEF Next, Leader, Ended

\* Outside the first round nothing is routed any more.
LEMMA NoMoreMail ==
    ASSUME TypeInv, [Next]_vars, round # 0 PROVE inbox' = inbox
<1> USE DEF leader, stats, boxes, signals
<1>1. ASSUME NEW w \in Ids, Route(w) PROVE inbox' = inbox
  <2>1. /\ inbox' \in [Ids -> Seq(Messages)] /\ inbox \in [Ids -> Seq(Messages)]
        /\ \A v \in Ids : inbox'[v] = inbox[v]
    BY <1>1, RouteStep DEF TypeInv, TypeOK, FirstRound
  <2> QED
    BY <2>1
<1>2. ASSUME NEW w \in Ids, Collect(w) PROVE inbox' = inbox
  BY <1>1, <1>2 DEF Collect, NoRoute
<1>3. CASE HandoffReturns
  BY <1>1, <1>3 DEF HandoffReturns, TypeInv, Placed, IInv, Shape
<1> QED
  BY <1>2, <1>3 DEF Next, Leader, Ended, vars, BeforeRetrieval, Retrieve, StartRound,
     StopRounds, TimerExpires, EndRound, Finish, WorkerFinishes, SendSignal

\* What is handed over in a round is all the mail of those who are run, and no other.
LEMMA HandedOver ==
    ASSUME TypeInv, WritesOnce, NEW launched \in SUBSET Ids, NEW w \in Ids,
           NEW m \in ToSet(inbox[w])
    PROVE  m.from \in Ids /\ (m.from \in Authors(launched) <=> w \in launched)
<1>1. PICK i \in 1 .. Len(inbox[w]) : m = inbox[w][i]
  BY DEF ToSet, TypeInv, TypeOK
<1>2. m.from \in Ids /\ AddresseeOf(m.from) = w
  <2>1. inbox[w] \in Seq(Messages) /\ Addressed(w)
    BY DEF WritesOnce, TypeInv, TypeOK
  <2>2. m \in Messages
    BY <1>1, <2>1
  <2> QED
    BY <1>1, <2>1, <2>2 DEF Addressed, Messages
<1>3. w \in launched => m.from \in Authors(launched)
  BY DEF Authors
<1>4. ASSUME m.from \in Authors(launched) PROVE w \in launched
  <2>1. PICK v \in launched : \E n \in ToSet(inbox[v]) : n.from = m.from
    BY <1>4 DEF Authors
  <2>2. PICK j \in 1 .. Len(inbox[v]) : inbox[v][j].from = m.from
    BY <2>1 DEF ToSet, TypeInv, TypeOK
  <2>3. AddresseeOf(m.from) = v
    <3>1. Addressed(v)
      BY DEF WritesOnce
    <3> QED
      BY <2>2, <3>1 DEF Addressed
  <2> QED
    BY <1>2, <2>1, <2>3
<1> QED
  BY <1>2, <1>3, <1>4

\* In the first round there is no mail to hand over.
LEMMA NothingYet ==
    ASSUME TypeInv, MailInv, StartRound, round = 0 PROVE \A w \in Ids : given'[w] = 0
<1>1. PICK out \in SUBSET RoundTasks :
        given' = [w \in Ids |-> given[w] + IF w \in Authors(RoundTasks \ out) THEN 1 ELSE 0]
  BY DEF StartRound
<1>2. RoundTasks \ out \subseteq Ids
  BY DEF RoundTasks, WithMail, TypeInv, IInv, Shape
<1>3. \A w \in Ids : ~Mailed(w)
  BY DEF MailInv, WritesOnce, StartRound
<1>4. \A w \in Ids : w \notin Authors(RoundTasks \ out)
  <2> SUFFICES ASSUME NEW w \in Ids, w \in Authors(RoundTasks \ out) PROVE FALSE
    OBVIOUS
  <2>1. PICK v \in RoundTasks \ out : \E n \in ToSet(inbox[v]) : n.from = w
    BY DEF Authors
  <2>2. v \in Ids /\ \E i \in 1 .. Len(inbox[v]) : inbox[v][i].from = w
    BY <1>2, <2>1 DEF ToSet, TypeInv, TypeOK
  <2> QED
    BY <1>3, <2>2 DEF Mailed
<1> QED
  BY <1>1, <1>4 DEF MailInv, GivenInTime

\* A worker that misses its mail in a round has missed it before or is refused.
LEMMA RoundGiven ==
    ASSUME TypeInv, MailInv, StartRound, round # 0 PROVE Cardinality(Missing') <= refused'
<1> USE DEF leader, boxes, signals
<1>0. /\ inbox' = inbox /\ Workers \subseteq Ids /\ Workers' = Workers
      /\ given \in [Ids -> Nat] /\ round \in Nat /\ refused \in Nat
      /\ pc = "round" /\ pc' = "wait" /\ round' = round
  BY DEF StartRound, Workers, TypeInv, TypeOK, IInv, Shape
<1>1. PICK out \in SUBSET RoundTasks :
        /\ refused' = refused + Cardinality(out)
        /\ given' = [w \in Ids |-> given[w] + IF w \in Authors(RoundTasks \ out) THEN 1 ELSE 0]
  BY DEF StartRound
<1>2. RoundTasks = WithMail /\ RoundTasks \subseteq Ids /\ out \in SUBSET Ids
  BY <1>0, <1>1 DEF RoundTasks, WithMail
<1>3. Started = round - 1 /\ Started' = round
  BY <1>0 DEF Started
<1>4. Missing' \subseteq Missing \cup out
  <2> SUFFICES ASSUME NEW w \in Missing', w \notin out PROVE w \in Missing
    OBVIOUS
  <2>1. w \in Workers /\ \E m \in ToSet(inbox[w]) : given'[m.from] # round
    BY <1>0, <1>3 DEF Missing
  <2>2. PICK m \in ToSet(inbox[w]) : given'[m.from] # round
    BY <2>1
  <2>3. ToSet(<<>>) = {}
    BY DEF ToSet
  <2>4. w \in RoundTasks \ out
    BY <1>2, <2>1, <2>2, <2>3 DEF WithMail
  <2>5. m.from \in Ids /\ m.from \in Authors(RoundTasks \ out)
    BY <1>0, <1>2, <2>1, <2>4, HandedOver DEF MailInv
  <2>6. given'[m.from] = given[m.from] + 1 /\ given[m.from] \in Nat
    BY <1>0, <1>1, <2>5
  <2> QED
    BY <1>0, <1>3, <2>1, <2>2, <2>6 DEF Missing
<1>5. /\ Missing \in SUBSET Ids
      /\ Cardinality(Missing) <= refused
  BY <1>0 DEF Missing, MailInv, GivenInTime
<1>6. /\ IsFiniteSet(Missing) /\ IsFiniteSet(out) /\ Missing \cap out \in SUBSET Ids
      /\ Missing \cup out \in SUBSET Ids
  BY <1>2, <1>5, SizeOfIds
<1>7. /\ Cardinality(Missing \cup out)
             = Cardinality(Missing) + Cardinality(out) - Cardinality(Missing \cap out)
      /\ Cardinality(Missing) \in Nat /\ Cardinality(out) \in Nat
      /\ Cardinality(Missing \cap out) \in Nat /\ Cardinality(Missing \cup out) \in Nat
  BY <1>2, <1>5, <1>6, FS_Union, SizeOfIds
<1>8. /\ Cardinality(Missing') <= Cardinality(Missing \cup out)
      /\ Cardinality(Missing') \in Nat
  <2> DEFINE now == Missing'
  <2>1. now \in SUBSET (Missing \cup out) /\ now \in SUBSET Ids
    BY <1>4, <1>6
  <2> HIDE DEF now
  <2>2. Cardinality(now) <= Cardinality(Missing \cup out) /\ Cardinality(now) \in Nat
    BY <1>6, <2>1, SmallerSet, SizeOfIds
  <2> QED
    BY <2>2 DEF now
<1> QED
  BY <1>0, <1>1, <1>5, <1>7, <1>8

LEMMA GivenSteps == ASSUME TypeInv, MailInv, [Next]_vars PROVE GivenInTime'
<1> USE DEF leader, stats, boxes, signals
<1>0. /\ GivenInTime /\ round \in Nat /\ maxRounds \in Nat \ {0} /\ count \in Nat \ {0}
      /\ Workers \subseteq Ids /\ refused \in Nat
  BY LargestCount, SwarmAssumption DEF MailInv, TypeInv, TypeOK, IInv, Shape, Ids
<1>1. \/ pc' = pc /\ round' = round
      \/ pc \in {"hook", "search", "fetch", "pack"} /\ round' = round
         /\ pc' \in {"search", "fetch", "pack", "round"}
      \/ StartRound /\ pc = "round" /\ pc' = "wait" /\ round' = round
      \/ StopRounds /\ pc = "round" /\ pc' = "summary" /\ round' = round
      \/ pc \in {"wait", "handoff"} /\ pc' \in {"wait", "handoff"} /\ round' = round
      \/ pc = "wait" /\ pc' = "round" /\ round' = round + 1
      \/ pc = "summary" /\ pc' = "ended" /\ round' = round
  <2>1. CASE BeforeRetrieval \/ Retrieve
    BY <2>1 DEF BeforeRetrieval, Retrieve, AfterRetrieval
  <2>2. CASE StartRound
    BY <2>2 DEF StartRound
  <2>3. CASE StopRounds \/ EndRound \/ Finish
    BY <2>3 DEF StopRounds, EndRound, Finish
  <2>4. CASE (\E w \in Ids : Collect(w)) \/ HandoffReturns
    BY <2>4 DEF Collect, HandoffReturns
  <2>5. CASE TimerExpires \/ (\E w \in Ids : WorkerFinishes(w)) \/ SendSignal \/ UNCHANGED vars
    BY <2>5 DEF TimerExpires, WorkerFinishes, SendSignal, vars
  <2> QED
    BY <2>1, <2>2, <2>3, <2>4, <2>5 DEF Next, Leader, Ended
<1>2. pc' \in {"summary", "ended"} => round' >= 1
  <2>1. StopRounds => round # 0
    <3>1. 1 \in Workers
      BY <1>0 DEF Workers
    <3> QED
      BY <1>0, <3>1 DEF StopRounds, MoreRounds, RoundTasks
  <2> QED
    BY <1>0, <1>1, <2>1 DEF GivenInTime
<1>3. pc' \in {"hook", "search", "fetch", "pack"} => round' = 0
  BY <1>0, <1>1 DEF GivenInTime
<1>4. ~StartRound => UNCHANGED <<given, refused, Workers>>
  BY DEF Workers, Next, Leader, Ended, vars, BeforeRetrieval, Retrieve, Collect, HandoffReturns,
     StopRounds, TimerExpires, EndRound, Finish, WorkerFinishes, SendSignal
<1>5. round' = 0 => \A w \in Ids : given'[w] = 0
  BY <1>0, <1>1, <1>4, NothingYet DEF GivenInTime
<1>6. ASSUME round' # 0 PROVE Cardinality(Missing') <= refused'
  <2>1. CASE round = 0
    <3>1. pc' = "round" /\ round' = 1 /\ ~StartRound
      BY <1>0, <1>1, <1>6, <2>1 DEF StartRound
    <3>2. \A w \in Ids : given'[w] = 0
      BY <1>0, <1>4, <2>1, <3>1 DEF GivenInTime
    <3>3. Started' = 0
      BY <3>1 DEF Started
    <3>4. inbox' \in [Ids -> Seq(Messages)]
      BY TypeSteps DEF TypeOK
    <3>5. ASSUME NEW w \in Ids, NEW m \in ToSet(inbox'[w]) PROVE m.from \in Ids
      <4>1. inbox'[w] \in Seq(Messages)
        BY <3>4
      <4>2. m \in Messages
        BY <4>1 DEF ToSet
      <4> QED
        BY <4>2 DEF Messages
    <3>6. Missing' = {}
      BY <1>0, <1>4, <3>1, <3>2, <3>3, <3>5 DEF Missing
    <3> QED
      BY <1>0, <1>4, <3>1, <3>6, NoMember
  <2>2. CASE round # 0 /\ StartRound
    BY <2>2, RoundGiven
  <2>3. CASE round # 0 /\ ~StartRound
    <3>1. inbox' = inbox
      BY <2>3, NoMoreMail
    <3>2. Started' = Started
      BY <1>0, <1>1, <2>3 DEF Started, GivenInTime
    <3>3. Missing' = Missing
      BY <1>4, <2>3, <3>1, <3>2 DEF Missing
    <3> QED
      BY <1>0, <1>4, <2>3, <3>3 DEF GivenInTime
  <2> QED
    BY <2>1, <2>2, <2>3
<1> QED
  BY <1>2, <1>3, <1>5, <1>6 DEF GivenInTime

\* By the end every message was handed to its addressee in each of the rounds after the
\* first, but for rounds the worker was refused, and no message or item is there twice,
\* for any numbers of workers and rounds and any order of answers, hand-offs and timers.
THEOREM MailGiven == Spec => []MailIsGiven
<1>1. Init => MailInv
  BY MailStarts
<1>2. TypeInv /\ MailInv /\ [Next]_vars => MailInv'
  BY WriteSteps, GivenSteps DEF MailInv
<1>3. TypeInv /\ MailInv => MailIsGiven
  <2> SUFFICES ASSUME TypeInv, MailInv PROVE MailIsGiven
    OBVIOUS
  <2>1. round \in Nat
    BY DEF TypeInv, TypeOK
  <2>2. ASSUME pc \in {"summary", "ended"}
        PROVE  Cardinality({w \in Workers :
                              \E m \in ToSet(inbox[w]) : given[m.from] # round - 1}) <= refused
    <3>1. Started = round - 1 /\ round # 0
      BY <2>1, <2>2 DEF Started, MailInv, GivenInTime
    <3> QED
      BY <3>1 DEF MailInv, GivenInTime, Missing
  <2>3. ASSUME NEW w \in Ids PROVE IsInjective(inbox[w]) /\ \A m \in ToSet(inbox[w]) : m.to = w
    <3>1. inbox[w] \in Seq(Messages) /\ Addressed(w) /\ IsInjective(inbox[w])
      BY DEF MailInv, WritesOnce, TypeInv, TypeOK
    <3> QED
      BY <3>1 DEF Addressed, ToSet
  <2> QED
    BY <2>2, <2>3 DEF MailInv, WritesOnce, MailIsGiven
<1> QED
  BY <1>1, <1>2, <1>3, TypeInductive, PTL DEF Spec
=============================================================================
