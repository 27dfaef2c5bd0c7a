----------------------- MODULE DocumentIngestion_proofs -----------------------
(***************************************************************************)
(* For any number of runs, queries, texts and lost attempts: types, one    *)
(* run for each text, the agreement of tables and vector store, and the    *)
(* silence of an open breaker.                                             *)
(***************************************************************************)
EXTENDS DocumentIngestion, TLAPS

-----------------------------------------------------------------------------
(* The inductive invariant *)

Working == {"chunk", "embed", "upsert", "mark", "status", "mark_failed"}
Asking  == {"search", "fetch", "pack"}

\* A run that has inserted the document, and what shows it afterwards.
Owner(r) == stage[r] \in Working \/ result[r] = "indexed" \/ \E x \in chunks : Maker(x) = r

\* Runs and queries have stages of their own, and a result ends them.
StageInv ==
    /\ \A r \in Runs : stage[r] \notin Asking
    /\ \A q \in Queries : stage[q] \in Asking \cup {"ended"}
    /\ \A r \in Runs : r \in flying => stage[r] = "upsert"
    /\ \A q \in Queries : q \in flying => stage[q] = "search"
    /\ \A c \in Clients : stage[c] \notin {"ended", "mark_failed"} => result[c] = "none"
    /\ \A c \in Clients : stage[c] = "mark_failed" => result[c] = "error"

\* The unique index gives a text to one run.
OwnerInv ==
    /\ \A x \in chunks : Doc(x) = content[Maker(x)]
    /\ \A r \in Runs : Owner(r) => status[content[r]] # "none"
    /\ \A r, s \in Runs : Owner(r) /\ Owner(s) /\ content[r] = content[s] => r = s

Covered(r) == \A i \in 1..Size[content[r]] : \E x \in chunks : Doc(x) = content[r] /\ Index(x) = i

\* How far a run has brought its text.
Progress(r) ==
    /\ stage[r] \in {"embed", "upsert", "mark", "status"} \/ result[r] = "indexed" => Covered(r)
    /\ stage[r] \in {"upsert", "mark"} => Pending(r) \subseteq listed[r]
    /\ stage[r] = "upsert" => listed[r] \subseteq points \cup todo[r]
    /\ stage[r] = "mark" => listed[r] \subseteq points
    /\ stage[r] = "status" \/ result[r] = "indexed" => Pending(r) = {}
    /\ result[r] = "indexed" => status[content[r]] = "indexed"

ProgressInv == indexed \subseteq points /\ \A r \in Runs : Progress(r)

\* How far a query has come.
QueryInv == \A q \in Queries :
    /\ stage[q] = "fetch" => hits[q] # {}
    /\ stage[q] = "pack" \/ result[q] = "answered" => hits[q] # {} /\ cited[q] = hits[q]

\* With nothing lost the circuit is closed and every text has a run that works on it.
NothingLost == faults = 0 =>
    /\ circuit = "closed"
    /\ \A r \in Runs : stage[r] # "mark_failed"
    /\ \A r \in Runs : stage[r] \notin {"save", "create"} => status[content[r]] # "none"
    /\ \A c \in Contents : status[c] # "none" =>
          \E r \in Runs : content[r] = c /\ (stage[r] \in Working \/ result[r] = "indexed")

\* A circuit lets calls through below the limit or after the timeout only.
BreakerInv ==
    /\ circuit = "closed" => failures < MaxFailures
    /\ circuit = "half_open" => cooled

IInv == TypeOK /\ StageInv /\ OwnerInv /\ ProgressInv /\ QueryInv /\ NothingLost

-----------------------------------------------------------------------------
(* What an attempt that fails does to its workflow *)

Fallen(c) ==
    /\ stage[c] \in {"save", "create"} => stage'[c] \in {"save", "ended"}
    /\ stage[c] = "chunk" => stage'[c] \in {"chunk", "mark_failed"}
    /\ stage[c] \in {"embed", "upsert", "mark"} => stage'[c] \in {"embed", "mark_failed"}
    /\ stage[c] \in {"status", "mark_failed"} \cup Asking => stage'[c] \in {stage[c], "ended"}
    /\ stage'[c] \notin {"ended", "mark_failed"} \/ stage[c] = "mark_failed" =>
          result'[c] = result[c]
    /\ stage'[c] \in {"ended", "mark_failed"} /\ stage[c] # "mark_failed" =>
          result'[c] \in {"unsaved", "error"}
    /\ stage'[c] = "mark_failed" /\ stage[c] # "mark_failed" => result'[c] = "error"

LEMMA FailsTypes ==
    ASSUME TypeOK, NEW C \in SUBSET Clients, Fails(C)
    PROVE  /\ stage' \in [Clients -> Stages]
           /\ tries' \in [Clients -> 0..(MaxAttempts - 1)]
           /\ result' \in [Clients -> Results]
<1>1. \A c \in Clients : FirstStage(stage[c]) \in Stages /\ AfterFailure(stage[c]) \in Stages
  BY DEF TypeOK, Stages, FirstStage, AfterFailure
<1>2. stage' \in [Clients -> Stages]
  BY <1>1 DEF Fails, TypeOK
<1>3. tries' \in [Clients -> 0..(MaxAttempts - 1)]
  <2>1. \A c \in Clients : tries[c] \in 0..(MaxAttempts - 1)
    BY DEF TypeOK
  <2>2. \A c \in Clients : ~LastTry(c) => Tried(c) \in 0..(MaxAttempts - 1)
    BY <2>1, IngestionAssumption DEF LastTry, Tried
  <2> QED
    BY <2>1, <2>2, IngestionAssumption DEF Fails
<1>4. result' \in [Clients -> Results]
  BY DEF Fails, TypeOK, Results
<1> QED
  BY <1>2, <1>3, <1>4

LEMMA FailsFacts ==
    ASSUME TypeOK, NEW C \in SUBSET Clients, Fails(C), \A c \in C : stage[c] # "ended"
    PROVE  /\ stage' \in [Clients -> Stages] /\ result' \in [Clients -> Results]
           /\ \A c \in Clients \ C : stage'[c] = stage[c] /\ result'[c] = result[c]
           /\ \A c \in C : Fallen(c)
<1>1. stage' \in [Clients -> Stages] /\ result' \in [Clients -> Results]
  BY FailsTypes
<1>2. \A c \in Clients \ C : stage'[c] = stage[c] /\ result'[c] = result[c]
  BY DEF Fails
<1>3. ASSUME NEW c \in C PROVE Fallen(c)
  <2>1. stage'[c] = IF LastTry(c) THEN AfterFailure(stage[c]) ELSE FirstStage(stage[c])
    BY DEF Fails
  <2>2. result'[c] = IF ~LastTry(c) \/ stage[c] = "mark_failed" THEN result[c]
                     ELSE IF stage[c] = "status" THEN "unsaved" ELSE "error"
    BY DEF Fails
  <2>3. stage[c] \in Stages
    BY DEF TypeOK
  <2>4. CASE LastTry(c)
    BY <2>1, <2>2, <2>3, <2>4 DEF Fallen, AfterFailure, Asking, Stages
  <2>5. CASE ~LastTry(c)
    <3>1. stage'[c] = FirstStage(stage[c]) /\ result'[c] = result[c]
      BY <2>1, <2>2, <2>5
    <3>2. stage[c] # "ended"
      OBVIOUS
    <3> QED
      BY <3>1, <3>2, <2>3 DEF Fallen, FirstStage, Asking, Stages
  <2> QED
    BY <2>4, <2>5
<1> QED
  BY <1>1, <1>2, <1>3

-----------------------------------------------------------------------------
(* What a step leaves alone *)

\* Rows of a text that its owner does not touch leave its progress where it was.
LEMMA ProgressKept ==
    ASSUME TypeOK, NEW s \in Runs, Progress(s), content' = content,
           stage'[s] = stage[s], result'[s] = result[s],
           listed'[s] = listed[s], todo'[s] = todo[s],
           chunks \subseteq chunks', indexed \subseteq indexed', points \subseteq points',
           Owner(s) => /\ \A x \in chunks' \ chunks : Doc(x) # content[s]
                       /\ status'[content[s]] = status[content[s]]
    PROVE  Progress(s)'
<1>1. CASE ~Owner(s)
  BY <1>1 DEF Owner, Working, Progress
<1>2. CASE Owner(s)
  <2>1. Pending(s)' \subseteq Pending(s)
    BY <1>2 DEF Pending
  <2>2. Covered(s) => Covered(s)'
    BY DEF Covered
  <2> QED
    BY <1>2, <2>1, <2>2 DEF Progress
<1> QED
  BY <1>1, <1>2

\* No new owner, no new conflict.
LEMMA OwnersKept ==
    ASSUME OwnerInv, content' = content,
           \A x \in chunks' : Doc(x) = content[Maker(x)],
           \A r \in Runs : Owner(r)' => Owner(r),
           \A r \in Runs : status[content[r]] # "none" => status'[content[r]] # "none"
    PROVE  OwnerInv'
BY DEF OwnerInv

\* Queries that nothing happens to.
LEMMA QueriesKept ==
    ASSUME QueryInv, hits' = hits, cited' = cited,
           \A q \in Queries : stage'[q] = stage[q] /\ result'[q] = result[q]
    PROVE  QueryInv'
BY DEF QueryInv

LEMMA RunNotQuery == \A r \in Runs, q \in Queries : r # q
BY IngestionAssumption

\* What a run may do to rows, marks, points and documents: its own text only, and the
\* row of a new one.
Touches(r) ==
    /\ content' = content /\ hits' = hits /\ cited' = cited
    /\ chunks \subseteq chunks' /\ indexed \subseteq indexed' /\ points \subseteq points'
    /\ indexed' \subseteq points'
    /\ \A x \in chunks' \ chunks : Doc(x) = content[r] /\ Maker(x) = r
    /\ chunks' # chunks => stage[r] = "chunk"
    /\ \A c \in Contents : status[c] # "none" => status'[c] # "none"
    /\ \A c \in Contents \ {content[r]} : status'[c] = status[c]
    /\ status' # status => stage[r] \in Working \/ (stage[r] = "create" /\ IsNew(content[r]))
    /\ \A s \in Runs \ {r} : listed'[s] = listed[s] /\ todo'[s] = todo[s]

LEMMA OthersProgress ==
    ASSUME IInv, NEW r \in Runs, Touches(r),
           \A s \in Runs \ {r} : stage'[s] = stage[s] /\ result'[s] = result[s]
    PROVE  /\ \A s \in Runs \ {r} : Progress(s)'
           /\ \A x \in chunks' : Doc(x) = content[Maker(x)]
<1>1. \A x \in chunks' : Doc(x) = content[Maker(x)]
  BY DEF Touches, IInv, OwnerInv
<1>2. ASSUME NEW s \in Runs \ {r} PROVE Progress(s)'
  <2>1. content[s] \in Contents /\ content[r] \in Contents
    BY DEF IInv, TypeOK
  <2>2. ASSUME Owner(s), content[s] = content[r]
        PROVE  chunks' = chunks /\ status' = status
    <3>1. ~Owner(r) /\ status[content[r]] # "none"
      BY <2>2 DEF IInv, OwnerInv
    <3>2. stage[r] \notin Working /\ ~IsNew(content[r])
      BY <3>1 DEF Owner, IsNew
    <3> QED
      BY <3>2 DEF Touches, Working
  <2>3. Owner(s) => /\ \A x \in chunks' \ chunks : Doc(x) # content[s]
                    /\ status'[content[s]] = status[content[s]]
    BY <2>1, <2>2 DEF Touches
  <2> QED
    BY <2>3, ProgressKept DEF Touches, IInv, ProgressInv
<1> QED
  BY <1>1, <1>2

\* An attempt of a run that fails and leaves at most more rows, marks and points of
\* its own text behind.
LEMMA FailedRun ==
    ASSUME IInv, NEW r \in Runs, Fails({r}), stage[r] # "ended", Touches(r),
           listed' = listed, todo' = todo, flying' = flying \ {r},
           \/ faults' # 0
           \/ /\ stage[r] = "create" /\ ~IsNew(content[r])
              /\ UNCHANGED <<faults, status, circuit>>
    PROVE  StageInv' /\ OwnerInv' /\ ProgressInv' /\ QueryInv' /\ NothingLost'
<1> USE DEF IInv
<1>a. r \in Clients /\ {r} \in SUBSET Clients
  BY DEF Clients
<1>f. /\ stage' \in [Clients -> Stages] /\ result' \in [Clients -> Results]
      /\ \A c \in Clients \ {r} : stage'[c] = stage[c] /\ result'[c] = result[c]
      /\ Fallen(r)
  BY <1>a, FailsFacts
<1>o. \A c \in Runs \ {r} : stage'[c] = stage[c] /\ result'[c] = result[c]
  BY <1>f DEF Clients
<1>q. \A q \in Queries : stage'[q] = stage[q] /\ result'[q] = result[q]
  BY <1>f, RunNotQuery DEF Clients
<1>p. /\ \A s \in Runs \ {r} : Progress(s)'
      /\ \A x \in chunks' : Doc(x) = content[Maker(x)]
  BY <1>o, OthersProgress
<1>t. stage[r] \in Stages \ (Asking \cup {"ended"})
  BY <1>a DEF TypeOK, StageInv
<1>1. StageInv'
  <2>1. stage'[r] \notin Asking
    BY <1>f, <1>t DEF Fallen, Stages, Asking
  <2>2. stage'[r] \notin {"ended", "mark_failed"} => result'[r] = "none"
    BY <1>f, <1>t, <1>a DEF StageInv, Fallen, Stages, Asking
  <2>3. stage'[r] = "mark_failed" => result'[r] = "error"
    BY <1>f, <1>t, <1>a DEF StageInv, Fallen, Stages, Asking
  <2> QED
    BY <2>1, <2>2, <2>3, <1>f, <1>o, <1>q, RunNotQuery DEF StageInv, Clients
<1>2. result'[r] # "indexed" /\ result[r] # "indexed"
  BY <1>f, <1>t, <1>a DEF StageInv, Fallen, Stages, Asking
<1>3. \A s \in Runs : Owner(s)' => Owner(s)
  <2>1. stage'[r] \in Working => stage[r] \in Working
    BY <1>f, <1>t DEF Fallen, Working, Stages, Asking
  <2>2. \A x \in chunks' \ chunks : Maker(x) = r /\ stage[r] = "chunk"
    BY DEF Touches
  <2> QED
    BY <2>1, <2>2, <1>2, <1>o DEF Owner, Working
<1>4. OwnerInv'
  <2>1. content \in [Runs -> Contents]
    BY DEF TypeOK
  <2> QED
    BY <1>3, <1>p, <2>1, OwnersKept DEF Touches
<1>5. ASSUME NEW s \in Runs PROVE Progress(s)'
  <2>1. CASE s # r
    BY <2>1, <1>p
  <2>2. CASE s = r
    <3>1. stage'[r] \in {"save", "chunk", "embed", "status", "mark_failed", "ended"}
      BY <1>f, <1>t DEF Fallen, Stages, Asking
    <3>2. stage'[r] \in {"embed", "status"} =>
             chunks' = chunks /\ stage[r] \in {"embed", "upsert", "mark", "status"}
      BY <1>f, <1>t DEF Fallen, Stages, Asking, Touches
    <3>3. stage'[r] \in {"embed", "status"} => Covered(r)'
      BY <3>2 DEF Touches, ProgressInv, Progress, Covered
    <3>4. stage'[r] = "status" => stage[r] = "status"
      BY <1>f, <1>t DEF Fallen, Stages, Asking
    <3>5. stage'[r] = "status" => Pending(r)' = {}
      BY <3>2, <3>4 DEF Touches, ProgressInv, Progress, Pending
    <3> QED
      BY <3>1, <3>3, <3>5, <1>2, <2>2 DEF Progress
  <2> QED
    BY <2>1, <2>2
<1>6. ProgressInv'
  BY <1>5 DEF Touches, ProgressInv
<1>7. QueryInv'
  BY <1>q, QueriesKept DEF Touches
<1>8. NothingLost'
  <2>1. CASE faults' # 0
    BY <2>1 DEF NothingLost
  <2>2. CASE faults = 0 /\ stage[r] = "create" /\ ~IsNew(content[r])
             /\ UNCHANGED <<faults, status, circuit>>
    <3>1. stage'[r] \in {"save", "ended"}
      BY <2>2, <1>f DEF Fallen
    <3>2. result[r] = "none" /\ stage[r] \notin Working
      BY <2>2, <1>a DEF StageInv, Working
    <3>3. circuit' = "closed" /\ \A s \in Runs : stage'[s] # "mark_failed"
      BY <2>2, <3>1, <1>o DEF NothingLost
    <3>4. \A s \in Runs : stage'[s] \notin {"save", "create"} => status'[content[s]] # "none"
      BY <2>2, <3>1, <1>o DEF NothingLost, IsNew
    <3>5. ASSUME NEW c \in Contents, status'[c] # "none"
          PROVE  \E s \in Runs : content[s] = c /\ (stage'[s] \in Working \/ result'[s] = "indexed")
      <4>1. PICK w \in Runs : content[w] = c /\ (stage[w] \in Working \/ result[w] = "indexed")
        BY <2>2, <3>5 DEF NothingLost
      <4>2. w # r
        BY <4>1, <3>2
      <4> QED
        BY <4>1, <4>2, <1>o
    <3> QED
      BY <3>3, <3>4, <3>5 DEF NothingLost, Touches
  <2> QED
    BY <2>1, <2>2
<1> QED
  BY <1>1, <1>4, <1>6, <1>7, <1>8

\* A step of a run that does what it is for.
LEMMA RunMoves ==
    ASSUME IInv, NEW r \in Runs, NEW v \in Stages \ (Asking \cup {"mark_failed"}), Touches(r),
           stage[r] # "ended", stage' = [stage EXCEPT ![r] = v],
           \A c \in Clients \ {r} : result'[c] = result[c],
           v # "ended" => result'[r] = "none",
           flying' \ {r} = flying \ {r}, r \in flying' => v = "upsert",
           Progress(r)',
           v \in Working \/ result'[r] = "indexed" =>
              stage[r] \in Working \/ (stage[r] = "create" /\ IsNew(content[r])),
           v \in Working => status'[content[r]] # "none",
           status[content[r]] = "none" /\ status'[content[r]] # "none" => v \in Working,
           faults = 0 => /\ circuit' = "closed"
                         /\ v \notin {"save", "create"} => status'[content[r]] # "none"
                         /\ stage[r] \in Working => v \in Working \/ result'[r] = "indexed",
           faults' = faults
    PROVE  StageInv' /\ OwnerInv' /\ ProgressInv' /\ QueryInv' /\ NothingLost'
<1> USE DEF IInv
<1>a. r \in Clients /\ stage \in [Clients -> Stages] /\ content \in [Runs -> Contents]
  BY DEF Clients, TypeOK
<1>s. stage'[r] = v /\ \A c \in Clients \ {r} : stage'[c] = stage[c]
  BY <1>a
<1>o. \A s \in Runs \ {r} : stage'[s] = stage[s] /\ result'[s] = result[s]
  BY <1>s DEF Clients
<1>q. \A q \in Queries : stage'[q] = stage[q] /\ result'[q] = result[q]
  BY <1>s, RunNotQuery DEF Clients
<1>p. /\ \A s \in Runs \ {r} : Progress(s)'
      /\ \A x \in chunks' : Doc(x) = content[Maker(x)]
  BY <1>o, OthersProgress
<1>n. result[r] # "indexed"
  <2>1. stage[r] = "mark_failed" => result[r] = "error"
    BY <1>a DEF StageInv
  <2>2. stage[r] # "mark_failed" => result[r] = "none"
    BY <1>a DEF StageInv
  <2> QED
    BY <2>1, <2>2
<1>1. StageInv'
  <2>1. \A s \in Runs : stage'[s] \notin Asking
    BY <1>s, <1>o DEF StageInv
  <2>2. \A q \in Queries : stage'[q] \in Asking \cup {"ended"}
    BY <1>q DEF StageInv
  <2>3. \A s \in Runs : s \in flying' => stage'[s] = "upsert"
    BY <1>s, <1>o DEF StageInv
  <2>4. \A q \in Queries : q \in flying' => stage'[q] = "search"
    BY <1>q, RunNotQuery DEF StageInv
  <2>5. \A c \in Clients : /\ stage'[c] \notin {"ended", "mark_failed"} => result'[c] = "none"
                           /\ stage'[c] = "mark_failed" => result'[c] = "error"
    BY <1>s DEF StageInv
  <2> QED
    BY <2>1, <2>2, <2>3, <2>4, <2>5 DEF StageInv
<1>2. OwnerInv'
  <2>1. \A x \in chunks' \ chunks : Maker(x) = r /\ stage[r] \in Working
    BY DEF Touches, Working
  <2>2. \A s \in Runs \ {r} : Owner(s)' => Owner(s)
    BY <2>1, <1>o DEF Owner
  <2>3. Owner(r)' => Owner(r) \/ (stage[r] = "create" /\ IsNew(content[r]))
    BY <2>1, <1>s DEF Owner
  <2>4. \A s \in Runs : status[content[s]] # "none" => status'[content[s]] # "none"
    BY <1>a DEF Touches
  <2>5. CASE Owner(r)' => Owner(r)
    BY <2>2, <2>4, <2>5, <1>p, OwnersKept DEF Touches
  <2>6. CASE Owner(r)' /\ ~Owner(r)
    <3>1. IsNew(content[r]) /\ stage[r] = "create"
      BY <2>3, <2>6
    <3>2. \A s \in Runs \ {r} : Owner(s) => content[s] # content[r]
      BY <3>1 DEF IsNew, OwnerInv
    <3>3. chunks' = chunks
      BY <3>1 DEF Touches
    <3>4. v \in Working \/ result'[r] = "indexed"
      BY <2>6, <3>3, <1>s DEF Owner
    <3>5. status'[content[r]] # "none"
      <4>1. CASE v \in Working
        BY <4>1
      <4>2. CASE result'[r] = "indexed"
        <5>1. status'[content'[r]] = "indexed"
          BY <4>2 DEF Progress
        <5> QED
          BY <5>1 DEF Touches
      <4> QED
        BY <3>4, <4>1, <4>2
    <3> QED
      BY <2>2, <2>4, <3>2, <3>5, <1>p DEF Touches, OwnerInv
  <2> QED
    BY <2>5, <2>6
<1>3. ProgressInv'
  BY <1>p DEF Touches, ProgressInv
<1>4. QueryInv'
  BY <1>q, QueriesKept DEF Touches
<1>5. NothingLost'
  <2> SUFFICES ASSUME faults = 0 PROVE
        /\ circuit' = "closed"
        /\ \A s \in Runs : stage'[s] # "mark_failed"
        /\ \A s \in Runs : stage'[s] \notin {"save", "create"} => status'[content[s]] # "none"
        /\ \A c \in Contents : status'[c] # "none" =>
              \E s \in Runs : content[s] = c /\ (stage'[s] \in Working \/ result'[s] = "indexed")
    BY DEF Touches, NothingLost
  <2>1. \A s \in Runs : stage'[s] # "mark_failed"
    BY <1>s, <1>o DEF NothingLost
  <2>2. \A s \in Runs : stage'[s] \notin {"save", "create"} => status'[content[s]] # "none"
    BY <1>s, <1>o, <1>a DEF NothingLost, Touches
  <2>3. ASSUME NEW c \in Contents, status'[c] # "none"
        PROVE  \E s \in Runs : content[s] = c /\ (stage'[s] \in Working \/ result'[s] = "indexed")
    <3>1. CASE status[c] = "none"
      <4>1. c = content[r]
        BY <3>1, <2>3 DEF Touches
      <4> QED
        BY <4>1, <3>1, <2>3, <1>s
    <3>2. CASE status[c] # "none"
      <4>1. PICK w \in Runs : content[w] = c /\ (stage[w] \in Working \/ result[w] = "indexed")
        BY <3>2 DEF NothingLost
      <4>2. CASE w = r
        BY <4>1, <4>2, <1>n, <1>s
      <4>3. CASE w # r
        BY <4>1, <4>3, <1>o
      <4> QED
        BY <4>2, <4>3
    <3> QED
      BY <3>1, <3>2
  <2> QED
    BY <2>1, <2>2, <2>3
<1> QED
  BY <1>1, <1>2, <1>3, <1>4, <1>5

-----------------------------------------------------------------------------
(* The steps of a run *)

Kept == StageInv /\ OwnerInv /\ ProgressInv /\ QueryInv /\ NothingLost

\* What Succeeds, GoTo and Returns make of stage and result.
LEMMA Moves ==
    ASSUME TypeOK, NEW r \in Runs, NEW s
    PROVE  /\ Succeeds(r, s) \/ GoTo(r, s) => stage' = [stage EXCEPT ![r] = s] /\ stage'[r] = s
           /\ \A v : Returns(r, v) => /\ stage' = [stage EXCEPT ![r] = "ended"]
                                      /\ stage'[r] = "ended" /\ result'[r] = v
                                      /\ \A c \in Clients \ {r} : result'[c] = result[c]
BY DEF TypeOK, Succeeds, GoTo, Returns, Clients

\* A workflow that is still going has no result.
LEMMA Unfinished ==
    ASSUME IInv, NEW r \in Runs
    PROVE  /\ stage[r] \notin {"ended", "mark_failed"} => result[r] = "none"
           /\ stage[r] = "mark_failed" => result[r] = "error"
           /\ stage[r] # "upsert" => r \notin flying
           /\ faults = 0 => circuit = "closed" /\ stage[r] # "mark_failed"
BY DEF IInv, StageInv, NothingLost, Clients

LEMMA SaveStep == ASSUME IInv, NEW r \in Runs, SaveDocumentMetadata(r) PROVE Kept'
<1> USE DEF SaveDocumentMetadata, Kept
<1>t. Touches(r) /\ TypeOK
  BY DEF Touches, IInv, tables, answer, attempt, ProgressInv
<1>u. /\ result[r] = "none" /\ r \notin flying /\ (faults = 0 => circuit' = "closed")
      /\ UNCHANGED <<status, flying, circuit>>
  BY Unfinished DEF tables, breakerVars
<1>1. CASE status[content[r]] # "none" /\ Returns(r, "duplicate") /\ UNCHANGED faults
  <2>1. /\ stage' = [stage EXCEPT ![r] = "ended"] /\ stage'[r] = "ended"
        /\ result'[r] = "duplicate" /\ \A c \in Clients \ {r} : result'[c] = result[c]
    BY <1>1, <1>t, Moves
  <2>2. Progress(r)'
    BY <2>1 DEF Progress
  <2>3. "ended" \in Stages \ (Asking \cup {"mark_failed"})
    BY DEF Stages, Asking
  <2> QED
    BY <1>1, <1>t, <1>u, <2>1, <2>2, <2>3, RunMoves DEF Working
<1>2. CASE status[content[r]] = "none" /\ GoTo(r, "create") /\ UNCHANGED <<result, faults>>
  <2>1. stage' = [stage EXCEPT ![r] = "create"] /\ stage'[r] = "create"
    BY <1>2, <1>t, Moves
  <2>2. Progress(r)'
    BY <2>1, <1>2, <1>u DEF Progress
  <2>3. "create" \in Stages \ (Asking \cup {"mark_failed"})
    BY DEF Stages, Asking
  <2> QED
    BY <1>2, <1>t, <1>u, <2>1, <2>2, <2>3, RunMoves DEF Working
<1>3. CASE Fault /\ Fails({r})
  <2>1. faults' # 0
    BY <1>3, <1>t DEF Fault, TypeOK
  <2> QED
    BY <1>3, <1>t, <1>u, <2>1, FailedRun DEF attempt
<1> QED
  BY <1>1, <1>2, <1>3

LEMMA CreateStep == ASSUME IInv, NEW r \in Runs, CreateDocument(r) PROVE Kept'
<1> USE DEF CreateDocument, Kept
<1>c. TypeOK /\ content[r] \in Contents /\ status \in [Contents -> Statuses]
  BY DEF IInv, TypeOK
<1>s. /\ status' = status \/ (IsNew(content[r]) /\ InsertDocument(content[r]))
      /\ InsertDocument(content[r]) => status' = [status EXCEPT ![content[r]] = "pending"]
      /\ status' # status => status'[content[r]] = "pending"
  BY <1>c DEF InsertDocument
<1>t. Touches(r)
  BY <1>c, <1>s DEF Touches, IInv, answer, attempt, ProgressInv
<1>u. /\ result[r] = "none" /\ r \notin flying /\ (faults = 0 => circuit' = "closed")
      /\ UNCHANGED <<flying, circuit>>
  BY Unfinished DEF breakerVars
<1>1. CASE IsNew(content[r]) /\ InsertDocument(content[r]) /\ Succeeds(r, "chunk")
           /\ UNCHANGED <<result, faults>>
  <2>1. stage' = [stage EXCEPT ![r] = "chunk"] /\ stage'[r] = "chunk"
    BY <1>1, <1>c, Moves
  <2>2. Progress(r)'
    BY <2>1, <1>1, <1>u DEF Progress
  <2>3. "chunk" \in Stages \ (Asking \cup {"mark_failed"})
    BY DEF Stages, Asking
  <2>4. status'[content[r]] # "none"
    BY <1>1, <1>s, <1>c DEF IsNew
  <2> QED
    BY <1>1, <1>t, <1>u, <2>1, <2>2, <2>3, <2>4, RunMoves DEF Working
<1>2. CASE Fails({r}) /\ ~IsNew(content[r]) /\ UNCHANGED <<status, faults>>
  BY <1>2, <1>t, <1>u, FailedRun DEF attempt
<1>3. CASE Fails({r}) /\ Fault
  <2>1. faults' # 0
    BY <1>3, <1>c DEF Fault, TypeOK
  <2> QED
    BY <1>3, <2>1, <1>t, <1>u, FailedRun DEF attempt
<1> QED
  BY <1>1, <1>2, <1>3

LEMMA LeadingRows == \A S : \A P \in Leading(S) : P \subseteq S
BY DEF Leading

LEMMA ChunkStep == ASSUME IInv, NEW r \in Runs, ChunkDocument(r) PROVE Kept'
<1> USE DEF ChunkDocument, Kept
<1>c. /\ TypeOK /\ content[r] \in Contents /\ status \in [Contents -> Statuses]
      /\ status[content[r]] # "none"
  BY DEF IInv, TypeOK, OwnerInv, Owner, Working
<1>u. /\ result[r] = "none" /\ r \notin flying /\ (faults = 0 => circuit' = "closed")
      /\ UNCHANGED <<flying, circuit>>
  BY Unfinished DEF breakerVars
<1>s. status' = status \/ status' = [status EXCEPT ![content[r]] = "chunked"]
  BY <1>c
<1>r. \E rows \in SUBSET NewRows(r) : chunks' = chunks \cup rows
  BY LeadingRows
<1>n. \A x \in NewRows(r) : Doc(x) = content[r] /\ Maker(x) = r
  BY DEF NewRows, Doc, Maker
<1>t. Touches(r)
  <2>1. \A x \in chunks' \ chunks : Doc(x) = content[r] /\ Maker(x) = r
    BY <1>r, <1>n
  <2> QED
    BY <2>1, <1>r, <1>s, <1>c DEF Touches, IInv, answer, attempt, ProgressInv, Working
<1>1. CASE /\ chunks' = chunks \cup NewRows(r) /\ Succeeds(r, "embed")
           /\ status' = [status EXCEPT ![content[r]] = "chunked"] /\ UNCHANGED <<result, faults>>
  <2>1. stage' = [stage EXCEPT ![r] = "embed"] /\ stage'[r] = "embed"
    BY <1>1, <1>c, Moves
  <2>2. Covered(r)'
    <3>1. ASSUME NEW i \in 1..Size[content[r]]
          PROVE  \E x \in chunks' : Doc(x) = content[r] /\ Index(x) = i
      <4>1. <<content[r], r, tries[r], i>> \in chunks'
        BY <1>1 DEF NewRows
      <4> QED
        BY <4>1 DEF Doc, Index
    <3> QED
      BY <3>1 DEF Covered
  <2>3. Progress(r)'
    BY <2>1, <2>2, <1>1, <1>u DEF Progress
  <2>4. "embed" \in Stages \ (Asking \cup {"mark_failed"})
    BY DEF Stages, Asking
  <2>5. status'[content[r]] # "none"
    BY <1>1, <1>c
  <2> QED
    BY <1>1, <1>c, <1>t, <1>u, <2>1, <2>3, <2>4, <2>5, RunMoves DEF Working
<1>2. CASE Fails({r}) /\ Fault
  <2>1. faults' # 0
    BY <1>2, <1>c DEF Fault, TypeOK
  <2> QED
    BY <1>2, <2>1, <1>t, <1>u, FailedRun DEF attempt
<1> QED
  BY <1>1, <1>2

LEMMA EmbedStep == ASSUME IInv, NEW r \in Runs, EmbedChunks(r) PROVE Kept'
<1> USE DEF EmbedChunks, Kept
<1>c. /\ TypeOK /\ status[content[r]] # "none" /\ Progress(r)
      /\ listed \in [Runs -> SUBSET chunks] /\ todo \in [Runs -> SUBSET chunks]
  BY DEF IInv, TypeOK, OwnerInv, Owner, Working, ProgressInv
<1>u. /\ result[r] = "none" /\ r \notin flying /\ (faults = 0 => circuit' = "closed")
      /\ UNCHANGED <<flying, circuit>>
  BY Unfinished DEF breakerVars
<1>k. UNCHANGED <<content, status, chunks, indexed, points>>
  BY DEF tables
<1>t. Touches(r)
  <2>1. \A s \in Runs \ {r} : listed'[s] = listed[s] /\ todo'[s] = todo[s]
    BY <1>c DEF attempt
  <2> QED
    BY <2>1, <1>k DEF Touches, IInv, answer, ProgressInv
<1>d. Covered(r)' /\ Pending(r)' = Pending(r)
  BY <1>c, <1>k DEF Progress, Covered, Pending
<1>1. CASE Pending(r) = {} /\ Succeeds(r, "status") /\ UNCHANGED <<attempt, result, faults>>
  <2>1. stage' = [stage EXCEPT ![r] = "status"] /\ stage'[r] = "status"
    BY <1>1, <1>c, Moves
  <2>2. Progress(r)'
    BY <2>1, <1>1, <1>d, <1>u DEF Progress
  <2>3. "status" \in Stages \ (Asking \cup {"mark_failed"})
    BY DEF Stages, Asking
  <2> QED
    BY <1>1, <1>c, <1>k, <1>t, <1>u, <2>1, <2>2, <2>3, RunMoves DEF Working
<1>2. CASE /\ GoTo(r, "upsert") /\ listed' = [listed EXCEPT ![r] = Pending(r)]
           /\ todo' = [todo EXCEPT ![r] = Pending(r)] /\ UNCHANGED <<result, faults>>
  <2>1. stage' = [stage EXCEPT ![r] = "upsert"] /\ stage'[r] = "upsert"
    BY <1>2, <1>c, Moves
  <2>2. listed'[r] = Pending(r) /\ todo'[r] = Pending(r)
    BY <1>2, <1>c
  <2>3. Progress(r)'
    BY <2>1, <2>2, <1>2, <1>d, <1>u DEF Progress
  <2>4. "upsert" \in Stages \ (Asking \cup {"mark_failed"})
    BY DEF Stages, Asking
  <2> QED
    BY <1>2, <1>c, <1>k, <1>t, <1>u, <2>1, <2>3, <2>4, RunMoves DEF Working
<1>3. CASE Fails({r}) /\ Fault /\ UNCHANGED attempt
  <2>1. faults' # 0
    BY <1>3, <1>c DEF Fault, TypeOK
  <2> QED
    BY <1>3, <2>1, <1>t, <1>u, FailedRun DEF attempt
<1> QED
  BY <1>1, <1>2, <1>3

LEMMA UpsertStep == ASSUME IInv, NEW r \in Runs, UpsertBatch(r) PROVE Kept'
<1> USE DEF UpsertBatch, Kept
<1>c. TypeOK /\ status[content[r]] # "none" /\ Progress(r)
  BY DEF IInv, TypeOK, OwnerInv, Owner, Working, ProgressInv
<1>u. result[r] = "none" /\ (faults = 0 => circuit = "closed")
  BY Unfinished
<1>k. UNCHANGED <<content, status, chunks, indexed, points, listed, todo, faults>>
  BY DEF tables, attempt
<1>t. Touches(r)
  BY <1>k DEF Touches, IInv, answer, ProgressInv
<1>1. CASE Allow /\ flying' = flying \cup {r} /\ UNCHANGED <<stage, tries, result>>
  <2>1. stage' = [stage EXCEPT ![r] = "upsert"]
    BY <1>1, <1>c DEF TypeOK
  <2>2. Progress(r)'
    BY <1>1, <1>c, <1>k DEF Progress, Covered, Pending
  <2>3. "upsert" \in Stages \ (Asking \cup {"mark_failed"})
    BY DEF Stages, Asking
  <2>4. faults = 0 => circuit' = "closed"
    BY <1>1, <1>u DEF Allow
  <2> QED
    BY <1>1, <1>c, <1>k, <1>t, <1>u, <2>1, <2>2, <2>3, <2>4, RunMoves DEF Working
<1>2. CASE ~MayPass /\ Fails({r}) /\ UNCHANGED <<breakerVars, flying>>
  <2>1. faults' # 0
    BY <1>2, <1>u, <1>k DEF MayPass
  <2> QED
    BY <1>2, <2>1, <1>k, <1>t, FailedRun
<1> QED
  BY <1>1, <1>2

LEMMA UpsertedStep == ASSUME IInv, NEW r \in Runs, Upserted(r) PROVE Kept'
<1> USE DEF Kept
<1>b. PICK B \in Batches(r) : Upserted(r)!(B)
  BY DEF Upserted
<1>c. /\ TypeOK /\ stage[r] = "upsert" /\ status[content[r]] # "none" /\ Progress(r)
      /\ todo \in [Runs -> SUBSET chunks]
  BY <1>b DEF IInv, TypeOK, StageInv, OwnerInv, Owner, Working, ProgressInv
<1>u. result[r] = "none"
  BY <1>c, Unfinished
<1>k. UNCHANGED <<content, status, chunks, indexed, listed>>
  BY <1>b DEF tables
<1>p. points' = points \/ points' = points \cup B
  BY <1>b
<1>t. Touches(r)
  <2>1. \A s \in Runs \ {r} : todo'[s] = todo[s]
    BY <1>b, <1>c
  <2> QED
    BY <2>1, <1>b, <1>k, <1>p DEF Touches, IInv, answer, ProgressInv
<1>1. CASE /\ RecordSuccess /\ points' = points \cup B /\ todo' = [todo EXCEPT ![r] = @ \ B]
           /\ GoTo(r, IF AllUpserted(todo[r] \ B) THEN "mark" ELSE "upsert")
           /\ UNCHANGED <<result, faults>>
  <2> DEFINE v == IF AllUpserted(todo[r] \ B) THEN "mark" ELSE "upsert"
  <2>1. stage' = [stage EXCEPT ![r] = v] /\ stage'[r] = v
    BY <1>1, <1>c, Moves
  <2>2. todo'[r] = todo[r] \ B
    BY <1>1, <1>c
  <2>3. v = "mark" => todo[r] \subseteq B
    BY DEF AllUpserted
  <2>4. listed[r] \subseteq points' \cup todo'[r] /\ (v = "mark" => listed[r] \subseteq points')
    BY <1>1, <1>c, <2>2, <2>3 DEF Progress
  <2>5. Covered(r)' /\ Pending(r)' \subseteq listed[r]
    BY <1>c, <1>k DEF Progress, Covered, Pending
  <2>6. Progress(r)'
    BY <2>1, <2>4, <2>5, <1>1, <1>u, <1>k DEF Progress
  <2>7. v \in Stages \ (Asking \cup {"mark_failed"}) /\ v \in Working /\ v # "ended"
    BY DEF Stages, Asking, Working
  <2>8. flying' = flying \ {r} /\ circuit' = "closed"
    BY <1>1, <1>b DEF RecordSuccess
  <2> HIDE DEF v
  <2> QED
    BY <1>1, <1>c, <1>k, <1>t, <1>u, <2>1, <2>6, <2>7, <2>8, RunMoves DEF Working
<1>2. CASE Fault /\ Fails({r}) /\ UNCHANGED todo
  <2>1. faults' # 0
    BY <1>2, <1>c DEF Fault, TypeOK
  <2> QED
    BY <1>b, <1>2, <2>1, <1>c, <1>k, <1>t, FailedRun
<1> QED
  BY <1>b, <1>1, <1>2

LEMMA MarkStep == ASSUME IInv, NEW r \in Runs, MarkIndexed(r) PROVE Kept'
<1> USE DEF MarkIndexed, Kept
<1>c. /\ TypeOK /\ status[content[r]] # "none" /\ Progress(r)
      /\ indexed \subseteq points /\ listed[r] \subseteq points
  BY DEF IInv, TypeOK, OwnerInv, Owner, Working, ProgressInv, Progress
<1>u. /\ result[r] = "none" /\ r \notin flying /\ (faults = 0 => circuit' = "closed")
      /\ UNCHANGED <<flying, circuit>>
  BY Unfinished DEF breakerVars
<1>k. UNCHANGED <<content, status, chunks, points, listed, todo>>
  BY DEF attempt
<1>r. \E rows \in SUBSET listed[r] : indexed' = indexed \cup rows
  BY LeadingRows
<1>t. Touches(r)
  BY <1>c, <1>k, <1>r DEF Touches, answer
<1>1. CASE indexed' = indexed \cup listed[r] /\ Succeeds(r, "status") /\ UNCHANGED <<result, faults>>
  <2>1. stage' = [stage EXCEPT ![r] = "status"] /\ stage'[r] = "status"
    BY <1>1, <1>c, Moves
  <2>2. Covered(r)' /\ Pending(r)' = {}
    BY <1>1, <1>c, <1>k DEF Progress, Covered, Pending
  <2>3. Progress(r)'
    BY <2>1, <2>2, <1>1, <1>u DEF Progress
  <2>4. "status" \in Stages \ (Asking \cup {"mark_failed"})
    BY DEF Stages, Asking
  <2> QED
    BY <1>1, <1>c, <1>k, <1>t, <1>u, <2>1, <2>3, <2>4, RunMoves DEF Working
<1>2. CASE Fails({r}) /\ Fault
  <2>1. faults' # 0
    BY <1>2, <1>c DEF Fault, TypeOK
  <2> QED
    BY <1>2, <2>1, <1>k, <1>t, <1>u, FailedRun
<1> QED
  BY <1>1, <1>2

LEMMA StatusStep == ASSUME IInv, NEW r \in Runs, UpdateDocumentIndexStatus(r) PROVE Kept'
<1> USE DEF UpdateDocumentIndexStatus, Kept
<1>c. /\ TypeOK /\ content[r] \in Contents /\ status \in [Contents -> Statuses]
      /\ status[content[r]] # "none" /\ Progress(r)
  BY DEF IInv, TypeOK, OwnerInv, Owner, Working, ProgressInv
<1>u. /\ stage[r] = "status" => result[r] = "none"
      /\ stage[r] = "mark_failed" => result[r] = "error" /\ faults # 0
      /\ r \notin flying /\ (faults = 0 => circuit' = "closed")
      /\ UNCHANGED <<flying, circuit>>
  BY Unfinished DEF breakerVars
<1>k. UNCHANGED <<content, chunks, indexed, points, listed, todo>>
  BY DEF attempt
<1>s. status' = status \/ SetIndexed(r)
  BY DEF SetIndexed
<1>i. SetIndexed(r) => status'[content[r]] = "indexed"
  BY <1>c DEF SetIndexed
<1>t. Touches(r)
  BY <1>c, <1>k, <1>s DEF Touches, answer, IInv, ProgressInv, SetIndexed, Working
<1>1. CASE /\ SetIndexed(r) /\ UNCHANGED faults
           /\ Returns(r, IF stage[r] = "status" THEN "indexed" ELSE result[r])
  <2> DEFINE v == IF stage[r] = "status" THEN "indexed" ELSE result[r]
  <2>1. /\ stage' = [stage EXCEPT ![r] = "ended"] /\ stage'[r] = "ended"
        /\ result'[r] = v /\ \A c \in Clients \ {r} : result'[c] = result[c]
    BY <1>1, <1>c, Moves
  <2>2. v = "indexed" => stage[r] = "status"
    BY <1>u
  <2>3. Progress(r)'
    BY <2>1, <2>2, <1>1, <1>c, <1>k, <1>i DEF Progress, Covered, Pending
  <2>4. "ended" \in Stages \ (Asking \cup {"mark_failed"})
    BY DEF Stages, Asking
  <2>5. stage[r] # "ended" /\ stage[r] \in Working
    BY DEF Working
  <2>6. faults = 0 => v = "indexed"
    BY <1>u
  <2> HIDE DEF v
  <2> QED
    BY <1>1, <1>c, <1>i, <1>t, <1>u, <2>1, <2>3, <2>4, <2>5, <2>6, RunMoves DEF Working
<1>2. CASE Fault /\ Fails({r})
  <2>1. faults' # 0
    BY <1>2, <1>c DEF Fault, TypeOK
  <2> QED
    BY <1>2, <2>1, <1>k, <1>t, <1>u, FailedRun
<1> QED
  BY <1>1, <1>2

-----------------------------------------------------------------------------
(* The steps of a query *)

\* Runs and tables that a query leaves alone.
LEMMA QueryMoves ==
    ASSUME IInv, NEW q \in Queries, stage[q] # "ended",
           UNCHANGED <<content, status, chunks, indexed, points, listed, todo>>,
           \A c \in Clients \ {q} : stage'[c] = stage[c] /\ result'[c] = result[c],
           flying' \ {q} = flying \ {q}, q \in flying' => stage'[q] = "search",
           stage'[q] \in Asking \cup {"ended"}, stage'[q] # "ended" => result'[q] = "none",
           \A p \in Queries \ {q} : hits'[p] = hits[p] /\ cited'[p] = cited[p],
           stage'[q] = "fetch" => hits'[q] # {},
           stage'[q] = "pack" \/ result'[q] = "answered" => hits'[q] # {} /\ cited'[q] = hits'[q],
           faults' # 0 \/ (faults' = faults /\ circuit' = circuit) \/ circuit' = "closed",
           faults' = 0 => faults = 0
    PROVE  Kept'
<1> USE DEF Kept
<1>r. \A r \in Runs : stage'[r] = stage[r] /\ result'[r] = result[r]
  BY RunNotQuery DEF Clients
<1>q. \A p \in Queries \ {q} : stage'[p] = stage[p] /\ result'[p] = result[p]
  BY DEF Clients
<1>a. q \in Clients
  BY DEF Clients
<1>1. StageInv'
  <2>1. \A r \in Runs : r \in flying' => stage'[r] = "upsert"
    BY <1>r, RunNotQuery DEF IInv, StageInv
  <2>2. \A p \in Queries : p \in flying' => stage'[p] = "search"
    BY <1>q DEF IInv, StageInv
  <2>3. \A c \in Clients : /\ stage'[c] \notin {"ended", "mark_failed"} => result'[c] = "none"
                           /\ stage'[c] = "mark_failed" => result'[c] = "error"
    BY DEF IInv, StageInv, Asking
  <2> QED
    BY <2>1, <2>2, <2>3, <1>r, <1>q DEF IInv, StageInv
<1>2. OwnerInv'
  BY <1>r, OwnersKept DEF IInv, OwnerInv, Owner
<1>3. ProgressInv'
  <2>1. \A r \in Runs : Progress(r)'
    BY <1>r DEF IInv, ProgressInv, Progress, Covered, Pending
  <2> QED
    BY <2>1 DEF IInv, ProgressInv
<1>4. QueryInv'
  BY <1>q DEF IInv, QueryInv
<1>5. NothingLost'
  BY <1>r DEF IInv, NothingLost
<1> QED
  BY <1>1, <1>2, <1>3, <1>4, <1>5

\* An attempt of a query that fails.
LEMMA FailedQuery ==
    ASSUME IInv, NEW q \in Queries, stage[q] # "ended", Fails({q}), faults' # 0,
           UNCHANGED <<content, status, chunks, indexed, points, listed, todo, hits, cited>>,
           flying' = flying \ {q}
    PROVE  Kept'
<1>a. q \in Clients /\ {q} \in SUBSET Clients
  BY DEF Clients
<1>f. (\A c \in Clients \ {q} : stage'[c] = stage[c] /\ result'[c] = result[c]) /\ Fallen(q)
  BY <1>a, FailsFacts DEF IInv
<1>1. stage[q] \in Asking /\ result[q] = "none"
  BY <1>a DEF IInv, StageInv, Asking
<1>2. /\ stage'[q] \in {stage[q], "ended"} /\ result'[q] # "answered"
      /\ stage'[q] # "ended" => result'[q] = "none"
  BY <1>f, <1>1 DEF Fallen, Asking
<1>3. stage'[q] \in {"fetch", "pack"} => stage[q] = stage'[q]
  BY <1>2
<1>4. /\ stage'[q] = "fetch" => hits'[q] # {}
      /\ stage'[q] = "pack" => hits'[q] # {} /\ cited'[q] = hits'[q]
  BY <1>3 DEF IInv, QueryInv
<1> QED
  BY <1>f, <1>1, <1>2, <1>4, QueryMoves DEF Asking

LEMMA QueryFacts ==
    ASSUME IInv, NEW q \in Queries, stage[q] # "ended"
    PROVE  /\ stage[q] \in Asking /\ result[q] = "none" /\ q \in Clients
           /\ q \in flying => stage[q] = "search"
           /\ faults = 0 => circuit = "closed"
           /\ hits \in [Queries -> SUBSET points] /\ cited \in [Queries -> SUBSET chunks]
           /\ stage \in [Clients -> Stages] /\ result \in [Clients -> Results]
           /\ points \subseteq chunks /\ faults \in Nat
BY IngestionAssumption DEF IInv, TypeOK, StageInv, NothingLost, Clients, Asking

LEMMA QueryStep == ASSUME IInv, NEW q \in Queries, Retrieve(q) PROVE Kept'
<1>e. stage[q] # "ended"
  BY DEF Retrieve, EmbedAndSearch, Searched, FetchChunkContent, PackContext, IInv, StageInv
<1>f. /\ stage[q] \in Asking /\ result[q] = "none" /\ q \in Clients
      /\ q \in flying => stage[q] = "search"
      /\ faults = 0 => circuit = "closed"
      /\ hits \in [Queries -> SUBSET points] /\ cited \in [Queries -> SUBSET chunks]
      /\ stage \in [Clients -> Stages] /\ result \in [Clients -> Results]
      /\ points \subseteq chunks /\ faults \in Nat
  BY <1>e, QueryFacts
<1>x. Fault => faults' # 0 /\ faults' # faults
  BY <1>f DEF Fault
<1>m. \A s : Succeeds(q, s) => /\ stage'[q] = s /\ \A c \in Clients \ {q} : stage'[c] = stage[c]
  BY <1>f DEF Succeeds
<1>n. \A v : Returns(q, v) => /\ stage'[q] = "ended" /\ result'[q] = v
                              /\ \A c \in Clients \ {q} : stage'[c] = stage[c] /\ result'[c] = result[c]
  BY <1>f, <1>m DEF Returns
<1>1. CASE EmbedAndSearch(q)
  <2> USE <1>1 DEF EmbedAndSearch, tables, attempt, answer, breakerVars
  <2>1. CASE Allow /\ flying' = flying \cup {q} /\ UNCHANGED <<stage, tries, result, faults>>
    <3>1. faults = 0 => circuit' = "closed"
      BY <2>1, <1>f DEF Allow
    <3> QED
      BY <3>1, <2>1, <1>e, <1>f, QueryMoves DEF Asking
  <2>2. CASE ~MayPass /\ Fails({q}) /\ UNCHANGED <<breakerVars, flying, faults>>
    <3>1. faults' # 0
      BY <2>2, <1>f DEF MayPass
    <3> QED
      BY <3>1, <2>2, <1>e, FailedQuery
  <2>3. CASE Fault /\ Fails({q}) /\ UNCHANGED <<breakerVars, flying>>
    BY <2>3, <1>e, <1>x, FailedQuery
  <2> QED
    BY <2>1, <2>2, <2>3
<1>2. CASE Searched(q)
  <2> USE <1>2 DEF Searched, tables, attempt, answer
  <2>1. CASE Fault /\ RecordFailure /\ Fails({q}) /\ UNCHANGED hits
    BY <2>1, <1>e, <1>x, FailedQuery
  <2>2. ASSUME RecordSuccess, UNCHANGED faults, NEW found \in SUBSET points,
               hits' = [hits EXCEPT ![q] = found],
               IF found = {} THEN Returns(q, "empty")
               ELSE Succeeds(q, "fetch") /\ UNCHANGED result
        PROVE  Kept'
    <3>1. hits'[q] = found /\ \A p \in Queries \ {q} : hits'[p] = hits[p]
      BY <2>2, <1>f
    <3>2. circuit' = "closed"
      BY <2>2 DEF RecordSuccess
    <3>3. CASE found = {}
      BY <3>1, <3>2, <3>3, <2>2, <1>e, <1>f, <1>n, QueryMoves DEF Asking
    <3>4. CASE found # {}
      BY <3>1, <3>2, <3>4, <2>2, <1>e, <1>f, <1>m, QueryMoves DEF Asking
    <3> QED
      BY <3>3, <3>4
  <2> QED
    BY <2>1, <2>2
<1>3. CASE FetchChunkContent(q)
  <2> USE <1>3 DEF FetchChunkContent, tables, attempt, answer, breakerVars
  <2>0. q \notin flying
    BY <1>f
  <2>1. CASE cited' = [cited EXCEPT ![q] = hits[q] \cap chunks] /\ Succeeds(q, "pack")
             /\ UNCHANGED <<result, faults>>
    <3>1. cited'[q] = hits[q] /\ \A p \in Queries \ {q} : cited'[p] = cited[p]
      BY <2>1, <1>f
    <3>2. hits[q] # {}
      BY DEF IInv, QueryInv
    <3> QED
      BY <3>1, <3>2, <2>0, <2>1, <1>e, <1>f, <1>m, QueryMoves DEF Asking
  <2>2. CASE Fault /\ Fails({q}) /\ UNCHANGED cited
    BY <2>2, <2>0, <1>e, <1>x, FailedQuery
  <2> QED
    BY <2>1, <2>2
<1>4. CASE PackContext(q)
  <2> USE <1>4 DEF PackContext, tables, attempt, answer, breakerVars
  <2>0. q \notin flying
    BY <1>f
  <2>1. CASE Returns(q, "answered") /\ UNCHANGED faults
    <3>1. hits[q] # {} /\ cited[q] = hits[q]
      BY DEF IInv, QueryInv
    <3> QED
      BY <3>1, <2>0, <2>1, <1>e, <1>f, <1>n, QueryMoves DEF Asking
  <2>2. CASE Fault /\ Fails({q})
    BY <2>2, <2>0, <1>e, <1>x, FailedQuery
  <2> QED
    BY <2>1, <2>2
<1> QED
  BY <1>1, <1>2, <1>3, <1>4 DEF Retrieve

-----------------------------------------------------------------------------
(* The worker and the clock *)

LEMMA RestartStep == ASSUME IInv, RestartWorker PROVE Kept'
<1> USE DEF RestartWorker, Kept
<1>c. TypeOK /\ flying \in SUBSET Clients
  BY DEF IInv, TypeOK
<1>s. /\ \A r \in Runs : r \in flying => stage[r] = "upsert"
      /\ \A q \in Queries : q \in flying => stage[q] = "search"
  BY DEF IInv, StageInv
<1>e. \A c \in flying : stage[c] # "ended" /\ result[c] = "none"
  <2>1. \A c \in flying : stage[c] \in {"upsert", "search"}
    BY <1>s, <1>c DEF Clients
  <2> QED
    BY <2>1, <1>c DEF IInv, StageInv
<1>f. /\ \A c \in Clients \ flying : stage'[c] = stage[c] /\ result'[c] = result[c]
      /\ \A c \in flying : Fallen(c)
  BY <1>c, <1>e, FailsFacts
<1>r. \A r \in Runs : r \in flying => /\ stage'[r] \in {"embed", "mark_failed"}
                                      /\ stage'[r] = "embed" => result'[r] = "none"
                                      /\ stage'[r] = "mark_failed" => result'[r] = "error"
  BY <1>s, <1>e, <1>f DEF Fallen
<1>q. \A q \in Queries : q \in flying => /\ stage'[q] \in {"search", "ended"}
                                         /\ stage'[q] = "search" => result'[q] = "none"
                                         /\ result'[q] # "answered"
  BY <1>s, <1>e, <1>f DEF Fallen, Asking
<1>o. \A r \in Runs : r \notin flying => stage'[r] = stage[r] /\ result'[r] = result[r]
  BY <1>f DEF Clients
<1>p. \A q \in Queries : q \notin flying => stage'[q] = stage[q] /\ result'[q] = result[q]
  BY <1>f DEF Clients
<1>k. /\ UNCHANGED <<content, status, chunks, indexed, listed, todo, hits, cited>>
      /\ points \subseteq points' /\ faults' # 0
  BY <1>c DEF tables, attempt, answer, Fault, TypeOK
<1>1. StageInv'
  <2>1. \A r \in Runs : stage'[r] \notin Asking
    BY <1>r, <1>o DEF IInv, StageInv, Asking
  <2>2. \A q \in Queries : stage'[q] \in Asking \cup {"ended"}
    BY <1>q, <1>p DEF IInv, StageInv, Asking
  <2>3. \A c \in Clients : /\ stage'[c] \notin {"ended", "mark_failed"} => result'[c] = "none"
                           /\ stage'[c] = "mark_failed" => result'[c] = "error"
    <3>1. ASSUME NEW c \in Clients \ flying
          PROVE  /\ stage'[c] \notin {"ended", "mark_failed"} => result'[c] = "none"
                 /\ stage'[c] = "mark_failed" => result'[c] = "error"
      BY <1>f DEF IInv, StageInv
    <3> QED
      BY <3>1, <1>r, <1>q, <1>c DEF Clients
  <2> QED
    BY <2>1, <2>2, <2>3 DEF StageInv
<1>2. OwnerInv'
  <2>1. \A r \in Runs : Owner(r)' => Owner(r)
    BY <1>k, <1>r, <1>o, <1>s DEF Owner, Working
  <2> QED
    BY <2>1, <1>k, OwnersKept DEF IInv, OwnerInv
<1>3. ProgressInv'
  <2>1. ASSUME NEW r \in Runs, r \in flying PROVE Progress(r)'
    BY <2>1, <1>r, <1>s, <1>k DEF IInv, ProgressInv, Progress, Covered, Pending
  <2>2. ASSUME NEW r \in Runs, r \notin flying PROVE Progress(r)'
    BY <2>2, <1>o, <1>k DEF IInv, ProgressInv, Progress, Covered, Pending
  <2> QED
    BY <2>1, <2>2, <1>k DEF IInv, ProgressInv
<1>4. QueryInv'
  BY <1>q, <1>p, <1>k DEF IInv, QueryInv
<1>5. NothingLost'
  BY <1>k DEF NothingLost
<1> QED
  BY <1>1, <1>2, <1>3, <1>4, <1>5

LEMMA NothingElse ==
    ASSUME IInv, PassTime \/ UNCHANGED vars
    PROVE  Kept'
<1>1. UNCHANGED <<content, status, chunks, indexed, points, stage, listed, todo, flying, hits,
                  cited, result, faults, circuit>>
  BY DEF PassTime, OpenTimeout, vars, tables, attempt, answer, breakerVars
<1>2. \A r \in Runs : (Owner(r)' <=> Owner(r)) /\ (Progress(r)' <=> Progress(r))
  BY <1>1 DEF Owner, Progress, Covered, Pending
<1>3. StageInv' /\ QueryInv' /\ NothingLost'
  BY <1>1 DEF IInv, StageInv, QueryInv, NothingLost
<1>4. OwnerInv' /\ ProgressInv'
  BY <1>1, <1>2 DEF IInv, OwnerInv, ProgressInv
<1> QED
  BY <1>3, <1>4 DEF Kept

-----------------------------------------------------------------------------
(* Types *)

LEMMA BreakerTypes ==
    ASSUME BreakerTypeOK,
           \/ Allow \/ RecordSuccess \/ RecordFailure \/ OpenTimeout \/ UNCHANGED breakerVars
           \/ (circuit' = "closed" /\ failures' = 0 /\ cooled' = FALSE)
    PROVE  BreakerTypeOK'
<1> USE DEF BreakerTypeOK, Allow, RecordSuccess, RecordFailure, OpenTimeout, breakerVars
<1>1. circuit' \in {"closed", "open", "half_open"}
  OBVIOUS
<1>2. failures' \in Nat
  OBVIOUS
<1>3. cooled' = cooled \/ cooled' = TRUE \/ cooled' = FALSE
  BY Zenon
<1> QED
  BY <1>1, <1>2, <1>3, Zenon

\* How a step may move the workflows.
MovesOK ==
    /\ stage' \in [Clients -> Stages] /\ tries' \in [Clients -> 0..(MaxAttempts - 1)]
    /\ result' \in [Clients -> Results]

LEMMA MoveTypes ==
    ASSUME TypeOK
    PROVE  /\ \A C \in SUBSET Clients : Fails(C) => MovesOK
           /\ \A c \in Clients : Fails({c}) => MovesOK
           /\ \A c : \A s \in Stages : (Succeeds(c, s) \/ GoTo(c, s)) /\ UNCHANGED result => MovesOK
           /\ \A c : \A v \in Results : Returns(c, v) => MovesOK
           /\ UNCHANGED <<stage, tries, result>> => MovesOK
<1>1. \A C \in SUBSET Clients : Fails(C) => MovesOK
  BY FailsTypes DEF MovesOK
<1>2. \A c \in Clients : Fails({c}) => MovesOK
  <2>1. \A c \in Clients : {c} \in SUBSET Clients
    OBVIOUS
  <2> QED
    BY <1>1, <2>1
<1>3. \A c : \A s \in Stages : (Succeeds(c, s) \/ GoTo(c, s)) /\ UNCHANGED result => MovesOK
  <2>1. 0 \in 0..(MaxAttempts - 1)
    BY IngestionAssumption
  <2>2. ASSUME NEW c, NEW s \in Stages, Succeeds(c, s) \/ GoTo(c, s), UNCHANGED result
        PROVE  MovesOK
    <3>1. stage' = [stage EXCEPT ![c] = s] /\ (tries' = tries \/ tries' = [tries EXCEPT ![c] = 0])
      BY <2>2 DEF Succeeds, GoTo
    <3> QED
      BY <2>1, <2>2, <3>1 DEF MovesOK, TypeOK
  <2> QED
    BY <2>2
<1>4. \A c : \A v \in Results : Returns(c, v) => MovesOK
  <2>1. 0 \in 0..(MaxAttempts - 1) /\ "ended" \in Stages
    BY IngestionAssumption DEF Stages
  <2>2. ASSUME NEW c, NEW v \in Results, Returns(c, v)
        PROVE  MovesOK
    <3>1. /\ stage' = [stage EXCEPT ![c] = "ended"] /\ tries' = [tries EXCEPT ![c] = 0]
          /\ result' = [result EXCEPT ![c] = v]
      BY <2>2 DEF Returns, Succeeds
    <3> QED
      BY <2>1, <2>2, <3>1 DEF MovesOK, TypeOK
  <2> QED
    BY <2>2
<1>5. UNCHANGED <<stage, tries, result>> => MovesOK
  BY DEF MovesOK, TypeOK
<1> QED
  BY <1>1, <1>2, <1>3, <1>4, <1>5

\* The bounds of everything but the workflows and the breaker.
DataOK ==
    /\ content \in [Runs -> Contents] /\ status \in [Contents -> Statuses]
    /\ chunks \subseteq Contents \X Runs \X Nat \X Nat
    /\ indexed \subseteq chunks /\ points \subseteq chunks
    /\ listed \in [Runs -> SUBSET chunks] /\ todo \in [Runs -> SUBSET chunks]
    /\ flying \subseteq Clients
    /\ hits \in [Queries -> SUBSET points] /\ cited \in [Queries -> SUBSET chunks]
    /\ faults \in 0..MaxFaults

LEMMA TypeParts ==
    /\ TypeOK => BreakerTypeOK /\ DataOK
    /\ BreakerTypeOK' /\ DataOK' /\ MovesOK => TypeOK'
BY DEF TypeOK, DataOK, MovesOK

LEMMA RunTypes == ASSUME IInv, NEW r \in Runs, Ingest(r) PROVE TypeOK'
<1>t. TypeOK /\ BreakerTypeOK /\ DataOK
  BY TypeParts DEF IInv
<1>c. r \in Clients /\ content[r] \in Contents
  BY <1>t DEF Clients, DataOK
<1>n. Fault => faults' \in 0..MaxFaults
  BY <1>t, IngestionAssumption DEF Fault, DataOK
<1>m. /\ \A c \in Clients : Fails({c}) => MovesOK
      /\ \A c : \A s \in Stages : (Succeeds(c, s) \/ GoTo(c, s)) /\ UNCHANGED result => MovesOK
      /\ \A c : \A v \in Results : Returns(c, v) => MovesOK
      /\ UNCHANGED <<stage, tries, result>> => MovesOK
  BY <1>t, MoveTypes
<1>s. UNCHANGED breakerVars => BreakerTypeOK'
  BY <1>t, BreakerTypes
<1>1. CASE SaveDocumentMetadata(r)
  <2>1. MovesOK
    BY <1>1, <1>c, <1>m DEF SaveDocumentMetadata, Stages, Results
  <2>2. DataOK'
    BY <1>1, <1>t, <1>n DEF SaveDocumentMetadata, DataOK, tables, attempt, answer
  <2> QED
    BY <1>1, <1>s, <2>1, <2>2, TypeParts DEF SaveDocumentMetadata
<1>2. CASE CreateDocument(r)
  <2>1. MovesOK
    BY <1>2, <1>c, <1>m DEF CreateDocument, Stages
  <2>2. status' \in [Contents -> Statuses]
    BY <1>2, <1>t DEF CreateDocument, DataOK, InsertDocument, Statuses
  <2>3. DataOK'
    BY <1>2, <1>t, <1>n, <2>2 DEF CreateDocument, DataOK, attempt, answer
  <2> QED
    BY <1>2, <1>s, <2>1, <2>3, TypeParts DEF CreateDocument
<1>3. CASE ChunkDocument(r)
  <2>1. MovesOK
    BY <1>3, <1>c, <1>m DEF ChunkDocument, Stages
  <2>2. status' \in [Contents -> Statuses]
    BY <1>3, <1>t DEF ChunkDocument, DataOK, Statuses
  <2>3. \E rows \in SUBSET NewRows(r) : chunks' = chunks \cup rows
    BY <1>3, LeadingRows DEF ChunkDocument
  <2>4. NewRows(r) \subseteq Contents \X Runs \X Nat \X Nat
    <3>1. tries[r] \in Nat
      BY <1>t, <1>c, IngestionAssumption DEF TypeOK
    <3> QED
      BY <3>1, <1>c, IngestionAssumption DEF NewRows
  <2>5. /\ chunks \subseteq chunks' /\ chunks' \subseteq Contents \X Runs \X Nat \X Nat
    BY <2>3, <2>4, <1>t DEF DataOK
  <2>6. DataOK'
    BY <1>3, <1>t, <1>n, <2>2, <2>5 DEF ChunkDocument, DataOK, attempt, answer
  <2> QED
    BY <1>3, <1>s, <2>1, <2>6, TypeParts DEF ChunkDocument
<1>4. CASE EmbedChunks(r)
  <2>1. MovesOK
    BY <1>4, <1>c, <1>m DEF EmbedChunks, Stages
  <2>2. Pending(r) \in SUBSET chunks
    BY DEF Pending
  <2>3. listed' \in [Runs -> SUBSET chunks] /\ todo' \in [Runs -> SUBSET chunks]
    BY <1>4, <1>t, <2>2 DEF EmbedChunks, DataOK, attempt
  <2>4. DataOK'
    BY <1>4, <1>t, <1>n, <2>3 DEF EmbedChunks, DataOK, tables, answer
  <2> QED
    BY <1>4, <1>s, <2>1, <2>4, TypeParts DEF EmbedChunks
<1>5. CASE UpsertBatch(r)
  <2>1. MovesOK
    BY <1>5, <1>c, <1>m DEF UpsertBatch
  <2>2. BreakerTypeOK'
    BY <1>5, <1>t, BreakerTypes DEF UpsertBatch
  <2>3. DataOK'
    BY <1>5, <1>t, <1>c DEF UpsertBatch, DataOK, tables, attempt, answer
  <2> QED
    BY <2>1, <2>2, <2>3, TypeParts
<1>6. CASE Upserted(r)
  <2>1. PICK B \in Batches(r) : Upserted(r)!(B)
    BY <1>6 DEF Upserted
  <2>2. B \subseteq todo[r] /\ todo[r] \subseteq chunks
    BY <1>t, LeadingRows DEF Batches, DataOK
  <2>3. MovesOK
    BY <2>1, <1>c, <1>m DEF Stages
  <2>4. BreakerTypeOK'
    BY <2>1, <1>t, BreakerTypes
  <2>5. points \subseteq points' /\ points' \subseteq chunks /\ todo' \in [Runs -> SUBSET chunks]
    BY <2>1, <2>2, <1>t DEF DataOK
  <2>6. DataOK'
    BY <2>1, <2>5, <1>t, <1>n DEF DataOK, tables, answer
  <2> QED
    BY <2>3, <2>4, <2>6, TypeParts
<1>7. CASE MarkIndexed(r)
  <2>1. MovesOK
    BY <1>7, <1>c, <1>m DEF MarkIndexed, Stages
  <2>2. \E rows \in SUBSET listed[r] : indexed' = indexed \cup rows
    BY <1>7, LeadingRows DEF MarkIndexed
  <2>3. DataOK'
    BY <1>7, <1>t, <1>n, <2>2 DEF MarkIndexed, DataOK, attempt, answer
  <2> QED
    BY <1>7, <1>s, <2>1, <2>3, TypeParts DEF MarkIndexed
<1>8. CASE UpdateDocumentIndexStatus(r)
  <2>1. result[r] \in Results
    BY <1>t, <1>c DEF TypeOK
  <2>2. MovesOK
    BY <1>8, <1>c, <1>m, <2>1 DEF UpdateDocumentIndexStatus, Results
  <2>3. status' \in [Contents -> Statuses]
    BY <1>8, <1>t DEF UpdateDocumentIndexStatus, DataOK, SetIndexed, Statuses
  <2>4. DataOK'
    BY <1>8, <1>t, <1>n, <2>3 DEF UpdateDocumentIndexStatus, DataOK, attempt, answer
  <2> QED
    BY <1>8, <1>s, <2>2, <2>4, TypeParts DEF UpdateDocumentIndexStatus
<1> QED
  BY <1>1, <1>2, <1>3, <1>4, <1>5, <1>6, <1>7, <1>8 DEF Ingest

LEMMA OtherTypes ==
    ASSUME IInv, (\E q \in Queries : Retrieve(q)) \/ RestartWorker \/ PassTime \/ UNCHANGED vars
    PROVE  TypeOK'
<1>t. TypeOK /\ BreakerTypeOK /\ DataOK
  BY TypeParts DEF IInv
<1>n. Fault => faults' \in 0..MaxFaults
  BY <1>t, IngestionAssumption DEF Fault, DataOK
<1>m. /\ \A C \in SUBSET Clients : Fails(C) => MovesOK
      /\ \A c \in Clients : Fails({c}) => MovesOK
      /\ \A c : \A s \in Stages : (Succeeds(c, s) \/ GoTo(c, s)) /\ UNCHANGED result => MovesOK
      /\ \A c : \A v \in Results : Returns(c, v) => MovesOK
      /\ UNCHANGED <<stage, tries, result>> => MovesOK
  BY <1>t, MoveTypes
<1>1. ASSUME NEW q \in Queries, Retrieve(q) PROVE TypeOK'
  <2>c. q \in Clients
    BY DEF Clients
  <2>1. CASE EmbedAndSearch(q)
    <3>1. MovesOK
      BY <2>1, <2>c, <1>m DEF EmbedAndSearch
    <3>2. BreakerTypeOK'
      BY <2>1, <1>t, BreakerTypes DEF EmbedAndSearch
    <3>3. DataOK'
      BY <2>1, <2>c, <1>t, <1>n DEF EmbedAndSearch, DataOK, tables, attempt, answer
    <3> QED
      BY <3>1, <3>2, <3>3, TypeParts
  <2>2. CASE Searched(q)
    <3>1. MovesOK
      BY <2>2, <2>c, <1>m DEF Searched, Stages, Results
    <3>2. BreakerTypeOK'
      BY <2>2, <1>t, BreakerTypes DEF Searched
    <3>3. hits' \in [Queries -> SUBSET points]
      BY <2>2, <1>t DEF Searched, DataOK
    <3>4. DataOK'
      BY <2>2, <3>3, <1>t, <1>n DEF Searched, DataOK, tables, attempt
    <3> QED
      BY <3>1, <3>2, <3>4, TypeParts
  <2>3. CASE FetchChunkContent(q)
    <3>1. MovesOK
      BY <2>3, <2>c, <1>m DEF FetchChunkContent, Stages
    <3>2. BreakerTypeOK'
      BY <2>3, <1>t, BreakerTypes DEF FetchChunkContent
    <3>3. cited' \in [Queries -> SUBSET chunks]
      BY <2>3, <1>t DEF FetchChunkContent, DataOK
    <3>4. DataOK'
      BY <2>3, <3>3, <1>t, <1>n DEF FetchChunkContent, DataOK, tables, attempt
    <3> QED
      BY <3>1, <3>2, <3>4, TypeParts
  <2>4. CASE PackContext(q)
    <3>1. MovesOK
      BY <2>4, <2>c, <1>m DEF PackContext, Results
    <3>2. BreakerTypeOK'
      BY <2>4, <1>t, BreakerTypes DEF PackContext
    <3>3. DataOK'
      BY <2>4, <1>t, <1>n DEF PackContext, DataOK, tables, attempt, answer
    <3> QED
      BY <3>1, <3>2, <3>3, TypeParts
  <2> QED
    BY <1>1, <2>1, <2>2, <2>3, <2>4 DEF Retrieve
<1>2. CASE RestartWorker
  <2>1. MovesOK
    BY <1>2, <1>t, <1>m DEF RestartWorker, DataOK
  <2>2. BreakerTypeOK'
    BY <1>2, <1>t, BreakerTypes DEF RestartWorker
  <2>3. points \subseteq points' /\ points' \subseteq chunks
    BY <1>2, <1>t DEF RestartWorker, DataOK
  <2>4. DataOK'
    BY <1>2, <2>3, <1>t, <1>n DEF RestartWorker, DataOK, tables, attempt, answer
  <2> QED
    BY <2>1, <2>2, <2>4, TypeParts
<1>3. CASE PassTime
  BY <1>3, <1>t, <1>m, BreakerTypes, TypeParts DEF PassTime, DataOK, tables, attempt, answer
<1>4. CASE UNCHANGED vars
  BY <1>4, <1>t, <1>m, BreakerTypes, TypeParts DEF vars, DataOK, tables, attempt, answer
<1> QED
  BY <1>1, <1>2, <1>3, <1>4

-----------------------------------------------------------------------------
(* The theorems *)

LEMMA InitInv == Init => IInv
<1> SUFFICES ASSUME Init PROVE IInv
  OBVIOUS
<1> USE DEF Init
<1>a. \A r \in Runs : stage[r] = "save" /\ content[r] \in Contents
  BY DEF Clients
<1>b. \A q \in Queries : stage[q] = "search"
  BY RunNotQuery DEF Clients
<1>1. TypeOK
  <2>1. /\ 0 \in 0..(MaxAttempts - 1) /\ 0 \in 0..MaxFaults /\ 0 \in Nat
        /\ {"save", "search"} \subseteq Stages /\ "none" \in Results /\ "none" \in Statuses
    BY IngestionAssumption DEF Stages, Results, Statuses
  <2>2. BreakerTypeOK
    BY Zenon, <2>1 DEF BreakerInit, BreakerTypeOK
  <2> QED
    BY <2>1, <2>2 DEF TypeOK
<1>2. StageInv
  BY <1>a, <1>b DEF StageInv, Asking, Clients
<1>3. OwnerInv
  BY <1>a DEF OwnerInv, Owner, Working, Clients
<1>4. ProgressInv
  BY <1>a DEF ProgressInv, Progress, Clients
<1>5. QueryInv
  BY <1>b DEF QueryInv, Clients
<1>6. NothingLost
  BY <1>a DEF NothingLost, BreakerInit
<1> QED
  BY <1>1, <1>2, <1>3, <1>4, <1>5, <1>6 DEF IInv

LEMMA StepInv == IInv /\ [Next]_vars => IInv'
<1> SUFFICES ASSUME IInv, [Next]_vars PROVE IInv'
  OBVIOUS
<1>1. ASSUME NEW r \in Runs, Ingest(r) PROVE TypeOK' /\ Kept'
  BY <1>1, RunTypes, SaveStep, CreateStep, ChunkStep, EmbedStep, UpsertStep, UpsertedStep,
     MarkStep, StatusStep DEF Ingest
<1>2. ASSUME NEW q \in Queries, Retrieve(q) PROVE TypeOK' /\ Kept'
  BY <1>2, QueryStep, OtherTypes
<1>3. ASSUME RestartWorker PROVE TypeOK' /\ Kept'
  BY <1>3, RestartStep, OtherTypes
<1>4. ASSUME PassTime \/ UNCHANGED vars PROVE TypeOK' /\ Kept'
  BY <1>4, NothingElse, OtherTypes
<1>5. TypeOK' /\ Kept'
  BY <1>1, <1>2, <1>3, <1>4 DEF Next
<1> QED
  BY <1>5 DEF IInv, Kept

LEMMA Invariance == Spec => []IInv
BY InitInv, StepInv, PTL DEF Spec

\* Types, whatever is lost or repeated (ingestion.go, rag_query.go).
THEOREM TypeCorrect == Spec => []TypeOK
<1>1. IInv => TypeOK
  BY DEF IInv
<1> QED
  BY <1>1, Invariance, PTL

\* The unique index on the hash lets one run of any number cut a text into chunks,
\* however its attempts and those of the others overlap.
THEOREM TextHasOneIngester == Spec => []OneIngester
<1>1. IInv => OneIngester
  <2> SUFFICES ASSUME IInv, NEW x \in chunks, NEW y \in chunks, Doc(x) = Doc(y)
               PROVE  Maker(x) = Maker(y)
    BY DEF OneIngester
  <2>1. Maker(x) \in Runs /\ Maker(y) \in Runs
    BY DEF IInv, TypeOK, Maker
  <2>2. Owner(Maker(x)) /\ Owner(Maker(y)) /\ content[Maker(x)] = content[Maker(y)]
    BY DEF Owner, IInv, OwnerInv
  <2> QED
    BY <2>1, <2>2 DEF IInv, OwnerInv
<1> QED
  BY <1>1, Invariance, PTL

LEMMA IndexedIsComplete ==
    ASSUME IInv, NEW r \in Runs, result[r] = "indexed"
    PROVE  status[content[r]] = "indexed" /\ Complete(content[r])
<1>1. Covered(r) /\ Pending(r) = {} /\ status[content[r]] = "indexed" /\ indexed \subseteq points
  BY DEF IInv, ProgressInv, Progress
<1>2. ASSUME NEW i \in 1..Size[content[r]]
      PROVE  \E x \in points : Doc(x) = content[r] /\ Index(x) = i
  <2>1. PICK x \in chunks : Doc(x) = content[r] /\ Index(x) = i
    BY <1>1 DEF Covered
  <2> QED
    BY <2>1, <1>1 DEF Pending
<1> QED
  BY <1>1, <1>2 DEF Complete

\* Marks, rows and points agree for any number of runs, retries and restarts, an
\* indexed text is searchable, and so is every text when nothing was lost.
THEOREM TablesMatchVectors == Spec => []StoresAgree
<1>1. IInv => StoresAgree
  <2> SUFFICES ASSUME IInv PROVE StoresAgree
    OBVIOUS
  <2>1. indexed \subseteq points /\ points \subseteq chunks
    BY DEF IInv, ProgressInv, TypeOK
  <2>2. \A r \in Runs : result[r] = "indexed" =>
           status[content[r]] = "indexed" /\ Complete(content[r])
    BY IndexedIsComplete
  <2>3. \A q \in Queries : result[q] = "answered" => cited[q] = hits[q] /\ hits[q] # {}
    BY DEF IInv, QueryInv
  <2>4. ASSUME Over, faults = 0, NEW r \in Runs
        PROVE  status[content[r]] = "indexed" /\ Complete(content[r])
    <3>1. \A s \in Runs : stage[s] = "ended"
      BY <2>4 DEF Over, Clients
    <3>2. content[r] \in Contents /\ status[content[r]] # "none"
      BY <2>4, <3>1 DEF IInv, TypeOK, NothingLost
    <3>3. PICK s \in Runs : content[s] = content[r] /\ (stage[s] \in Working \/ result[s] = "indexed")
      BY <2>4, <3>2 DEF IInv, NothingLost
    <3>4. result[s] = "indexed"
      BY <3>1, <3>3 DEF Working
    <3> QED
      BY <3>3, <3>4, <2>2
  <2> QED
    BY <2>1, <2>2, <2>3, <2>4 DEF StoresAgree
<1> QED
  BY <1>1, Invariance, PTL

LEMMA BreakerStep ==
    ASSUME BreakerTypeOK, BreakerInv,
           \/ Allow \/ RecordSuccess \/ RecordFailure \/ OpenTimeout \/ UNCHANGED breakerVars
           \/ (circuit' = "closed" /\ failures' = 0 /\ cooled' = FALSE)
    PROVE  BreakerInv'
BY BreakerAssumption DEF BreakerInv, BreakerTypeOK, Allow, MayPass, RecordSuccess, RecordFailure,
   OpenTimeout, AtLimit, breakerVars

\* What each step does to the breaker, and which calls it starts.
LEMMA BreakerUse ==
    ASSUME [Next]_vars
    PROVE  /\ \/ Allow \/ RecordSuccess \/ RecordFailure \/ OpenTimeout \/ UNCHANGED breakerVars
              \/ (circuit' = "closed" /\ failures' = 0 /\ cooled' = FALSE)
           /\ Allow \/ flying' \subseteq flying
<1>1. ASSUME NEW r \in Runs, Ingest(r)
      PROVE  /\ Allow \/ RecordSuccess \/ RecordFailure \/ UNCHANGED breakerVars
             /\ Allow \/ flying' \subseteq flying
  BY <1>1 DEF Ingest, SaveDocumentMetadata, CreateDocument, ChunkDocument, EmbedChunks, UpsertBatch,
     Upserted, MarkIndexed, UpdateDocumentIndexStatus
<1>2. ASSUME NEW q \in Queries, Retrieve(q)
      PROVE  /\ Allow \/ RecordSuccess \/ RecordFailure \/ UNCHANGED breakerVars
             /\ Allow \/ flying' \subseteq flying
  BY <1>2 DEF Retrieve, EmbedAndSearch, Searched, FetchChunkContent, PackContext
<1>3. CASE RestartWorker
  BY <1>3 DEF RestartWorker
<1>4. CASE PassTime \/ UNCHANGED vars
  BY <1>4 DEF PassTime, vars
<1> QED
  BY <1>1, <1>2, <1>3, <1>4 DEF Next

\* No call reaches the vector store between the failure that opens the circuit and
\* the end of the open timeout, for any number of overlapping calls
\* (circuit.go allow, recordSuccess and recordFailure).
THEOREM OpenBreakerIsSilent == Spec => NoCallWhileOpen
<1> DEFINE Inv == IInv /\ BreakerInv
<1>1. Init => Inv
  BY InitInv, BreakerAssumption DEF Init, BreakerInit, BreakerInv
<1>2. Inv /\ [Next]_vars => Inv'
  <2> SUFFICES ASSUME Inv, [Next]_vars PROVE Inv'
    OBVIOUS
  <2>1. IInv'
    BY StepInv
  <2>2. BreakerInv'
    BY BreakerUse, BreakerStep DEF IInv, TypeOK
  <2> QED
    BY <2>1, <2>2
<1>3. Inv /\ [Next]_vars => [flying' \subseteq flying \/ failures < MaxFailures \/ cooled]_vars
  <2> SUFFICES ASSUME Inv, [Next]_vars, ~(flying' \subseteq flying)
               PROVE  failures < MaxFailures \/ cooled
    OBVIOUS
  <2>1. MayPass /\ circuit \in {"closed", "open", "half_open"}
    BY BreakerUse DEF Allow, IInv, TypeOK, BreakerTypeOK
  <2>2. CASE circuit = "closed"
    BY <2>2 DEF BreakerInv
  <2>3. CASE circuit # "closed"
    BY <2>1, <2>3 DEF MayPass, BreakerInv
  <2> QED
    BY <2>2, <2>3
<1> HIDE DEF Inv
<1> QED
  BY <1>1, <1>2, <1>3, PTL DEF Spec, NoCallWhileOpen
=============================================================================
