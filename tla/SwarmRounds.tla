------------------------------ MODULE SwarmRounds ------------------------------
(***************************************************************************)
(* SwarmWorkflow: a leader that optionally retrieves context, then runs    *)
(* its workers in rounds.  Round 0 runs every worker; a later round runs   *)
(* the workers whose inbox is not empty.  Each round launches one          *)
(* WorkerAgentActivity per worker and collects the answers with a selector *)
(* and a timer; collecting an answer may hand the work to another worker   *)
(* and wait for it, and routes the messages of the answer into inboxes.    *)
(*                                                                         *)
(* Activities are tried once (MaximumAttempts 1).  Workers, the timer and  *)
(* whoever sends signals run concurrently with the workflow, which sees    *)
(* their events when it next runs.                                         *)
(***************************************************************************)
EXTENDS Integers, FiniteSets, Sequences, SequencesExt

CONSTANTS
    Counts,        \* values of worker_count a request may carry
    Rounds,        \* values of max_p2p_rounds
    DefaultCount,  \* 3 in Execute
    DefaultRounds, \* 2 in Execute
    MaxSignals,    \* bound: signals sent to one swarm
    MaxFaults      \* bound: authorisations that are lost

ASSUME SwarmAssumption ==
    /\ Counts \subseteq Int /\ Rounds \subseteq Int
    /\ \E largest \in Counts \union {DefaultCount} :
          \A n \in Counts \union {DefaultCount} : n <= largest
    /\ DefaultCount \in Nat \ {0} /\ DefaultRounds \in Nat \ {0}
    /\ MaxSignals \in Nat /\ MaxFaults \in Nat

VARIABLES
    count,     \* req.WorkerCount, normalised
    maxRounds, \* req.MaxP2PRounds, normalised
    pc,        \* where the workflow is
    context,   \* the leader has packed a retrieval context
    round,
    future,    \* roundFutures, and what has become of them
    left,      \* iterations left of the loop that waits
    handing,   \* the worker whose answer is being collected, during a hand-off
    inbox,     \* messages routed to each worker, in order
    logged,    \* allMessages: what the P2P summary is computed from
    board,     \* authors of the workspace items, in order
    mailbox,   \* number of signals not received yet
    sent,      \* signals sent
    tally,     \* the counters succeeded, failed, timedOut
    runs,      \* history: worker activities scheduled
    empty,     \* history: answers whose status is failed, counted as succeeded
    lost,      \* history: hand-off runs that returned an error
    refused,   \* history: workers skipped because authorisation did not allow
    given,     \* history: how often the message of each worker was handed over
    status     \* the verdict of the swarm

leader  == <<count, maxRounds, context>>
stats   == <<tally, runs, empty, lost, refused>>
boxes   == <<inbox, logged, board>>
signals == <<mailbox, sent>>
vars    == <<leader, pc, round, future, left, handing, boxes, signals, stats, given, status>>

-----------------------------------------------------------------------------
Roles == <<"researcher", "analyst", "critic", "synthesizer", "reviewer">>
RoleOf(w) == Roles[((w - 1) % 5) + 1]

MaxCount == Max(Counts \union {DefaultCount})
Ids      == 1..MaxCount
Workers  == 1..count
Nobody   == 0

WorkerCount(n)  == IF n <= 0 THEN DefaultCount ELSE n
MaxP2PRounds(n) == IF n <= 0 THEN DefaultRounds ELSE n

\* "none": not in roundFutures.  "answer" and "empty" are returned without an
\* error: WorkerAgent returns status failed with a nil error when the LLM call
\* fails.  "error": the activity failed, timed out, or a hook denied the call.
Pending  == {"running"}
Ready    == {"answer", "empty", "error"}
Futures  == {"none"} \union Pending \union Ready

FirstRound == round = 0

\* generateOutboundMessages: one message per role; 0 is the lead.
AddresseeOf(w) ==
    [researcher |-> 2, analyst |-> 3, critic |-> 3, synthesizer |-> 0, reviewer |-> 3][RoleOf(w)]
Outbound(w) == IF FirstRound THEN {[from |-> w, to |-> AddresseeOf(w)]} ELSE {}
Appends(w)  == FirstRound /\ RoleOf(w) \in {"researcher", "critic", "synthesizer"}

\* A researcher asks in round 0 for a hand-off to worker-2.
HandoffTarget  == 2
WantsHandoff(w) == FirstRound /\ RoleOf(w) = "researcher"

Messages == [from: Ids, to: 0..MaxCount \union {2, 3}]

-----------------------------------------------------------------------------
Init ==
    /\ \E n \in Counts : count = WorkerCount(n)
    /\ \E n \in Rounds : maxRounds = MaxP2PRounds(n)
    /\ pc \in {"hook", "round"}      \* req.NeedsRetrieval or not
    /\ context = FALSE
    /\ round = 0 /\ left = 0 /\ handing = Nobody
    /\ future = [w \in Ids |-> "none"]
    /\ inbox = [w \in Ids |-> <<>>] /\ logged = {} /\ board = <<>>
    /\ mailbox = 0 /\ sent = 0
    /\ tally = [succeeded |-> 0, failed |-> 0, timedOut |-> 0]
    /\ runs = 0 /\ empty = 0 /\ lost = 0 /\ refused = 0
    /\ given = [w \in Ids |-> 0]
    /\ status = "none"

\* EmitHookEventActivity(before_tool_call): a decision that is lost denies nothing.
BeforeRetrieval == \E denied \in BOOLEAN :
    /\ pc = "hook"
    /\ pc' = IF denied THEN "round" ELSE "search"
    /\ UNCHANGED <<leader, round, future, left, handing, boxes, signals, stats, given, status>>

AfterRetrieval == [search |-> "fetch", fetch |-> "pack", pack |-> "round"]

\* Search, fetch and pack: an error, or no hits, and the workers go without.
Retrieve == \E ok \in BOOLEAN :
    /\ pc \in DOMAIN AfterRetrieval
    /\ pc' = IF ok THEN AfterRetrieval[pc] ELSE "round"
    /\ context' = (ok /\ pc = "pack")
    /\ UNCHANGED <<count, maxRounds, round, future, left, handing, boxes, signals, stats,
                   given, status>>

SendSignal ==
    /\ status = "none" /\ sent < MaxSignals
    /\ mailbox' = mailbox + 1 /\ sent' = sent + 1
    /\ UNCHANGED <<leader, pc, round, future, left, handing, boxes, stats, given, status>>

\* Mutant: mail that was handed over once does not call for another round.
WithUnreadMail == {w \in Workers : \E m \in ToSet(inbox[w]) : given[m.from] = 0}

WithMail == {w \in Workers : inbox[w] # <<>>}

RoundTasks == IF round = 0 THEN Workers ELSE WithMail

\* One signal at most is received per round.  A status query is answered on the
\* stream; no kind of signal, cancel included, stops the swarm.
TakeSignal == mailbox' = IF mailbox = 0 THEN 0 ELSE mailbox - 1

MoreRounds == round <= maxRounds

Authors(launched) == {m.from : m \in UNION {ToSet(inbox[w]) : w \in launched}}

\* Authorisation is asked for worker by worker.  A lost decision reads as "not
\* allowed" and the worker is left out of the round.  An inbox is handed over whole,
\* and nothing is taken out of it: the next round hands it over again.
StartRound ==
    /\ pc = "round" /\ MoreRounds /\ RoundTasks # {}
    /\ TakeSignal
    /\ \E out \in SUBSET RoundTasks :
         LET launched == RoundTasks \ out
         IN  /\ refused + Cardinality(out) <= MaxFaults
             /\ refused' = refused + Cardinality(out)
             /\ future' = [w \in Ids |-> IF w \in launched THEN "running" ELSE "none"]
             /\ given' = [w \in Ids |-> given[w] + IF w \in Authors(launched) THEN 1 ELSE 0]
             /\ runs' = runs + Cardinality(launched)
    /\ left' = Cardinality(RoundTasks)
    /\ pc' = "wait"
    /\ UNCHANGED <<leader, round, handing, boxes, sent, tally, empty, lost, status>>

\* No round is left, or nobody has mail.
StopRounds ==
    /\ pc = "round" /\ (~MoreRounds \/ RoundTasks = {})
    /\ IF MoreRounds THEN TakeSignal ELSE UNCHANGED mailbox
    /\ pc' = "summary"
    /\ UNCHANGED <<leader, round, future, left, handing, boxes, sent, stats, given, status>>

WorkerFinishes(w) == \E f \in Ready :
    /\ future[w] = "running"
    /\ future' = [future EXCEPT ![w] = f]
    /\ UNCHANGED <<leader, pc, round, left, handing, boxes, signals, stats, given, status>>

-----------------------------------------------------------------------------
(* The callback of a collected future *)

Deliverable(m) == m.to \in Workers

\* Mutant: what the target of a hand-off wrote is routed along with the answer.
RoutedWithTarget(w) ==
    Outbound(w) \union (IF handing = w THEN Outbound(HandoffTarget) ELSE {})

Routed(w) == Outbound(w)

\* Route: to the lead, to nobody, or into the inbox of a worker.  A message
\* that is delivered is not appended to allMessages.
Route(w) ==
    /\ inbox' = [v \in Ids |-> inbox[v] \o
                    SetToSeq({m \in Routed(w) : Deliverable(m) /\ m.to = v})]
    /\ logged' = logged \union {m \in Routed(w) : ~Deliverable(m)}

\* Mutant: the loop's condition reads the length of the shrinking map.
IterationsOfMap == Cardinality({w \in Ids : future'[w] # "none"}) - 1

Iterations == left - 1

NoRoute == UNCHANGED <<inbox, logged>>

\* What the callback does before a hand-off or the routing.
Account(w) ==
    /\ future' = [future EXCEPT ![w] = "none"]
    /\ tally' = IF future[w] = "error" THEN [tally EXCEPT !.failed = @ + 1]
                 ELSE [tally EXCEPT !.succeeded = @ + 1]
    /\ empty' = IF future[w] = "empty" THEN empty + 1 ELSE empty
    /\ board' = IF future[w] = "answer" /\ Appends(w) THEN Append(board, w) ELSE board

Collect(w) ==
    LET handoff == future[w] = "answer" /\ WantsHandoff(w) /\ HandoffTarget \in Workers
    IN  /\ pc = "wait" /\ left > 0 /\ future[w] \in Ready
        /\ Account(w)
        /\ IF handoff
             THEN pc' = "handoff" /\ handing' = w /\ runs' = runs + 1 /\ NoRoute
                  /\ UNCHANGED left
             ELSE /\ UNCHANGED <<pc, handing, runs>>
                  /\ IF future[w] = "answer" THEN Route(w) ELSE NoRoute
                  /\ left' = Iterations
        /\ UNCHANGED <<leader, round, signals, lost, refused, given, status>>

\* The target's run returned.  Of its answer only the counters are kept; an
\* error is in no counter.
HandoffReturns == \E f \in Ready :
    /\ pc = "handoff" /\ pc' = "wait"
    /\ IF f = "error" THEN lost' = lost + 1 /\ UNCHANGED tally
       ELSE tally' = [tally EXCEPT !.succeeded = @ + 1] /\ UNCHANGED lost
    /\ empty' = IF f = "empty" THEN empty + 1 ELSE empty
    /\ Route(handing) /\ handing' = Nobody
    /\ UNCHANGED future /\ left' = Iterations
    /\ UNCHANGED <<leader, round, board, signals, runs, refused, given, status>>

Outstanding == {w \in Ids : future[w] = "running"}

\* Mutant: a timer that finds no future left does not count as an iteration.
NoIteration == left

IdleIteration == left - 1
Late == Cardinality(Outstanding)

\* The timer of this iteration fires and no future is ready; a ready future is
\* added to the selector first and wins.  The late activities go on, unheard.
TimerExpires ==
    /\ pc = "wait" /\ left > 0
    /\ \A w \in Ids : future[w] \notin Ready
    /\ left' = IF Outstanding # {} THEN 0 ELSE IdleIteration
    /\ tally' = [tally EXCEPT !.timedOut = @ + Late]
    /\ future' = [w \in Ids |-> "none"]
    /\ UNCHANGED <<leader, pc, round, handing, boxes, signals, runs, empty, lost, refused,
                   given, status>>

EndRound ==
    /\ pc = "wait" /\ left = 0
    /\ pc' = "round" /\ round' = round + 1
    /\ future' = [w \in Ids |-> "none"]     \* roundFutures is local to a round
    /\ UNCHANGED <<leader, left, handing, boxes, signals, stats, given, status>>

-----------------------------------------------------------------------------
\* Mutant: a partial success is not told from a full one.
VerdictOfAny == IF tally.succeeded > 0 THEN "completed" ELSE "failed"

Verdict ==
    IF tally.failed = 0 /\ tally.timedOut = 0 THEN "completed"
    ELSE IF tally.succeeded > 0 THEN "partial_success" ELSE "failed"

\* The summaries, SaveResultActivity, RecordExecutionCompletedActivity, the
\* verdict on the stream; errors of the three are dropped.
Finish ==
    /\ pc = "summary" /\ pc' = "ended"
    /\ status' = Verdict
    /\ UNCHANGED <<leader, round, future, left, handing, boxes, signals, stats, given>>

Leader ==
    \/ BeforeRetrieval \/ Retrieve \/ StartRound \/ StopRounds
    \/ (\E w \in Ids : Collect(w)) \/ HandoffReturns \/ TimerExpires \/ EndRound \/ Finish

Ended == pc = "ended" /\ UNCHANGED vars

Next == Leader \/ (\E w \in Ids : WorkerFinishes(w)) \/ SendSignal \/ Ended

Spec == Init /\ [][Next]_vars

\* Temporal runs the workflow when there is an event for it, timers fire, and an
\* activity ends within its StartToClose timeout (HandoffReturns).  No worker
\* needs to answer in time, and nobody needs to send a signal.
FairSpec == Spec /\ WF_vars(Leader)

-----------------------------------------------------------------------------
(* Properties *)

\* Every variable has the values the program can give it.
TypeOK ==
    /\ count \in Ids /\ maxRounds \in Nat \ {0} /\ context \in BOOLEAN
    /\ pc \in DOMAIN AfterRetrieval \union {"hook", "round", "wait", "handoff", "summary", "ended"}
    /\ round \in 0..(maxRounds + 1)
    /\ future \in [Ids -> Futures] /\ left \in 0..MaxCount
    /\ handing \in Workers \union {Nobody}
    /\ inbox \in [Ids -> Seq(Messages)] /\ logged \subseteq Messages
    /\ board \in Seq(Workers)
    /\ mailbox \in 0..MaxSignals /\ sent \in 0..MaxSignals
    /\ tally \in [succeeded : Nat, failed : Nat, timedOut : Nat]
    /\ runs \in Nat /\ empty \in Nat /\ lost \in Nat /\ refused \in 0..MaxFaults
    /\ given \in [Ids -> Nat]
    /\ status \in {"none", "completed", "partial_success", "failed"}

Counted == tally.succeeded + tally.failed + tally.timedOut + lost
InFlight == Cardinality({w \in Ids : future[w] # "none"}) + (IF pc = "handoff" THEN 1 ELSE 0)

\* Every worker activity the swarm schedules is, at every moment, still being
\* waited for or counted exactly once, whatever the order of answers, hand-offs,
\* refusals and timers; only a hand-off run that errs is in no counter.  The verdict
\* agrees with what became of the runs: completed means that none was late or in
\* error but for hand-offs, failed means that none returned.
EveryRunCounted ==
    /\ runs = Counted + InFlight
    /\ status = "completed" => runs = tally.succeeded + lost
    /\ status = "failed" => tally.succeeded = 0 /\ runs > lost
    /\ status = "partial_success" => tally.succeeded > 0 /\ runs > tally.succeeded + lost

\* Each of the later rounds hands a worker every message in its inbox once more,
\* unless the worker was refused the round: by the end a message was given as often as
\* there were such rounds, and to its addressee.  A worker that is given the same
\* messages again does not answer them again, nor does the target of a hand-off, run
\* twice in one round and writing its message and its item both times, put either into
\* an inbox or on the board twice.
MailIsGiven ==
    /\ pc \in {"summary", "ended"} =>
          Cardinality({w \in Workers : \E m \in ToSet(inbox[w]) : given[m.from] # round - 1}) <= refused
    /\ \A w \in Ids : IsInjective(inbox[w]) /\ \A m \in ToSet(inbox[w]) : m.to = w
    /\ IsInjective(board)

\* Collecting an answer never waits for another worker for ever: every swarm
\* comes to its verdict even if no worker of a round ever answers.
SwarmEnds == <>(status # "none")
=============================================================================
