--------------------------- MODULE EvidenceReport ---------------------------
(***************************************************************************)
(* ResearchSynthesisV2Workflow: plan subqueries, retrieve evidence for     *)
(* each, score its sources, drop what is below the threshold, look for     *)
(* contradictions, let a reviewer discard evidence, and write a report.    *)
(* Only a lost plan and a lost report fail the workflow; every other step  *)
(* that fails leaves its input as it was.  Credibility is in tenths.       *)
(* Citation chains and the debate checkpoint change nothing that follows.  *)
(***************************************************************************)
EXTENDS Integers, Sequences, SequencesExt, FiniteSetsExt

CONSTANTS
    SubqueryIds,     \* identifiers the planner may give, repeats included
    MaxSubqueries, MaxSources, MaxEvidenceItems, CredibilityThreshold,
    SourceTypes,     \* sequence of "local_rag" and "docs"
    Chunks           \* chunks of the vector store

\* Limits that are not positive are replaced by defaults; a store is finite.
ASSUME ResearchAssumption ==
    /\ {MaxSubqueries, MaxSources, MaxEvidenceItems} \subseteq Nat
    /\ CredibilityThreshold \in Int
    /\ SourceTypes \in Seq(STRING) /\ IsFiniteSet(Chunks)

VARIABLES
    research,        \* the step of the workflow
    setting,         \* backend: a vector store is injected; reflect: EnableReflection
    exhausted,       \* the plan alone used the token budget
    subqueries,      \* subqueries not retrieved yet
    evidence,        \* allEvidence, then scoredEvidence
    unscored,        \* positions of evidence not scored yet
    sourceCount,     \* unique content references retrieved
    filterHeld,      \* the filter ran
    filtered,        \* evidence kept
    contradictions,  \* pairs of evidence identifiers
    flagged          \* identifiers marked as contradicted

researchVars == <<research, setting, exhausted, subqueries, evidence, unscored,
                  sourceCount, filterHeld, filtered, contradictions, flagged>>

\* The worker injects no vector store into these activities; tests do.
ResearchInit ==
    /\ setting \in [backend : BOOLEAN, reflect : BOOLEAN]
    /\ research = "plan" /\ exhausted = FALSE /\ subqueries = <<>> /\ evidence = <<>>
    /\ unscored = {} /\ sourceCount = 0 /\ filterHeld = FALSE /\ filtered = <<>>
    /\ contradictions = {} /\ flagged = {}

\* Identifiers are the planner's own; an unusable answer becomes one subquery.
PlanResearch ==
    /\ research = "plan"
    /\ subqueries' \in SeqOf(SubqueryIds, MaxSubqueries) \ {<<>>}
    /\ exhausted' \in BOOLEAN
    /\ research' = "retrieve"
    /\ UNCHANGED <<setting, evidence, unscored, sourceCount, filterHeld, filtered,
                   contradictions, flagged>>

Item(sub, type, j, source, ref, credibility) ==
    [id |-> <<sub, type, j>>, type |-> type, source |-> source, ref |-> ref,
     credibility |-> credibility]

Placeholder(sub, type) ==
    IF type = "local_rag" THEN Item(sub, type, 0, type, <<sub, type>>, 6)
                          ELSE Item(sub, type, 1, type, <<type>>, 5)

\* A search finds up to MaxSources chunks, relevant (9) or barely so (3), or fails.
Hits(sub) ==
    UNION {{[i \in DOMAIN found |->
                Item(sub, "local_rag", i - 1, found[i], <<found[i]>>,
                     IF found[i] \in relevant THEN 9 ELSE 3)]
                : found \in {SetToSeq(C)}, relevant \in SUBSET C}
           : C \in {D \in SUBSET Chunks : Cardinality(D) <= MaxSources}}

\* Evidence of one source type; without a store every type is a placeholder.
FromSource(sub, type) ==
    IF type = "local_rag" /\ setting.backend THEN Hits(sub) ELSE {<<Placeholder(sub, type)>>}

FromSources(sub) ==
    {FlattenSeq(found) : found \in
        {f \in [DOMAIN SourceTypes -> UNION {FromSource(sub, SourceTypes[i]) : i \in DOMAIN SourceTypes}] :
            \A i \in DOMAIN SourceTypes : f[i] \in FromSource(sub, SourceTypes[i])}}

\* Mutant: no limit.
Uncapped(items) == items

\* The items that fit under the cap.
Capped(items) == SubSeq(items, 1, Min({Len(items), MaxEvidenceItems}))

RetrievalOver == subqueries = <<>> \/ exhausted \/ Len(evidence) >= MaxEvidenceItems

RetrieveEvidence ==
    /\ research = "retrieve" /\ ~RetrievalOver
    /\ \/ \E items \in FromSources(Head(subqueries)) : evidence' = Capped(evidence \o items)
       \/ UNCHANGED evidence
    /\ subqueries' = Tail(subqueries)
    /\ UNCHANGED <<research, setting, exhausted, unscored, sourceCount, filterHeld,
                   filtered, contradictions, flagged>>

\* Sources are counted before anything is dropped.
EndRetrieval ==
    /\ research = "retrieve" /\ RetrievalOver
    /\ sourceCount' = Cardinality({evidence[i].ref : i \in DOMAIN evidence})
    /\ unscored' = DOMAIN evidence
    /\ research' = "score"
    /\ UNCHANGED <<setting, exhausted, subqueries, evidence, filterHeld, filtered,
                   contradictions, flagged>>

\* The type of the source decides, whatever the relevance of the hit was.
SourceCredibility(type) == IF type = "local_rag" THEN 7 ELSE 6

ScoreSource ==
    /\ research = "score" /\ unscored # {}
    /\ LET i == Min(unscored) IN
          /\ unscored' = unscored \ {i}
          /\ \/ evidence' = [evidence EXCEPT ![i].credibility = SourceCredibility(evidence[i].type)]
             \/ UNCHANGED evidence
    /\ UNCHANGED <<research, setting, exhausted, subqueries, sourceCount, filterHeld,
                   filtered, contradictions, flagged>>

Credible(e) == e.credibility >= CredibilityThreshold

\* The items at the positions in S, as the pairs in Before order them.
Arranged(items, S, Before) ==
    [k \in 1 .. Cardinality(S) |->
        items[CHOOSE i \in S : Cardinality({j \in S : <<j, i>> \in Before}) = k - 1]]

\* Stable, most credible first.
MoreCredible ==
    {p \in (DOMAIN evidence) \X (DOMAIN evidence) :
        \/ evidence[p[1]].credibility > evidence[p[2]].credibility
        \/ evidence[p[1]].credibility = evidence[p[2]].credibility /\ p[1] < p[2]}

\* As they were.
Earlier == {p \in (DOMAIN filtered) \X (DOMAIN filtered) : p[1] < p[2]}

FilterByCredibility ==
    /\ research = "score" /\ unscored = {}
    /\ \/ /\ filterHeld' = TRUE
          /\ filtered' = Arranged(evidence, {i \in DOMAIN evidence : Credible(evidence[i])},
                                  MoreCredible)
       \/ filterHeld' = FALSE /\ filtered' = evidence
    /\ research' = "detect"
    /\ UNCHANGED <<setting, exhausted, subqueries, evidence, unscored, sourceCount,
                   contradictions, flagged>>

\* The pairs compared.  Repeated subqueries give items with one identifier.
Conflicts ==
    UNION {{{filtered[i].id, filtered[j].id} : j \in i + 1 .. Len(filtered)} : i \in DOMAIN filtered}

\* Which pairs conflict depends on the wording of the summaries, so any may; a
\* failed detection finds none.  Evidence is marked by identifier.
DetectContradictions ==
    /\ research = "detect"
    /\ contradictions' \in SUBSET Conflicts
    /\ flagged' = UNION contradictions'
    /\ research' = IF setting.reflect THEN "reflect" ELSE "report"
    /\ UNCHANGED <<setting, exhausted, subqueries, evidence, unscored, sourceCount,
                   filterHeld, filtered>>

\* The reviewer names identifiers to discard; a failed review discards none.
ReflectionBeforeSynthesis ==
    /\ research = "reflect"
    /\ \E discard \in SUBSET {filtered[i].id : i \in DOMAIN filtered} :
          filtered' = Arranged(filtered, {i \in DOMAIN filtered : filtered[i].id \notin discard},
                               Earlier)
    /\ research' = "report"
    /\ UNCHANGED <<setting, exhausted, subqueries, evidence, unscored, sourceCount,
                   filterHeld, contradictions, flagged>>

GenerateReport ==
    /\ research = "report"
    /\ research' = "done"
    /\ UNCHANGED <<setting, exhausted, subqueries, evidence, unscored, sourceCount,
                   filterHeld, filtered, contradictions, flagged>>

PlanOrReportLost ==
    /\ research \in {"plan", "report"}
    /\ research' = "error"
    /\ UNCHANGED <<setting, exhausted, subqueries, evidence, unscored, sourceCount,
                   filterHeld, filtered, contradictions, flagged>>

ResearchNext ==
    \/ PlanResearch \/ RetrieveEvidence \/ EndRetrieval \/ ScoreSource
    \/ FilterByCredibility \/ DetectContradictions \/ ReflectionBeforeSynthesis
    \/ GenerateReport \/ PlanOrReportLost

-----------------------------------------------------------------------------
Ids(items) == {items[i].id : i \in DOMAIN items}

ResearchTypeOK ==
    /\ research \in {"plan", "retrieve", "score", "detect", "reflect", "report", "done", "error"}
    /\ Range(subqueries) \subseteq SubqueryIds /\ unscored \subseteq DOMAIN evidence
    /\ sourceCount \in 0 .. MaxEvidenceItems
    /\ \A s \in {evidence, filtered} : \A i \in DOMAIN s : s[i].credibility \in 0 .. 10

\* A report rests on evidence that was retrieved and, unless the filter was
\* lost, is credible; it has no more sources than were counted, and no more
\* items than the cap, although every step that fails hands its list on.  The
\* items in a contradiction are exactly the marked ones, and only a reviewer who
\* discards evidence after the detection leaves one that is not in the report.
ReportIsSupported ==
    research = "done" =>
        /\ Range(filtered) \subseteq Range(evidence)
        /\ Len(filtered) <= MaxEvidenceItems
        /\ filterHeld => \A i \in DOMAIN filtered : Credible(filtered[i])
        /\ Cardinality({filtered[i].source : i \in DOMAIN filtered}) <= sourceCount
        /\ flagged = UNION contradictions
        /\ flagged \subseteq Ids(IF setting.reflect THEN evidence ELSE filtered)
=============================================================================
