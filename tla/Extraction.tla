----------------------------- MODULE Extraction -----------------------------
(***************************************************************************)
(* The extracting phase of one document from the inside: the agents of the *)
(* graph in parallel (agents/graph.py), each asking the model until its    *)
(* answer fits the schema (llm/client.py, agents/extractors.py), every     *)
(* item bound to its source (agents/grounding.py), and then what the       *)
(* worker stores: the findings of all agents in one transaction and the    *)
(* assessments of the requirements in another (worker extraction.py,       *)
(* agents/compliance.py).  A phase that fails is started again by the      *)
(* task.  Two phases of one document at a time are JobPipeline's subject.  *)
(*                                                                         *)
(* Bounds: MaxPhases, and the model's answers are a small set.             *)
(***************************************************************************)
EXTENDS Integers, Sequences, FiniteSets, SequencesExt

CONSTANTS
    Agents,                \* "requirements" and others
    NodeAttempts,          \* DEFAULT_AGENT_RETRY.max_attempts
    SchemaAttempts,        \* llm_schema_max_attempts
    Contexts,              \* the blocks of the prompt: [from, to] of element numbers, [holds] of quotes
    Elements,              \* [numbers of the document's elements -> the quotes they hold]
    LongQuotes,            \* quotes of MIN_QUOTE_CHARS characters or more
    Answers,               \* item lists a model may return; an item is [index, quote]
    Assessments,           \* lists of requirement numbers the model may assess
    MaxPhases

ASSUME ExtractionAssumption ==
    /\ "requirements" \in Agents
    /\ {NodeAttempts, SchemaAttempts} \subseteq Nat \ {0} /\ MaxPhases \in Nat
    /\ DOMAIN Elements \subseteq Nat \ {0}               \* elements are numbered from 1
    /\ \A k \in 1 .. Len(Contexts) :
          {Contexts[k].from, Contexts[k].to} \subseteq Nat \ {0} /\ Contexts[k].from <= Contexts[k].to
    /\ \A s \in Answers : s \in Seq(ToSet(s))              \* sequences, of items
    /\ \A s \in Assessments : s \in Seq(ToSet(s))          \* and of numbers

VARIABLES
    phase,       \* [pc, run, contexts: retrieve_context found any, profile: there is one]
    agents,      \* [Agents -> the node: st, tries of the node, asked within the try, items found]
    stored,      \* [Agents -> [run, items]]: the finding rows
    assessed     \* the compliance rows: [run, requirement, element] in order

extractionVars == <<phase, agents, stored, assessed>>

Requirements == "requirements"
Ungrounded == 0
FreshNode == [st |-> "ready", tries |-> 0, asked |-> 0, items |-> <<>>]

-----------------------------------------------------------------------------
\* ground_item: the first element of the block's range that holds the quote, else the
\* first of the range when the block holds it; a short quote proves nothing.
HoldingElements(c, quote) == {e \in DOMAIN Elements : e \in c.from .. c.to /\ quote \in Elements[e]}
First(S) == CHOOSE x \in S : \A y \in S : x <= y

GroundIn(c, quote) ==
    IF HoldingElements(c, quote) # {} THEN First(HoldingElements(c, quote))
    ELSE IF quote \in c.holds THEN c.from
    ELSE Ungrounded

GroundItem(item) ==
    IF item.quote \in LongQuotes /\ item.index \in 1 .. Len(Contexts)
    THEN GroundIn(Contexts[item.index], item.quote)
    ELSE Ungrounded

\* _source_columns: an element without a row leaves the finding without a source.
Source(element) == IF element \in DOMAIN Elements THEN element ELSE Ungrounded

\* ExtractionRunner.run
Findings(items) == [i \in 1 .. Len(items) |-> [item |-> items[i], element |-> GroundItem(items[i])]]

-----------------------------------------------------------------------------

ExtractionInit ==
    /\ phase = [pc |-> "idle", run |-> 0, profile |-> FALSE]
    /\ agents = [a \in Agents |-> FreshNode]
    /\ stored = [a \in Agents |-> [run |-> 0, items |-> <<>>]]
    /\ assessed = <<>>

\* The corpus and the profile are read, the blocks are retrieved; without any block the
\* agents run for nothing and the phase fails.
BeginPhase(profile) ==
    /\ phase.pc \in {"idle", "failed", "done"} /\ phase.run < MaxPhases
    /\ phase' = [pc |-> "agents", run |-> phase.run + 1, profile |-> profile]
    /\ agents' = [a \in Agents |-> FreshNode]
    /\ UNCHANGED <<stored, assessed>>

NoContext ==
    /\ phase.pc = "agents" /\ \A a \in Agents : agents[a] = FreshNode
    /\ phase' = [phase EXCEPT !.pc = "failed"]
    /\ UNCHANGED <<agents, stored, assessed>>

Asking(a) == phase.pc = "agents" /\ agents[a].st = "ready"

\* An answer that fits the schema.
AgentAnswers(a, items) ==
    /\ Asking(a)
    /\ agents' = [agents EXCEPT ![a] = [@ EXCEPT !.st = "found", !.items = Findings(items)]]
    /\ UNCHANGED <<phase, stored, assessed>>

\* The node is tried again, or its error leaves the graph.
NodeRaised_OneMore(a) ==
    IF agents[a].tries < NodeAttempts
    THEN [agents EXCEPT ![a].tries = @ + 1, ![a].asked = 0]
    ELSE [agents EXCEPT ![a].st = "failed", ![a].tries = @ + 1]

NodeRaised(a) ==
    IF agents[a].tries + 1 < NodeAttempts
    THEN [agents EXCEPT ![a].tries = @ + 1, ![a].asked = 0]
    ELSE [agents EXCEPT ![a].st = "failed", ![a].tries = @ + 1]

\* One that does not fit is asked for again, SchemaAttempts times.
SchemaViolated(a) ==
    /\ Asking(a)
    /\ agents' = IF agents[a].asked + 1 < SchemaAttempts
                 THEN [agents EXCEPT ![a].asked = @ + 1]
                 ELSE NodeRaised(a)
    /\ UNCHANGED <<phase, stored, assessed>>

\* A refusal or an error of the provider leaves the client at once.
CallRaised(a) ==
    /\ Asking(a)
    /\ agents' = NodeRaised(a)
    /\ UNCHANGED <<phase, stored, assessed>>

\* What one agent could not do fails the phase, nothing is written.
GraphFails ==
    /\ phase.pc = "agents" /\ \E a \in Agents : agents[a].st = "failed"
    /\ phase' = [phase EXCEPT !.pc = "failed"]
    /\ UNCHANGED <<agents, stored, assessed>>

\* _write_findings, after every agent has finished.
WriteRows ==
    /\ phase.pc = "agents" /\ \A a \in Agents : agents[a].st = "found"
    /\ stored' = [a \in Agents |->
                    [run |-> phase.run,
                     items |-> [i \in 1 .. Len(agents[a].items) |->
                                  [agents[a].items[i] EXCEPT !.element = Source(@)]]]]
    /\ phase' = [phase EXCEPT !.pc = "assess"]
    /\ UNCHANGED <<agents, assessed>>

\* Numbers from the smallest on.
InOrder(S) == CHOOSE s \in SetToSeqs(S) : \A i, j \in DOMAIN s : i < j => s[i] < s[j]

\* The requirements the model is asked about, by their position among the stored rows.
Assessable_All == InOrder(1 .. Len(agents[Requirements].items))
Assessable ==
    InOrder({i \in 1 .. Len(agents[Requirements].items) : agents[Requirements].items[i].element # Ungrounded})

\* ComplianceChecker.check: numbers out of range and repeated ones are dropped.
Firsts(numbers, n) ==
    {i \in 1 .. Len(numbers) : numbers[i] \in 1 .. n /\ \A j \in 1 .. i - 1 : numbers[j] # numbers[i]}
Kept(numbers, n) ==
    LET kept == InOrder(Firsts(numbers, n)) IN [k \in 1 .. Len(kept) |-> numbers[kept[k]]]

\* _run_compliance: without a profile or a requirement to assess only what was there
\* before is deleted.
Assess(numbers) ==
    LET positions == Assessable
        kept == IF phase.profile THEN Kept(numbers, Len(positions)) ELSE <<>>
    IN /\ phase.pc = "assess"
       /\ assessed' = [k \in 1 .. Len(kept) |->
                         [run |-> phase.run, requirement |-> positions[kept[k]],
                          element |-> Source(agents[Requirements].items[positions[kept[k]]].element)]]
       /\ phase' = [phase EXCEPT !.pc = "done"]
       /\ UNCHANGED <<agents, stored>>

\* The call for the assessments fails, or the worker dies: the findings stay as written.
PhaseLost ==
    /\ phase.pc \in {"agents", "assess"}
    /\ phase' = [phase EXCEPT !.pc = "failed"]
    /\ UNCHANGED <<agents, stored, assessed>>

ExtractionNext ==
    \/ \E profile \in BOOLEAN : BeginPhase(profile)
    \/ NoContext \/ GraphFails \/ WriteRows \/ PhaseLost
    \/ \E a \in Agents :
          \/ \E items \in Answers : AgentAnswers(a, items)
          \/ SchemaViolated(a)
          \/ CallRaised(a)
    \/ \E numbers \in Assessments : Assess(numbers)

ExtractionSpec == ExtractionInit /\ [][ExtractionNext]_extractionVars

-----------------------------------------------------------------------------
\* Every variable keeps its type.
ExtractionTypeOK ==
    /\ phase.pc \in {"idle", "agents", "assess", "done", "failed"} /\ phase.run \in 0 .. MaxPhases
    /\ \A a \in Agents :
          /\ agents[a].st \in {"ready", "found", "failed"}
          /\ agents[a].tries \in 0 .. NodeAttempts /\ agents[a].asked \in 0 .. SchemaAttempts - 1
          /\ stored[a].run \in 0 .. MaxPhases

\* The quote of an item is where its finding says it is.
Proves(item, element) ==
    /\ item.quote \in LongQuotes /\ item.index \in 1 .. Len(Contexts)
    /\ \/ item.quote \in Elements[element]
       \/ item.quote \in Contexts[item.index].holds /\ element = Contexts[item.index].from
    /\ element \in Contexts[item.index].from .. Contexts[item.index].to

(***************************************************************************)
(* What a reader sees after an analysis is of one piece.  A stored finding *)
(* that has a source cites an element that holds its quote, the rows of    *)
(* all agents come from the same run, and when the phase has succeeded     *)
(* the assessments are of the requirements that run has stored: each of    *)
(* one with a source, cited where the requirement is, none twice.  (After  *)
(* a phase that failed between its two transactions the assessments are    *)
(* those of an earlier run.)                                               *)
(***************************************************************************)
AnalysisWhole ==
    /\ \A a, b \in Agents : stored[a].run = stored[b].run
    /\ \A a \in Agents : \A i \in 1 .. Len(stored[a].items) :
          LET f == stored[a].items[i] IN f.element # Ungrounded => Proves(f.item, f.element)
    /\ phase.pc = "done" =>
          \A k \in 1 .. Len(assessed) :
              LET c == assessed[k]
                  requirements == stored[Requirements]
              IN /\ c.run = requirements.run /\ requirements.run = phase.run
                 /\ c.requirement \in 1 .. Len(requirements.items)
                 /\ c.element = requirements.items[c.requirement].element
                 /\ GroundItem(requirements.items[c.requirement].item) # Ungrounded
                 /\ \A j \in 1 .. Len(assessed) : assessed[j].requirement = c.requirement => j = k
=============================================================================
