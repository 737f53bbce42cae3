----------------------------- MODULE MCServices -----------------------------
(***************************************************************************)
(* Instances of the service modules for TLC.  In this instance they share  *)
(* no state, so every interleaving of two of them projects to behaviours   *)
(* of each: one behaviour follows one module, chosen at its start, while   *)
(* the variables of the others rest.  The reachable states are then the    *)
(* union of those of the modules instead of their product.  Comments are   *)
(* followed without reviews: neither reads or writes what the other does.  *)
(***************************************************************************)
EXTENDS LlmBudget, DeadLetter, Review, Chunking, Retrieval, Extraction, Mail, TLC

VARIABLE focus   \* the module a behaviour follows

Pages1 == [j \in BudgetJobs |-> IF j = "j1" THEN 1 ELSE UnknownPages]

\* Texts of up to six characters, and sequences of short elements.
Texts(characters) == UNION {[1 .. n -> characters] : n \in 1 .. 6}
Long == Texts({Line, Blank, ".", Plain}) \cup Texts({Blank, ".", "!", Plain})
Short == {<<Plain>>, <<Plain, Plain>>, <<Blank>>, <<Plain, Line, Plain, Plain, Plain>>}
Element(kind, texts) == {[kind |-> kind, text |-> t] : t \in texts}
Documents1 ==
    {<<e>> : e \in Element("text", Long) \cup Element("table", Long)}
    \cup UNION {[1 .. n -> UNION {Element(k, Short) : k \in Kinds}] : n \in 2 .. 3}

\* Blocks of one and two pages; a quote on one page, one across two, one nowhere.
Contexts1 == <<[from |-> 1, to |-> 2, holds |-> {"one", "across"}],
               [from |-> 3, to |-> 4, holds |-> {"lost"}]>>
Elements1 == (1 :> {"one"}) @@ (2 :> {}) @@ (4 :> {"one"})
Answers1 == {<<>>,
             <<[index |-> 0, quote |-> "one"], [index |-> 1, quote |-> "across"]>>,
             <<[index |-> 2, quote |-> "lost"], [index |-> 2, quote |-> "one"],
               [index |-> 1, quote |-> "tiny"]>>}
Assessments1 == {<<>>, <<2, 1, 2>>, <<0, 3>>}

\* Nothing orders or names workers, requests, senders, addresses or reviewers.
ServicesSymmetry == Permutations(Workers) \cup Permutations(Addresses) \cup Permutations(Reviewers)

-----------------------------------------------------------------------------
ServicesInit ==
    /\ focus \in {"budget", "letters", "review", "comments", "chunking", "retrieval", "extraction", "mail"}
    /\ ChunkingInit /\ (focus = "chunking" \/ elements = <<[kind |-> "text", text |-> <<Plain>>]>>)
    /\ DeadLetterInit /\ (focus = "letters" \/ nature = [e \in Events |-> "dated"])
    /\ MailInit /\ (focus = "mail" \/ mailTo = Addresses)
    /\ RetrievalInit /\ (focus = "retrieval" \/ ~search.reranks)
    /\ BudgetInit /\ ReviewInit /\ ExtractionInit

BudgetStep ==
    /\ focus = "budget" /\ BudgetNext
    /\ UNCHANGED <<focus, deadLetterVars, reviewVars, chunkingVars, retrievalVars, extractionVars, mailVars>>
DeadLetterStep ==
    /\ focus = "letters" /\ DeadLetterNext
    /\ UNCHANGED <<focus, budgetVars, reviewVars, chunkingVars, retrievalVars, extractionVars, mailVars>>
ReviewStep ==
    /\ focus \in {"review", "comments"} /\ ReviewNext
    /\ \A q \in ReviewRequests : review'[q].op # IF focus = "review" THEN "comment" ELSE "review"
    /\ UNCHANGED <<focus, budgetVars, deadLetterVars, chunkingVars, retrievalVars, extractionVars, mailVars>>
ChunkingStep ==
    /\ focus = "chunking" /\ ChunkingNext
    /\ UNCHANGED <<focus, budgetVars, deadLetterVars, reviewVars, retrievalVars, extractionVars, mailVars>>
RetrievalStep ==
    /\ focus = "retrieval" /\ RetrievalNext
    /\ UNCHANGED <<focus, budgetVars, deadLetterVars, reviewVars, chunkingVars, extractionVars, mailVars>>
ExtractionStep ==
    /\ focus = "extraction" /\ ExtractionNext
    /\ UNCHANGED <<focus, budgetVars, deadLetterVars, reviewVars, chunkingVars, retrievalVars, mailVars>>
MailStep ==
    /\ focus = "mail" /\ MailNext
    /\ UNCHANGED <<focus, budgetVars, deadLetterVars, reviewVars, chunkingVars, retrievalVars, extractionVars>>

ServicesNext ==
    \/ BudgetStep \/ DeadLetterStep \/ ReviewStep \/ ChunkingStep
    \/ RetrievalStep \/ ExtractionStep \/ MailStep

ServicesSpec == ServicesInit /\ [][ServicesNext]_<<focus, budgetVars, deadLetterVars, reviewVars, chunkingVars, retrievalVars, extractionVars, mailVars>>

\* Every variable of the service modules keeps its type.
ServicesTypeOK ==
    /\ focus = "budget" => BudgetTypeOK
    /\ focus = "letters" => DeadLetterTypeOK
    /\ focus \in {"review", "comments"} => ReviewTypeOK
    /\ focus = "chunking" => ChunkingTypeOK
    /\ focus = "retrieval" => RetrievalTypeOK
    /\ focus = "extraction" => ExtractionTypeOK
    /\ focus = "mail" => MailTypeOK
=============================================================================
