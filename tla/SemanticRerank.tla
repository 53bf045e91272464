--------------------------- MODULE SemanticRerank ---------------------------
(***************************************************************************)
(* One semantic rerank and the evidence it owes.  The candidates are the   *)
(* hits of a search or named by the caller; ExecuteRerankRecorded checks   *)
(* them, asks a model once, checks that its answer partitions them and     *)
(* applies the output contract.  The pipeline then appends access,         *)
(* retrieval, refine and audit evidence in this order, and only then the   *)
(* response goes out.  A model may answer anything; any append may fail.   *)
(***************************************************************************)
EXTENDS Naturals, Sequences, SequencesExt, FiniteSets

CONSTANTS
    Windows,        \* sequences of [ref, size]; size 0 is a hit without a value
    Contracts,      \* records [topK, ties, unjudged]; topK 0 is none
    Named,          \* sequences of refs that a caller names
    Member,         \* the refs of the resolved dataset
    Readable,       \* those the caller may read
    SizeOf,         \* the bytes of a ref's value
    MaxCandidates, MaxCandidateBytes, MaxInputBytes,
    MaxAnswer       \* bound: how many candidates a model mentions

VARIABLES
    pc,
    request,      \* the route, its window and its contract
    fault,        \* the error of the call, "none" while there is none
    window,       \* the candidates handed to the model, in order
    ranking,      \* the result of the rerank, of an empty search, or Nothing
    called,       \* the model was asked
    event,        \* the refine event of the call: "none", "COMPLETED", "ERROR"
    observed,     \* what the retrieval evidence is made from: "hits" or "nothing"
    store         \* the evidence that was appended

vars == <<pc, request, fault, window, ranking, called, event, observed, store>>

Nothing == [groups |-> <<>>, notSelected |-> <<>>, unjudged |-> <<>>, complete |-> FALSE]

EmptyRanking == [Nothing EXCEPT !.complete = TRUE]

Sized(hits) == SelectSeq(hits, LAMBDA h : h.size > 0)

Refs(seq) == [i \in DOMAIN seq |-> seq[i].ref]

RECURSIVE Total(_)
Total(seq) == IF seq = <<>> THEN 0 ELSE Head(seq).size + Total(Tail(seq))

----------------------------------------------------------------------------
(* The window.  A hit keeps its place among all hits as its original rank. *)

SearchCandidates(hits) ==
    Sized([i \in DOMAIN hits |-> [ref |-> hits[i].ref, size |-> hits[i].size, rank |-> i]])

NamedCandidates(refs) == [i \in DOMAIN refs |-> [ref |-> refs[i], size |-> SizeOf[refs[i]], rank |-> i]]

RanksMatch(cands) == \A i \in DOMAIN cands : cands[i].rank = i

InputError(cands) ==
    \/ cands = <<>> \/ Len(cands) > MaxCandidates
    \/ ~IsInjective(Refs(cands))
    \/ ~RanksMatch(cands)
    \/ \E i \in DOMAIN cands : cands[i].size > MaxCandidateBytes

NamedError(refs) ==
    \/ refs = <<>> \/ Len(refs) > MaxCandidates \/ ~IsInjective(refs)
    \/ \E i \in DOMAIN refs : refs[i] \notin Member \/ refs[i] \notin Readable

----------------------------------------------------------------------------
(* The answer of the model: groups of candidate numbers and a list it did  *)
(* not judge.  Numbers outside the window are refused by the provider.     *)

Mentions == [id : 0 .. MaxAnswer, opens : BOOLEAN, judged : BOOLEAN]

RECURSIVE GroupsOf(_)
GroupsOf(flat) ==
    IF flat = <<>> THEN <<>>
    ELSE LET last  == flat[Len(flat)]
             front == GroupsOf(Front(flat))
         IN  IF ~last.judged THEN front
             ELSE IF last.opens \/ front = <<>> THEN Append(front, <<last.id>>)
             ELSE [front EXCEPT ![Len(front)] = Append(@, last.id)]

UnjudgedOf(flat) == LET rest == SelectSeq(flat, LAMBDA m : ~m.judged) IN [i \in DOMAIN rest |-> rest[i].id]

Answers ==
    {[groups |-> GroupsOf(f), unjudged |-> UnjudgedOf(f)] : f \in UNION {[1 .. n -> Mentions] : n \in 0 .. MaxAnswer}}
      \cup {[groups |-> <<<<1>>, <<>>>>, unjudged |-> <<>>]}

Flat(groups) == FlattenSeq(groups)

ResolveIDs(ids, size) == \A i \in DOMAIN ids : ids[i] \in 1 .. size

\* Mutant: refs are counted, and not compared.
ValidRankingCounted(answer, size) ==
    LET all == Flat(answer.groups) \o answer.unjudged
    IN  ResolveIDs(all, size) /\ Len(all) = size

ValidRanking(answer, size) ==
    LET all == Flat(answer.groups) \o answer.unjudged
    IN  /\ \A i \in DOMAIN answer.groups : answer.groups[i] # <<>>
        /\ ResolveIDs(all, size)
        /\ IsInjective(all)
        /\ Len(all) = size

RECURSIVE Select(_, _, _)
Select(groups, contract, kept) ==
    LET remaining == contract.topK - kept
        first == Head(groups)
    IN  IF groups = <<>> THEN Nothing
        ELSE IF remaining <= 0 THEN [Nothing EXCEPT !.notSelected = Flat(groups)]
        ELSE IF Len(first) <= remaining \/ contract.ties
             THEN LET rest == Select(Tail(groups), contract, kept + Len(first))
                  IN  [rest EXCEPT !.groups = <<first>> \o @]
        ELSE [Nothing EXCEPT !.groups = <<SubSeq(first, 1, remaining)>>,
                             !.notSelected = SubSeq(first, remaining + 1, Len(first)) \o Flat(Tail(groups))]

RerankOutput(answer, contract) ==
    LET chosen == IF contract.topK = 0 THEN [Nothing EXCEPT !.groups = answer.groups]
                  ELSE Select(answer.groups, contract, 0)
    IN  [chosen EXCEPT !.unjudged = answer.unjudged, !.complete = (answer.unjudged = <<>>)]

----------------------------------------------------------------------------
Init ==
    /\ pc = "ask" /\ fault = "none" /\ window = <<>> /\ ranking = Nothing
    /\ called = FALSE /\ event = "none" /\ observed = "nothing" /\ store = {}
    /\ request \in [route : {"search"}, hits : Windows, contract : Contracts]
              \cup [route : {"named"}, refs : Named, contract : Contracts]

Fail(code) == fault' = code /\ pc' = "access"

\* The search may fail; its hits are the window.
SearchAndRerank ==
    /\ pc = "ask" /\ request.route = "search"
    /\ \/ Fail("search") /\ UNCHANGED <<window, ranking, event, observed>>
       \/ LET cands == SearchCandidates(request.hits)
          IN  IF cands = <<>>
              THEN /\ ranking' = EmptyRanking /\ observed' = "hits" /\ pc' = "access"
                   /\ UNCHANGED <<window, event, fault>>
              ELSE IF InputError(cands)
              THEN Fail("usage") /\ UNCHANGED <<window, ranking, event, observed>>
              ELSE IF Total(cands) > MaxInputBytes
              THEN /\ Fail("usage") /\ event' = "ERROR" /\ observed' = "hits"
                   /\ window' = Refs(cands) /\ UNCHANGED ranking
              ELSE /\ window' = Refs(cands) /\ observed' = "hits" /\ pc' = "model"
                   /\ UNCHANGED <<ranking, event, fault>>
    /\ UNCHANGED <<request, called, store>>

\* Every named candidate is authorised and read at the pin.
RerankNamed ==
    /\ pc = "ask" /\ request.route = "named"
    /\ IF NamedError(request.refs) \/ InputError(NamedCandidates(request.refs))
       THEN Fail("usage") /\ UNCHANGED <<window, event>>
       ELSE /\ window' = request.refs
            /\ IF Total(NamedCandidates(request.refs)) > MaxInputBytes
               THEN Fail("usage") /\ event' = "ERROR"
               ELSE pc' = "model" /\ UNCHANGED <<event, fault>>
    /\ UNCHANGED <<request, ranking, called, observed, store>>

Decided(answer) ==
    IF ~ValidRanking(answer, Len(window)) THEN "precondition"
    ELSE IF answer.unjudged # <<>> /\ ~request.contract.unjudged THEN "capability"
    ELSE "none"

Answered(answer) ==
    /\ fault' = Decided(answer)
    /\ event' = IF fault' = "none" THEN "COMPLETED" ELSE "ERROR"
    /\ ranking' = IF fault' = "none" THEN RerankOutput(answer, request.contract) ELSE Nothing

\* The one call of the model: an answer, or an error or timeout.
AskModel ==
    /\ pc = "model" /\ called' = TRUE /\ pc' = "access"
    /\ \/ \E answer \in Answers : Answered(answer)
       \/ fault' = "temporary" /\ event' = "ERROR" /\ UNCHANGED ranking
    /\ UNCHANGED <<request, window, observed, store>>

----------------------------------------------------------------------------
(* The evidence pipeline.  The first failed append becomes the error of a  *)
(* call that had none, and the result with all it carries is dropped.      *)

Has(kind) == \E e \in store : e.kind = kind

Stored(kind, outcome) ==
    [kind |-> kind, outcome |-> outcome, access |-> Has("access"), retrieval |-> Has("retrieval")]

Failing == IF fault = "none" THEN "evidence" ELSE fault

RecordAccess ==
    /\ pc = "access" /\ pc' = "retrieval"
    /\ \/ /\ store' = store \cup {Stored("access", IF fault = "none" THEN "RESOLVED" ELSE "ERROR")}
          /\ UNCHANGED <<fault, ranking, event, observed>>
       \/ /\ fault' = Failing /\ UNCHANGED store
          /\ IF fault = "none"
             THEN ranking' = Nothing /\ event' = "none" /\ observed' = "nothing"
             ELSE UNCHANGED <<ranking, event, observed>>
    /\ UNCHANGED <<request, window, called>>

RetrievalOutcome == IF observed = "hits" \/ fault = "none" THEN "COMPLETED" ELSE "ERROR"

\* A failed append of retrieval evidence keeps the result for the refine evidence.
RecordRetrieval ==
    /\ pc = "retrieval" /\ pc' = "refine"
    /\ IF request.route = "search" /\ Has("access")
       THEN \/ store' = store \cup {Stored("retrieval", RetrievalOutcome)} /\ UNCHANGED fault
            \/ fault' = Failing /\ UNCHANGED store
       ELSE UNCHANGED <<store, fault>>
    /\ UNCHANGED <<request, window, ranking, called, event, observed>>

\* Mutant: a failed append of refine evidence is not the caller's error.
RecordRefineAnyway ==
    /\ pc = "refine" /\ pc' = "audit"
    /\ \/ UNCHANGED store
       \/ event # "none" /\ Has("access") /\ store' = store \cup {Stored("refine", event)}
    /\ UNCHANGED <<request, fault, window, ranking, called, event, observed>>

RecordRefine ==
    /\ pc = "refine" /\ pc' = "audit"
    /\ \/ event = "none" /\ UNCHANGED <<store, fault, ranking>>
       \/ /\ event # "none" /\ Has("access")
          /\ store' = store \cup {Stored("refine", event)} /\ UNCHANGED <<fault, ranking>>
       \/ /\ event # "none" /\ fault' = Failing /\ UNCHANGED store
          /\ ranking' = IF fault = "none" THEN Nothing ELSE ranking
    /\ UNCHANGED <<request, window, called, event, observed>>

RecordAudit ==
    /\ pc = "audit" /\ pc' = "done"
    /\ \/ store' = store \cup {Stored("audit", IF fault = "none" THEN "ok" ELSE "error")} /\ UNCHANGED fault
       \/ fault' = Failing /\ UNCHANGED store
    /\ UNCHANGED <<request, window, ranking, called, event, observed>>

Next == SearchAndRerank \/ RerankNamed \/ AskModel \/ RecordAccess \/ RecordRetrieval \/ RecordRefine \/ RecordAudit

Spec == Init /\ [][Next]_vars

----------------------------------------------------------------------------
Delivered == pc = "done" /\ fault = "none"

First(k, seq) == SubSeq(seq, 1, k)

\* A delivered ranking puts every candidate of the window in exactly one place;
\* what is kept is the best of what was judged, cut at topK, or at the end of the
\* group that reaches it when ties are allowed; it is complete when all was judged.
RankingExact ==
    Delivered =>
      LET kept == Flat(ranking.groups)
          all  == kept \o ranking.notSelected \o ranking.unjudged
          k    == request.contract.topK
          last == Len(ranking.groups)
      IN  /\ IsInjective(all) /\ ToSet(all) = DOMAIN window
          /\ (ranking.complete <=> ranking.unjudged = <<>>)
          /\ \A g \in 1 .. last : ranking.groups[g] # <<>>
          /\ (k = 0 => ranking.notSelected = <<>>)
          /\ (ranking.notSelected # <<>> => Len(kept) >= k)
          /\ (k > 0 /\ ~request.contract.ties => Len(kept) <= k)
          /\ (k > 0 /\ last > 0 => Len(Flat(First(last - 1, ranking.groups))) < k)

\* A response that goes out has its evidence, each piece naming those before it:
\* access, the retrieval of a search, the refinement of a model call, and audit.
Evidenced ==
    Delivered =>
      /\ Has("access") /\ Has("audit")
      /\ request.route = "search" =>
           \E e \in store : e.kind = "retrieval" /\ e.access /\ e.outcome = "COMPLETED"
      /\ called =>
           \E e \in store : /\ e.kind = "refine" /\ e.access /\ e.outcome = "COMPLETED"
                            /\ (request.route = "search" => e.retrieval)
=============================================================================
