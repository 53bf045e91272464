------------------------------- MODULE Traverse -------------------------------
(***************************************************************************)
(* Bounded traversal of relations, page by page: TraverseCore.Run over the *)
(* relation lane of one repository or of a dataset's members.              *)
(*                                                                         *)
(* A traversal is a breadth-first closure cut into pages.  Everything a    *)
(* page needs of the earlier ones travels in the continuation token: the   *)
(* frontier, the visited nodes, the selected edges and, per node, how far  *)
(* its relation lane was read.  The lane itself is paged: the members are  *)
(* read one after the other, each in provider pages, under one budget of   *)
(* provider pages and one deadline for the whole request.                  *)
(*                                                                         *)
(* Nodes are numbers: the order of references (repository, object) is <.   *)
(* A relation is the sequence of its endpoints; its coordinate is its      *)
(* member and its place in the member's provider order.  The type, role    *)
(* and direction of a step only choose which relations exist here.         *)
(***************************************************************************)
EXTENDS Integers, Sequences, FiniteSets, SequencesExt

CONSTANTS
  Nodes,        \* knowledge references, a set of naturals
  Scope,        \* the references the fixed scope contains
  Members,      \* repositories of the scope that store relations, 1..M
  Graphs,       \* [Members -> Seq(Seq(Nodes))]: stored relations that match the step
  Hidden,       \* relation coordinates <<m, i>> the dataset does not contain
  Start,        \* TraverseQuery.Start
  Hops,         \* values of TraverseQuery.MaxHops
  MinHops,      \* values of TraverseQuery.MinHops
  Limits,       \* page limits a caller asks for
  LanePage,     \* DefaultTraversePageLimit, relations of one lane page (code: 100)
  PageBudget,   \* provider pages of one execution scope (code: 100)
  EdgeBudget,   \* MaxTraverseEdges (code: 5000)
  MaxExpire     \* bound: deadlines that pass

VARIABLES
  query,        \* [graph, hops, min, channel, limit]: fixed for the session
  token,        \* the continuation the caller holds
  run,          \* the page under construction
  lane,         \* the relation lane call under way
  got,          \* ghost: what the answered pages returned
  expired       \* ghost: deadlines passed so far

vars == <<query, token, run, lane, got, expired>>

(* A member position of a lane token: 0 is no token, i > 0 the token of    *)
(* provider position i, Unusable the token minted for position "".         *)
Unusable == -1
FreshLane == [pos |-> [m \in Members |-> 0], done |-> {}]
NoToken == [frontier |-> << >>, visited |-> {}, edges |-> {}, pos |-> << >>]

Idle == [phase |-> "idle", frontier |-> << >>, visited |-> {}, edges |-> {}, pos |-> << >>,
         nodes |-> << >>, picked |-> << >>, budget |-> 0, late |-> FALSE]
NoLane == [entry |-> [node |-> 0, depth |-> 0], from |-> FreshLane, at |-> FreshLane,
           hits |-> << >>, claims |-> FALSE, inCall |-> FALSE]

-----------------------------------------------------------------------------
(* Relations of member m that name node n, in provider order. *)
Ends(e) == query.graph[e[1]][e[2]]
Candidates(m, n) ==
  LET own == [i \in 1..Len(query.graph[m]) |-> <<m, i>>]
  IN  SelectSeq(own, LAMBDA e : n \in Range(Ends(e)))

(* A dataset fans out over all members; one repository is its own scope.   *)
LaneMembers == IF query.channel = "dataset" THEN Members ELSE {1}
InScope(n) == n \in Scope

(* normalize: the frontier of a token is sorted by reference, then depth.  *)
FrontierLess(a, b) == a.node < b.node \/ (a.node = b.node /\ a.depth < b.depth)
Normalize(fr) == SortSeq(fr, FrontierLess)

Position(fr, v, e, p) == [frontier |-> Normalize(fr), visited |-> v, edges |-> e, pos |-> p]

(* The lane continuation saved for a node; absent means from the start.    *)
LaneOf(p, n) == IF n \in DOMAIN p THEN p[n] ELSE FreshLane
Saved(p, n, l) == [k \in DOMAIN p \cup {n} |-> IF k = n THEN l ELSE p[k]]
Cleared(p, n) == [k \in DOMAIN p \ {n} |-> p[k]]
RewoundTo(p, n, l) == IF l = FreshLane THEN Cleared(p, n) ELSE Saved(p, n, l)

-----------------------------------------------------------------------------

(* Answered pages are told apart only up to two. *)
Counted(n) == IF n < 2 THEN n + 1 ELSE n

(* Execute: the page starts from the caller's token; a first page starts   *)
(* at Start (a start outside the scope is refused and nothing runs).       *)
Execute ==
  /\ run.phase = "idle" /\ ~got.over
  /\ InScope(Start)
  /\ LET first == token.frontier = << >> /\ token.visited = {}
     IN  run' = [Idle EXCEPT !.phase = "pop",
                   !.frontier = IF first THEN <<[node |-> Start, depth |-> 0]>> ELSE token.frontier,
                   !.visited = IF first THEN {Start} ELSE token.visited,
                   !.edges = token.edges, !.pos = token.pos, !.budget = PageBudget]
  /\ UNCHANGED <<query, token, lane, got, expired>>

(* pageDone and the end of the frontier: the answer, with or without a     *)
(* continuation.  A lost answer leaves the caller with its old token.      *)
Answer(fr, p, v, e, exhausted) ==
  /\ run' = Idle
  /\ lane' = NoLane
  /\ \/ /\ token' = IF exhausted THEN token ELSE Position(fr, v, e, p)
        /\ got' = [nodes |-> got.nodes \o run.nodes, edges |-> got.edges \o run.picked,
                   over |-> exhausted, pages |-> Counted(got.pages)]
     \/ UNCHANGED <<token, got>>

(* The request fails; the caller keeps its token and may try again.        *)
Fail(why) ==
  /\ run' = [Idle EXCEPT !.phase = why]
  /\ lane' = NoLane
  /\ UNCHANGED <<token, got>>

Retry ==
  /\ run.phase \in {"refused", "unavailable"}
  /\ run' = Idle
  /\ UNCHANGED <<query, token, lane, got, expired>>

(* The head of the outer loop: limit, edge budget, hop ceiling, next entry. *)
PageFull ==
  /\ run.phase = "pop" /\ run.frontier # << >>
  /\ Len(run.nodes) >= query.limit \/ Cardinality(run.edges) >= EdgeBudget
  /\ Answer(run.frontier, run.pos, run.visited, run.edges, FALSE)
  /\ UNCHANGED <<query, expired>>

Expandable ==
  /\ run.phase = "pop" /\ run.frontier # << >>
  /\ Len(run.nodes) < query.limit /\ Cardinality(run.edges) < EdgeBudget

(* The first entry at the ceiling ends the closure. *)
Exhaust ==
  /\ run.phase = "pop"
  /\ run.frontier = << >> \/ (Expandable /\ Head(run.frontier).depth >= query.hops)
  /\ Answer(<< >>, run.pos, run.visited, run.edges, TRUE)
  /\ UNCHANGED <<query, expired>>

Expand ==
  /\ Expandable
  /\ Head(run.frontier).depth < query.hops
  /\ LET entry == Head(run.frontier)
         from  == LaneOf(run.pos, entry.node)
     IN  lane' = [NoLane EXCEPT !.entry = entry, !.from = from, !.at = from]
  /\ run' = [run EXCEPT !.phase = "lane", !.frontier = Tail(@)]
  /\ UNCHANGED <<query, token, got, expired>>

-----------------------------------------------------------------------------
(* The relation lane: DatasetRelationsExecutor over RelationsAtContext.    *)

Pending(at) == LaneMembers \ at.done
Member(at) == CHOOSE m \in Pending(at) : \A k \in Pending(at) : m <= k

(* A call of the next member: it needs a live deadline to prepare its plan *)
(* and a position it can decode.                                           *)
CallMember ==
  /\ run.phase = "lane" /\ ~lane.inCall
  /\ Pending(lane.at) # {} /\ Len(lane.hits) < LanePage
  /\ ~run.late /\ lane.at.pos[Member(lane.at)] # Unusable
  /\ lane' = [lane EXCEPT !.inCall = TRUE]
  /\ UNCHANGED <<query, token, run, got, expired>>

CallFails ==
  /\ run.phase = "lane" /\ ~lane.inCall
  /\ Pending(lane.at) # {} /\ Len(lane.hits) < LanePage
  /\ \/ run.late /\ Fail("unavailable")
     \/ ~run.late /\ lane.at.pos[Member(lane.at)] = Unusable /\ Fail("refused")
  /\ UNCHANGED <<query, expired>>

(* budgetStop: the continuation names the position before this provider    *)
(* page, "" when the member has not been read at all.                      *)
StopAt(pos) == IF pos = 0 THEN Unusable ELSE pos

BudgetStop ==
  /\ run.phase = "lane" /\ lane.inCall
  /\ run.budget = 0 \/ run.late
  /\ LET m == Member(lane.at)
     IN  lane' = [lane EXCEPT !.at.pos[m] = StopAt(@), !.claims = TRUE, !.inCall = FALSE]
  /\ run' = [run EXCEPT !.phase = "hits"]
  /\ UNCHANGED <<query, token, got, expired>>

(* One provider page: a full page is never the last one.  Candidates the   *)
(* dataset does not contain are dropped, and the member is read on until   *)
(* the lane page is full or the member is exhausted.                       *)
ProviderPage ==
  /\ run.phase = "lane" /\ lane.inCall
  /\ run.budget > 0 /\ ~run.late
  /\ LET m     == Member(lane.at)
         size  == LanePage - Len(lane.hits)
         all   == Candidates(m, lane.entry.node)
         page  == SubSeq(all, lane.at.pos[m] + 1,
                         IF lane.at.pos[m] + size < Len(all) THEN lane.at.pos[m] + size ELSE Len(all))
         last  == Len(page) < size
         hits  == lane.hits \o SelectSeq(page, LAMBDA e : e \notin Hidden)
         at    == IF last THEN [lane.at EXCEPT !.done = @ \cup {m}, !.pos[m] = 0]
                  ELSE [lane.at EXCEPT !.pos[m] = @ + Len(page)]
     IN  /\ lane' = [lane EXCEPT !.hits = hits, !.at = at, !.inCall = ~last /\ Len(hits) < LanePage]
         /\ run' = [run EXCEPT !.budget = @ - 1,
                      !.phase = IF Pending(at) = {} \/ Len(hits) >= LanePage THEN "hits" ELSE "lane"]
  /\ UNCHANGED <<query, token, got, expired>>

(* The deadline of the execution scope passes. *)
Expire ==
  /\ run.phase = "lane" /\ ~run.late /\ expired < MaxExpire
  /\ run' = [run EXCEPT !.late = TRUE]
  /\ expired' = expired + 1
  /\ UNCHANGED <<query, token, lane, got>>

-----------------------------------------------------------------------------
(* The hits of one lane page, in order.  An edge is selected once; its     *)
(* other endpoints inside the scope that nobody visited become nodes and   *)
(* join the frontier.                                                      *)
Fresh(e) ==
  LET others == SelectSeq(Ends(e), LAMBDA n : n # lane.entry.node /\ InScope(n) /\ n \notin run.visited)
      First(i) == \A j \in 1..(i - 1) : others[j] # others[i]
  IN  SelectSeq([i \in 1..Len(others) |-> IF First(i) THEN others[i] ELSE 0], LAMBDA n : n # 0)

ConsumeSeen ==
  /\ run.phase = "hits" /\ lane.hits # << >>
  /\ Head(lane.hits) \in run.edges
  /\ lane' = [lane EXCEPT !.hits = Tail(@)]
  /\ UNCHANGED <<query, token, run, got, expired>>

(* The entry counts as expanded although its lane page was cut. *)
LimitHitDropsEntry(fr, v, e, nodes, picked) ==
  /\ run' = Idle
  /\ lane' = NoLane
  /\ \/ /\ token' = Position(fr, v, e, Cleared(run.pos, lane.entry.node))
        /\ got' = [nodes |-> got.nodes \o nodes, edges |-> got.edges \o picked,
                   over |-> FALSE, pages |-> Counted(got.pages)]
     \/ UNCHANGED <<token, got>>

(* The limit reached inside a lane page rewinds the lane to the start of   *)
(* the page and puts the entry back in front; seen edges are skipped when  *)
(* the page is read again.                                                 *)
LimitHit(fr, v, e, nodes, picked) ==
  /\ run' = Idle
  /\ lane' = NoLane
  /\ \/ /\ token' = Position(<<lane.entry>> \o fr, v, e,
                             RewoundTo(run.pos, lane.entry.node, lane.from))
        /\ got' = [nodes |-> got.nodes \o nodes, edges |-> got.edges \o picked,
                   over |-> FALSE, pages |-> Counted(got.pages)]
     \/ UNCHANGED <<token, got>>

ConsumeNew ==
  /\ run.phase = "hits" /\ lane.hits # << >>
  /\ Head(lane.hits) \notin run.edges
  /\ LET edge   == Head(lane.hits)
         fresh  == Fresh(edge)
         depth  == lane.entry.depth + 1
         found  == [i \in 1..Len(fresh) |-> [node |-> fresh[i], depth |-> depth]]
         fr     == run.frontier \o found
         v      == run.visited \cup Range(fresh)
         e      == run.edges \cup {edge}
         nodes  == IF depth >= query.min THEN run.nodes \o found ELSE run.nodes
         picked == Append(run.picked, edge)
     IN  IF Len(nodes) >= query.limit
           THEN LimitHit(fr, v, e, nodes, picked)
           ELSE /\ run' = [run EXCEPT !.frontier = fr, !.visited = v, !.edges = e,
                                      !.nodes = nodes, !.picked = picked]
                /\ lane' = [lane EXCEPT !.hits = Tail(@)]
                /\ UNCHANGED <<token, got>>
  /\ UNCHANGED <<query, expired>>

(* The end of a lane page: the edge budget, the end of the lane, a stop    *)
(* that made no progress, or the next lane page.                           *)
LaneDone == run.phase = "hits" /\ lane.hits = << >>
LaneExhausted == Pending(lane.at) = {}

EdgesSpent ==
  /\ LaneDone /\ Cardinality(run.edges) >= EdgeBudget
  /\ IF LaneExhausted
       THEN Answer(run.frontier, Cleared(run.pos, lane.entry.node), run.visited, run.edges, FALSE)
       ELSE Answer(<<lane.entry>> \o run.frontier, Saved(run.pos, lane.entry.node, lane.at),
                   run.visited, run.edges, FALSE)
  /\ UNCHANGED <<query, expired>>

EntryExpanded ==
  /\ LaneDone /\ Cardinality(run.edges) < EdgeBudget /\ LaneExhausted
  /\ run' = [run EXCEPT !.phase = "pop", !.pos = Cleared(@, lane.entry.node)]
  /\ lane' = NoLane
  /\ UNCHANGED <<query, token, got, expired>>

LaneStalled ==
  /\ LaneDone /\ Cardinality(run.edges) < EdgeBudget /\ ~LaneExhausted
  /\ lane.at = lane.from
  /\ lane.claims    \* a lane that stalls without a claim cannot happen
  /\ Answer(<<lane.entry>> \o run.frontier, run.pos, run.visited, run.edges, FALSE)
  /\ UNCHANGED <<query, expired>>

(* One repository: every lane call has an execution scope of its own.      *)
NextLanePage ==
  /\ LaneDone /\ Cardinality(run.edges) < EdgeBudget /\ ~LaneExhausted
  /\ lane.at # lane.from
  /\ lane' = [NoLane EXCEPT !.entry = lane.entry, !.from = lane.at, !.at = lane.at]
  /\ run' = [run EXCEPT !.phase = "lane", !.pos = Saved(@, lane.entry.node, lane.at),
               !.budget = IF query.channel = "dataset" THEN @ ELSE PageBudget,
               !.late = query.channel = "dataset" /\ @]
  /\ UNCHANGED <<query, token, got, expired>>

-----------------------------------------------------------------------------
Init ==
  /\ query \in [graph : Graphs, hops : Hops, min : MinHops, channel : {"dataset", "repository"}, limit : Limits]
  /\ token = NoToken
  /\ run = Idle
  /\ lane = NoLane
  /\ got = [nodes |-> << >>, edges |-> << >>, over |-> FALSE, pages |-> 0]
  /\ expired = 0

Next ==
  \/ Execute \/ Retry
  \/ PageFull \/ Exhaust \/ Expand
  \/ CallMember \/ CallFails \/ BudgetStop \/ ProviderPage \/ Expire
  \/ ConsumeSeen \/ ConsumeNew
  \/ EdgesSpent \/ EntryExpanded \/ LaneStalled \/ NextLanePage

Spec == Init /\ [][Next]_vars

-----------------------------------------------------------------------------
(* The reference closure, by distance. *)
Stored == UNION {{<<m, i>> : i \in 1..Len(query.graph[m])} : m \in LaneMembers} \ Hidden
Near(S) == S \cup {n \in Scope : \E e \in Stored : n \in Range(Ends(e)) /\ Range(Ends(e)) \cap S # {}}
Within[d \in 0..Cardinality(Nodes)] == IF d = 0 THEN {Start} ELSE Near(Within[d - 1])
Ceiling == IF query.hops < Cardinality(Nodes) THEN query.hops ELSE Cardinality(Nodes)
Closure == Within[Ceiling] \ {Start}
ClosureEdges == {e \in Stored : Range(Ends(e)) \cap Within[Ceiling - 1] # {}}

Wanted == IF query.min < 2 THEN Closure ELSE Closure \ Within[query.min - 1]
Returned == {got.nodes[i].node : i \in 1..Len(got.nodes)}

(* No node and no edge is returned twice across the continuation sequence, *)
(* whatever was rewound, stopped by a budget, refused or lost on the way:  *)
(* the visited and edge sets of the token make the re-scan of a lane page  *)
(* idempotent.                                                             *)
PagesDisjoint ==
  LET all == got.nodes \o run.nodes
      edg == got.edges \o run.picked
  IN  /\ \A i, j \in 1..Len(all) : i # j => all[i].node # all[j].node
      /\ \A i, j \in 1..Len(edg) : i # j => edg[i] # edg[j]

(* What is returned belongs to the closure, and an exhausted traversal has *)
(* returned all of it - nodes at their distance and every edge - when it   *)
(* was answered in one page or the hop ceiling did not bind.               *)
ClosureExact ==
  /\ Returned \subseteq Closure
  /\ Range(got.edges) \subseteq ClosureEdges
  /\ got.over /\ (got.pages = 1 \/ (query.hops >= Cardinality(Nodes) /\ query.min < 2)) =>
       /\ Returned = Wanted
       /\ Range(got.edges) = ClosureEdges
  /\ got.over /\ got.pages = 1 =>
       \A i \in 1..Len(got.nodes) : got.nodes[i].node \notin Within[got.nodes[i].depth - 1]

(* "Pages are disjoint: every node and edge is returned exactly once       *)
(* across the continuation sequence, and the union of pages is the         *)
(* closure."                                                               *)
UnionIsClosure == got.over => Returned = Wanted
=============================================================================
