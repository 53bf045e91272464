----------------------------- MODULE SearchPaging -----------------------------
(***************************************************************************)
(* Dataset search, page by page: the members of a dataset are searched in  *)
(* their own projections and merged in one order; the continuation token   *)
(* holds, per member, a provider position and an offset into the hits      *)
(* after it, never the hits.                                               *)
(*                                                                         *)
(* A member's projection returns candidates in an order that belongs to    *)
(* one generation of the index; a rebuild changes it.  Candidates outside  *)
(* the dataset or failing the residual predicate are dropped, so a page of *)
(* hits ends anywhere in the candidates, and the execution budget may end  *)
(* it earlier still.                                                       *)
(*                                                                         *)
(* A hit is the place of its candidate in the member's order (its local    *)
(* rank), together with the candidate.                                     *)
(***************************************************************************)
EXTENDS Integers, Sequences, FiniteSets, SequencesExt

CONSTANTS
  Members,       \* repositories of the dataset, naturals: their order is <
  StateMembers,  \* members answered from a State projection at a pinned revision
  Orders,        \* Orders[m][g]: candidates of member m in generation g, a sequence
  Kept,          \* candidates inside the dataset that satisfy the residual
  BatchSize,     \* workspaceSearchBatchSize (code: 16)
  Limits,        \* page limits a caller asks for
  MaxStops,      \* bound: times the execution budget runs out
  MaxRebuilds    \* bound: rebuilds of a member's projection

VARIABLES
  gen,      \* gen[m]: the active generation of m's projection
  run,      \* the request under way
  cur,      \* cur[m]: workspaceSearchCursor
  token,    \* the continuation the caller holds
  got,      \* ghost: the hits of the answered pages, and whether all is read
  faults    \* ghost: budget stops and rebuilds so far

vars == <<gen, run, cur, token, got, faults>>

Nil == -1     \* the empty continuation ""
None == 0     \* no generation is bound to a position yet

NoRun == [phase |-> "idle", limit |-> 1, view |-> [m \in Members |-> None], out |-> << >>]
NewCursor == [pos |-> 0, gen |-> None, off |-> 0, exh |-> FALSE, buf |-> << >>,
              bufGen |-> None, next |-> Nil, blocked |-> FALSE]
NoToken == [set |-> FALSE, view |-> [m \in Members |-> None], at |-> [m \in Members |-> NewCursor]]

-----------------------------------------------------------------------------
List(m) == Orders[m][gen[m]]
(* Hits after position p up to position e, in order. *)
HitsIn(m, p, e) == SelectSeq([i \in 1..(e - p) |-> p + i], LAMBDA r : List(m)[r] \in Kept)
(* Where a complete page of k hits after p ends. *)
PageEnd(m, p, k) ==
  CHOOSE e \in p..Len(List(m)) :
    /\ Len(HitsIn(m, p, e)) = k \/ e = Len(List(m))
    /\ \A d \in p..(e - 1) : Len(HitsIn(m, p, d)) < k

(* Every first probe asks for a whole batch. *)
BatchLimitWhole(c) == BatchSize

(* A first probe reserves the replayed offset plus one unread head; the    *)
(* refills of the merge take a whole batch.                                *)
BatchLimit(c) ==
  IF run.phase = "prime" THEN (IF c.off < BatchSize - 1 THEN c.off ELSE BatchSize - 1) + 1 ELSE BatchSize

(* A buffered page always has an unread head. *)
HasHead(c) == c.buf # << >>
Settled(c) == c.exh \/ c.blocked \/ HasHead(c)

-----------------------------------------------------------------------------
(* Execute: the view fixes the revision of the State members, and a token  *)
(* of another view is refused.                                             *)
View == [m \in Members |-> IF m \in StateMembers THEN gen[m] ELSE None]

Begin(limit) ==
  /\ run.phase = "idle" /\ ~got.over
  /\ token.set => token.view = View
  /\ run' = [phase |-> "prime", limit |-> limit, view |-> View, out |-> << >>]
  /\ cur' = token.at
  /\ UNCHANGED <<gen, token, got, faults>>

(* A refused request leaves the caller with a token that no longer works:  *)
(* the search starts again.                                                *)
Restart ==
  /\ run' = NoRun
  /\ cur' = [m \in Members |-> NewCursor]
  /\ token' = NoToken
  /\ got' = [hits |-> << >>, over |-> FALSE, same |-> TRUE]

BeginRefused ==
  /\ run.phase = "idle" /\ ~got.over
  /\ token.set /\ token.view # View
  /\ Restart
  /\ UNCHANGED <<gen, faults>>

(* A member page is only read from the generation its position belongs to. *)
Bound(m) ==
  /\ cur[m].gen # None => cur[m].gen = gen[m]
  /\ m \in StateMembers => run.view[m] = gen[m]

Reading(m) ==
  /\ run.phase \in {"prime", "merge"} /\ ~Settled(cur[m])
  /\ run.phase = "merge" => Len(run.out) < run.limit

(* What fillWorkspaceHead makes of a member page: the hits are buffered,   *)
(* or all of them lie before the offset and the cursor moves on.           *)
Filled(m, e, partial, last) ==
  LET c    == cur[m]
      hits == HitsIn(m, c.pos, e)
  IN  IF Len(hits) > c.off
        THEN [c EXCEPT !.buf = hits, !.bufGen = gen[m], !.next = IF last THEN Nil ELSE e]
      ELSE IF last THEN [c EXCEPT !.off = 0, !.exh = TRUE]
      ELSE [c EXCEPT !.off = @ - Len(hits), !.pos = e, !.gen = IF e = 0 THEN None ELSE gen[m],
                     !.blocked = partial]

End(m) == PageEnd(m, cur[m].pos, BatchLimit(cur[m]))
(* The hits after the position are fewer than the offset into them. *)
Short(m) == End(m) = Len(List(m)) /\ Len(HitsIn(m, cur[m].pos, End(m))) < cur[m].off

Fetch(m) ==
  /\ Reading(m) /\ Bound(m) /\ ~Short(m)
  /\ cur' = [cur EXCEPT ![m] = Filled(m, End(m), FALSE, End(m) = Len(List(m)))]
  /\ UNCHANGED <<gen, run, token, got, faults>>

(* The budget ends the member page after some of its provider pages. *)
FetchStopped(m) ==
  /\ Reading(m) /\ Bound(m)
  /\ faults.stops < MaxStops
  /\ \E e \in cur[m].pos..(End(m) - 1) : cur' = [cur EXCEPT ![m] = Filled(m, e, TRUE, FALSE)]
  /\ faults' = [faults EXCEPT !.stops = @ + 1]
  /\ UNCHANGED <<gen, run, token, got>>

(* The generation changed under the search, or the offset does not fit.    *)
FetchRefused(m) ==
  /\ Reading(m)
  /\ ~Bound(m) \/ Short(m)
  /\ Restart
  /\ UNCHANGED <<gen, faults>>

Primed ==
  /\ run.phase = "prime" /\ \A m \in Members : Settled(cur[m])
  /\ run' = [run EXCEPT !.phase = "merge"]
  /\ UNCHANGED <<gen, cur, token, got, faults>>

-----------------------------------------------------------------------------
(* mergePage: the best head in the order (local rank, repository). *)
Rank(m) == cur[m].buf[cur[m].off + 1]
HitLess(a, b) == Rank(a) < Rank(b) \/ (Rank(a) = Rank(b) /\ a < b)
Heads == {m \in Members : HasHead(cur[m])}
BestWorkspaceHead == CHOOSE m \in Heads : \A k \in Heads : m = k \/ HitLess(m, k)

UnknownHeadIgnored == FALSE

(* A partial member page hides the member's next hit. *)
UnknownHead == \E m \in Members : cur[m].blocked

(* The last hit of the buffered page moves the position past the page. *)
ConsumeHead(c) ==
  IF c.off + 1 < Len(c.buf) THEN [c EXCEPT !.off = @ + 1]
  ELSE [c EXCEPT !.pos = IF c.next = Nil THEN @ ELSE c.next, !.gen = c.bufGen, !.exh = c.next = Nil,
                 !.off = 0, !.buf = << >>]

Merging == run.phase = "merge" /\ \A m \in Members : ~Reading(m)

Admit ==
  /\ Merging /\ Len(run.out) < run.limit
  /\ ~UnknownHead /\ Heads # {}
  /\ LET m == BestWorkspaceHead
     IN  /\ run' = [run EXCEPT !.out = Append(@, [member |-> m, gen |-> cur[m].bufGen, rank |-> Rank(m)])]
         /\ cur' = [cur EXCEPT ![m] = ConsumeHead(@)]
  /\ UNCHANGED <<gen, token, got, faults>>

(* The deadline passes between two hits or while one is hydrated. *)
Deadline ==
  /\ Merging /\ Len(run.out) < run.limit /\ Heads # {}
  /\ faults.stops < MaxStops
  /\ faults' = [faults EXCEPT !.stops = @ + 1]
  /\ run' = [run EXCEPT !.phase = "finish"]
  /\ UNCHANGED <<gen, cur, token, got>>

PageDone ==
  /\ Merging /\ (Len(run.out) = run.limit \/ UnknownHead \/ Heads = {})
  /\ run' = [run EXCEPT !.phase = "finish"]
  /\ UNCHANGED <<gen, cur, token, got, faults>>

-----------------------------------------------------------------------------
(* finish: what the token keeps of a cursor, and whether an empty page     *)
(* moved anything that it keeps.                                           *)
Continuation(c) == [NewCursor EXCEPT !.pos = c.pos, !.gen = c.gen, !.off = c.off, !.exh = c.exh]
HasMore == \E m \in Members : ~cur[m].exh
MembersAdvanced ==
  \E m \in Members :
    /\ ~token.at[m].exh
    /\ cur[m].exh \/ cur[m].off < token.at[m].off \/ cur[m].pos # token.at[m].pos

(* The answer, or its loss: then the caller asks again with its old token. *)
Finish ==
  /\ run.phase = "finish"
  /\ ~(HasMore /\ run.out = << >> /\ ~MembersAdvanced)
  /\ \/ /\ token' = [set |-> TRUE, view |-> run.view, at |-> [m \in Members |-> Continuation(cur[m])]]
        /\ got' = [got EXCEPT !.hits = @ \o run.out, !.over = ~HasMore]
     \/ UNCHANGED <<token, got>>
  /\ run' = NoRun
  /\ cur' = [m \in Members |-> NewCursor]
  /\ UNCHANGED <<gen, faults>>

NoProgress ==
  /\ run.phase = "finish"
  /\ HasMore /\ run.out = << >> /\ ~MembersAdvanced
  /\ run' = NoRun
  /\ cur' = [m \in Members |-> NewCursor]
  /\ UNCHANGED <<gen, token, got, faults>>

(* A member's projection is rebuilt or its State refreshed at the same     *)
(* commit: another generation with an order of its own.                    *)
Rebuild(m) ==
  /\ faults.rebuilds < MaxRebuilds
  /\ \E g \in DOMAIN Orders[m] \ {gen[m]} : gen' = [gen EXCEPT ![m] = g]
  /\ got' = [got EXCEPT !.same = @ /\ ~token.set /\ run.phase = "idle"]
  /\ faults' = [faults EXCEPT !.rebuilds = @ + 1]
  /\ UNCHANGED <<run, cur, token>>

-----------------------------------------------------------------------------
Init ==
  /\ gen = [m \in Members |-> 1]
  /\ run = NoRun
  /\ cur = [m \in Members |-> NewCursor]
  /\ token = NoToken
  /\ got = [hits |-> << >>, over |-> FALSE, same |-> TRUE]
  /\ faults = [stops |-> 0, rebuilds |-> 0]

Next ==
  \/ \E limit \in Limits : Begin(limit)
  \/ BeginRefused \/ Primed \/ Admit \/ Deadline \/ PageDone \/ Finish \/ NoProgress
  \/ \E m \in Members : Fetch(m) \/ FetchStopped(m) \/ FetchRefused(m) \/ Rebuild(m)

Spec == Init /\ [][Next]_vars

-----------------------------------------------------------------------------
(* Reference: a member's hits in one generation, and the dataset's order.  *)
Returned == got.hits \o run.out
Of(m) == SelectSeq(Returned, LAMBDA h : h.member = m)
AllHits(m, g) ==
  LET ranks == SelectSeq([i \in 1..Len(Orders[m][g]) |-> i], LAMBDA r : Orders[m][g][r] \in Kept)
  IN  [i \in 1..Len(ranks) |-> [member |-> m, gen |-> g, rank |-> ranks[i]]]
Merged ==
  SetToSortSeq(UNION {Range(AllHits(m, gen[m])) : m \in Members},
               LAMBDA a, b : a.rank < b.rank \/ (a.rank = b.rank /\ a.member < b.member))

(* Whatever pages, budgets, lost answers and rebuilds did in between, the  *)
(* hits of a member over the whole continuation sequence are the first     *)
(* hits of ONE generation, none lost and none repeated, and a search that  *)
(* ends has returned all of them: an offset is never applied to another    *)
(* order than the one it was counted in.                                   *)
MembersFaithful ==
  \A m \in Members :
    \E g \in DOMAIN Orders[m] :
      /\ IsPrefix(Of(m), AllHits(m, g))
      /\ got.over => Of(m) = AllHits(m, g)

(* While no projection was replaced, the pages concatenated are a prefix   *)
(* of the members' hits merged by rank and repository: a member whose next *)
(* hit is unknown stops the page instead of being overtaken.               *)
PagesInOrder == got.same => IsPrefix(Returned, Merged)
=============================================================================
