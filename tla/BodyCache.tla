------------------------------ MODULE BodyCache ------------------------------
(***************************************************************************)
(* retrieval/cache: the bounded cache of Snapshot bodies.  ReadMany and    *)
(* ReadAddress take the epoch, look every identity up under the mutex,     *)
(* read the misses from the authority without it and put what came back;   *)
(* Warm refreshes the repository's hot identities at a new commit, or one  *)
(* page of identities when nothing is retained, and remembers an empty     *)
(* result with a marker.  Clear and Close start a new epoch.               *)
(*                                                                         *)
(* A body is a function of its key, so an entry is its key: repository,    *)
(* commit and unit, a unit being an object or an address.                  *)
(***************************************************************************)
EXTENDS Integers, Sequences, SequencesExt

CONSTANTS Calls,        \* concurrent callers
          Bases,        \* <<repository, commit>>
          Units,        \* objects and addresses
          Present,      \* the keys the authority has
          Weight,       \* accounted bytes of a unit's body
          MarkerWeight, \* accounted bytes of a warm marker
          MaxBytes, MaxEntries, WarmLimit, WarmBatchSize,
          MaxEpoch      \* Clear and Close together

VARIABLES lru,          \* resident keys, most recently used first
          filled,       \* ghost: the epoch in which the read of each resident key began
          markers,      \* bases whose cold start found nothing to keep
          bytes, epoch, closed,
          calls

vars == <<lru, filled, markers, bytes, epoch, closed, calls>>

Key(r, c, u) == [repo |-> r, commit |-> c, unit |-> u]
Keys == {Key(b[1], b[2], u) : b \in Bases, u \in Units}
Idle == [pc |-> "idle", warm |-> FALSE, repo |-> 0, commit |-> 0, epoch |-> 0, todo |-> <<>>,
         ids |-> <<>>, misses |-> <<>>, cold |-> FALSE]

Init ==
    /\ lru = <<>> /\ filled = [k \in Keys |-> 0] /\ markers = <<>>
    /\ bytes = 0 /\ epoch = 0 /\ closed = FALSE
    /\ calls = [x \in Calls |-> Idle]

Resident(k) == k \in ToSet(lru)
ToFront(seq, e) == <<e>> \o Remove(seq, e)
Basis(x) == <<calls[x].repo, calls[x].commit>>
Stale(x) == closed \/ epoch # calls[x].epoch

-------------------------------------------------------------------------------
(* Reads.                                                                  *)

ReadMany(x, r, c, us) ==
    /\ calls[x].pc = "idle"
    /\ calls' = [calls EXCEPT ![x] = [Idle EXCEPT !.pc = "get", !.repo = r, !.commit = c, !.epoch = epoch, !.ids = us]]
    /\ UNCHANGED <<lru, filled, markers, bytes, epoch, closed>>

(* Where a call goes when the batch at hand is done.                       *)
Done(call) == IF call.warm THEN [call EXCEPT !.pc = "batch"] ELSE Idle

Get(x) ==
    LET call == calls[x]
        k == Key(call.repo, call.commit, Head(call.ids))
        hit == Resident(k) /\ ~closed
    IN /\ call.pc = "get" /\ call.ids # <<>>
       /\ lru' = IF hit THEN ToFront(lru, k) ELSE lru
       /\ calls' = [calls EXCEPT ![x].ids = Tail(@),
                                 ![x].misses = IF hit THEN @ ELSE Append(@, k.unit)]
       /\ UNCHANGED <<filled, markers, bytes, epoch, closed>>

(* The authority answers with the misses it has, or the call fails.        *)
Source(x) ==
    LET call == calls[x]
        loaded == SelectSeq(call.misses, LAMBDA u : Key(call.repo, call.commit, u) \in Present)
    IN /\ call.pc = "get" /\ call.ids = <<>>
       /\ \/ calls' = [calls EXCEPT ![x] = IF loaded = <<>> THEN Done(call)
                                           ELSE [call EXCEPT !.pc = "encode", !.misses = loaded]]
          \/ call.misses # <<>> /\ calls' = [calls EXCEPT ![x] = Idle]
       /\ UNCHANGED <<lru, filled, markers, bytes, epoch, closed>>

NextPut(call) ==
    IF Len(call.misses) = 1 THEN Done([call EXCEPT !.misses = <<>>])
    ELSE [call EXCEPT !.pc = "encode", !.misses = Tail(@)]

(* put weighs the body outside the mutex.                                  *)
Encode(x) ==
    LET call == calls[x]
    IN /\ call.pc = "encode"
       /\ calls' = [calls EXCEPT ![x] = IF Stale(x) \/ Weight[Head(call.misses)] > MaxBytes THEN NextPut(call)
                                        ELSE [call EXCEPT !.pc = "put"]]
       /\ UNCHANGED <<lru, filled, markers, bytes, epoch, closed>>

WeightOf(seq) == FoldSeq(LAMBDA k, sum : sum + Weight[k.unit], 0, seq)

(* The fewest markers, then the fewest bodies, from the back.              *)
Fewest(S) == CHOOSE n \in S : \A m \in S : n <= m
MarkersOut(w) == Fewest({n \in 0 .. Len(markers) : n = Len(markers) \/ bytes - n * MarkerWeight + w <= MaxBytes})
Rear(seq, n) == SubSeq(seq, Len(seq) - n + 1, Len(seq))
BodiesOut(left, w) ==
    Fewest({n \in 0 .. Len(lru) :
        \/ n = Len(lru)
        \/ Len(lru) - n < MaxEntries /\ left - WeightOf(Rear(lru, n)) + w <= MaxBytes})

\* Mutant: the epoch is only looked at before the body is weighed.
PutUnchecked(x) ==
    LET call == calls[x]
        k == Key(call.repo, call.commit, Head(call.misses))
        w == Weight[k.unit]
    IN /\ call.pc = "put"
       /\ calls' = [calls EXCEPT ![x] = NextPut(call)]
       /\ UNCHANGED <<epoch, closed>>
       /\ IF Resident(k) THEN UNCHANGED <<lru, filled, markers, bytes>>
          ELSE LET left == bytes - MarkersOut(w) * MarkerWeight
                   out == BodiesOut(left, w)
               IN /\ markers' = SubSeq(markers, 1, Len(markers) - MarkersOut(w))
                  /\ lru' = <<k>> \o SubSeq(lru, 1, Len(lru) - out)
                  /\ bytes' = left - WeightOf(Rear(lru, out)) + w
                  /\ filled' = [filled EXCEPT ![k] = call.epoch]

\* Mutant: another caller may have put the same body meanwhile.
PutAgain(x) ==
    LET call == calls[x]
        k == Key(call.repo, call.commit, Head(call.misses))
        w == Weight[k.unit]
        left == bytes - MarkersOut(w) * MarkerWeight
        out == BodiesOut(left, w)
    IN /\ call.pc = "put"
       /\ calls' = [calls EXCEPT ![x] = NextPut(call)]
       /\ UNCHANGED <<epoch, closed>>
       /\ IF Stale(x) THEN UNCHANGED <<lru, filled, markers, bytes>>
          ELSE /\ markers' = SubSeq(markers, 1, Len(markers) - MarkersOut(w))
               /\ lru' = <<k>> \o SubSeq(lru, 1, Len(lru) - out)
               /\ bytes' = left - WeightOf(Rear(lru, out)) + w
               /\ filled' = [filled EXCEPT ![k] = call.epoch]

Put(x) ==
    LET call == calls[x]
        k == Key(call.repo, call.commit, Head(call.misses))
        w == Weight[k.unit]
        left == bytes - MarkersOut(w) * MarkerWeight
        out == BodiesOut(left, w)
    IN /\ call.pc = "put"
       /\ calls' = [calls EXCEPT ![x] = NextPut(call)]
       /\ UNCHANGED <<epoch, closed>>
       /\ \/ Stale(x) /\ UNCHANGED <<lru, filled, markers, bytes>>
          \/ /\ ~Stale(x) /\ Resident(k)
             /\ lru' = ToFront(lru, k)
             /\ UNCHANGED <<filled, markers, bytes>>
          \/ /\ ~Stale(x) /\ ~Resident(k)
             /\ markers' = SubSeq(markers, 1, Len(markers) - MarkersOut(w))
             /\ lru' = <<k>> \o SubSeq(lru, 1, Len(lru) - out)
             /\ bytes' = left - WeightOf(Rear(lru, out)) + w
             /\ filled' = [filled EXCEPT ![k] = call.epoch]

-------------------------------------------------------------------------------
(* Warm.                                                                   *)

Upto(seq, n) == SubSeq(seq, 1, IF n <= Len(seq) THEN n ELSE Len(seq))

(* Distinct retained units of a repository, hottest first.                 *)
Hot(r) ==
    LET units == [i \in 1 .. Len(lru) |-> lru[i].unit]
        own == {i \in 1 .. Len(lru) : lru[i].repo = r /\ \A j \in 1 .. i - 1 : lru[j].repo = r => units[j] # units[i]}
        seq == SetToSortSeq(own, <)
    IN Upto([n \in 1 .. Len(seq) |-> units[seq[n]]], WarmLimit)

Page(r, c) ==
    Upto(SetToSeq({u \in Units : Key(r, c, u) \in Present}), WarmLimit)

Batches(us) ==
    [n \in 1 .. (Len(us) + WarmBatchSize - 1) \div WarmBatchSize |->
        Upto(SubSeq(us, (n - 1) * WarmBatchSize + 1, Len(us)), WarmBatchSize)]

Warm(x, r, c) ==
    LET cold == Hot(r) = <<>> /\ <<r, c>> \notin ToSet(markers)
        us == IF cold THEN Page(r, c) ELSE Hot(r)
    IN /\ calls[x].pc = "idle" /\ \A y \in Calls : ~calls[y].warm
       /\ ~closed
       /\ us # <<>> \/ cold
       /\ calls' = [calls EXCEPT ![x] = [Idle EXCEPT !.pc = "batch", !.warm = TRUE, !.repo = r, !.commit = c,
                                                     !.epoch = epoch, !.todo = Batches(us), !.cold = cold]]
       /\ UNCHANGED <<lru, filled, markers, bytes, epoch, closed>>

NextBatch(x) ==
    LET call == calls[x]
    IN /\ call.pc = "batch" /\ call.todo # <<>>
       /\ calls' = [calls EXCEPT ![x] = IF Stale(x) THEN Idle
                                        ELSE [call EXCEPT !.pc = "get", !.todo = Tail(@), !.ids = Head(call.todo), !.misses = <<>>]]
       /\ UNCHANGED <<lru, filled, markers, bytes, epoch, closed>>

(* The context ends between two authority calls, or the page fails.        *)
Cancel(x) ==
    /\ calls[x].pc = "batch"
    /\ calls' = [calls EXCEPT ![x] = Idle]
    /\ UNCHANGED <<lru, filled, markers, bytes, epoch, closed>>

(* A marker is for a basis that left nothing resident.                     *)
Marks(x) ==
    /\ ~Stale(x) /\ calls[x].cold
    /\ \A k \in ToSet(lru) : k.repo # calls[x].repo

Mark(x) ==
    LET out == Fewest({n \in 0 .. Len(markers) :
                  n = Len(markers) \/ (Len(markers) - n < MaxEntries /\ bytes - n * MarkerWeight + MarkerWeight <= MaxBytes)})
        left == bytes - out * MarkerWeight
        kept == SubSeq(markers, 1, Len(markers) - out)
    IN /\ calls[x].pc = "batch" /\ calls[x].todo = <<>>
       /\ calls' = [calls EXCEPT ![x] = Idle]
       /\ IF ~Marks(x) THEN UNCHANGED <<markers, bytes>>
          ELSE IF Basis(x) \in ToSet(markers)
          THEN markers' = ToFront(markers, Basis(x)) /\ UNCHANGED bytes
          ELSE LET fits == left + MarkerWeight <= MaxBytes
               IN /\ markers' = IF fits THEN <<Basis(x)>> \o kept ELSE kept
                  /\ bytes' = IF fits THEN left + MarkerWeight ELSE left
       /\ UNCHANGED <<lru, filled, epoch, closed>>

-------------------------------------------------------------------------------

Clear ==
    /\ epoch < MaxEpoch
    /\ epoch' = epoch + 1
    /\ lru' = <<>> /\ markers' = <<>> /\ bytes' = 0
    /\ UNCHANGED <<filled, closed, calls>>

Close ==
    /\ epoch < MaxEpoch
    /\ epoch' = epoch + 1 /\ closed' = TRUE
    /\ lru' = <<>> /\ markers' = <<>> /\ bytes' = 0
    /\ UNCHANGED <<filled, calls>>

Next ==
    \/ Clear \/ Close
    \/ \E x \in Calls :
          \/ Get(x) \/ Source(x) \/ Encode(x) \/ Put(x) \/ NextBatch(x) \/ Cancel(x) \/ Mark(x)
          \/ \E b \in Bases : Warm(x, b[1], b[2])
          \/ \E b \in Bases, u \in Units : ReadMany(x, b[1], b[2], <<u>>)

Spec == Init /\ [][Next]_vars

-------------------------------------------------------------------------------
(* The accounted bytes are those of what is retained and stay within the   *)
(* bounds, whatever order reads, warm runs, evictions and Clear take       *)
(* (put, evict, markWarm, evictMarker, clear).                             *)
Accounted ==
    /\ bytes = WeightOf(lru) + Len(markers) * MarkerWeight
    /\ bytes <= MaxBytes /\ Len(lru) <= MaxEntries /\ Len(markers) <= MaxEntries
    /\ IsInjective(lru) /\ IsInjective(markers)

(* A request that was under way when Clear or Close ran puts nothing back: *)
(* every retained body was asked for in the current epoch, and a closed    *)
(* cache retains nothing.                                                  *)
StaysCleared ==
    /\ \A k \in ToSet(lru) : filled[k] = epoch
    /\ closed => lru = <<>> /\ markers = <<>>
===============================================================================
