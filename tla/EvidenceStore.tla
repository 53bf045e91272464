---------------------------- MODULE EvidenceStore ----------------------------
(***************************************************************************)
(* The evidence files of a deployment.  Every stream is a directory with   *)
(* one file per UTC day; each call opens a store of its own and no lock is *)
(* held.  A call first moves what an older release left in the single file *)
(* of the stream, then drops the days behind the hot window, and then      *)
(* appends one line or reads all files.  Feedback is joined with the       *)
(* refinement it labels when training samples are asked for.               *)
(***************************************************************************)
EXTENDS Naturals, Sequences, FiniteSets

CONSTANTS
    Callers,      \* the processes that open the store
    Auditor,      \* the caller that walks pages or asks for samples
    EventIds,     \* ids of new events; they are random, hence in no order of time
    Inherited,    \* the access events an older release left behind
    Refinement,   \* the refine event that feedback labels
    Labelled,     \* the feedback it has at first
    Cap,          \* the lines a stream may hold before appends are refused
    PageLimit,
    DayTicks,     \* ticks of a day
    Retention,    \* ticks of the hot window, at least a day
    MaxNow,       \* bound: ticks
    MaxCrash      \* bound: calls that are killed or whose write is cut short

Streams == {"access", "refine", "feedback"}

Labels == {"none", "answered", "accepted"}

Event == [id : Nat, stream : Streams, at : Nat, label : Labels]

(* An older release gave each event an id of its own; a refinement comes   *)
(* before its feedback.                                                    *)
ASSUME EvidenceAssumption ==
    /\ IsFiniteSet(Callers) /\ Auditor \in Callers /\ Callers # {Auditor} /\ EventIds \subseteq Nat
    /\ {Cap, Retention, MaxNow, MaxCrash} \subseteq Nat /\ {DayTicks, PageLimit} \subseteq Nat \ {0}
    /\ IsFiniteSet(Inherited) /\ IsFiniteSet(Labelled)
    /\ Inherited \cup Labelled \cup {Refinement} \subseteq Event
    /\ \A e \in Inherited : e.stream = "access" /\ \A f \in Inherited : e.id = f.id => e = f
    /\ Refinement.stream = "refine" /\ Refinement.at <= 1
    /\ \A e \in Labelled : e.stream = "feedback" /\ e.at >= Refinement.at
    /\ Cardinality(Labelled) <= Cap

VARIABLES
    now, crashes,
    topic,        \* what is recorded and read: "access" events or "feedback"
    legacy,       \* the events in the file of the older release
    lines,        \* the lines of the day files: events with the number of their copy
    spoiled,      \* <<stream, day>> of the files with a line that was cut short
    pc, calls, carry,
    moves,        \* migrations that began
    acked,        \* the events whose append was acknowledged, and the inherited ones
    walk,         \* the pages of the auditor, newest first
    owed,         \* the events acknowledged before the walk or the samples began
    verdict       \* the training label of the last samples: "none", "weak", "accepted"

evidenceVars ==
    <<now, crashes, topic, legacy, lines, spoiled, pc, calls, carry, moves, acked, walk, owed, verdict>>

Day(at) == at \div DayTicks

Monus(m, n) == IF m > n THEN m - n ELSE 0

HotSince == Monus(now, Retention)

CutoffDay == Day(HotSince)

EventOf(line) == [id |-> line.id, stream |-> line.stream, at |-> line.at, label |-> line.label]

Line(e, copy) == [id |-> e.id, stream |-> e.stream, at |-> e.at, label |-> e.label, copy |-> copy]

NoCall == [kind |-> "none"]

EvidenceInit ==
    /\ now = 1 /\ crashes = 0 /\ topic \in {"access", "feedback"}
    /\ legacy = IF topic = "access" THEN Inherited ELSE {}
    /\ lines = IF topic = "access" THEN {} ELSE {Line(e, 0) : e \in {Refinement} \cup Labelled}
    /\ spoiled = {}
    /\ pc = [c \in Callers |-> "idle"] /\ calls = [c \in Callers |-> NoCall]
    /\ carry = [c \in Callers |-> {}]
    /\ moves = 0 /\ acked = legacy \cup {EventOf(l) : l \in lines}
    /\ walk = <<>> /\ owed = {} /\ verdict = "none"

To(c, step) == pc' = [pc EXCEPT ![c] = step]

Tick == now < MaxNow /\ now' = now + 1
        /\ UNCHANGED <<crashes, topic, legacy, lines, spoiled, pc, calls, carry, moves, acked, walk, owed,
                       verdict>>

----------------------------------------------------------------------------
(* A call begins. *)

Taken == {e.id : e \in acked} \cup {l.id : l \in lines}
           \cup {calls[c].event.id : c \in {d \in Callers : calls[d].kind = "record"}}

Fresh == EventIds \ Taken

\* RecordAccessReceipt, or VerbRecordFeedback once its refinement was found: the
\* time of the event is taken before anything else is done.
RecordEvent(c) ==
    /\ c # Auditor /\ pc[c] = "idle"
    /\ topic = "feedback" => \E l \in lines : l.stream = "refine" /\ <<"refine", Day(l.at)>> \notin spoiled
    /\ calls[Auditor].kind \notin {"done", "failed"}
    /\ \E id \in Fresh, label \in IF topic = "access" THEN {"none"} ELSE {"answered", "accepted"} :
         calls' = [calls EXCEPT ![c] = [kind |-> "record",
                                  event |-> [id |-> id, stream |-> topic, at |-> now, label |-> label]]]
    /\ To(c, "migrate")
    /\ UNCHANGED <<now, crashes, topic, legacy, lines, spoiled, carry, moves, acked, walk, owed, verdict>>

\* AccessLog pages for the auditor: the first call has no continuation.
AskPage ==
    /\ topic = "access" /\ pc[Auditor] = "idle"
    /\ calls[Auditor] = NoCall \/ calls[Auditor].kind = "page"
    /\ calls' = [calls EXCEPT ![Auditor] = [kind |-> "page"]]
    /\ owed' = IF calls[Auditor] = NoCall THEN acked ELSE owed
    /\ To(Auditor, "migrate")
    /\ UNCHANGED <<now, crashes, topic, legacy, lines, spoiled, carry, moves, acked, walk, verdict>>

AskSamples ==
    /\ topic = "feedback" /\ pc[Auditor] = "idle" /\ calls[Auditor] = NoCall
    /\ calls' = [calls EXCEPT ![Auditor] = [kind |-> "samples", refines |-> {}]]
    /\ owed' = {e \in acked : e.stream = "feedback"}
    /\ To(Auditor, "migrate")
    /\ UNCHANGED <<now, crashes, topic, legacy, lines, spoiled, carry, moves, acked, walk, verdict>>

----------------------------------------------------------------------------
(* migrateLegacy, then Prune: the prologue of every call.  The old file    *)
(* never grows again, so that a call that finds it empty goes on at once.  *)

StreamOf(c) == CASE calls[c].kind = "record" -> calls[c].event.stream
                 [] calls[c].kind = "page"   -> "access"
                 [] OTHER                 -> "refine"

NothingToMove(c) == StreamOf(c) # "access" \/ legacy = {}

Migrate(c) ==
    /\ pc[c] = "migrate" /\ ~NothingToMove(c)
    /\ carry' = [carry EXCEPT ![c] = legacy] /\ moves' = moves + 1 /\ To(c, "moving")
    /\ UNCHANGED <<now, crashes, topic, legacy, lines, spoiled, calls, acked, walk, owed, verdict>>

Copies(e) == {l \in lines : EventOf(l) = e}

Move(c) ==
    /\ pc[c] = "moving"
    /\ IF carry[c] = {}
       THEN legacy' = {} /\ To(c, "prune") /\ UNCHANGED <<lines, carry>>
       ELSE LET e == CHOOSE f \in carry[c] : \A g \in carry[c] : f.id <= g.id
            IN  /\ lines' = lines \cup {Line(e, Cardinality(Copies(e)))}
                /\ carry' = [carry EXCEPT ![c] = @ \ {e}]
                /\ UNCHANGED <<legacy, pc>>
    /\ UNCHANGED <<now, crashes, topic, spoiled, calls, moves, acked, walk, owed, verdict>>

Dropped(days) ==
    /\ lines' = {l \in lines : Day(l.at) \notin days}
    /\ spoiled' = {f \in spoiled : f[2] \notin days}

\* Mutant: the day the window begins in is dropped as well.
PruneCutoffDay(c) ==
    /\ pc[c] = "prune" \/ (pc[c] = "migrate" /\ NothingToMove(c))
    /\ Dropped(IF now > Retention THEN 0 .. CutoffDay ELSE {})
    /\ To(c, IF calls[c].kind = "record" THEN "quota" ELSE "read")
    /\ UNCHANGED <<now, crashes, topic, legacy, calls, carry, moves, acked, walk, owed, verdict>>

Prune(c) ==
    /\ pc[c] = "prune" \/ (pc[c] = "migrate" /\ NothingToMove(c))
    /\ Dropped({d \in 0 .. Day(MaxNow) : d < CutoffDay})
    /\ To(c, IF calls[c].kind = "record" THEN "quota" ELSE "read")
    /\ UNCHANGED <<now, crashes, topic, legacy, calls, carry, moves, acked, walk, owed, verdict>>

----------------------------------------------------------------------------
(* The append.  The file system may refuse it, cut the line short, or take *)
(* the line and then fail to flush it.                                     *)

StreamBytes(stream) ==
    Cardinality({l \in lines : l.stream = stream}) + IF stream = "access" THEN Cardinality(legacy) ELSE 0

Leave(c) == To(c, "idle") /\ calls' = [calls EXCEPT ![c] = NoCall] /\ carry' = [carry EXCEPT ![c] = {}]

EnforceQuota(c) ==
    /\ pc[c] = "quota"
    /\ IF StreamBytes(StreamOf(c)) >= Cap
       THEN Leave(c)
       ELSE \/ To(c, "append") /\ UNCHANGED <<calls, carry>>
            \/ Leave(c)    \* the disk is above its watermark
    /\ UNCHANGED <<now, crashes, topic, legacy, lines, spoiled, moves, acked, walk, owed, verdict>>

AppendEvent(c) ==
    LET e == calls[c].event IN
    /\ pc[c] = "append" /\ Leave(c)
    /\ \/ lines' = lines \cup {Line(e, 0)} /\ acked' = acked \cup {e} /\ UNCHANGED <<spoiled, crashes>>
       \/ /\ crashes < MaxCrash /\ crashes' = crashes + 1 /\ UNCHANGED acked
          /\ \/ lines' = lines \cup {Line(e, 0)} /\ UNCHANGED spoiled
             \/ spoiled' = spoiled \cup {<<e.stream, Day(e.at)>>} /\ UNCHANGED lines
    /\ UNCHANGED <<now, topic, legacy, moves, walk, owed, verdict>>

\* A process dies between two steps of a call.
Crash(c) ==
    /\ crashes < MaxCrash /\ crashes' = crashes + 1
    /\ pc[c] \in {"moving", "append"} /\ c # Auditor /\ Leave(c)
    /\ UNCHANGED <<now, topic, legacy, lines, spoiled, moves, acked, walk, owed, verdict>>

----------------------------------------------------------------------------
(* Reads.  A file with a broken line fails every read that includes it.    *)

Readable(stream, since) == \A f \in spoiled : f[1] = stream => f[2] < Day(since)

Older(e, f) == e.at < f.at \/ (e.at = f.at /\ e.id < f.id)

\* A line is before another; the copies of an event are neighbours.
LineOlder(k, l) == Older(k, l) \/ (EventOf(k) = EventOf(l) /\ k.copy < l.copy)

\* encodeAccessCursor: the continuation names the first entry of its page.
Oldest(page) == CHOOSE l \in page : \A m \in page : l = m \/ LineOlder(l, m)

\* What is left of the query behind the continuation of the page before.
Matched ==
    {l \in lines : /\ l.stream = "access" /\ l.at >= HotSince
                   /\ (walk # <<>> => Older(l, Oldest(walk[Len(walk)])))}

\* The newest entries, in the order of time.
Newest(found) == {l \in found : Cardinality({m \in found : LineOlder(l, m)}) < PageLimit}

Access ==
    /\ pc[Auditor] = "read" /\ calls[Auditor].kind = "page"
    /\ IF ~Readable("access", HotSince)
       THEN calls' = [calls EXCEPT ![Auditor] = [kind |-> "failed"]] /\ UNCHANGED walk
       ELSE /\ walk' = IF Matched = {} THEN walk ELSE Append(walk, Newest(Matched))
            /\ calls' = [calls EXCEPT ![Auditor] =
                           [kind |-> IF Cardinality(Matched) > PageLimit THEN "page" ELSE "done"]]
    /\ To(Auditor, "idle")
    /\ UNCHANGED <<now, crashes, topic, legacy, lines, spoiled, carry, moves, acked, owed, verdict>>

\* The samples read the refinements first and their feedback in a second call of
\* the prologue.
Refine ==
    /\ pc[Auditor] = "read" /\ calls[Auditor].kind = "samples"
    /\ IF ~Readable("refine", 0)
       THEN calls' = [calls EXCEPT ![Auditor] = [kind |-> "failed"]] /\ To(Auditor, "idle")
       ELSE /\ calls' = [calls EXCEPT ![Auditor] =
                           [kind |-> "labels", refines |-> {l \in lines : l.stream = "refine"}]]
            /\ To(Auditor, "migrate")
    /\ UNCHANGED <<now, crashes, topic, legacy, lines, spoiled, carry, moves, acked, walk, owed, verdict>>

\* classifyTrainingLabels: with two answers it is not known which one was accepted.
Strength(labels) ==
    LET answers == Cardinality({l \in labels : l.label = "answered"})
    IN  IF answers = 1 /\ \E l \in labels : l.label = "accepted" THEN "accepted"
        ELSE IF answers > 0 THEN "weak" ELSE "none"

RerankTrainingSamples ==
    /\ pc[Auditor] = "read" /\ calls[Auditor].kind = "labels"
    /\ verdict' = IF Readable("feedback", 0) /\ calls[Auditor].refines # {}
                  THEN Strength({l \in lines : l.stream = "feedback"}) ELSE "none"
    /\ calls' = [calls EXCEPT ![Auditor] = [kind |-> "done"]]
    /\ To(Auditor, "idle")
    /\ UNCHANGED <<now, crashes, topic, legacy, lines, spoiled, carry, moves, acked, walk, owed>>

EvidenceNext ==
    \/ Tick \/ AskPage \/ AskSamples \/ Access \/ Refine \/ RerankTrainingSamples
    \/ \E c \in Callers : \/ RecordEvent(c) \/ Migrate(c) \/ Move(c) \/ Prune(c)
                         \/ EnforceQuota(c) \/ AppendEvent(c) \/ Crash(c)

EvidenceSpec == EvidenceInit /\ [][EvidenceNext]_evidenceVars

----------------------------------------------------------------------------
Retained(e) == Day(e.at) >= CutoffDay

\* What was acknowledged stays until its day leaves the hot window, whatever
\* migrates, prunes or dies meanwhile.
Kept == \A e \in acked : Retained(e) => e \in legacy \/ Copies(e) # {}

\* No event is stored twice, except the inherited ones when a migration was cut
\* off or overlapped another: once for each.
Once == \A l \in lines : l.copy = 0 \/ (EventOf(l) \in Inherited /\ l.copy < moves)

\* What the calls recorded overshoots the cap by no more than the calls that
\* checked it at one time; the inherited lines are not measured when they move.
Bounded ==
    Cardinality({l \in lines : l.stream = topic /\ EventOf(l) \notin Inherited})
      <= Cap + Cardinality(Callers \ {Auditor}) - 1

Shown(e) == \E i \in DOMAIN walk : \E l \in walk[i] : EventOf(l) = e

\* A walk that ends has shown each event that was acknowledged before it began
\* and is still in the window, on one page only, and from the newest to the oldest.
WalkComplete ==
    /\ calls[Auditor].kind = "done" /\ topic = "access" => \A e \in owed : e.at >= HotSince => Shown(e)
    /\ \A i, j \in DOMAIN walk : i < j => \A k \in walk[i], l \in walk[j] : Older(l, k)

\* A sample that is offered for training had one answer only, as long as the
\* refinement itself has not left the window before the call ended.
SampleSound ==
    verdict = "accepted" /\ Retained(Refinement) =>
      Cardinality({e \in owed : e.label = "answered"}) <= 1

\* Acknowledged evidence stays for the hot window, once, below the cap; a walk over
\* its pages shows all of it; a training sample is unambiguous (FileStore).
EvidenceExact == Kept /\ Once /\ Bounded /\ WalkComplete /\ SampleSound
=============================================================================
