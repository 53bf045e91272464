----------------------------- MODULE MCWriting -----------------------------
(***************************************************************************)
(* The path of a write in one run: typed requests in one process, the      *)
(* directories clients commit, the command ledger, the Writer over it,     *)
(* publication on lakeFS, governance, and the integration runtime that     *)
(* writes on its own.  They are independent models; the initial state      *)
(* picks the part that moves and the others stand still.                   *)
(***************************************************************************)
EXTENDS CommandLog, LakeFSPublish, Governance, IntegrationRun, Requests, DesiredCommit, TLC

CONSTANTS x, y   \* two callers, two proposals, two runners

Twins == {x, y}

Sym == Permutations(Twins)

VARIABLES part,
    wmem, wdb, wop, wpruning, wfaults, wcommits, wpublished, wlive, wacks, intent,
    sbranch, slock, sparent, sarchived, spub, sfaults, sacked, sstolen

\* Writers whose answers may be lost between authority and ledger.
Writer == INSTANCE WriterCommit WITH
    Commands <- {1, 2}, Explicit <- {2}, Payloads <- {1}, Digests <- {1} \X (0 .. 2),
    Callers <- Twins, MaxCommits <- 2, MaxFaults <- 1, AmbiguousApply <- TRUE,
    mem <- wmem, db <- wdb, op <- wop, pruning <- wpruning, faults <- wfaults,
    commits <- wcommits, published <- wpublished, live <- wlive, acks <- wacks

\* Publishers one at a time (lockTypedInvocation); those of several processes,
\* which contend, are the module's own.
Serial == INSTANCE LakeFSPublish WITH
    Serialized <- TRUE, MaxCandidates <- 5, MaxPublishFaults <- 3,
    branch <- sbranch, lock <- slock, parent <- sparent, archived <- sarchived, pub <- spub,
    publishFaults <- sfaults, acked <- sacked, stolen <- sstolen

writerVars == <<wmem, wdb, wop, wpruning, wfaults, wcommits, wpublished, wlive, wacks, intent>>
serialVars == <<sbranch, slock, sparent, sarchived, spub, sfaults, sacked, sstolen>>

MCInit ==
    /\ Init /\ Writer!WInit /\ Serial!PublishInit /\ PublishInit /\ ControlInit /\ IntegrationInit
    /\ RequestInit /\ DesiredInit
    /\ part \in {"ledger", "writer", "serial", "contest", "control", "integration", "requests", "desired"}
    /\ part # "requests" => mode = "fixture"

MCNext ==
    /\ UNCHANGED part
    /\ \/ part = "ledger" /\ Next /\ UNCHANGED <<writerVars, serialVars, publishVars, controlVars, integrationVars, requestVars, desiredVars>>
       \/ part = "writer" /\ Writer!WNext /\ UNCHANGED <<vars, serialVars, publishVars, controlVars, integrationVars, requestVars, desiredVars>>
       \/ part = "serial" /\ Serial!PublishNext /\ UNCHANGED <<vars, writerVars, publishVars, controlVars, integrationVars, requestVars, desiredVars>>
       \/ part = "contest" /\ PublishNext /\ UNCHANGED <<vars, writerVars, serialVars, controlVars, integrationVars, requestVars, desiredVars>>
       \/ part = "control" /\ ControlNext /\ UNCHANGED <<vars, writerVars, serialVars, publishVars, integrationVars, requestVars, desiredVars>>
       \/ part = "integration" /\ IntegrationNext
            /\ UNCHANGED <<vars, writerVars, serialVars, publishVars, controlVars, requestVars, desiredVars>>
       \/ part = "requests" /\ RequestNext
            /\ UNCHANGED <<vars, writerVars, serialVars, publishVars, controlVars, integrationVars, desiredVars>>
       \/ part = "desired" /\ DesiredNext
            /\ UNCHANGED <<vars, writerVars, serialVars, publishVars, controlVars, integrationVars, requestVars>>

MCSpec ==
    MCInit /\ [][MCNext]_<<vars, writerVars, serialVars, publishVars, controlVars, integrationVars, requestVars, desiredVars,
                              part>>

\* No request is published twice, and no commit replaces a head its author did
\* not expect (Writer.Commit, Ledger.Execute, applySnapshot).
CommitExact == part = "writer" => Writer!CommitExact

\* Serialised publication implements the compare-and-swap ref (publishBranch).
SerializedRef == Serial!RefSpec
=============================================================================
