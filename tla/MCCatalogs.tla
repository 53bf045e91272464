----------------------------- MODULE MCCatalogs -----------------------------
(***************************************************************************)
(* What a deployment serves and to whom, in one run: the registry of       *)
(* datasets, the composed tree of a dataset and its clone through the file *)
(* gateway, access rules and identities, external connections, sessions of *)
(* the client, and the evidence that is kept of all this.  The models are  *)
(* independent: the initial state picks the part that moves.               *)
(***************************************************************************)
EXTENDS DatasetCatalog, AccessPolicy, ClientSession, Connections, EvidenceStore, TLC

CONSTANTS x, y   \* two servers, two repositories to connect, two commands

Twins == {x, y}

Symmetry == Permutations(Twins)

(* Every name has a file of its own.                                       *)
MCToken == [i \in 1 .. 2 |-> i]

VARIABLES part,
    sources, overlay, removed,
    release, readable, changes, stack, reading, disk, status

(* Every coordinate a rule or a request can leave open.                    *)
At(repo, catalog, dataset) == [repo |-> repo, catalog |-> catalog, dataset |-> dataset]

MCMatches ==
    "*" :> {"file.read", "knowledge.read", "dataset.resolve", "catalog.read",
            "admin.grants.manage", "repository.shares.manage"}
    @@ "repository.*" :> {"repository.shares.manage"}
    @@ "admin.*" :> {"admin.grants.manage"} @@ "file.read" :> {"file.read"}

Root0(who, acts, scope, narrowed) ==
    [id |-> 0, who |-> who, acts |-> acts, scope |-> scope, part |-> narrowed, by |-> "*"]

MCRoots ==
    {Root0("ann", {"admin.*"}, At("*", "c", "d"), "*"),
     Root0("gitea:1", {"*"}, At("r", "*", "*"), "*"),
     Root0("bob", {"file.read"}, At("s", "*", "*"), "x")}

MCFirstName == <<"ann", "bob">>

MCLegacy == <<"gitea:1", "gitea:2">>

MCPublic == [r \in {"r", "s"} |-> {}]

MCAllocations == {[repo |-> "r", acct |-> 2]}

(* Entries that overlap, nest, repeat, leave the tree or are spelled oddly. *)
Entry(kind, repo, selector, path, sub, file, target) ==
    [kind |-> kind, repo |-> repo, selector |-> selector, path |-> path, sub |-> sub,
     file |-> file, target |-> target]

Spelled == {<<>>, <<"a">>, <<"a", ".", "b">>, <<"b">>, <<"..", "a">>}

MountEntries ==
    {Entry("mount", r, "main", p, s, <<>>, <<>>) :
        r \in {"r", "t"}, p \in Spelled \cup {<<"-">>}, s \in {<<>>, <<"a">>, <<"a", ".", "b">>}}
    \cup {Entry("mount", "r", "next", <<"b">>, <<"b">>, <<>>, <<>>)}

FileEntries ==
    {Entry("file", r, "main", <<"-">>, <<>>, <<"a">>, t) : r \in {"r", "t"}, t \in Spelled}
    \cup {Entry("file", "r", "main", <<"-">>, <<>>, <<>>, <<"b">>)}

Layout == INSTANCE DatasetLayout WITH
    Repos <- {"r", "t"}, Mounts <- MountEntries, Files <- FileEntries,
    Paths <- {<<"a">>, <<"b">>, <<"a", "a">>, <<"a", "b">>, <<"a", ".", "b">>, <<"a", "b", "a">>},
    MaxSources <- 2, MaxOverlay <- 1

Saved(server, principal, expired) ==
    [server |-> server, principal |-> principal, expired |-> expired]

MCOldTokens == {Saved("none", "none", FALSE), Saved("s", "ann", TRUE)}

MCOldLocals == {Saved("none", "none", FALSE), Saved("t", "bob", FALSE)}

(* Member r has an empty file; lakeFS member t lists a missing directory.   *)
Blob(path, size) == [path |-> path, size |-> size]

Trees == "r" :> {Blob(<<1>>, 2), Blob(<<2>>, 0), Blob(<<3, 1>>, 1), Blob(<<3, 2>>, 1)}
      @@ "t" :> {Blob(<<1>>, 2), Blob(<<2, 1>>, 1), Blob(<<3>>, 1)}

Mounted(path, repo, sub) == [kind |-> "mount", path |-> path, repo |-> repo, at |-> sub]

Placed(path, repo, file) == [kind |-> "file", path |-> path, repo |-> repo, at |-> file]

(* Mounts side by side and nested, entries beside a mount, in conflict with *)
(* it, where it has a directory, and below a directory it does not have.   *)
MCReleases ==
    { {Mounted(<<1>>, "r", <<>>)},
      {Mounted(<<1>>, "r", <<>>), Mounted(<<2>>, "t", <<>>)},
      {Mounted(<<>>, "r", <<>>), Mounted(<<3>>, "t", <<2>>)},
      {Mounted(<<>>, "r", <<>>), Placed(<<1>>, "t", <<3>>)},
      {Mounted(<<1, 2>>, "r", <<3>>), Placed(<<1, 3>>, "t", <<1>>), Placed(<<1, 2, 3>>, "t", <<3>>)},
      {Mounted(<<>>, "t", <<>>), Placed(<<3, 2>>, "r", <<3, 2>>)},
      {Mounted(<<>>, "t", <<>>), Placed(<<3>>, "r", <<3, 2>>)},
      {Mounted(<<>>, "t", <<>>), Placed(<<2, 2>>, "r", <<1>>)},
      {Mounted(<<1>>, "t", <<>>), Placed(<<1, 4, 1>>, "r", <<1>>)},
      {Placed(<<1>>, "r", <<1>>), Placed(<<2, 3>>, "t", <<1>>)} }

Delivery == INSTANCE DatasetFiles WITH
    Repos <- {"r", "t"}, Trees <- Trees, Empties <- {"t"}, Releases <- MCReleases,
    PageLimit <- 2, MaxChanges <- 2

(* Two recorders and an auditor; one inherited event, one label given.     *)
Recorded(id, stream, at, label) == [id |-> id, stream |-> stream, at |-> at, label |-> label]

MCInherited == {Recorded(2, "access", 0, "none")}

MCRefinement == Recorded(0, "refine", 0, "none")

MCLabelled == {Recorded(5, "feedback", 0, "answered")}

layoutVars == <<sources, overlay, removed>>
deliveryVars == <<release, readable, changes, stack, reading, disk, status>>

(* A client starts with any mode of the servers and any old files, a clone *)
(* with any release and any grants.                                        *)
MCInit ==
    /\ Init /\ PolicyInit /\ Layout!Init /\ ConnectionInit /\ SessionInit /\ Delivery!Init /\ EvidenceInit
    /\ part \in {"catalog", "policy", "layout", "connections", "sessions", "files", "evidence"}
    /\ part # "files" => release = {Mounted(<<1>>, "r", <<>>)} /\ readable = {}
    /\ part # "evidence" => topic = "access"
    /\ part # "sessions" =>
         mode = [s \in Endpoints |-> "local"] /\ oldToken.server = "none" /\ oldLocal.server = "none"

MCNext ==
    /\ UNCHANGED part
    /\ \/ /\ part = "catalog" /\ Next
          /\ UNCHANGED <<policyVars, layoutVars, connectionVars, sessionVars, deliveryVars, evidenceVars>>
       \/ /\ part = "policy" /\ PolicyNext
          /\ UNCHANGED <<vars, layoutVars, connectionVars, sessionVars, deliveryVars, evidenceVars>>
       \/ /\ part = "layout" /\ Layout!Next
          /\ UNCHANGED <<vars, policyVars, connectionVars, sessionVars, deliveryVars, evidenceVars>>
       \/ /\ part = "connections" /\ ConnectionNext
          /\ UNCHANGED <<vars, policyVars, layoutVars, sessionVars, deliveryVars, evidenceVars>>
       \/ /\ part = "sessions" /\ SessionNext
          /\ UNCHANGED <<vars, policyVars, layoutVars, connectionVars, deliveryVars, evidenceVars>>
       \/ /\ part = "files" /\ Delivery!Next
          /\ UNCHANGED <<vars, policyVars, layoutVars, connectionVars, sessionVars, evidenceVars>>
       \/ /\ part = "evidence" /\ EvidenceNext
          /\ UNCHANGED <<vars, policyVars, layoutVars, connectionVars, sessionVars, deliveryVars>>

MCSpec ==
    MCInit /\ [][MCNext]_<<vars, policyVars, layoutVars, connectionVars, sessionVars, deliveryVars, evidenceVars, part>>

\* No chain of grants and shares widens a scope, and nobody inherits a name
\* (Authorize, AuthorizeManagement; Bind, MigrateLegacyAlias).
PolicyHolds == part = "policy" => PolicySound

\* A path is written back to one place, which the dataset lists, and what a
\* dataset delivers is a tree (RouteMount, ValidateDeliveredTargets).  A clone takes
\* every file whole from the source that delivers it, and misses none of them
\* (cloneWalk, cloneFile, listDelivered, readDelivered).
FilesExact == /\ part = "layout" => Layout!RoutesFaithful /\ Layout!TreeConsistent
              /\ part = "files" => Delivery!CloneFaithful /\ Delivery!CloneComplete
=============================================================================
