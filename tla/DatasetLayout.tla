----------------------------- MODULE DatasetLayout -----------------------------
(***************************************************************************)
(* The file layout of a Dataset (snapshot/dataset: mount.go, dataset.go,   *)
(* overlay.go, virtual.go): which source delivers a path of the composed   *)
(* tree and where a path is written back.                                  *)
(*                                                                         *)
(* A path is the sequence of its components; "." stands for the components *)
(* path.Clean removes ("a//b", "./a").  ".." is only rejected at the start *)
(* of a path, as validateRelativeTreePath does after cleaning.  The state  *)
(* is a definition a caller builds one entry at a time, and a local        *)
(* overlay on it; every reachable state is one input.                      *)
(***************************************************************************)
EXTENDS Naturals, Sequences, SequencesExt

CONSTANTS
    Repos,       \* member repositories
    Paths,       \* paths as callers spell them
    Mounts,      \* entries a recipe may hold: mounts ...
    Files,       \* ... and per-file deliveries
    MaxSources,  \* bound on the entries of a definition
    MaxOverlay   \* bound on the entries of an overlay

VARIABLES
    sources,     \* the entries of the definition
    overlay,     \* the entries of the local overlay on it
    removed      \* repositories the overlay removes

vars == <<sources, overlay, removed>>

NoPath == <<"-">>   \* Path == nil: no mount declared

MountOf(repo, selector, path, sub) ==
    [kind |-> "mount", repo |-> repo, selector |-> selector, path |-> path, sub |-> sub,
     file |-> <<>>, target |-> <<>>]

FileOf(repo, selector, file, target) ==
    [kind |-> "file", repo |-> repo, selector |-> selector, path |-> NoPath, sub |-> <<>>,
     file |-> file, target |-> target]

\* NormalizeMountPath: path.Clean of the trimmed path.
Clean(p) == SelectSeq(p, LAMBDA c : c # ".")

\* strings.HasPrefix(b, a+"/"): b lies strictly below a.
Below(a, b) == IsStrictPrefix(a, b)

\* validateRelativeTreePath.
Portable(p, allowRoot) == IF Clean(p) = <<>> THEN allowRoot ELSE Clean(p)[1] # ".."

Is(srcs, kind) == {i \in DOMAIN srcs : srcs[i].kind = kind}

\* validateMountPaths: mounts are declared on every mount entry or on none, are
\* distinct, and do not nest except under the root.
ValidateMountPaths(srcs) ==
    LET mounts == Is(srcs, "mount")
        declared == {i \in mounts : srcs[i].path # NoPath}
        norm(i) == Clean(srcs[i].path)
    IN /\ \A i \in declared : Portable(srcs[i].path, TRUE) /\ Portable(srcs[i].sub, TRUE)
       /\ \A i \in mounts \ declared : srcs[i].sub = <<>>
       /\ declared # {} => declared = mounts
       /\ \A i, j \in declared :
              i # j => norm(i) # norm(j) /\ (norm(i) # <<>> => ~Below(norm(i), norm(j)))

\* Mutant: the repository paths of two mounts may overlap.
CoordinatesOverlapping(srcs) ==
    \A i, j \in DOMAIN srcs :
        i < j /\ srcs[i].repo = srcs[j].repo =>
            /\ srcs[i].selector = srcs[j].selector
            /\ srcs[i].kind = "mount" /\ srcs[j].kind = "mount" => srcs[i].path # NoPath /\ srcs[j].path # NoPath

\* validateSourceCoordinates: one selector (and so one commit) per repository, and
\* the subtrees it is mounted from are disjoint.
ValidateSourceCoordinates(srcs) ==
    \A i, j \in DOMAIN srcs :
        i < j /\ srcs[i].repo = srcs[j].repo =>
            /\ srcs[i].selector = srcs[j].selector
            /\ srcs[i].kind = "mount" /\ srcs[j].kind = "mount" =>
                   LET a == Clean(srcs[i].sub)  b == Clean(srcs[j].sub)
                   IN /\ srcs[i].path # NoPath /\ srcs[j].path # NoPath
                      /\ ~IsPrefix(a, b) /\ ~IsPrefix(b, a)

\* datasetItemFromSource: an entry without a mount is delivered under its
\* repository id (here the component with the repository's name).
Item(src) ==
    IF src.kind = "file"
    THEN [kind |-> "file", repo |-> src.repo, target |-> Clean(src.target), at |-> Clean(src.file)]
    ELSE [kind |-> "prefix", repo |-> src.repo, at |-> Clean(src.sub),
          target |-> IF src.path = NoPath THEN <<src.repo>> \o Clean(src.sub) ELSE Clean(src.path)]

Items(srcs) == {Item(srcs[i]) : i \in DOMAIN srcs}

\* validateDeliveredTargets: a delivered file is no directory.
ValidateDeliveredTargets(items) ==
    \A f, o \in items :
        f.kind = "file" =>
            IF o.kind = "file" THEN ~Below(f.target, o.target)
            ELSE f.target # o.target /\ ~Below(f.target, o.target)

\* datasetItemsFromSources accepts the entries.
ValidItems(srcs) ==
    /\ \A i \in Is(srcs, "file") : Portable(srcs[i].file, FALSE) /\ Portable(srcs[i].target, FALSE)
    /\ \A i, j \in DOMAIN srcs : i # j => Item(srcs[i]).target # Item(srcs[j]).target
    /\ ValidateDeliveredTargets(Items(srcs))

\* What PrepareKnowledgeSet and ResolveDefinitionOverlay accept.
Valid(srcs) == srcs # <<>> /\ ValidateMountPaths(srcs) /\ ValidateSourceCoordinates(srcs) /\ ValidItems(srcs)

---------------------------------------------------------------------------
NoRoute == [repo |-> "none", path |-> <<>>]

\* RouteMount: the longest declared mount that owns the path, the root as the
\* fallback.  joinSubPath takes the subPath as spelled.
RouteMount(srcs, p) ==
    LET clean == Clean(p)
        mounts == {i \in Is(srcs, "mount") : srcs[i].path # NoPath /\ IsPrefix(Clean(srcs[i].path), clean)}
    IN IF clean = <<>> \/ mounts = {} THEN NoRoute
       ELSE LET best == CHOOSE i \in mounts : \A j \in mounts : Len(Clean(srcs[i].path)) >= Len(Clean(srcs[j].path))
            IN [repo |-> srcs[best].repo,
                path |-> srcs[best].sub \o SubSeq(clean, Len(Clean(srcs[best].path)) + 1, Len(clean))]

\* datasetItemCovers and DatasetPathAllowed: the published file list.
DatasetPathAllowed(items, repo, p) ==
    \E it \in items :
        it.repo = repo /\ IF it.kind = "file" THEN p = it.at ELSE IsPrefix(it.at, p)

\* NewDatasetDeliveredTree: the directories that exist because files lie below
\* them; Find, FilesIn and DirsIn answer from it.
Dirs(items) == UNION {{SubSeq(f.target, 1, n) : n \in 1 .. Len(f.target) - 1} : f \in {i \in items : i.kind = "file"}}

Find(items, p) == {f \in items : f.kind = "file" /\ f.target = Clean(p)}

FilesIn(items, dir) == {f \in items : f.kind = "file" /\ Front(f.target) = Clean(dir)}

DirsIn(items, dir) == {d[Len(Clean(dir)) + 1] : d \in {x \in Dirs(items) : Below(Clean(dir), x)}}

---------------------------------------------------------------------------
\* MergeOverlay: removed repositories drop out, an overlay mount replaces the one
\* at the same path and an overlay file the one at the same target.
Kept(srcs, gone) == SelectSeq(srcs, LAMBDA s : s.repo \notin gone)

SameSlot(s, o) ==
    /\ s.kind = o.kind
    /\ IF s.kind = "file" THEN Clean(s.target) = Clean(o.target) ELSE Clean(s.path) = Clean(o.path)

PutEntry(srcs, o) ==
    LET slots == {i \in DOMAIN srcs : SameSlot(srcs[i], o)}
    IN IF slots = {} THEN Append(srcs, o) ELSE [srcs EXCEPT ![CHOOSE i \in slots : TRUE] = o]

\* Overlay mounts are merged before overlay files; files of a removed
\* repository are skipped, its mounts are not.
Merged ==
    LET mounts == SelectSeq(overlay, LAMBDA o : o.kind = "mount")
        files == SelectSeq(overlay, LAMBDA o : o.kind = "file" /\ o.repo \notin removed)
    IN FoldLeft(PutEntry, Kept(sources, removed), mounts \o files)

MergeOverlayAccepts ==
    LET slotTwice(kind) ==
            \E i, j \in Is(overlay, kind) :
                /\ i # j /\ SameSlot(overlay[i], overlay[j])
                /\ kind = "file" => overlay[i].repo \notin removed /\ overlay[j].repo \notin removed
    IN /\ removed \subseteq {sources[i].repo : i \in DOMAIN sources}
       /\ ~slotTwice("mount") /\ ~slotTwice("file")
       /\ \A i \in Is(sources, "mount") : sources[i].repo \in removed \/ sources[i].path # NoPath
       /\ Merged # <<>> /\ ValidateMountPaths(Merged) /\ ValidateSourceCoordinates(Merged)

---------------------------------------------------------------------------
Init == sources = <<>> /\ overlay = <<>> /\ removed = {}

\* WorkspaceSourcesFrom, FileSourcesFrom and ParseKnowledgeSetRecipe build a list
\* of entries; nothing is checked yet.
AddSource ==
    /\ Len(sources) < MaxSources /\ overlay = <<>> /\ removed = {}
    /\ \E s \in Mounts \cup Files : sources' = Append(sources, s)
    /\ UNCHANGED <<overlay, removed>>

\* ParseKnowledgeSetOverlay; overlays are put on definitions that were accepted.
AddOverlay ==
    /\ Valid(sources)
    /\ \/ /\ Len(overlay) < MaxOverlay
          /\ \E s \in {m \in Mounts : m.path # NoPath} \cup Files : overlay' = Append(overlay, s)
          /\ UNCHANGED removed
       \/ /\ removed = {} /\ \E r \in Repos : removed' = {r}
          /\ UNCHANGED overlay
    /\ UNCHANGED sources

Next == AddSource \/ AddOverlay

Spec == Init /\ [][Next]_vars

---------------------------------------------------------------------------
\* The effective entries: the definition, or the definition under its overlay.
Accepted == IF overlay = <<>> /\ removed = {} THEN IF Valid(sources) THEN sources ELSE <<>>
            ELSE IF MergeOverlayAccepts /\ ValidItems(Merged) THEN Merged ELSE <<>>

CleanSubPaths(srcs) == \A i \in DOMAIN srcs : Clean(srcs[i].sub) = srcs[i].sub

\* "A path belongs to exactly one mount" and a write has one place: no two paths
\* of the composed tree are written back to one path of one repository, and the
\* place a path is written back to is in the published file list.  The second
\* half needs subPaths spelled clean: joinSubPath, unlike the file list, keeps
\* "a//b" as it is.
RoutesFaithful ==
    LET srcs == Accepted
        route(p) == RouteMount(srcs, p)
    IN /\ \A p, q \in Paths :
              Clean(p) # Clean(q) /\ route(p) # NoRoute => route(p) # route(q)
       /\ CleanSubPaths(srcs) =>
              \A p \in Paths : route(p) # NoRoute =>
                  DatasetPathAllowed(Items(srcs), route(p).repo, route(p).path)

\* The delivered tree is a tree: no path is both a file and a directory, no path
\* is delivered by two file entries, and every delivered file is listed in its
\* directory, which is listed in its own.
TreeConsistent ==
    LET items == Items(Accepted)
    IN \A f \in {i \in items : i.kind = "file"} :
          /\ Find(items, f.target) = {f}
          /\ f.target \notin Dirs(items)
          /\ f \in FilesIn(items, Front(f.target))
          /\ Len(f.target) > 1 => Last(Front(f.target)) \in DirsIn(items, Front(Front(f.target)))

=============================================================================
