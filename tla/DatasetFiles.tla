------------------------------ MODULE DatasetFiles ------------------------------
(***************************************************************************)
(* Reading a published Dataset as files: the File Gateway of the server    *)
(* (snapshot/service/file_view.go, file_http.go) and `kc dataset clone`    *)
(* (cli/dataset_clone.go), which walks the composed tree through it.       *)
(*                                                                         *)
(* A request of the gateway is one step: it rebuilds the view from the     *)
(* accepted release and from what the caller may read at that moment, so   *)
(* grants that come and go between two requests are seen by the walk.      *)
(* A component of a path is a natural number, which is also its place in   *)
(* the order of names; the size of a file is its number of chunks.         *)
(***************************************************************************)
EXTENDS Naturals, Sequences, FiniteSets, SequencesExt

CONSTANTS
    Repos,        \* member repositories
    Trees,        \* [Repos -> {files}], a file being [path, size]
    Empties,      \* repositories that list a missing directory as an empty one
    Releases,     \* sets of items a release may hold
    PageLimit,    \* entries of one page of a directory, at least one
    MaxChanges    \* bound on the changes of the grants

VARIABLES
    release,      \* the items of the release the clone is pinned to
    readable,     \* the repositories the caller may read now
    changes,      \* changes of the grants so far
    stack,        \* the directories of the walk, the innermost first
    reading,      \* the file that is being written
    disk,         \* the files below the target directory
    status        \* "new", "walking", "done" or "failed"

vars == <<release, readable, changes, stack, reading, disk, status>>

Mount(path, repo, sub) == [kind |-> "mount", path |-> path, repo |-> repo, at |-> sub]
File(path, repo, file) == [kind |-> "file", path |-> path, repo |-> repo, at |-> file]

Of(items, kind) == {i \in items : i.kind = kind}
Below(a, b) == IsStrictPrefix(a, b)

\* ReadFile of a repository at the pinned commit.
Stored(repo, p) == {f \in Trees[repo] : f.path = p}
IsDir(repo, dir) == dir = <<>> \/ \E f \in Trees[repo] : Below(dir, f.path)

\* The direct children of a directory: ReadDirectory of a repository.
Children(repo, dir) ==
    {[name |-> f.path[Len(dir) + 1], kind |-> IF Len(f.path) = Len(dir) + 1 THEN "file" ELSE "directory"] :
        f \in {g \in Trees[repo] : Below(dir, g.path)}}

---------------------------------------------------------------------------
\* OpenFiles: the items the caller may read now, under the fixed pin.
Visible == {i \in release : i.repo \in readable}

\* mountOwning: the longest visible mount that contains the path, the root as
\* the fallback.
Owning(items, p) ==
    LET owners == {m \in Of(items, "mount") : IsPrefix(m.path, p)}
    IN {m \in owners : \A n \in owners : Len(n.path) <= Len(m.path)}

\* RepositoryPath of the rest of a path below its mount.
Inside(m, p) == m.at \o SubSeq(p, Len(m.path) + 1, Len(p))

\* The continuation of a listing: the last name, and the directory it belongs to.
FirstPage == [name |-> 0, repo |-> "none", dir |-> <<>>]

Refused == [ok |-> FALSE, entries |-> {}, next |-> FirstPage]

\* ReadDirectory: the next entries by name.  A continuation is refused for
\* another directory, and by Gitea for another commit; only lakeFS has empty
\* directories.
Page(repo, dir, token) ==
    LET rest == {e \in Children(repo, dir) : e.name > token.name}
        taken == {e \in rest : Cardinality({o \in rest : o.name < e.name}) < PageLimit}
        last == CHOOSE e \in taken : \A o \in taken : o.name <= e.name
    IN IF \/ token # FirstPage /\ (token.dir # dir \/ (token.repo # repo /\ repo \notin Empties))
          \/ ~IsDir(repo, dir) /\ repo \notin Empties
       THEN Refused
       ELSE [ok |-> TRUE, entries |-> taken,
             next |-> IF taken = rest THEN FirstPage ELSE [name |-> last.name, repo |-> repo, dir |-> dir]]

\* listDeliveredMount: a page of the mount's directory; the per-file entries of
\* the directory are merged into the first one, where a shared name is a conflict.
ListMount(m, dir, token) ==
    LET page == Page(m.repo, Inside(m, dir), token)
        own == {Last(f.path) : f \in {g \in Of(Visible, "file") : Front(g.path) = dir}}
    IN IF ~page.ok \/ token # FirstPage THEN page
       ELSE IF \E e \in page.entries : e.name \in own THEN Refused
       ELSE [page EXCEPT !.entries = @ \cup {[name |-> n, kind |-> "file"] : n \in own}]

\* listDeliveredDerived: mounts and per-file entries below the directory, in one
\* page; a name of two kinds is a conflict.
ListDerived(dir) ==
    LET entry(i) == [name |-> i.path[Len(dir) + 1],
                     kind |-> IF i.kind = "file" /\ Len(i.path) = Len(dir) + 1 THEN "file" ELSE "directory"]
        entries == {entry(i) : i \in {j \in Visible : Below(dir, j.path)}}
    IN IF \E a, b \in entries : a.name = b.name /\ a # b THEN Refused
       ELSE [ok |-> TRUE, entries |-> entries, next |-> FirstPage]

\* listDelivered.
List(dir, token) ==
    IF Owning(Visible, dir) = {} THEN ListDerived(dir)
    ELSE ListMount(CHOOSE m \in Owning(Visible, dir) : TRUE, dir, token)

\* readDelivered, readDeliveredMount: the item that serves a path, {} when the
\* read is refused.  A per-file entry is served only where the mount that owns
\* the path has no file.
Served(p) ==
    LET entry == {f \in Of(Visible, "file") : f.path = p}
        stored(m) == Stored(m.repo, Inside(m, p)) # {}
    IN IF entry = {} THEN {m \in Owning(Visible, p) : stored(m)}
       ELSE IF \E m \in Owning(Visible, p) : stored(m) THEN {}
       ELSE {f \in entry : Stored(f.repo, f.at) # {}}

\* The repository and the file an item has at a path.
Source(i, p) == [repo |-> i.repo, file |-> IF i.kind = "file" THEN i.at ELSE Inside(i, p)]

Size(src) == (CHOOSE f \in Stored(src.repo, src.file) : TRUE).size

---------------------------------------------------------------------------
Frame(dir) == [dir |-> dir, token |-> FirstPage, seen |-> {}, todo |-> {}, more |-> TRUE]

Nothing == [path |-> <<>>, chunks |-> <<>>]

Init ==
    /\ release \in Releases
    /\ readable \in SUBSET Repos
    /\ changes = 0 /\ stack = <<>> /\ reading = Nothing /\ disk = {} /\ status = "new"

\* runRemoteDatasetClone: the target is empty, the release is pinned, and it
\* delivers something.  Hidden per-file entries count, hidden mounts do not.
Begin ==
    /\ status = "new"
    /\ IF Of(Visible, "mount") = {} /\ Of(release, "file") = {}
       THEN status' = "failed" /\ stack' = stack
       ELSE status' = "walking" /\ stack' = <<Frame(<<>>)>>
    /\ UNCHANGED <<release, readable, changes, reading, disk>>

Top == Head(stack)

\* Names are visited in order.
NextEntry == CHOOSE e \in Top.todo : \A o \in Top.todo : e.name <= o.name

\* cloneWalk asks for the next page.
AskPage ==
    /\ status = "walking" /\ stack # <<>> /\ reading = Nothing
    /\ Top.todo = {} /\ Top.more
    /\ LET page == List(Top.dir, Top.token)
       IN IF page.ok
          THEN /\ stack' = <<[Top EXCEPT !.todo = page.entries, !.token = page.next,
                                         !.more = page.next # FirstPage]>> \o Tail(stack)
               /\ status' = status
          ELSE status' = "failed" /\ stack' = stack
    /\ UNCHANGED <<release, readable, changes, reading, disk>>

\* cloneWalk takes an entry: a name it has seen is skipped, a directory entered,
\* a file read.
TakeEntry ==
    /\ status = "walking" /\ stack # <<>> /\ reading = Nothing /\ Top.todo # {}
    /\ LET e == NextEntry
           top == [Top EXCEPT !.todo = @ \ {e}, !.seen = @ \cup {e.name}]
           rest == <<top>> \o Tail(stack)
           child == Append(Top.dir, e.name)
       IN IF e.name \in Top.seen THEN stack' = rest /\ reading' = reading
          ELSE IF e.kind = "directory" THEN stack' = <<Frame(child)>> \o rest /\ reading' = reading
          ELSE stack' = rest /\ reading' = [path |-> child, chunks |-> <<>>]
    /\ UNCHANGED <<release, readable, changes, disk, status>>

\* Mutant: every chunk is written the way the first one is.
FiledLast(p, chunks) == [path |-> p, chunks |-> <<Last(chunks)>>]

\* The first chunk of a file creates it and the others are appended.
Filed(p, chunks) == [path |-> p, chunks |-> chunks]

\* cloneFile reads the next chunk and writes it; a file without content is never
\* created.
ReadChunk ==
    /\ reading # Nothing /\ status = "walking"
    /\ LET n == Len(reading.chunks)
           p == reading.path
       IN IF Served(p) = {}
          THEN status' = "failed" /\ UNCHANGED <<reading, disk>>
          ELSE LET src == Source(CHOOSE i \in Served(p) : TRUE, p)
                   chunks == IF n < Size(src) THEN Append(reading.chunks, src) ELSE reading.chunks
               IN /\ status' = status
                  /\ disk' = {d \in disk : d.path # p}
                             \cup (IF chunks = <<>> THEN {} ELSE {Filed(p, chunks)})
                  /\ reading' = IF Size(src) <= Len(chunks) THEN Nothing ELSE [reading EXCEPT !.chunks = chunks]
    /\ UNCHANGED <<release, readable, changes, stack>>

\* The directory is exhausted.
Leave ==
    /\ status = "walking" /\ stack # <<>> /\ reading = Nothing /\ Top.todo = {} /\ ~Top.more
    /\ stack' = Tail(stack)
    /\ status' = IF Tail(stack) = <<>> THEN "done" ELSE status
    /\ UNCHANGED <<release, readable, changes, reading, disk>>

\* A rule on a member is granted or revoked while the walk goes on.
ChangeGrants ==
    /\ changes < MaxChanges /\ status \in {"new", "walking"}
    /\ \E r \in Repos : readable' = IF r \in readable THEN readable \ {r} ELSE readable \cup {r}
    /\ changes' = changes + 1
    /\ UNCHANGED <<release, stack, reading, disk, status>>

---------------------------------------------------------------------------
\* What the release as a whole delivers at a path: a per-file entry, and the
\* file of the mount the path belongs to.
Sources(p) ==
    {Source(f, p) : f \in {g \in Of(release, "file") : g.path = p}}
    \cup {Source(m, p) : m \in {n \in Owning(release, p) : Stored(n.repo, Inside(n, p)) # {}}}

Delivered ==
    {f.path : f \in Of(release, "file")}
    \cup UNION {{m.path \o SubSeq(f.path, Len(m.at) + 1, Len(f.path)) :
                     f \in {g \in Trees[m.repo] : IsPrefix(m.at, g.path)}} : m \in Of(release, "mount")}

\* A root mount hides what else the release holds below the root.
Nested == \E m, n \in Of(release, "mount") : Below(m.path, n.path)

\* The directories only per-file entries name, inside a mount, are not listed,
\* nor is a directory listed that has the name of one on another page.
Listed ==
    \A f \in Of(release, "file"), m \in Of(release, "mount") :
        IsPrefix(m.path, Front(f.path)) =>
            /\ IsDir(m.repo, Inside(m, Front(f.path))) \/ m.repo \notin Empties
            /\ ~IsDir(m.repo, Inside(m, f.path))

Whole(d) == Len(d.chunks) = Size(d.chunks[1])

\* Whatever is granted meanwhile, a file comes from the source that delivers its
\* path, whole.  A path two sources deliver is not decided by an order: with
\* every member readable it never gets to the disk.
CloneFaithful ==
    ~Nested =>
        \A d \in disk :
            /\ d.chunks[1] \in Sources(d.path)
            /\ changes = 0 /\ readable = Repos => Cardinality(Sources(d.path)) = 1
            /\ Cardinality(Sources(d.path)) = 1 =>
                   /\ \A i \in DOMAIN d.chunks : d.chunks[i] = d.chunks[1]
                   /\ d.path = reading.path \/ Whole(d) \/ status = "failed"

\* A clone that ends well under grants that stood still holds every file with
\* content of the members the caller may read.
CloneComplete ==
    status = "done" /\ changes = 0 /\ ~Nested /\ Listed =>
        {d.path : d \in disk} =
            {p \in Delivered : \E s \in Sources(p) : s.repo \in readable /\ Size(s) > 0}

---------------------------------------------------------------------------
Next == Begin \/ AskPage \/ TakeEntry \/ ReadChunk \/ Leave \/ ChangeGrants

Spec == Init /\ [][Next]_vars
=============================================================================
