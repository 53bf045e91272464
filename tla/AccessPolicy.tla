----------------------------- MODULE AccessPolicy -----------------------------
(***************************************************************************)
(* Authorisation of a deployment: the explicit rules of allow.json         *)
(* (snapshot/access, invocation/allow.go), repository shares, the initial  *)
(* grants of managed repositories, the deployment's defaults, and the      *)
(* durable binding of verified accounts to the names rules speak of        *)
(* (identity/bindings.go, identity/legacy.go, cli/identity_migration.go).  *)
(*                                                                         *)
(* Every change of allow.json is one read and one atomic replacement under *)
(* the server's exclusive invocation lock, every change of identities.json *)
(* one under its file lock; an identity migration is a step on each file   *)
(* and may be interrupted between them.                                    *)
(***************************************************************************)
EXTENDS Naturals, FiniteSets

CONSTANTS
    Accounts,        \* accounts of the identity provider (issuer and subject)
    Names,           \* usernames
    Grantees,        \* the names that rules are made by and for
    FirstName,       \* FirstName[a]: the name account a starts with, distinct
    OldAccounts,     \* accounts that already existed before principals were names
    Legacy,          \* Legacy[a]: the old principal of account a ("gitea:<subject>")
    Repositories, Catalogs, Datasets,
    Actions,         \* actions requests are made with
    Matches,         \* Matches[g]: the requests an action g of a rule admits
    GrantParts,      \* parts callers narrow a rule to
    Grantable,       \* action sets callers put in rules
    ManagedActions,  \* what the creator of a managed repository is granted
    ShareActions,    \* the deployment's RepositoryShareActions
    Public,          \* Public[r]: actions any authenticated principal has on r
    OpenCatalogs,    \* Catalogs that are not private
    FirstCatalog,    \* the Catalog of a request that names none
    Roots,           \* the rules the deployment was initialised with
    Allocations,     \* managed repositories: [id, repo, account that asked]
    MaxRules         \* bound on the rules ever added

VARIABLES
    rules,     \* allow.json: current rules
    applied,   \* allow.json InitialGrants: allocations whose grant was made
    moved,     \* allow.json IdentityMigrations: old principals migrated
    issued,    \* rule ids given out
    name,      \* the provider's current username of each account
    bound,     \* identities.json: [name, acct] bindings
    alias,     \* identities.json LegacyAliases: old principal -> binding
    held       \* history: the names each account was ever bound to

policyVars == <<rules, applied, moved, issued, name, bound, alias, held>>

Wildcard == "*" \* an empty coordinate of a rule or of a query

Scope == [repo : Repositories \cup {Wildcard}, catalog : Catalogs \cup {Wildcard}, dataset : Datasets \cup {Wildcard}]

\* part stands for ref, object and aspect: a rule narrowed by one of them.
Rule(id, who, acts, scope, part, by) ==
    [id |-> id, who |-> who, acts |-> acts, scope |-> scope, part |-> part, by |-> by]

RepoScope(r) == [repo |-> r, catalog |-> Wildcard, dataset |-> Wildcard]

\* ActionMatches and actionAllowed.
ActionAllowed(rule, a) == \E g \in rule.acts : a \in Matches[g]

\* scopeMatches: a coordinate of the rule must be named by the query.
ScopeMatches(s, q) == \A c \in {"repo", "catalog", "dataset"} : s[c] = Wildcard \/ s[c] = q[c]

\* access.Match.
Match(who, a, q, part) ==
    \E rule \in rules :
        /\ rule.who = who /\ ActionAllowed(rule, a) /\ ScopeMatches(rule.scope, q)
        /\ rule.part = Wildcard \/ rule.part = part

---------------------------------------------------------------------------
\* A request: principal, action, coordinates, the members of a temporary
\* definition the caller supplied ({}: none), and whether it asks for the
\* discovery of a Catalog.
Request(who, a, q, part, members, discovery) ==
    [who |-> who, action |-> a, q |-> q, part |-> part, members |-> members, discovery |-> discovery]

\* DefaultAllowCatalog: a request that names no Catalog is about the first one.
InCatalog(q) == IF q.catalog = Wildcard THEN [q EXCEPT !.catalog = FirstCatalog] ELSE q

\* CatalogReadAllowed.
CatalogReadAllowed(who, c) ==
    Match(who, "catalog.read", [repo |-> Wildcard, catalog |-> c, dataset |-> Wildcard], Wildcard) \/ c \in OpenCatalogs

Knowledge == {"knowledge.read"}   \* actions under knowledge.

\* Mutant: a temporary definition keeps the dataset the caller named.
ScopeAllowedLabel(who, a, q, part, members) ==
    \/ Match(who, a, q, part)
    \/ members # {} /\ \A m \in members : Match(who, a, [q EXCEPT !.repo = m], part)

\* workspaceScopeAllowed: a temporary definition is no published Dataset, and
\* without a rule for the whole scope each member needs its own.
WorkspaceScopeAllowed(who, a, q, part, members) ==
    LET scope == IF members = {} THEN q ELSE [q EXCEPT !.dataset = Wildcard]
    IN \/ Match(who, a, scope, part)
       \/ /\ members # {}
          /\ \A m \in members : Match(who, a, [scope EXCEPT !.repo = m], part)

\* Authorize for an authenticated principal: discovery of a Catalog, resolution
\* of a temporary definition, knowledge of a Dataset by file.read, explicit
\* rules, and the defaults for open Catalogs and for repositories.
Authorize(rq) ==
    LET q == InCatalog(rq.q)
        temporary == rq.members # {}
        ofDataset == rq.action \in Knowledge /\ q.repo = Wildcard /\ (temporary \/ q.dataset # Wildcard)
    IN CASE rq.discovery -> CatalogReadAllowed(rq.who, q.catalog)
         [] ~rq.discovery /\ rq.action = "dataset.resolve" /\ temporary /\ q.repo = Wildcard
                -> WorkspaceScopeAllowed(rq.who, rq.action, q, rq.part, rq.members)
         [] ~rq.discovery /\ ofDataset
                -> WorkspaceScopeAllowed(rq.who, "file.read", q, rq.part, rq.members)
         [] OTHER -> \/ Match(rq.who, rq.action, q, rq.part)
                     \/ rq.action = "catalog.read" /\ CatalogReadAllowed(rq.who, q.catalog)
                     \/ q.repo # Wildcard /\ rq.action \in Public[q.repo]

\* access.AuthorizeManagement: administrators with narrowed rules are refused.
AuthorizeManagement(who, target) ==
    \E rule \in rules :
        /\ rule.who = who /\ rule.part = Wildcard
        /\ ScopeMatches(rule.scope, target)
        /\ ActionAllowed(rule, "admin.grants.manage")

\* wholeRepositoryActionAllowed.
WholeRepositoryActionAllowed(who, r, a) ==
    \E rule \in rules :
        /\ rule.who = who /\ rule.part = Wildcard
        /\ rule.scope.repo \in {Wildcard, r} /\ rule.scope.catalog = Wildcard /\ rule.scope.dataset = Wildcard
        /\ ActionAllowed(rule, a)

---------------------------------------------------------------------------
\* Bind reserves a name for the first account that comes with it, for good.
Bind(a) ==
    /\ \/ \E b \in bound : b.acct = a /\ b.name = name[a] /\ UNCHANGED bound
       \/ /\ \A b \in bound : b.acct # a /\ b.name # name[a]
          /\ bound' = bound \cup {[acct |-> a, name |-> name[a]]}
    /\ held' = [held EXCEPT ![a] = @ \cup {name[a]}]

\* Mutant: an account renamed at the provider is bound again.
LoginRenamed(a) ==
    /\ bound' = {b \in bound : b.acct # a} \cup {[acct |-> a, name |-> name[a]]}
    /\ held' = [held EXCEPT ![a] = @ \cup {name[a]}]
    /\ UNCHANGED <<rules, applied, moved, issued, name, alias>>

\* boundAuthenticator.Authenticate of a first request.
Login(a) ==
    /\ Bind(a)
    /\ UNCHANGED <<rules, applied, moved, issued, name, alias>>

\* External: an account is renamed, its name may be taken by another one.
Rename(a, n) ==
    /\ name[a] # n /\ \A o \in Accounts : name[o] # n
    /\ name' = [name EXCEPT ![a] = n]
    /\ UNCHANGED <<rules, applied, moved, issued, bound, alias, held>>

\* MigrateLegacyAlias: an operator reserves the old principal for an account.
\* It binds first and refuses an alias of another account.
MigrateAlias(a) ==
    /\ Bind(a)
    /\ alias[Legacy[a]] \in {Wildcard, name[a]}
    /\ alias' = [alias EXCEPT ![Legacy[a]] = name[a]]
    /\ UNCHANGED <<rules, applied, moved, issued, name>>

\* migrateLegacyIdentity then moves the rules there are, once.
MigrateRules(a) ==
    /\ Legacy[a] \notin moved
    /\ alias[Legacy[a]] = name[a]
    /\ rules' = {IF r.who = Legacy[a] THEN [r EXCEPT !.who = name[a]] ELSE r : r \in rules}
    /\ moved' = moved \cup {Legacy[a]}
    /\ UNCHANGED <<applied, issued, name, bound, alias, held>>

---------------------------------------------------------------------------
\* Every request is authenticated: its account is bound to the name it comes with.
LoggedIn(n) == \E b \in bound : b.name = n /\ name[b.acct] = n

Issue(rule) ==
    /\ issued < MaxRules
    /\ issued' = issued + 1
    /\ rules' = rules \cup {[rule EXCEPT !.id = issued + 1]}

\* access.Service.Add: exactly one of repository and catalog, within the
\* caller's administration.
GrantAdd(who, to, acts, scope, part) ==
    /\ LoggedIn(who)
    /\ (scope.repo = Wildcard) # (scope.catalog = Wildcard)
    /\ AuthorizeManagement(who, scope)
    /\ Issue(Rule(0, to, acts, scope, part, Wildcard))
    /\ UNCHANGED <<applied, moved, name, bound, alias, held>>

\* access.Service.Revoke: the scope is the durable rule's own.
GrantRevoke(who, rule) ==
    /\ LoggedIn(who)
    /\ AuthorizeManagement(who, rule.scope)
    /\ rules' = rules \ {rule}
    /\ UNCHANGED <<applied, moved, issued, name, bound, alias, held>>

MayShare(who, r) == Authorize(Request(who, "repository.shares.manage", RepoScope(r), Wildcard, {}, FALSE))

\* createRepositoryShareWithPolicy.
ShareAdd(who, to, r, acts) ==
    /\ LoggedIn(who) /\ who # to
    /\ MayShare(who, r)
    /\ acts # {} /\ acts \subseteq ShareActions
    /\ \A a \in acts : WholeRepositoryActionAllowed(who, r, a)
    /\ Issue(Rule(0, to, acts, RepoScope(r), Wildcard, who))
    /\ UNCHANGED <<applied, moved, name, bound, alias, held>>

\* removeRepositoryShare.
ShareRemove(who, rule) ==
    /\ LoggedIn(who)
    /\ rule.by # Wildcard
    /\ MayShare(who, rule.scope.repo)
    /\ rules' = rules \ {rule}
    /\ UNCHANGED <<applied, moved, issued, name, bound, alias, held>>

\* ResolvePrincipal of the principal that asked for the allocation.
Owner(al) == IF alias[Legacy[al.acct]] # Wildcard THEN alias[Legacy[al.acct]] ELSE Legacy[al.acct]

\* Mutant: a retry restores the creator's rule.
ManagedGrantRestores(al) ==
    /\ IF al \in applied
       THEN /\ rules' = rules \cup {Rule(1, Owner(al), ManagedActions, RepoScope(al.repo), Wildcard, Wildcard)}
            /\ UNCHANGED <<applied, issued>>
       ELSE /\ applied' = applied \cup {al}
            /\ Issue(Rule(0, Owner(al), ManagedActions, RepoScope(al.repo), Wildcard, Wildcard))
    /\ UNCHANGED <<moved, name, bound, alias, held>>

\* EnsureManagedRepositoryGrant: once per allocation, whatever became of the rule.
ManagedGrant(al) ==
    /\ al \notin applied
    /\ applied' = applied \cup {al}
    /\ Issue(Rule(0, Owner(al), ManagedActions, RepoScope(al.repo), Wildcard, Wildcard))
    /\ UNCHANGED <<moved, name, bound, alias, held>>

---------------------------------------------------------------------------
PolicyInit ==
    /\ rules = Roots
    /\ applied = {} /\ moved = {} /\ issued = 0
    /\ name = FirstName
    /\ bound = {}
    /\ alias = [l \in {Legacy[a] : a \in Accounts} |-> Wildcard]
    /\ held = [a \in Accounts |-> {}]

Parts == {Wildcard, "x"}

PolicyNext ==
    \/ \E a \in Accounts : Login(a) \/ \E n \in Names : Rename(a, n)
    \/ \E a \in OldAccounts : MigrateAlias(a) \/ MigrateRules(a)
    \/ \E who, to \in Grantees :
        \/ \E acts \in Grantable, scope \in Scope, part \in GrantParts : GrantAdd(who, to, acts, scope, part)
        \/ \E r \in Repositories, acts \in SUBSET ShareActions : ShareAdd(who, to, r, acts)
    \/ \E who \in Grantees, rule \in rules : GrantRevoke(who, rule) \/ ShareRemove(who, rule)
    \/ \E al \in Allocations : ManagedGrant(al)

PolicySpec == PolicyInit /\ [][PolicyNext]_policyVars

---------------------------------------------------------------------------
\* What a request reaches: each member of a temporary definition, or what its
\* coordinates name.
Reached(rq) ==
    LET q == InCatalog(rq.q)
    IN IF rq.discovery THEN {[repo |-> Wildcard, catalog |-> q.catalog, dataset |-> Wildcard]}
       ELSE IF rq.members = {} THEN {q}
       ELSE {[q EXCEPT !.repo = m, !.dataset = Wildcard] : m \in rq.members}

\* The scopes the deployment itself gave out, to administer, share or use.
Granted == {[scope |-> r.scope, part |-> r.part] : r \in Roots}
           \cup {[scope |-> RepoScope(al.repo), part |-> Wildcard] : al \in applied}

DefinitionActions == {"dataset.resolve"} \cup Knowledge

Wide == {q \in Scope : q.repo = Wildcard}

\* Requests as callers can make them: a definition or a discovery names no
\* repository, and only knowledge and resolution take a definition.
Requests ==
    {Request(who, a, q, part, {}, FALSE) : who \in Names, a \in Actions, q \in Scope, part \in Parts}
    \cup
    {Request(who, a, q, Wildcard, members, FALSE) :
        who \in Names, a \in DefinitionActions \cap Actions, q \in Wide, members \in (SUBSET Repositories) \ {{}}}
    \cup
    {Request(who, "dataset.resolve", q, Wildcard, {}, TRUE) : who \in Names, q \in Wide}

\* Every coordinate of t is within s.
Within(t, s) == \A c \in {"repo", "catalog", "dataset"} : s[c] \in {Wildcard, t[c]}

\* No chain of grants, shares, migrations and managed grants lets anybody reach
\* what no initial rule and no managed grant covers: delegation, sharing,
\* discovery and temporary definitions narrow a scope and never widen it.
Confined ==
    \A rq \in Requests :
        Authorize(rq) =>
           \A t \in Reached(rq) :
              \/ \E g \in Granted : Within(t, g.scope) /\ g.part \in {Wildcard, rq.part}
              \/ t.catalog \in OpenCatalogs /\ (rq.discovery \/ rq.action = "catalog.read")
              \/ t.repo # Wildcard /\ rq.action \in Public[t.repo]

\* Nobody inherits a name: whatever accounts are renamed or recycled, and
\* whichever old principals are migrated, an account is let in under one name
\* only, and no two accounts under the same one.
OneAccountPerName ==
    /\ \A a \in Accounts : Cardinality(held[a]) <= 1
    /\ \A a, o \in Accounts : a # o => held[a] \cap held[o] = {}
    /\ \A a, o \in Accounts : a # o /\ alias[Legacy[a]] # Wildcard => alias[Legacy[a]] \notin held[o]

\* Rules reach no further than was given out, and speak of one account each.
PolicySound == Confined /\ OneAccountPerName

\* A migration or a managed grant is made once: repeating it never gives back
\* a rule that was revoked meanwhile.
NothingReturns ==
    [][/\ applied \subseteq applied' /\ moved \subseteq moved'
       /\ \A r \in rules' :
              r.id # 0 /\ r.id <= issued => \E o \in rules : o.id = r.id]_policyVars
=============================================================================
