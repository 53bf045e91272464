--------------------------- MODULE DeploymentState ---------------------------
(***************************************************************************)
(* The durable state of a deployment (home/deployment_runtime.go): its     *)
(* first installation, its upgrade by a later `deployment init`, the check *)
(* every start and every request begins with, and the loss of a part.      *)
(*                                                                         *)
(* A part of the state volume or a Catalog registry is "none", "fresh" (it *)
(* exists and is empty) or "used"; a ledger whose file was created but not *)
(* yet given its buckets is "torn".  Policy stands for the files installed *)
(* together and never created again (allow, hooks, gates, control, writer  *)
(* and journals), access for repository-access.json.  The deployment is    *)
(* configured for managed repositories and connections, so it needs the    *)
(* receipts of all three ledgers to serve.                                 *)
(***************************************************************************)
EXTENDS Naturals, Sequences

CONSTANTS
    Catalogs,    \* Catalogs 1 .. n, initialised in this order
    Inits,       \* runs of `deployment init`
    MaxLosses,   \* bound: parts lost
    MaxCrashes   \* bound: init runs killed

VARIABLES
    config,    \* Catalogs the configuration names
    marker,    \* deployment-state.json: NoMarker or its receipts
    files,     \* parts of the state volume
    registry,  \* Catalog registries on their own authorities
    init,      \* init runs
    serving,   \* the server runs
    known,     \* history: parts and Catalogs that ever held content
    losses, crashes

stateVars == <<config, marker, files, registry, init, serving, known, losses, crashes>>

LedgerSequence == <<"connection", "identity", "managed">>
Ledgers == {"connection", "identity", "managed"}
Parts == Ledgers \cup {"policy", "access"}
NoMarker == [cats |-> {}, led |-> {"absent"}]
NotInstalling == [pc |-> "idle"]

\* validateDeploymentState: the marker, the files it vouches for, and, unless this
\* is an upgrade, a receipt for every ledger; a ledger without one must be empty.
Validate(upgrade) ==
    /\ marker # NoMarker /\ marker.cats # {}
    /\ files["policy"] # "none"
    /\ \A l \in Ledgers :
          IF l \in marker.led THEN files[l] \in {"fresh", "used"}
          ELSE upgrade /\ (l # "identity" => files[l] \in {"none", "fresh"})

---------------------------------------------------------------------------

\* InitializeDeployment without a marker: an empty stateDir and no registry yet.
BeginFresh(i) ==
    /\ init[i] = NotInstalling /\ marker = NoMarker
    /\ \A p \in Parts : files[p] = "none"
    /\ \A c \in config : registry[c] = "none"
    /\ init' = [init EXCEPT ![i] = [pc |-> "catalogs", kind |-> "first", todo |-> config, cats |-> {}, led |-> Ledgers]]
    /\ UNCHANGED <<config, marker, files, registry, serving, known, losses, crashes>>

\* InitializeDeployment with a marker.  Operators run one upgrade at a time.
BeginUpgrade(i) ==
    /\ \A j \in Inits : init[j] = NotInstalling
    /\ Validate(TRUE)
    /\ init' = [init EXCEPT ![i] = [pc |-> "catalogs", kind |-> "upgrade", todo |-> config,
                                      cats |-> marker.cats, led |-> marker.led]]
    /\ UNCHANGED <<config, marker, files, registry, serving, known, losses, crashes>>

NextOf(todo) == CHOOSE c \in todo : \A d \in todo : c <= d

\* Mutant: the receipt of an initialised Catalog is not looked at.
EnsureCatalogRecreates(i) ==
    /\ init[i].pc = "catalogs" /\ init[i].todo # {}
    /\ LET c == NextOf(init[i].todo)
       IN /\ registry' = [registry EXCEPT ![c] = IF @ = "none" THEN "fresh" ELSE @]
          /\ init' = [init EXCEPT ![i].todo = @ \ {c}, ![i].cats = @ \cup {c}]
    /\ UNCHANGED <<config, marker, files, serving, known, losses, crashes>>

\* ensureCatalogAuthorities, one Catalog: a first installation creates it and loses
\* against another one; an upgrade opens it, creates it only without a receipt,
\* and stops where the authority of an initialised Catalog is gone.
EnsureCatalog(i) ==
    /\ init[i].pc = "catalogs" /\ init[i].todo # {}
    /\ LET c == NextOf(init[i].todo)
           refused == IF init[i].kind = "first" THEN registry[c] # "none"
                      ELSE registry[c] = "none" /\ c \in init[i].cats
       IN IF refused THEN init' = [init EXCEPT ![i] = NotInstalling] /\ UNCHANGED registry
          ELSE /\ registry' = [registry EXCEPT ![c] = IF @ = "none" THEN "fresh" ELSE @]
               /\ init' = [init EXCEPT ![i].todo = @ \ {c}, ![i].cats = @ \cup {c}]
    /\ UNCHANGED <<config, marker, files, serving, known, losses, crashes>>

\* initializeDeploymentStaging: the bundle is installed by one rename, which fails
\* when another installation was first.
InstallBundle(i) ==
    /\ init[i].pc = "catalogs" /\ init[i].todo = {} /\ init[i].kind = "first"
    /\ IF marker = NoMarker /\ \A p \in Parts : files[p] = "none"
       THEN /\ marker' = [cats |-> init[i].cats, led |-> Ledgers]
            /\ files' = [p \in Parts |-> IF p = "policy" THEN "used" ELSE "fresh"]
            /\ known' = [known EXCEPT !.files = @ \cup {"policy"}]
       ELSE UNCHANGED <<marker, files, known>>
    /\ init' = [init EXCEPT ![i] = NotInstalling]
    /\ UNCHANGED <<config, registry, serving, losses, crashes>>

\* The ledger completeDeploymentLedgers looks at next.
NextLedger(led) == LedgerSequence[CHOOSE n \in 1 .. 3 : /\ LedgerSequence[n] \notin led
                                                        /\ \A m \in 1 .. n - 1 : LedgerSequence[m] \in led]

\* Mutant: a ledger that is already there without a receipt stops the upgrade.
EnsureLedgerNew(i) ==
    /\ init[i].pc = "catalogs" /\ init[i].todo = {} /\ init[i].led # Ledgers
    /\ LET l == NextLedger(init[i].led)
       IN IF files[l] = "none"
          THEN /\ files' = [files EXCEPT ![l] = "torn"]
               /\ init' = [init EXCEPT ![i].pc = l]
          ELSE init' = [init EXCEPT ![i] = NotInstalling] /\ UNCHANGED files
    /\ UNCHANGED <<config, marker, registry, serving, known, losses, crashes>>

\* completeDeploymentLedgers, one ledger without a receipt: createManagedLedger and
\* createConnectionLedger create the file and then its buckets, and accept an
\* existing ledger only when it is readable and empty; identity.Initialize
\* writes its file atomically and keeps an existing one.
EnsureLedger(i) ==
    /\ init[i].pc = "catalogs" /\ init[i].todo = {} /\ init[i].led # Ledgers
    /\ LET l == NextLedger(init[i].led)
           done == [init EXCEPT ![i].led = @ \cup {l}]
       IN CASE l = "identity" ->
                  /\ files' = [files EXCEPT ![l] = IF @ = "none" THEN "fresh" ELSE @]
                  /\ init' = done
            [] l # "identity" /\ files[l] = "none" ->
                  /\ files' = [files EXCEPT ![l] = "torn"]
                  /\ init' = [init EXCEPT ![i].pc = l]
            [] l # "identity" /\ files[l] = "fresh" -> init' = done /\ UNCHANGED files
            [] OTHER -> init' = [init EXCEPT ![i] = NotInstalling] /\ UNCHANGED files
    /\ UNCHANGED <<config, marker, registry, serving, known, losses, crashes>>

CreateBuckets(i) ==
    /\ init[i].pc \in Ledgers
    /\ files' = [files EXCEPT ![init[i].pc] = IF @ = "torn" THEN "fresh" ELSE @]
    /\ init' = [init EXCEPT ![i].pc = "catalogs", ![i].led = @ \cup {init[i].pc}]
    /\ UNCHANGED <<config, marker, registry, serving, known, losses, crashes>>

\* The marker is written once every ledger is there.
WriteMarker(i) ==
    /\ init[i].pc = "catalogs" /\ init[i].todo = {} /\ init[i].led = Ledgers /\ init[i].kind = "upgrade"
    /\ marker' = [cats |-> init[i].cats, led |-> Ledgers]
    /\ init' = [init EXCEPT ![i] = NotInstalling]
    /\ UNCHANGED <<config, files, registry, serving, known, losses, crashes>>

\* An init run is killed between two steps.
InitKilled(i) ==
    /\ init[i] # NotInstalling /\ crashes < MaxCrashes
    /\ crashes' = crashes + 1
    /\ init' = [init EXCEPT ![i] = NotInstalling]
    /\ UNCHANGED <<config, marker, files, registry, serving, known, losses>>

---------------------------------------------------------------------------
\* OpenDeployment: every configured Catalog has its receipt and its registry, and
\* nothing is created but the repository defaults, from the configuration.
OpenDeployment ==
    /\ ~serving /\ Validate(FALSE)
    /\ config \subseteq marker.cats
    /\ \A c \in config : registry[c] # "none"
    /\ serving' = TRUE
    /\ files' = [files EXCEPT !["access"] = IF @ = "none" THEN "fresh" ELSE @]
    /\ UNCHANGED <<config, marker, registry, init, known, losses, crashes>>

\* A request gives a part or a Catalog content; the state is checked before it.
Request ==
    /\ serving /\ Validate(FALSE)
    /\ \/ \E p \in Parts : files' = [files EXCEPT ![p] = "used"] /\ files[p] # "none" /\ known' = [known EXCEPT !.files = @ \cup {p}] /\ UNCHANGED registry
       \/ \E c \in config : /\ registry[c] # "none"
                            /\ registry' = [registry EXCEPT ![c] = "used"] /\ known' = [known EXCEPT !.cats = @ \cup {c}]
                            /\ UNCHANGED files
    /\ UNCHANGED <<config, marker, init, serving, losses, crashes>>

Stop ==
    /\ serving /\ serving' = FALSE
    /\ UNCHANGED <<config, marker, files, registry, init, known, losses, crashes>>

\* The configuration names another Catalog.
Configure ==
    /\ ~serving /\ \A i \in Inits : init[i] = NotInstalling
    /\ \E c \in Catalogs \ config : config' = config \cup {c}
    /\ UNCHANGED <<marker, files, registry, init, serving, known, losses, crashes>>

\* External: the volume, one of its files or a Catalog's authority is lost, between
\* two init runs.
LosePart ==
    /\ \A i \in Inits : init[i] = NotInstalling
    /\ losses < MaxLosses /\ losses' = losses + 1
    /\ \/ /\ marker' = NoMarker /\ files' = [p \in Parts |-> "none"] /\ UNCHANGED registry
       \/ /\ \E p \in Parts : files' = [files EXCEPT ![p] = "none"]
          /\ UNCHANGED <<marker, registry>>
       \/ /\ \E c \in Catalogs : registry' = [registry EXCEPT ![c] = "none"]
          /\ UNCHANGED <<marker, files>>
    /\ UNCHANGED <<config, init, serving, known, crashes>>

---------------------------------------------------------------------------
\* Nothing installed, or a deployment from before the ledgers, with Catalog 1.
StateInit ==
    /\ config = {1}
    /\ \/ /\ marker = NoMarker /\ files = [p \in Parts |-> "none"]
          /\ registry = [c \in Catalogs |-> "none"] /\ known = [files |-> {}, cats |-> {}]
       \/ /\ marker = [cats |-> {1}, led |-> {}]
          /\ files = [p \in Parts |-> IF p = "policy" THEN "used" ELSE "none"]
          /\ registry = [c \in Catalogs |-> IF c = 1 THEN "used" ELSE "none"]
          /\ known = [files |-> {"policy"}, cats |-> {1}]
    /\ init = [i \in Inits |-> NotInstalling]
    /\ serving = FALSE /\ losses = 0 /\ crashes = 0

InitStep(i) ==
    \/ BeginFresh(i) \/ BeginUpgrade(i) \/ EnsureCatalog(i) \/ InstallBundle(i)
    \/ EnsureLedger(i) \/ CreateBuckets(i) \/ WriteMarker(i)

StateNext ==
    \/ \E i \in Inits : InitStep(i) \/ InitKilled(i)
    \/ OpenDeployment \/ Request \/ Stop \/ Configure \/ LosePart

\* The operator runs init until it succeeds.
StateSpec == StateInit /\ [][StateNext]_stateVars /\ \A i \in Inits : WF_stateVars(InitStep(i))

---------------------------------------------------------------------------
\* Nothing is reborn: after the loss of the volume, of a file or of a Catalog's
\* authority, neither init nor a start replaces what held content by something
\* empty, and bootstrap rights are not issued over Catalogs in use.  The one
\* exception is repository-access.json, which OpenDeployment writes again from
\* the configuration.
NothingReborn ==
    [][/\ \A p \in known.files \ {"access"} : files[p] = "none" => files'[p] = "none"
       /\ \A c \in known.cats : registry[c] = "none" => registry'[c] = "none"
       /\ marker = NoMarker /\ marker' # NoMarker => \A c \in marker'.cats : registry[c] # "used"]_stateVars

\* A killed upgrade is repaired by running init again: a deployment that is
\* configured for Catalogs or ledgers it has no receipt for gets them, as long
\* as nothing is lost and no run was killed between the creation of a ledger's
\* file and of its buckets.
Upgradable ==
    marker # NoMarker /\ losses = 0 /\ \A l \in Ledgers : files[l] # "torn"
UpgradeCompletes ==
    Upgradable ~> (config \subseteq marker.cats /\ marker.led = Ledgers) \/ losses > 0 \/ ~Upgradable
=============================================================================
