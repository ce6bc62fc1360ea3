----------------------------- MODULE ModelCatalog -----------------------------
(***************************************************************************)
(* The chat models of one built-in platform and who writes them: syncs of  *)
(* the signed catalog (services/catalog-sync.ts), discovery from the       *)
(* provider's own list (services/builtin-model-discovery.ts), verdicts of  *)
(* providers that a model is gone (services/model-retirement.ts), the      *)
(* operator (routes/models.ts), and the replay of the last catalog when    *)
(* the process starts.                                                     *)
(*                                                                         *)
(* A sync reads what is applied, waits for the service and then applies,   *)
(* so syncs overlap.  Applying a catalog is one transaction; the three     *)
(* settings that remember it are written one by one after it.              *)
(***************************************************************************)
EXTENDS Naturals

CONSTANTS
  None,
  Models,
  Versions,            \* 1..n: the catalogs the service will publish (bound)
  MIN_CATALOG_VERSION, \* the oldest catalog this binary applies
  Syncs,               \* syncs that may be under way at a time (bound)
  Scheduled            \* the one the timer starts

VARIABLES
  row,       \* table models: [source, enabled], or None
  chain,     \* table fallback_config, and the active profile's copy of it
  tombstone, \* table catalog_model_tombstones: why, or None
  content,   \* what each catalog says: the listing, and whether it manages the platform
  published, \* the catalog the service hands out
  version,   \* setting catalog_applied_version
  json,      \* setting catalog_applied_json: the catalog it holds
  sync,      \* the syncs under way
  discovery, \* an automatic discovery waits for the provider
  up,        \* the process runs
  torn       \* history: a crash came between an apply and its last setting

tables == <<row, chain, tombstone>>
settings == <<version, json>>
process == <<sync, discovery, up>>
service == <<content, published>>
vars == <<row, chain, tombstone, content, published, version, json, sync, discovery,
          up, torn>>

Catalogs ==
  {c \in [listing : [Models -> {"on", "off", "absent"}], managed : BOOLEAN] :
     (\E m \in Models : c.listing[m] # "absent") => c.managed}
Row == [source : {"catalog", "user", "discovered"}, enabled : BOOLEAN]
SyncState ==
  [applied : Versions \cup {None}, forced : BOOLEAN, catalog : Versions \cup {None}]

ASSUME CatalogAssumption ==
  /\ Versions \subseteq Nat \ {0} /\ MIN_CATALOG_VERSION \in Nat
  /\ Scheduled \in Syncs
  /\ None \notin Versions /\ None \notin Row
  /\ None \notin BOOLEAN /\ None \notin {"user", "upstream_eol"}

isCatalogManagedModel(m) == row[m] # None /\ row[m].source # "user"
Routable(m) == row[m] # None /\ row[m].enabled /\ chain[m] = TRUE

(***************************************************************************)
(* Applying a catalog                                                      *)
(***************************************************************************)
Listed(v, m) == content[v].listing[m] # "absent"

(* Mutant: a catalog replayed at the start is taken for news. *)
AlwaysNews(v) == TRUE

catalogBringsNewEvidence(v) == version # v

(* News that lists a retired model as on lifts the retirement.             *)
Lifted(v, m) ==
  /\ catalogBringsNewEvidence(v)
  /\ content[v].listing[m] = "on" /\ tombstone[m] = "upstream_eol"

(* Mutant: a model the catalog no longer lists stays. *)
DroppedOnlyByOperator(v, m) == isCatalogManagedModel(m) /\ tombstone[m] = "user"

(* Rows of the catalog go once it stops listing them, discovered ones once *)
(* it manages the platform; the operator's own rows never.                 *)
Dropped(v, m) ==
  /\ isCatalogManagedModel(m)
  /\ \/ tombstone[m] = "user"
     \/ /\ ~Listed(v, m)
        /\ row[m].source = "discovered" => content[v].managed

Taken(v, m) ==
  /\ Listed(v, m) /\ tombstone[m] # "user"
  /\ row[m] # None => isCatalogManagedModel(m)

RowAfter(v, m) ==
  IF Dropped(v, m) THEN None
  ELSE IF Taken(v, m)
  THEN [source |-> "catalog",
        enabled |-> content[v].listing[m] = "on" /\ (row[m] # None => row[m].enabled)]
  ELSE row[m]

applyCatalog(v) ==
  /\ row' = [m \in Models |-> RowAfter(v, m)]
  /\ tombstone' = [m \in Models |-> IF Lifted(v, m) THEN None ELSE tombstone[m]]
  /\ chain' = [m \in Models |->
       IF row'[m] = None THEN None
       ELSE IF row[m] = None \/ Lifted(v, m) THEN TRUE
       ELSE chain[m]]

(***************************************************************************)
(* Syncs                                                                   *)
(***************************************************************************)
Publish ==
  /\ published + 1 \in Versions
  /\ published' = published + 1
  /\ UNCHANGED <<content, tables, settings, process, torn>>

syncCatalog(s, forced) ==
  /\ up /\ sync[s] = None
  /\ sync' = [sync EXCEPT ![s] = [applied |-> version, forced |-> forced, catalog |-> None]]
  /\ UNCHANGED <<tables, settings, service, discovery, up, torn>>

(* The timer asks for news only; the routes of routes/premium.ts ask for   *)
(* the catalog as it is.                                                   *)
Poll == syncCatalog(Scheduled, FALSE)
ForcedSync(s) == s # Scheduled /\ syncCatalog(s, TRUE)

(* The service answers 304 Not Modified, or with its catalog.              *)
Answered(s) ==
  /\ sync[s] # None /\ sync[s].catalog = None
  /\ sync' = [sync EXCEPT ![s] =
       IF ~sync[s].forced /\ sync[s].applied = published THEN None
       ELSE [applied |-> sync[s].applied, forced |-> sync[s].forced, catalog |-> published]]
  /\ UNCHANGED <<tables, settings, service, discovery, up, torn>>

Failed(s) ==
  /\ sync[s] # None
  /\ sync' = [sync EXCEPT ![s] = None]
  /\ UNCHANGED <<tables, settings, service, discovery, up, torn>>

(* What was applied when the sync began decides whether it applies.        *)
ToApply(s) ==
  /\ sync[s] # None /\ sync[s].catalog # None
  /\ sync[s].catalog >= MIN_CATALOG_VERSION
  /\ sync[s].applied # sync[s].catalog

Apply(s) ==
  /\ ToApply(s)
  /\ applyCatalog(sync[s].catalog)
  /\ version' = sync[s].catalog /\ json' = sync[s].catalog
  /\ torn' = FALSE
  /\ sync' = [sync EXCEPT ![s] = None]
  /\ UNCHANGED <<service, discovery, up>>

NothingToApply(s) ==
  /\ sync[s] # None /\ sync[s].catalog # None /\ ~ToApply(s)
  /\ sync' = [sync EXCEPT ![s] = None]
  /\ UNCHANGED <<tables, settings, service, discovery, up, torn>>

(***************************************************************************)
(* Crash and start                                                         *)
(***************************************************************************)
Down == /\ up' = FALSE
        /\ sync' = [s \in Syncs |-> None]
        /\ discovery' = FALSE

Crash == up /\ Down /\ UNCHANGED <<tables, settings, service, torn>>

(* The process ends after the transaction of an apply, before the first or *)
(* before the last of its settings.                                        *)
CrashInApply(s) ==
  /\ ToApply(s) /\ Down
  /\ applyCatalog(sync[s].catalog)
  /\ version' \in {version, sync[s].catalog}
  /\ torn' = TRUE
  /\ UNCHANGED <<json, service>>

(* Without a cached catalog the applied version is forgotten, so that the  *)
(* next poll fetches one.                                                  *)
reapplyCachedCatalog ==
  /\ ~up /\ up' = TRUE
  /\ IF json = None
     THEN version' = None /\ UNCHANGED tables
     ELSE /\ IF json >= MIN_CATALOG_VERSION THEN applyCatalog(json) ELSE UNCHANGED tables
          /\ UNCHANGED version
  /\ UNCHANGED <<service, json, sync, discovery, torn>>

(***************************************************************************)
(* Discovery                                                               *)
(***************************************************************************)
isBuiltinDiscoveryEligible ==
  /\ json # None => ~content[json].managed
  /\ \A m \in Models : row[m] # None => row[m].source # "catalog"

StartDiscovery ==
  /\ up /\ ~discovery /\ isBuiltinDiscoveryEligible
  /\ discovery' = TRUE
  /\ UNCHANGED <<tables, settings, service, sync, up, torn>>

(* Mutant: an automatic pass brings back what the operator deleted. *)
DiscoverDeleted(found) ==
  /\ row' = [m \in Models |-> IF m \in found /\ row[m] = None
                              THEN [source |-> "discovered", enabled |-> TRUE] ELSE row[m]]
  /\ chain' = [m \in Models |-> IF m \in found /\ row[m] = None THEN TRUE ELSE chain[m]]
  /\ UNCHANGED tombstone

registerDiscoveredModels(found) ==
  LET created == {m \in found : row[m] = None /\ tombstone[m] # "user"} IN
  /\ row' = [m \in Models |-> IF m \in created
                              THEN [source |-> "discovered", enabled |-> TRUE] ELSE row[m]]
  /\ chain' = [m \in Models |-> IF m \in created THEN TRUE ELSE chain[m]]
  /\ UNCHANGED tombstone

(* The provider lists what it likes; whether the platform is still open to *)
(* discovery is asked again.                                               *)
runBuiltinModelDiscovery(found) ==
  /\ discovery /\ discovery' = FALSE
  /\ IF isBuiltinDiscoveryEligible THEN registerDiscoveredModels(found) ELSE UNCHANGED tables
  /\ UNCHANGED <<settings, service, sync, up, torn>>

(***************************************************************************)
(* Verdicts of the provider, and the operator                              *)
(***************************************************************************)

(* A confirmed signal that the model is gone.                              *)
retireCatalogModelUpstream(m) ==
  /\ up /\ isCatalogManagedModel(m) /\ tombstone[m] = None
  /\ tombstone' = [tombstone EXCEPT ![m] = "upstream_eol"]
  /\ chain' = [chain EXCEPT ![m] = FALSE]
  /\ UNCHANGED <<row, settings, service, process, torn>>

AddRow(m, source) ==
  /\ up /\ row[m] = None
  /\ row' = [row EXCEPT ![m] = [source |-> source, enabled |-> TRUE]]
  /\ chain' = [chain EXCEPT ![m] = TRUE]
  /\ UNCHANGED <<settings, service, process, torn>>

AddModel(m) ==
  /\ AddRow(m, "user")
  /\ tombstone' = [tombstone EXCEPT ![m] = None]

PickDiscovered(m) ==
  /\ isBuiltinDiscoveryEligible /\ AddRow(m, "discovered")
  /\ tombstone' = [tombstone EXCEPT ![m] = IF @ = "user" THEN None ELSE @]

DeleteModel(m) ==
  /\ up /\ row[m] # None
  /\ row' = [row EXCEPT ![m] = None]
  /\ chain' = [chain EXCEPT ![m] = None]
  /\ tombstone' = [tombstone EXCEPT ![m] = IF isCatalogManagedModel(m) THEN "user" ELSE @]
  /\ UNCHANGED <<settings, service, process, torn>>

SwitchModel(m, enabled) ==
  /\ up /\ row[m] # None
  /\ row' = [row EXCEPT ![m].enabled = enabled]
  /\ chain' = [chain EXCEPT ![m] = @ /\ enabled]
  /\ UNCHANGED <<tombstone, settings, service, process, torn>>

SwitchEntry(m) ==
  /\ up /\ row[m] # None
  /\ chain' = [chain EXCEPT ![m] = ~@]
  /\ UNCHANGED <<row, tombstone, settings, service, process, torn>>

(* A first start: the bundled models, or none of this platform.            *)
Init ==
  /\ row \in [Models -> {None, [source |-> "catalog", enabled |-> TRUE]}]
  /\ chain = [m \in Models |-> IF row[m] = None THEN None ELSE TRUE]
  /\ tombstone = [m \in Models |-> None]
  /\ content \in [Versions -> Catalogs]
  /\ published = 1
  /\ version = None /\ json = None
  /\ sync = [s \in Syncs |-> None]
  /\ discovery = FALSE
  /\ up = TRUE /\ torn = FALSE

Next ==
  \/ Publish
  \/ Poll
  \/ \E s \in Syncs : ForcedSync(s)
  \/ \E s \in Syncs : Answered(s)
  \/ \E s \in Syncs : Failed(s)
  \/ \E s \in Syncs : Apply(s)
  \/ \E s \in Syncs : NothingToApply(s)
  \/ Crash
  \/ \E s \in Syncs : CrashInApply(s)
  \/ reapplyCachedCatalog
  \/ StartDiscovery
  \/ \E found \in SUBSET Models : runBuiltinModelDiscovery(found)
  \/ \E m \in Models : retireCatalogModelUpstream(m)
  \/ \E m \in Models : AddModel(m)
  \/ \E m \in Models : PickDiscovered(m)
  \/ \E m \in Models : DeleteModel(m)
  \/ \E m \in Models, enabled \in BOOLEAN : SwitchModel(m, enabled)
  \/ \E m \in Models : SwitchEntry(m)

(* A stopped process is started again; the timer polls; every sync is      *)
(* answered or cut by its deadline, and neither the service nor a crash    *)
(* keeps every poll from being answered and applied.                       *)
Fairness ==
  /\ WF_vars(reapplyCachedCatalog)
  /\ SF_vars(Poll)
  /\ \A s \in Syncs :
       WF_vars(Answered(s) \/ Failed(s) \/ Apply(s) \/ CrashInApply(s) \/ NothingToApply(s))
  /\ SF_vars(Answered(Scheduled))
  /\ SF_vars(Apply(Scheduled) \/ NothingToApply(Scheduled))

Spec == Init /\ [][Next]_vars /\ Fairness

(***************************************************************************)
(* Properties                                                              *)
(***************************************************************************)

(* What the operator deleted stays deleted: no sync, replay or discovery   *)
(* brings a row back while its tombstone stands, whatever was under way at *)
(* the deletion (catalog-sync.ts:426).  And every row has its entry in the *)
(* chain, no entry outlives its row (catalog-sync.ts:860).                 *)
DeletedStaysDeleted ==
  \A m \in Models :
    /\ tombstone[m] = "user" => row[m] = None
    /\ row[m] = None <=> chain[m] = None

(* A start replays what is already known: it lifts no retirement and lets  *)
(* no retired model answer that did not before (catalog-sync.ts:632); but  *)
(* for a crash that left the settings behind the tables.                   *)
RetirementOutlivesRestart ==
  [][reapplyCachedCatalog /\ ~torn =>
       \A m \in Models : tombstone[m] = "upstream_eol" =>
         /\ tombstone'[m] = "upstream_eol"
         /\ Routable(m)' => Routable(m)]_vars

(* Current: the newest catalog is the one remembered and replayed, and no  *)
(* model it does not list is left of an older one.                         *)
Current ==
  /\ version = published /\ json = published
  /\ \A m \in Models : row[m] # None /\ row[m].source = "catalog" => Listed(published, m)
  /\ content[published].managed =>
       \A m \in Models : row[m] # None => row[m].source # "discovered"

(* The tables end up with the newest catalog and stay with it, whatever    *)
(* older one an overlapping sync has put back and however often the        *)
(* process starts again (catalog-sync.ts:1229); but for a crash that left  *)
(* the settings behind the tables.                                         *)
Converges ==
  <>[][published >= MIN_CATALOG_VERSION => Current \/ torn]_vars
=============================================================================
