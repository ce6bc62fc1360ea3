-------------------------- MODULE ModelCatalogProofs --------------------------
(***************************************************************************)
(* ModelCatalog for any models, catalogs, syncs and any oldest catalog.    *)
(* DeletedStaysDeleted is inductive with the types.  That a restart lifts  *)
(* no retirement also needs what the tables and the settings know of each  *)
(* other: unless a crash tore them apart, the version is that of the       *)
(* document, and a retired model without a row is one the document does    *)
(* not list, so that the replay cannot bring it back.                      *)
(***************************************************************************)
EXTENDS ModelCatalog, TLAPS

Step == [Next]_vars

TablesTypeOK ==
  /\ row \in [Models -> Row \cup {None}]
  /\ chain \in [Models -> BOOLEAN \cup {None}]
  /\ tombstone \in [Models -> {None, "user", "upstream_eol"}]

(* A row of the operator carries no tombstone. *)
OwnRowsUnmarked ==
  \A m \in Models : row[m] # None /\ row[m].source = "user" => tombstone[m] = None

SettingsAgree ==
  ~torn =>
    /\ version = json
    /\ \A m \in Models : tombstone[m] = "upstream_eol" /\ row[m] = None =>
         json # None /\ ~Listed(json, m)

TablesInv == TablesTypeOK /\ DeletedStaysDeleted /\ OwnRowsUnmarked
IInv == TablesInv /\ SettingsAgree

(***************************************************************************)
(* Applying a catalog                                                      *)
(***************************************************************************)

(* What an apply makes of one model. *)
LEMMA ApplyOne ==
  ASSUME TablesInv, NEW v, applyCatalog(v), NEW m \in Models
  PROVE  /\ row'[m] \in Row \cup {None}
         /\ chain'[m] \in BOOLEAN \cup {None}
         /\ tombstone'[m] \in {None, "user", "upstream_eol"}
         /\ tombstone'[m] = "user" => row'[m] = None
         /\ row'[m] = None <=> chain'[m] = None
         /\ row'[m] # None /\ row'[m].source = "user" => tombstone'[m] = None
         /\ tombstone'[m] = "upstream_eol" /\ row'[m] = None => ~Listed(v, m)
<1>1. /\ row[m] \in Row \cup {None}
      /\ chain[m] \in BOOLEAN \cup {None}
      /\ tombstone[m] \in {None, "user", "upstream_eol"}
      /\ tombstone[m] = "user" => row[m] = None
      /\ row[m] = None <=> chain[m] = None
      /\ row[m] # None /\ row[m].source = "user" => tombstone[m] = None
  BY DEF TablesInv, TablesTypeOK, DeletedStaysDeleted, OwnRowsUnmarked
<1>2. /\ row'[m] = RowAfter(v, m)
      /\ tombstone'[m] = IF Lifted(v, m) THEN None ELSE tombstone[m]
      /\ chain'[m] = IF row'[m] = None THEN None
                     ELSE IF row[m] = None \/ Lifted(v, m) THEN TRUE ELSE chain[m]
  BY DEF applyCatalog
<1>3. CASE Dropped(v, m)
  BY <1>1, <1>2, <1>3, CatalogAssumption DEF RowAfter, Dropped, isCatalogManagedModel
<1>4. CASE ~Dropped(v, m) /\ Taken(v, m)
  <2>1. row'[m] \in Row /\ row'[m].source = "catalog"
    BY <1>2, <1>4 DEF RowAfter, Row
  <2> QED
    BY <1>1, <1>2, <1>4, <2>1, CatalogAssumption DEF Taken
<1>5. CASE ~Dropped(v, m) /\ ~Taken(v, m)
  <2>1. row'[m] = row[m]
    BY <1>2, <1>5 DEF RowAfter
  <2> QED
    BY <1>1, <1>2, <1>5, <2>1, CatalogAssumption DEF Taken
<1> QED
  BY <1>3, <1>4, <1>5

(* An apply keeps what is known of the tables, and leaves no retired model *)
(* without a row that the catalog lists.                                   *)
LEMMA ApplyKeeps ==
  ASSUME TablesInv, NEW v, applyCatalog(v)
  PROVE  /\ TablesInv'
         /\ \A m \in Models : tombstone'[m] = "upstream_eol" /\ row'[m] = None => ~Listed(v, m)
<1>1. /\ row' = [m \in Models |-> row'[m]]
      /\ tombstone' = [m \in Models |-> tombstone'[m]]
      /\ chain' = [m \in Models |-> chain'[m]]
  BY DEF applyCatalog
<1>2. TablesTypeOK'
  BY <1>1, ApplyOne DEF TablesTypeOK
<1>3. DeletedStaysDeleted' /\ OwnRowsUnmarked'
  BY ApplyOne DEF DeletedStaysDeleted, OwnRowsUnmarked
<1> QED
  BY <1>2, <1>3, ApplyOne DEF TablesInv

(* What an apply that is news to nobody does to a retired model. *)
LEMMA ReplayKeeps ==
  ASSUME TablesInv, applyCatalog(version), NEW m \in Models,
         tombstone[m] = "upstream_eol", row[m] = None => ~Listed(version, m)
  PROVE  /\ tombstone'[m] = "upstream_eol"
         /\ row'[m] # None /\ row'[m].enabled /\ chain'[m] = TRUE => Routable(m)
<1>1. ~Lifted(version, m)
  BY DEF Lifted, catalogBringsNewEvidence
<1>2. /\ row'[m] = RowAfter(version, m)
      /\ tombstone'[m] = tombstone[m]
      /\ chain'[m] = IF row'[m] = None THEN None
                     ELSE IF row[m] = None THEN TRUE ELSE chain[m]
  BY <1>1 DEF applyCatalog
<1>3. CASE row[m] = None
  BY <1>2, <1>3 DEF RowAfter, Dropped, Taken, isCatalogManagedModel
<1>4. CASE row[m] # None
  <2>1. ASSUME row'[m] # None, row'[m].enabled
        PROVE  row[m].enabled
    <3>1. CASE row'[m] = row[m]
      BY <2>1, <3>1
    <3>2. CASE row'[m] # row[m]
      <4>1. row'[m] = [source |-> "catalog",
                       enabled |-> content[version].listing[m] = "on" /\ row[m].enabled]
        BY <1>2, <1>4, <2>1, <3>2 DEF RowAfter
      <4>2. row'[m].enabled = (content[version].listing[m] = "on" /\ row[m].enabled)
        BY <4>1
      <4> QED
        BY <2>1, <4>2
    <3> QED
      BY <3>1, <3>2
  <2> QED
    BY <1>2, <1>4, <2>1 DEF Routable
<1> QED
  BY <1>3, <1>4

(***************************************************************************)
(* The other writers of the tables                                         *)
(***************************************************************************)

(* The state of one model as TablesInv wants it. *)
Fine(r, c, t) ==
  /\ r \in Row \cup {None}
  /\ c \in BOOLEAN \cup {None}
  /\ t \in {None, "user", "upstream_eol"}
  /\ t = "user" => r = None
  /\ r = None <=> c = None
  /\ r # None /\ r.source = "user" => t = None

(* The tables are as wanted when they are for every model. *)
LEMMA Pointwise ==
  ASSUME row' = [m \in Models |-> row'[m]], chain' = [m \in Models |-> chain'[m]],
         tombstone' = [m \in Models |-> tombstone'[m]],
         \A m \in Models : Fine(row'[m], chain'[m], tombstone'[m])
  PROVE  TablesInv'
<1>1. TablesTypeOK'
  BY DEF TablesTypeOK, Fine
<1> QED
  BY <1>1 DEF TablesInv, DeletedStaysDeleted, OwnRowsUnmarked, Fine

(* A writer that touches one model has to leave that one as wanted. *)
LEMMA OneModel ==
  ASSUME TablesInv, NEW m \in Models, NEW r, NEW c, NEW t, Fine(r, c, t),
         row' = [row EXCEPT ![m] = r], chain' = [chain EXCEPT ![m] = c],
         tombstone' = [tombstone EXCEPT ![m] = t]
  PROVE  TablesInv'
<1>1. /\ row' = [j \in Models |-> row'[j]]
      /\ chain' = [j \in Models |-> chain'[j]]
      /\ tombstone' = [j \in Models |-> tombstone'[j]]
      /\ row'[m] = r /\ chain'[m] = c /\ tombstone'[m] = t
      /\ \A j \in Models : j # m => /\ row'[j] = row[j] /\ chain'[j] = chain[j]
                                   /\ tombstone'[j] = tombstone[j]
  BY DEF TablesInv, TablesTypeOK
<1>2. \A j \in Models : Fine(row[j], chain[j], tombstone[j])
  BY DEF TablesInv, TablesTypeOK, DeletedStaysDeleted, OwnRowsUnmarked, Fine
<1>3. \A j \in Models : Fine(row'[j], chain'[j], tombstone'[j])
  BY <1>1, <1>2
<1> QED
  BY <1>1, <1>3, Pointwise

(* What is known of one model. *)
LEMMA ModelFine ==
  ASSUME TablesInv, NEW m \in Models
  PROVE  Fine(row[m], chain[m], tombstone[m])
  BY DEF TablesInv, TablesTypeOK, DeletedStaysDeleted, OwnRowsUnmarked, Fine

(* A table a step leaves alone is one it writes as it was. *)
LEMMA SameTables ==
  ASSUME TablesInv, NEW m \in Models
  PROVE  /\ row = [row EXCEPT ![m] = row[m]]
         /\ chain = [chain EXCEPT ![m] = chain[m]]
         /\ tombstone = [tombstone EXCEPT ![m] = tombstone[m]]
  BY DEF TablesInv, TablesTypeOK

(* A new row is a row, so it is not None. *)
LEMMA NewRow ==
  ASSUME NEW source \in {"catalog", "user", "discovered"}, NEW enabled \in BOOLEAN
  PROVE  /\ [source |-> source, enabled |-> enabled] \in Row
         /\ [source |-> source, enabled |-> enabled] # None
<1>1. [source |-> source, enabled |-> enabled] \in Row
  BY DEF Row
<1> QED
  BY <1>1, CatalogAssumption

(* TRUE and FALSE are not None. *)
LEMMA Booleans == None \notin BOOLEAN
  BY CatalogAssumption

(* A row is added with its entry in the chain, and the tombstone the       *)
(* operator had left is lifted with it.                                    *)
LEMMA AddKeeps ==
  ASSUME TablesInv, NEW m \in Models, AddModel(m) \/ PickDiscovered(m)
  PROVE  TablesInv'
<1>1. CASE AddModel(m)
  <2>1. Fine([source |-> "user", enabled |-> TRUE], TRUE, None)
    <3> DEFINE new == [source |-> "user", enabled |-> TRUE]
    <3>1. new \in Row /\ new # None
      BY NewRow
    <3> HIDE DEF new
    <3>2. Fine(new, TRUE, None)
      BY <3>1, Booleans, CatalogAssumption DEF Fine
    <3> QED
      BY <3>2 DEF new
  <2> QED
    BY <1>1, <2>1, OneModel DEF AddModel, AddRow
<1>2. CASE PickDiscovered(m)
  <2> DEFINE left == IF tombstone[m] = "user" THEN None ELSE tombstone[m]
  <2>1. Fine([source |-> "discovered", enabled |-> TRUE], TRUE, left)
    <3> DEFINE new == [source |-> "discovered", enabled |-> TRUE]
    <3>1. new \in Row /\ new # None /\ new.source = "discovered"
      BY NewRow
    <3>2. left \in {None, "user", "upstream_eol"} /\ left # "user"
      BY ModelFine, CatalogAssumption DEF Fine
    <3> HIDE DEF new, left
    <3>3. Fine(new, TRUE, left)
      BY <3>1, <3>2, Booleans DEF Fine
    <3> QED
      BY <3>3 DEF new
  <2>2. tombstone' = [tombstone EXCEPT ![m] = left]
    BY <1>2 DEF PickDiscovered
  <2> HIDE DEF left
  <2> QED
    BY <1>2, <2>1, <2>2, OneModel DEF PickDiscovered, AddRow
<1> QED
  BY <1>1, <1>2

(* What the operator does to a model leaves the tables as wanted. *)
LEMMA OperatorKeeps ==
  ASSUME TablesInv, NEW m \in Models,
         \/ AddModel(m) \/ PickDiscovered(m) \/ DeleteModel(m) \/ SwitchEntry(m)
         \/ \E enabled \in BOOLEAN : SwitchModel(m, enabled)
  PROVE  TablesInv'
<1> DEFINE Marks == {None, "user", "upstream_eol"}
<1>0. /\ row[m] \in Row \cup {None} /\ chain[m] \in BOOLEAN \cup {None}
      /\ tombstone[m] \in Marks /\ (row[m] = None <=> chain[m] = None)
      /\ tombstone[m] = "user" => row[m] = None
      /\ row[m] # None /\ row[m].source = "user" => tombstone[m] = None
  BY ModelFine DEF Fine
<1>1. CASE DeleteModel(m)
  <2> DEFINE left == IF isCatalogManagedModel(m) THEN "user" ELSE tombstone[m]
  <2>1. left \in Marks
    BY <1>0
  <2>2. tombstone' = [tombstone EXCEPT ![m] = left]
    BY <1>1 DEF DeleteModel
  <2> HIDE DEF left
  <2>3. Fine(None, None, left)
    BY <2>1 DEF Fine
  <2> QED
    BY <1>1, <2>3, <2>2, OneModel DEF DeleteModel
<1>2. CASE SwitchEntry(m)
  <2> DEFINE other == ~chain[m]
  <2>1. row[m] # None /\ row[m] \in Row
    BY <1>0, <1>2 DEF SwitchEntry
  <2>2. other \in BOOLEAN
    OBVIOUS
  <2>3. chain' = [chain EXCEPT ![m] = other] /\ UNCHANGED <<row, tombstone>>
    BY <1>2 DEF SwitchEntry
  <2> HIDE DEF other
  <2>4. other # None
    BY <2>2, CatalogAssumption
  <2>5. Fine(row[m], other, tombstone[m])
    BY <1>0, <2>1, <2>2, <2>4 DEF Fine
  <2>6. /\ row' = [row EXCEPT ![m] = row[m]]
        /\ tombstone' = [tombstone EXCEPT ![m] = tombstone[m]]
    BY <2>3, SameTables
  <2> QED
    BY <2>3, <2>5, <2>6, OneModel
<1>3. ASSUME NEW enabled \in BOOLEAN, SwitchModel(m, enabled)
      PROVE  TablesInv'
  <2> DEFINE switched == [row[m] EXCEPT !.enabled = enabled]
             entry == chain[m] /\ enabled
  <2>1. row[m] \in Row /\ row[m] # None
    BY <1>0, <1>3 DEF SwitchModel
  <2>2. switched \in Row /\ switched.source = row[m].source
    BY <2>1 DEF Row
  <2>3. entry \in BOOLEAN
    OBVIOUS
  <2>4. /\ row' = [row EXCEPT ![m] = switched] /\ chain' = [chain EXCEPT ![m] = entry]
        /\ UNCHANGED tombstone
    BY <1>3 DEF SwitchModel
  <2> HIDE DEF switched, entry
  <2>5. switched # None /\ entry # None
    BY <2>2, <2>3, CatalogAssumption
  <2>6. Fine(switched, entry, tombstone[m])
    BY <1>0, <2>1, <2>2, <2>3, <2>5 DEF Fine
  <2> QED
    BY <2>4, <2>6, SameTables, OneModel
<1> QED
  BY <1>1, <1>2, <1>3, AddKeeps

(* A retirement marks a row that is not the operator's. *)
LEMMA RetirementKeeps ==
  ASSUME TablesInv, NEW m \in Models, retireCatalogModelUpstream(m)
  PROVE  TablesInv'
  BY CatalogAssumption
     DEF retireCatalogModelUpstream, isCatalogManagedModel, TablesInv, TablesTypeOK,
         DeletedStaysDeleted, OwnRowsUnmarked

(* Discovery adds rows the operator has not deleted. *)
LEMMA DiscoveryKeeps ==
  ASSUME TablesInv, NEW found \in SUBSET Models, registerDiscoveredModels(found)
  PROVE  TablesInv'
<1> DEFINE new == [source |-> "discovered", enabled |-> TRUE]
           created == {m \in found : row[m] = None /\ tombstone[m] # "user"}
<1>1. new \in Row /\ new # None /\ new.source = "discovered"
  BY NewRow
<1>2. /\ row' = [m \in Models |-> IF m \in created THEN new ELSE row[m]]
      /\ chain' = [m \in Models |-> IF m \in created THEN TRUE ELSE chain[m]]
      /\ UNCHANGED tombstone
  BY DEF registerDiscoveredModels
<1>3. \A m \in created : row[m] = None /\ tombstone[m] # "user"
  OBVIOUS
<1> HIDE DEF new, created
<1>4. ASSUME NEW m \in Models
      PROVE  Fine(row'[m], chain'[m], tombstone'[m])
  <2>1. CASE m \in created
    <3>1. row'[m] = new /\ chain'[m] = TRUE /\ tombstone'[m] = tombstone[m]
      BY <1>2, <2>1
    <3> QED
      <4>1. /\ tombstone[m] \in {None, "user", "upstream_eol"} /\ tombstone[m] # "user"
            /\ TRUE # None
        BY <1>3, <2>1, ModelFine, CatalogAssumption DEF Fine
      <4>2. Fine(new, TRUE, tombstone[m])
        BY <1>1, <4>1 DEF Fine
      <4> QED
        BY <3>1, <4>2
  <2>2. CASE m \notin created
    <3>1. row'[m] = row[m] /\ chain'[m] = chain[m] /\ tombstone'[m] = tombstone[m]
      BY <1>2, <2>2
    <3> QED
      BY <3>1, ModelFine
  <2> QED
    BY <2>1, <2>2
<1>5. /\ row' = [m \in Models |-> row'[m]] /\ chain' = [m \in Models |-> chain'[m]]
      /\ tombstone' = [m \in Models |-> tombstone'[m]]
  <2>1. tombstone = [m \in Models |-> tombstone[m]]
    BY DEF TablesInv, TablesTypeOK
  <2> QED
    BY <1>2, <2>1
<1> QED
  BY <1>4, <1>5, Pointwise

(***************************************************************************)
(* Every step                                                              *)
(***************************************************************************)

(* What a step does to the tables and the settings.                        *)
LEMMA TableSteps ==
  ASSUME Step
  PROVE  \/ \E s \in Syncs : Apply(s) \/ CrashInApply(s)
         \/ reapplyCachedCatalog
         \/ /\ UNCHANGED <<settings, content, torn>>
            /\ \/ UNCHANGED tables
               \/ \E found \in SUBSET Models : registerDiscoveredModels(found)
               \/ \E m \in Models : \/ retireCatalogModelUpstream(m)
                                    \/ AddModel(m) \/ PickDiscovered(m)
                                    \/ DeleteModel(m) \/ SwitchEntry(m)
                                    \/ \E enabled \in BOOLEAN : SwitchModel(m, enabled)
<1>1. CASE \/ Publish \/ Poll \/ Crash \/ StartDiscovery \/ UNCHANGED vars
           \/ \E s \in Syncs : ForcedSync(s) \/ Answered(s) \/ Failed(s) \/ NothingToApply(s)
  BY <1>1
     DEF Publish, Poll, ForcedSync, syncCatalog, Answered, Failed, NothingToApply, Crash,
         StartDiscovery, vars, tables, settings, service
<1>2. CASE \E found \in SUBSET Models : runBuiltinModelDiscovery(found)
  BY <1>2 DEF runBuiltinModelDiscovery, settings, service
<1>3. ASSUME NEW m \in Models,
             \/ retireCatalogModelUpstream(m) \/ AddModel(m) \/ PickDiscovered(m)
             \/ DeleteModel(m) \/ SwitchEntry(m)
             \/ \E enabled \in BOOLEAN : SwitchModel(m, enabled)
      PROVE  UNCHANGED <<settings, content, torn>>
  BY <1>3
     DEF retireCatalogModelUpstream, AddModel, PickDiscovered, AddRow, DeleteModel,
         SwitchEntry, SwitchModel, settings, service
<1> QED
  BY <1>1, <1>2, <1>3 DEF Step, Next

LEMMA TablesStep ==
  ASSUME TablesInv, Step
  PROVE  TablesInv'
<1>1. CASE \E s \in Syncs : Apply(s) \/ CrashInApply(s)
  BY <1>1, ApplyKeeps DEF Apply, CrashInApply
<1>2. CASE UNCHANGED tables
  BY <1>2 DEF tables, TablesInv, TablesTypeOK, DeletedStaysDeleted, OwnRowsUnmarked
<1>3. CASE reapplyCachedCatalog
  BY <1>2, <1>3, ApplyKeeps DEF reapplyCachedCatalog
<1> QED
  BY <1>1, <1>2, <1>3, TableSteps, DiscoveryKeeps, RetirementKeeps, OperatorKeeps

(* Outside an apply no retired model loses its row.                        *)
LEMMA SettingsStep ==
  ASSUME TablesInv, SettingsAgree, Step
  PROVE  SettingsAgree'
<1>1. ASSUME NEW s \in Syncs, Apply(s)
      PROVE  SettingsAgree'
  <2>1. /\ version' = sync[s].catalog /\ json' = sync[s].catalog
        /\ sync[s].catalog # None /\ applyCatalog(sync[s].catalog) /\ UNCHANGED content
    BY <1>1 DEF Apply, ToApply, service
  <2>2. \A m \in Models : tombstone'[m] = "upstream_eol" /\ row'[m] = None
                            => ~Listed(sync[s].catalog, m)
    BY <2>1, ApplyKeeps
  <2> QED
    BY <2>1, <2>2 DEF SettingsAgree, Listed
<1>2. ASSUME NEW s \in Syncs, CrashInApply(s)
      PROVE  SettingsAgree'
  BY <1>2 DEF CrashInApply, SettingsAgree
<1>3. ASSUME reapplyCachedCatalog
      PROVE  SettingsAgree'
  <2>1. UNCHANGED <<json, content, torn>>
    BY <1>3 DEF reapplyCachedCatalog, service
  <2>2. CASE json = None
    BY <1>3, <2>1, <2>2 DEF reapplyCachedCatalog, SettingsAgree, tables
  <2>3. CASE json # None /\ applyCatalog(json)
    <3>1. UNCHANGED version
      BY <1>3, <2>3 DEF reapplyCachedCatalog
    <3>2. \A m \in Models : tombstone'[m] = "upstream_eol" /\ row'[m] = None => ~Listed(json, m)
      BY <2>3, ApplyKeeps
    <3> QED
      BY <2>1, <2>3, <3>1, <3>2 DEF SettingsAgree, Listed
  <2>4. CASE json # None /\ UNCHANGED tables
    BY <1>3, <2>1, <2>4 DEF reapplyCachedCatalog, SettingsAgree, Listed, tables
  <2> QED
    BY <1>3, <2>2, <2>3, <2>4 DEF reapplyCachedCatalog
<1>4. ASSUME UNCHANGED <<settings, content, torn>>,
             \A m \in Models : tombstone'[m] = "upstream_eol" /\ row'[m] = None =>
               tombstone[m] = "upstream_eol" /\ row[m] = None
      PROVE  SettingsAgree'
  BY <1>4 DEF SettingsAgree, Listed, settings
<1>5. CASE UNCHANGED <<settings, content, torn>> /\ UNCHANGED tables
  BY <1>4, <1>5 DEF tables
<1>6. ASSUME UNCHANGED <<settings, content, torn>>,
             NEW found \in SUBSET Models, registerDiscoveredModels(found)
      PROVE  SettingsAgree'
  <2>1. \A m \in Models : row'[m] = None => row[m] = None
    BY <1>6, CatalogAssumption DEF registerDiscoveredModels, Row
  <2> QED
    BY <1>4, <1>6, <2>1 DEF registerDiscoveredModels
<1>7. ASSUME UNCHANGED <<settings, content, torn>>, NEW m \in Models,
             \/ retireCatalogModelUpstream(m) \/ AddModel(m) \/ PickDiscovered(m)
             \/ DeleteModel(m) \/ SwitchEntry(m)
             \/ \E enabled \in BOOLEAN : SwitchModel(m, enabled)
      PROVE  SettingsAgree'
  <2>1. \A j \in Models : j # m => row'[j] = row[j] /\ tombstone'[j] = tombstone[j]
    BY <1>7
       DEF retireCatalogModelUpstream, AddModel, PickDiscovered, AddRow, DeleteModel,
           SwitchEntry, SwitchModel, TablesInv, TablesTypeOK
  <2>2. ASSUME tombstone'[m] = "upstream_eol", row'[m] = None
        PROVE  tombstone[m] = "upstream_eol" /\ row[m] = None
    <3>1. CASE retireCatalogModelUpstream(m) \/ SwitchEntry(m)
      BY <2>2, <3>1 DEF retireCatalogModelUpstream, isCatalogManagedModel, SwitchEntry
    <3>2. CASE AddModel(m)
      BY <2>2, <3>2, CatalogAssumption DEF AddModel, TablesInv, TablesTypeOK
    <3>3. CASE PickDiscovered(m)
      <4>1. row' = [row EXCEPT ![m] = [source |-> "discovered", enabled |-> TRUE]]
        BY <3>3 DEF PickDiscovered, AddRow
      <4>2. row'[m] = [source |-> "discovered", enabled |-> TRUE]
        BY <4>1 DEF TablesInv, TablesTypeOK
      <4> QED
        BY <2>2, <4>2, CatalogAssumption DEF Row
    <3>4. CASE DeleteModel(m)
      <4>1. tombstone'[m] = IF isCatalogManagedModel(m) THEN "user" ELSE tombstone[m]
        BY <3>4 DEF DeleteModel, TablesInv, TablesTypeOK
      <4> QED
        BY <2>2, <3>4, <4>1, CatalogAssumption
           DEF DeleteModel, isCatalogManagedModel, TablesInv, OwnRowsUnmarked
    <3>5. ASSUME NEW enabled \in BOOLEAN, SwitchModel(m, enabled)
          PROVE  FALSE
      <4>1. row'[m] = [row[m] EXCEPT !.enabled = enabled] /\ row[m] # None
        BY <3>5 DEF SwitchModel, TablesInv, TablesTypeOK
      <4>2. row'[m] \in Row
        BY <4>1, <3>5 DEF TablesInv, TablesTypeOK, Row
      <4> QED
        BY <2>2, <4>2, CatalogAssumption
    <3> QED
      BY <1>7, <3>1, <3>2, <3>3, <3>4, <3>5
  <2> QED
    BY <1>4, <1>7, <2>1, <2>2
<1> QED
  BY <1>1, <1>2, <1>3, <1>5, <1>6, <1>7, TableSteps

(***************************************************************************)
(* Theorems                                                                *)
(***************************************************************************)
LEMMA InvHolds == Spec => []IInv
<1>1. Init => IInv
  <2> SUFFICES ASSUME Init PROVE IInv
    OBVIOUS
  <2>1. [source |-> "catalog", enabled |-> TRUE] \in Row
    BY DEF Row
  <2>2. TablesTypeOK
    BY <2>1 DEF Init, TablesTypeOK
  <2> QED
    BY <2>2, CatalogAssumption
       DEF Init, IInv, TablesInv, DeletedStaysDeleted, OwnRowsUnmarked, SettingsAgree
<1>2. IInv /\ [Next]_vars => IInv'
  BY TablesStep, SettingsStep DEF IInv, Step
<1> QED
  BY <1>1, <1>2, PTL DEF Spec

(* What the operator deleted stays deleted, and rows and entries come and  *)
(* go together, for any number of overlapping syncs (catalog-sync.ts:426). *)
THEOREM DeletionsHold == Spec => []DeletedStaysDeleted
<1>1. IInv => DeletedStaysDeleted
  BY DEF IInv, TablesInv
<1> QED
  BY <1>1, InvHolds, PTL

(* A start whose settings are whole lifts no retirement and lets no        *)
(* retired model answer that did not before (catalog-sync.ts:632).         *)
THEOREM RestartsLiftNothing == Spec => RetirementOutlivesRestart
<1>1. ASSUME IInv, reapplyCachedCatalog, ~torn, NEW m \in Models,
             tombstone[m] = "upstream_eol"
      PROVE  tombstone'[m] = "upstream_eol" /\ (Routable(m)' => Routable(m))
  <2>1. version = json /\ (row[m] = None => json # None /\ ~Listed(json, m))
    BY <1>1 DEF IInv, SettingsAgree
  <2>2. CASE applyCatalog(json)
    BY <1>1, <2>1, <2>2, ReplayKeeps DEF IInv, Routable
  <2>3. CASE UNCHANGED tables
    BY <1>1, <2>3 DEF tables, Routable
  <2> QED
    BY <1>1, <2>2, <2>3 DEF reapplyCachedCatalog
<1>2. IInv /\ [Next]_vars =>
        [reapplyCachedCatalog /\ ~torn =>
           \A m \in Models : tombstone[m] = "upstream_eol" =>
             /\ tombstone'[m] = "upstream_eol"
             /\ Routable(m)' => Routable(m)]_vars
  BY <1>1
<1> QED
  BY <1>2, InvHolds, PTL DEF Spec, RetirementOutlivesRestart
=============================================================================
