------------------------------ MODULE MCProducts ------------------------------
(***************************************************************************)
(* Products for TLC.  Knowledge tree, artifact rows and git accounts share *)
(* no state, so each behaviour lets one of them run and keeps the others   *)
(* at rest: the union of three searches, not their product.                *)
(***************************************************************************)
EXTENDS KnowledgeTree, ProductStore, SettingStore, ProductParts, TLC

TreeRests ==
  /\ parent = [n \in Nodes |-> Uncreated]
  /\ move = [m \in Moves |-> Ended]
  /\ overlap = FALSE
  /\ treeEdits = MaxTreeEdits

(* Three moves in a tree that nobody edits, or two beside an edit. *)
TreeRuns ==
  LET edited == CHOOSE m \in Moves : TRUE IN
  /\ TreeInit
  /\ \/ treeEdits = MaxTreeEdits /\ move = [m \in Moves |-> Idle]
     \/ treeEdits = 0 /\ move = [m \in Moves |-> IF m = edited THEN Ended ELSE Idle]

(* Nothing stored and no request left. *)
StoreRests ==
  /\ row = [e \in Entities |-> None]
  /\ server = [s \in Servers |-> Gone]
  /\ ask = [a \in Asks |-> Gone]
  /\ writes = MaxWrites /\ requests = MaxRequests /\ claims = MaxClaims

(* Requests on pages: one codebase, one database, room for another one.    *)
OnPages ==
  /\ LET spare == CHOOSE d \in Databases : TRUE
     IN row = [e \in Entities |-> IF e = spare THEN None ELSE NewRow(0, None)]
  /\ server = [s \in Servers |-> Gone]
  /\ ask = [a \in Asks |-> Gone]
  /\ writes = 0 /\ requests = MaxRequests - 2 /\ claims = MaxClaims

(* Requests on preset databases and their servers; one fewer when a client *)
(* makes up a body.                                                        *)
OnPresets ==
  /\ row = [e \in Entities |-> IF e \in Databases THEN NewRow(0, None) ELSE None]
  /\ server = [s \in Servers |-> Unborn]
  /\ ask = [a \in Asks |-> None]
  /\ writes = MaxWrites
  /\ \/ requests = 0 /\ claims = MaxClaims
     \/ requests = 1 /\ claims = 0

StoreFree ==
  /\ lock = [e \in Entities |-> None]
  /\ payload = NoRows
  /\ put = NoPut
  /\ shared = {} /\ orphaned = {}

(* Two accounts, each on a host of its own. *)
FirstUrl == CHOOSE u \in Urls \ {Public} : TRUE
SecondUrl == CHOOSE u \in Urls \ {Public, FirstUrl} : TRUE
TwoAccounts ==
  /\ meant = [u \in Urls |-> CASE u = FirstUrl -> 0 [] u = SecondUrl -> 100 [] OTHER -> Unset]
  /\ stored = [k \in Keys |->
       CASE k[2] = "url" -> IF k[1] = 0 THEN FirstUrl ELSE SecondUrl
         [] OTHER -> IF k[1] = 0 THEN 0 ELSE 100]
  /\ cache = [k \in Keys |-> Absent]
  /\ thread = [t \in Threads |-> Resting]
  /\ tainted = FALSE

(* A fault or a second lookup, not both. *)
SettingsRun == saves = 0 /\ faults \in 0 .. 1 /\ resolves = 1 - faults
SettingsRest == saves = MaxSaves /\ faults = MaxFaults /\ resolves = MaxResolves

MCInit ==
  /\ StoreFree
  /\ TwoAccounts
  /\ \/ TreeRuns /\ StoreRests /\ SettingsRest
     \/ TreeRests /\ (OnPages \/ OnPresets) /\ SettingsRest
     \/ TreeRests /\ StoreRests /\ SettingsRun

MCNext ==
  \/ TreeNext /\ UNCHANGED <<storeVars, settingVars>>
  \/ StoreNext /\ UNCHANGED <<treeVars, settingVars>>
  \/ SettingNext /\ UNCHANGED <<treeVars, storeVars>>

(* No action tells one preset server, request for one, or page, from another. *)
Interchangeable == Permutations(Servers) \cup Permutations(Asks) \cup Permutations(Pages)

MCSpec == MCInit /\ [][MCNext]_<<treeVars, storeVars, settingVars>>
=============================================================================
