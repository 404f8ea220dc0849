--------------------------- MODULE MCDatabaseDocs ---------------------------
(***************************************************************************)
(* A database for TLC: the documents, or one walk of the catalogue beneath *)
(* them.  They share no state here (what a walk returns is any catalogue   *)
(* content to DatabaseDocs), so each behaviour runs one of the two.        *)
(***************************************************************************)
EXTENDS DatabaseDocs, CatalogWalk

CatalogSymmetry == Permutations(Tables) \cup Permutations(Definitions)

(* No walk: an engine that is none. *)
NoWalk ==
    /\ surface = [engine |-> "none", sql |-> FALSE, limited |-> FALSE,
                  tool |-> [c \in Categories |-> "none"], packed |-> {},
                  size |-> Nothing, wide |-> Nothing]
    /\ pc = "done" /\ todo = <<>> /\ walk = NoAnswer
    /\ calls = 0 /\ faults = 0
    /\ found = Nothing
    /\ stats = [q \in Labels |-> NoAnswer]
    /\ unavailable = {} /\ uncounted = {} /\ cut = {} /\ missed = FALSE

(* What tells surfaces apart: a pack of PostgreSQL's, rows too large for a  *)
(* page where there are pages, and a first schema that is the largest.      *)
TellingSurface ==
    /\ surface.packed # {} => surface.engine = "postgresql" /\ surface.sql
    /\ surface.wide # Nothing => surface.engine = "oracle" /\ surface.sql
    /\ \A s \in 2..NSchemas : surface.size[s] + s <= MaxRows

SomeCatalog == [t \in Tables |-> CHOOSE d \in Definitions : TRUE]

MCInit ==
    /\ Init
    /\ NoWalk \/ (WalkInit /\ TellingSurface /\ catalog = SomeCatalog)

MCNext ==
    \/ surface.engine = "none" /\ Next /\ UNCHANGED walkVars
    \/ WalkNext /\ UNCHANGED vars

MCSpec == MCInit /\ [][MCNext]_<<vars, walkVars>>
=============================================================================
