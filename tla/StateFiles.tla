------------------------------ MODULE StateFiles ------------------------------
(***************************************************************************)
(* What EgoPulse's processes (the service, a chat in a terminal) do to the *)
(* files under the state root: opening the database and bringing its       *)
(* schema up (storage.rs Database::new), putting a first SOUL.md in place  *)
(* (soul_agents.rs), and the images of a session, which live in files of   *)
(* their own and are only referred to by the snapshot (assets.rs,          *)
(* session.rs). A process may die between any two steps.                   *)
(*                                                                         *)
(* A batch of CREATE statements is two halves, each with its own commit. A *)
(* file is written in two steps: it is empty when opened and whole at the  *)
(* end. Images are named by the hash of their bytes.                       *)
(***************************************************************************)
EXTENDS Naturals

CONSTANTS
  Processes,
  Images      \* images a tool or a user brings into the session

SCHEMA_VERSION == 1
Halves == {"chats", "tool_calls"}
NoImage == [none |-> TRUE]

VARIABLES
  database,   \* the file, the legacy file, the tables, db_meta's version
  images,     \* the .bin file of every image: "none", "part", "whole"
  metadata,   \* the images with a .json file
  soul,       \* SOUL.md
  referred,   \* the images the stored session refers to
  process,    \* where every process is
  restored,   \* what a load of the session made of its last image
  torn        \* images whose file was left half written

fileVars == <<database, images, metadata, soul, referred, process, restored, torn>>

Down == [at |-> "down", image |-> NoImage]

StateInit ==
  /\ database \in [file: {FALSE}, legacy: BOOLEAN, tables: {{}}, version: {0}]
  /\ images = [i \in Images |-> "none"] /\ metadata = {} /\ soul \in {"none", "users"}
  /\ referred = {} /\ restored = "nothing" /\ torn = {}
  /\ process = [p \in Processes |-> Down]

At(p, place) == process[p].at = place
Go(p, place) == process' = [process EXCEPT ![p].at = place]

-------------------------------------------------------------------------------
(* Database::new.                                                          *)

(* A database of an older layout has to be moved by hand first.            *)
Open(p) ==
  /\ At(p, "down")
  /\ ~(database.legacy /\ ~database.file)
  /\ database' = [database EXCEPT !.file = TRUE]
  /\ Go(p, "version")
  /\ UNCHANGED <<images, metadata, soul, referred, restored, torn>>

(* schema_version: db_meta is made if needed, an absent version is 0.      *)
ReadVersion(p) ==
  /\ At(p, "version")
  /\ Go(p, IF database.version < SCHEMA_VERSION THEN "tables" ELSE "soul")
  /\ UNCHANGED <<database, images, metadata, soul, referred, restored, torn>>

(* CREATE TABLE IF NOT EXISTS, in order; what is there stays.              *)
Migrate(p) ==
  \E half \in Halves :
    /\ half = "tool_calls" => "chats" \in database.tables
    /\ half \notin database.tables
    /\ database' = [database EXCEPT !.tables = @ \cup {half}]

CreateTables(p) ==
  /\ At(p, "tables")
  /\ Migrate(p)
  /\ UNCHANGED <<images, metadata, soul, referred, process, restored, torn>>

(* Mutant: the version is set before the tables are made.                  *)
SetVersion_First(p) ==
  /\ At(p, "tables")
  /\ database' = [database EXCEPT !.version = SCHEMA_VERSION]
  /\ Go(p, IF database.tables = Halves THEN "soul" ELSE "tables")
  /\ UNCHANGED <<images, metadata, soul, referred, restored, torn>>

SetVersion(p) ==
  /\ At(p, "tables") /\ database.tables = Halves
  /\ database' = [database EXCEPT !.version = SCHEMA_VERSION]
  /\ Go(p, "soul")
  /\ UNCHANGED <<images, metadata, soul, referred, restored, torn>>

(* The user moves the legacy database into place, with or without tables.  *)
MoveLegacy ==
  /\ database.legacy /\ ~database.file
  /\ \E made \in BOOLEAN :
       database' = [legacy |-> FALSE, file |-> TRUE, tables |-> IF made THEN Halves ELSE {},
                    version |-> IF made THEN SCHEMA_VERSION ELSE 0]
  /\ UNCHANGED <<images, metadata, soul, referred, process, restored, torn>>

(* provision_default_soul: only where there is none; a failure is logged.  *)
ProvisionSoul(p) ==
  /\ At(p, "soul")
  /\ soul' \in IF soul = "none" THEN {"none", "default"} ELSE {soul}
  /\ Go(p, "up")
  /\ UNCHANGED <<database, images, metadata, referred, restored, torn>>

-------------------------------------------------------------------------------
(* Storing a snapshot with an image: persist_image_data_url, then the row. *)

(* parse_image_data_url refuses what is not an image: the turn fails.      *)
PersistImage(p, image) ==
  /\ At(p, "up")
  /\ process' = [process EXCEPT ![p] =
       [at |-> IF images[image] = "none" THEN "open" ELSE "metadata", image |-> image]]
  /\ UNCHANGED <<database, images, metadata, soul, referred, restored, torn>>

OpenImage(p) ==
  /\ At(p, "open")
  /\ images' = [images EXCEPT ![process[p].image] = "part"]
  /\ Go(p, "fill")
  /\ UNCHANGED <<database, metadata, soul, referred, restored, torn>>

(* A full disk: the turn fails, what was written stays.                    *)
WriteFails(p) ==
  /\ At(p, "fill")
  /\ process' = [process EXCEPT ![p] = [at |-> "up", image |-> NoImage]]
  /\ torn' = torn \cup {process[p].image}
  /\ UNCHANGED <<database, images, metadata, soul, referred, restored>>

FillImage(p) ==
  /\ At(p, "fill")
  /\ images' = [images EXCEPT ![process[p].image] = "whole"]
  /\ Go(p, "metadata")
  /\ UNCHANGED <<database, metadata, soul, referred, restored, torn>>

WriteMetadata(p) ==
  /\ At(p, "metadata")
  /\ metadata' = metadata \cup {process[p].image}
  /\ Go(p, "store")
  /\ UNCHANGED <<database, images, soul, referred, restored, torn>>

(* The row is written, or the turn was dropped or met a conflict.          *)
StoreSnapshot(p) ==
  /\ At(p, "store")
  /\ referred' \in {referred, referred \cup {process[p].image}}
  /\ process' = [process EXCEPT ![p] = [at |-> "up", image |-> NoImage]]
  /\ UNCHANGED <<database, images, metadata, soul, restored, torn>>

(* restore_part: a file that is not there becomes a note to the model.     *)
LoadImage(p, image) ==
  /\ At(p, "up") /\ image \in referred
  /\ restored' = images[image]
  /\ UNCHANGED <<database, images, metadata, soul, referred, process, torn>>

(* Killed: a file opened by the process keeps what it has.                 *)
Crash(p) ==
  /\ ~At(p, "down")
  /\ process' = [process EXCEPT ![p] = Down]
  /\ torn' = IF At(p, "fill") THEN torn \cup {process[p].image} ELSE torn
  /\ UNCHANGED <<database, images, metadata, soul, referred, restored>>

StateNext ==
  \/ \E p \in Processes :
       \/ Open(p) \/ ReadVersion(p) \/ CreateTables(p) \/ SetVersion(p) \/ ProvisionSoul(p)
       \/ \E image \in Images : PersistImage(p, image) \/ LoadImage(p, image)
       \/ OpenImage(p) \/ FillImage(p) \/ WriteFails(p) \/ WriteMetadata(p)
       \/ StoreSnapshot(p) \/ Crash(p)
  \/ MoveLegacy

StateSpec == StateInit /\ [][StateNext]_fileVars

-------------------------------------------------------------------------------
(* Properties.                                                             *)

(* A process that works has every table it needs, however often opening    *)
(* the database was cut short before and whoever did it at the same time.  *)
WorkingHasTables ==
  \A p \in Processes : ~(process[p].at \in {"down", "version", "tables"})
    => database.tables = Halves /\ database.version = SCHEMA_VERSION

(* An image that a stored session refers to can be restored: its file is   *)
(* whole, unless it is being written at this moment or was left torn.      *)
(* persist_image_data_url takes a torn file for the image ever after.      *)
ReferencedImagesAreWhole ==
  \A i \in referred :
    \/ images[i] = "whole" \/ i \in torn
    \/ images[i] = "part" /\ \E p \in Processes : process[p] = [at |-> "fill", image |-> i]

(* Whatever a crash cut short, a process at work finds tables and images.  *)
CrashLeavesFilesUsable == WorkingHasTables /\ ReferencedImagesAreWhole

===============================================================================
