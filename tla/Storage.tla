------------------------------ MODULE Storage ------------------------------
(***************************************************************************)
(* lib/storage: one SQLite file behind a package variable.  Every          *)
(* operation first gets the handle from ensureDB, which opens the file if  *)
(* nobody has, and then queries with the handle it got, after the lock of  *)
(* the variable has been released: another goroutine may have closed it.   *)
(*                                                                         *)
(* A file is a table of entries; NULL is an absent one.  SQLite may refuse *)
(* any query, and a file may fail to open.                                 *)
(***************************************************************************)
EXTENDS Integers

CONSTANTS
  Goroutine,
  Path,        \* files
  DefaultPath, \* bot.db
  Entry,       \* keys, each with its scope and namespace
  Value,
  FirstDisk,   \* what the files may hold at first
  Failed,      \* the result of an operation that failed
  MaxOpens,    \* bound: how often a file is opened
  NULL

ASSUME PathAssumption  == DefaultPath \in Path
ASSUME DiskAssumption  == FirstDisk \subseteq [Path -> [Entry -> Value \cup {NULL}]]
ASSUME ValueAssumption == Failed \notin Value \cup {NULL} /\ NULL \notin Value

VARIABLES
  db,      \* the handle in the package variable: <<path, n>> or NULL
  dbPath,
  open,    \* the handles that are open
  opens,   \* how many have been opened
  disk,    \* the files
  hold,    \* the handle each goroutine got from ensureDB
  opening  \* who found db nil and goes for the write lock

handleVars == <<db, dbPath, open, opens>>
holdVars   == <<hold, opening>>
storeVars  == <<handleVars, disk, holdVars>>

StoreInit ==
  /\ db = NULL /\ dbPath = DefaultPath
  /\ open = {} /\ opens = 0
  /\ disk \in FirstDisk
  /\ hold = [t \in Goroutine |-> NULL]
  /\ opening = {}

-----------------------------------------------------------------------------

(* openLocked: db is left as it is when the file cannot be opened. *)
OpenLocked(path) ==
  /\ opens < MaxOpens
  /\ db' = <<path, opens + 1>>
  /\ open' = (open \ {db}) \cup {db'}
  /\ opens' = opens + 1

(* Mutant: a database that is open already will do. *)
OpenOnce(path) ==
  /\ \/ db # NULL /\ UNCHANGED handleVars
     \/ db = NULL /\ dbPath' = path /\ OpenLocked(path)
  /\ UNCHANGED <<disk, holdVars>>

(* Open succeeds: it closes a database that ensureDB has opened elsewhere. *)
Open(path) ==
  /\ \/ db # NULL /\ dbPath = path /\ UNCHANGED handleVars
     \/ /\ db = NULL \/ dbPath # path
        /\ dbPath' = path
        /\ OpenLocked(path)
  /\ UNCHANGED <<disk, holdVars>>

Close ==
  /\ open' = open \ {db}
  /\ db' = NULL
  /\ dbPath' = IF db = NULL THEN dbPath ELSE DefaultPath
  /\ UNCHANGED <<opens, disk, holdVars>>

-----------------------------------------------------------------------------

(* ensureDB under the read lock. *)
Peek(t) ==
  /\ hold[t] = NULL /\ t \notin opening
  /\ IF db # NULL THEN hold' = [hold EXCEPT ![t] = db] /\ UNCHANGED opening
                  ELSE opening' = opening \cup {t} /\ UNCHANGED hold
  /\ UNCHANGED <<handleVars, disk>>

(* ensureDB under the write lock, when it gets a handle. *)
OpenFirst(t) ==
  /\ t \in opening
  /\ \/ db # NULL /\ UNCHANGED handleVars
     \/ db = NULL /\ OpenLocked(dbPath) /\ UNCHANGED dbPath
  /\ hold' = [hold EXCEPT ![t] = db']
  /\ opening' = opening \ {t}
  /\ UNCHANGED disk

LetGo(t) ==
  /\ hold' = [hold EXCEPT ![t] = NULL]
  /\ opening' = opening \ {t}
  /\ UNCHANGED handleVars

(* The operation fails: no file could be opened, or the query is refused. *)
Fails(t) ==
  /\ \/ hold[t] # NULL
     \/ t \in opening /\ db = NULL
  /\ LetGo(t)
  /\ UNCHANGED disk

(* Get and Has see the entry. *)
Reads(t, e, v) ==
  /\ hold[t] \in open
  /\ v = disk[hold[t][1]][e]
  /\ LetGo(t)
  /\ UNCHANGED disk

(* Set, and Delete, which leaves NULL. *)
Writes(t, e, v) ==
  /\ hold[t] \in open
  /\ disk' = [disk EXCEPT ![hold[t][1]][e] = v]
  /\ LetGo(t)

=============================================================================
