------------------------------ MODULE Launches ------------------------------
(***************************************************************************)
(* The records of how often applications were launched                     *)
(* (mpl-app-launches-store.c): a file that is mapped into memory, and that *)
(* is replaced by another one when an application is launched for the      *)
(* first time.  Every launch is added by a process of its own              *)
(* (mpl_app_launches_store_add_async); queries read while launches are     *)
(* added.  Who uses a file locks it, but only after it was opened.         *)
(*                                                                         *)
(* A file's records are sorted by executable and an executable has at most *)
(* one, so a file is a function from executables to counts; 0 is no        *)
(* record.  External: the kernel's files and locks.                        *)
(***************************************************************************)
EXTENDS Naturals, Sequences

CONSTANTS
  Adders,       \* processes that add a launch, one each
  Queries,      \* MplAppLaunchesQuery objects, each of a process of its own
  Executables,
  Launched      \* adder -> the executable that was launched

ASSUME LaunchesAssumption == Launched \in [Adders -> Executables]

VARIABLES
  files,     \* the contents of every file there has been
  path,      \* priv->database_file: its number, 0 if it does not exist
  adder,     \* the processes, see TypeOK
  query,     \* the queries
  launches,  \* history: the launches that were added, at any time
  astray     \* history: an addition went to, or was copied from, a file that was replaced

vars == <<files, path, adder, query, launches, astray>>

Records   == [Executables -> Nat]
NoRecords == [e \in Executables |-> 0]
\* What a process sees of the file that it opened, if there was one.
Contents(f) == IF f = 0 THEN NoRecords ELSE files[f]

TypeOK ==
  /\ files \in Seq(Records) /\ path \in 0 .. Len(files)
  \* file: the one opened; seen: its records, as far as they are needed
  /\ adder \in [Adders -> [at: {"start", "waits", "open", "counts", "copied", "added", "failed"},
                           file: 0 .. Len(files), seen: Records]]
  /\ query \in [Queries -> [at: {"closed", "waits", "open"}, file: 0 .. Len(files), seen: Records]]
  /\ launches \in Records /\ astray \in BOOLEAN

Init ==
  /\ \/ files = <<>> /\ path = 0 /\ launches = NoRecords
     \/ /\ launches \in [Executables -> 0..1]        \* what was recorded earlier
        /\ files = <<launches>> /\ path = 1
  /\ adder = [a \in Adders |-> [at |-> "start", file |-> 0, seen |-> NoRecords]]
  /\ query = [q \in Queries |-> [at |-> "closed", file |-> 0, seen |-> NoRecords]]
  /\ astray = FALSE

(***************************************************************************)
(* flock.  The lock is a file's, not the path's.                           *)
(***************************************************************************)
Adding(a)     == adder[a].at \in {"open", "counts", "copied"}
AddsTo(f)     == \E a \in Adders : Adding(a) /\ adder[a].file = f
Reads(f)      == \E q \in Queries : query[q].at = "open" /\ query[q].file = f
ShareEven(f)  == TRUE                                   \* (mutant: LOCK_SH to add)
FreeToAdd(f)  == ~AddsTo(f) /\ ~Reads(f)                \* LOCK_EX
FreeToRead(f) == ~AddsTo(f)                             \* LOCK_SH

(***************************************************************************)
(* mpl_app_launches_store_add.  Without a file there is nothing to lock.   *)
(***************************************************************************)
Open(a) ==
  /\ adder[a].at = "start"
  /\ adder' = [adder EXCEPT ![a].at = IF path = 0 THEN "open" ELSE "waits", ![a].file = path]
  /\ UNCHANGED <<files, path, query, launches, astray>>

Lock(a) ==
  /\ adder[a].at = "waits" /\ FreeToAdd(adder[a].file)
  /\ adder' = [adder EXCEPT ![a].at = "open"]
  /\ UNCHANGED <<files, path, query, launches, astray>>

\* store_lookup_hash; store_insert copies the records to a temporary file.
LookUp(a) ==
  /\ adder[a].at = "open"
  /\ LET seen == Contents(adder[a].file)
     IN adder' = [adder EXCEPT ![a].at = IF seen[Launched[a]] > 0 THEN "counts" ELSE "copied",
                               ![a].seen = seen]
  /\ UNCHANGED <<files, path, query, launches, astray>>

Added(a) ==
  /\ adder' = [adder EXCEPT ![a].at = "added"]          \* mpl_app_launches_store_close
  /\ launches' = [launches EXCEPT ![Launched[a]] = @ + 1]
  /\ astray' = (astray \/ adder[a].file # path)
  /\ UNCHANGED query

\* record_update, in the mapped file
Count(a) ==
  /\ adder[a].at = "counts"
  /\ files' = [files EXCEPT ![adder[a].file][Launched[a]] = adder[a].seen[Launched[a]] + 1]
  /\ Added(a) /\ UNCHANGED path

\* rename: the temporary file, with the new record in its place, is the store.
Rename(a) ==
  /\ adder[a].at = "copied"
  /\ files' = Append(files, [adder[a].seen EXCEPT ![Launched[a]] = 1])
  /\ path' = Len(files) + 1
  /\ Added(a)

\* An error is reported, or the process ends; the kernel takes its locks back.
Fail(a) ==
  /\ adder[a].at \notin {"added", "failed"}
  /\ adder' = [adder EXCEPT ![a].at = "failed"]
  /\ UNCHANGED <<files, path, query, launches, astray>>

(***************************************************************************)
(* A query keeps the store open as long as it lives.  Of a store that does *)
(* not exist it keeps nothing.                                             *)
(***************************************************************************)
Query(q) ==
  /\ query[q].at = "closed" /\ path # 0
  /\ query' = [query EXCEPT ![q].at = "waits", ![q].file = path]
  /\ UNCHANGED <<files, path, adder, launches, astray>>

LockQuery(q) ==
  /\ query[q].at = "waits" /\ FreeToRead(query[q].file)
  /\ query' = [query EXCEPT ![q].at = "open", ![q].seen = files[query[q].file]]
  /\ UNCHANGED <<files, path, adder, launches, astray>>

EndQuery(q) ==
  /\ query[q].at # "closed"
  /\ query' = [query EXCEPT ![q] = [at |-> "closed", file |-> 0, seen |-> NoRecords]]
  /\ UNCHANGED <<files, path, adder, launches, astray>>

Next ==
  \/ \E a \in Adders  : Open(a) \/ Lock(a) \/ LookUp(a) \/ Count(a) \/ Rename(a) \/ Fail(a)
  \/ \E q \in Queries : Query(q) \/ LockQuery(q) \/ EndQuery(q)

Spec == Init /\ [][Next]_vars

(***************************************************************************)
(* Properties.                                                             *)
(***************************************************************************)
\* Whoever fails, dies or waits for a lock in between, the store counts every
\* launch that was added; unless somebody was still at work on a file that had
\* been replaced meanwhile, or on none while another process made the first one.
LaunchesAreCounted == ~astray => Contents(path) = launches

\* Even then no launch is counted that there was not, in any file.
NoneIsInvented == \A f \in DOMAIN files : \A e \in Executables : files[f][e] <= launches[e]

\* While a query lives what it reads does not change under it.
QueriesSeeOneState == \A q \in Queries : query[q].at = "open" => query[q].seen = files[query[q].file]

StoreIsRight == LaunchesAreCounted /\ NoneIsInvented /\ QueriesSeeOneState
=============================================================================
