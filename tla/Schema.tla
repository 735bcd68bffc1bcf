-------------------------------- MODULE Schema --------------------------------
(***************************************************************************)
(* The database file and how a process opens it: store.Open and migrate.   *)
(* Any number of processes open the same file at once, and each may die    *)
(* between two statements; a step is one statement or one transaction.     *)
(* Of the tables only runs matters here, for the unique index              *)
(* runs_one_active: program versions before schema 3 had one that allowed  *)
(* an active run per group and repository, now it is one per group.        *)
(***************************************************************************)
EXTENDS Naturals

CONSTANTS
  Clients,       \* command-line processes
  Items,         \* work items
  Repositories,
  Runs,          \* run ids, never made twice; a group is named by the run
                 \* it was made with
  None

ASSUME SchemaNone == None \notin Runs \cup Repositories \cup Items

VARIABLES
  runs,    \* the runs table
  schema,  \* user_version, and what runs_one_active covers
  origin,  \* history: the schema of the file at the beginning
  backups, \* the backup files: the version in the name, the version inside
  pc,      \* where the process of a client stands
  seen     \* the user_version it has read and is saving, or 0

CurrentVersion == 3

Row == [ state : {"absent", "active", "ended"}, item : Items \cup {None},
         repository : Repositories \cup {None}, group : Runs \cup {None},
         version : Nat ]

SchemaType == [ version : Nat, index : {"none", "repository", "group"} ]

\* The stages of an opening, named for what comes next.
OpenStages ==
  {"closed", "saving", "making", "numbering", "stamping", "second", "checking",
   "third"}

NoRow == [ state |-> "absent", item |-> None, repository |-> None,
           group |-> None, version |-> 0 ]

\* The active runs an index keeps apart: those of a group, or of a group in one
\* repository.
Collide(index, r, q) ==
  /\ r.state = "active" /\ q.state = "active" /\ r.group = q.group
  /\ \/ index = "group"
     \/ index = "repository" /\ r.repository = q.repository

\* The table keeps to an index.
Fits(index) == \A r, q \in Runs : r # q => ~Collide(index, runs[r], runs[q])

\* A file that does not exist yet; one of this version; one of an older version,
\* interrupted or not, with the runs that it allowed; one of a newer version.
InitSchema ==
  /\ \/ schema = [version |-> 0, index |-> "none"]
     \/ schema = [version |-> CurrentVersion, index |-> "group"]
     \/ schema = [version |-> CurrentVersion + 1, index |-> "group"]
     \/ \E v \in 1..(CurrentVersion - 1), index \in {"repository", "group"} :
          schema = [version |-> v, index |-> index]
  /\ origin = schema
  /\ backups = {}
  /\ pc = [c \in Clients |-> "closed"]
  /\ seen = [c \in Clients |-> 0]

-------------------------------------------------------------------------------
\* The process goes on to its next statement.
Goes(c, stage) == pc' = [pc EXCEPT ![c] = stage]

\* Seeded bug: the last step of the migrations is not counted.
OutdatedOffByOne(v) == v \in 1..(CurrentVersion - 2)

\* A file that has to be saved before it is migrated; a new one has nothing to save.
Outdated(v) == v \in 1..(CurrentVersion - 1)

\* The first read of user_version: a newer file is refused, an older one is saved.
OpenReads(c) ==
  /\ pc[c] = "closed"
  /\ \/ schema.version > CurrentVersion /\ UNCHANGED <<pc, seen>>
     \/ /\ schema.version <= CurrentVersion
        /\ IF Outdated(schema.version)
             THEN seen' = [seen EXCEPT ![c] = schema.version] /\ Goes(c, "saving")
             ELSE Goes(c, "making") /\ UNCHANGED seen
  /\ UNCHANGED <<runs, schema, backups>>

\* VACUUM INTO copies the file as it is by now.  It fails if the name exists, which
\* holds the version and the second.
Saves(c) ==
  /\ pc[c] = "saving"
  /\ \/ /\ backups' = backups \cup {<<seen[c], schema.version>>}
        /\ Goes(c, "making")
     \/ /\ \E b \in backups : b[1] = seen[c]
        /\ Goes(c, "closed")
        /\ UNCHANGED backups
  /\ seen' = [seen EXCEPT ![c] = 0]
  /\ UNCHANGED <<runs, schema>>

\* CREATE ... IF NOT EXISTS: an index of the same name stays as it is.
MakesTables(c) ==
  /\ pc[c] = "making"
  /\ schema' = [schema EXCEPT !.index = IF @ = "none" THEN "group" ELSE @]
  /\ Goes(c, "numbering")
  /\ UNCHANGED <<runs, backups, seen>>

\* Where migrate goes on with the version it reads.
NextStage(v) ==
  CASE v = 0 -> "stamping"
    [] v = 1 -> "second"
    [] v = 2 -> "checking"
    [] OTHER -> "idle"

\* The second read, after which the version is not read again.
Numbers(c) ==
  /\ pc[c] = "numbering"
  /\ Goes(c, NextStage(schema.version))
  /\ UNCHANGED <<runs, schema, backups, seen>>

\* PRAGMA user_version=1, whatever other processes have made of it.
Stamps(c) ==
  /\ pc[c] = "stamping"
  /\ schema' = [schema EXCEPT !.version = 1]
  /\ Goes(c, "second")
  /\ UNCHANGED <<runs, backups, seen>>

MigratesToSecond(c) ==
  /\ pc[c] = "second"
  /\ schema' = [schema EXCEPT !.version = 2]
  /\ Goes(c, "checking")
  /\ UNCHANGED <<runs, backups, seen>>

\* A group with two active runs has to be sorted out by hand.
ChecksConflicts(c) ==
  /\ pc[c] = "checking"
  /\ Goes(c, IF Fits("group") THEN "third" ELSE "closed")
  /\ UNCHANGED <<runs, schema, backups, seen>>

\* Seeded bug: the index is not dropped, so CREATE IF NOT EXISTS keeps the old one.
ReindexedNot(s) == [s EXCEPT !.version = CurrentVersion]

\* What the transaction leaves: the index is made anew.
Reindexed(s) == [s EXCEPT !.version = CurrentVersion, !.index = "group"]

\* The transaction fails if the table does not keep to the new index.
MigratesToThird(c) ==
  /\ pc[c] = "third"
  /\ \/ Fits("group") /\ schema' = Reindexed(schema) /\ Goes(c, "idle")
     \/ ~Fits("group") /\ Goes(c, "closed") /\ UNCHANGED schema
  /\ UNCHANGED <<runs, backups, seen>>

OpenStep(c) ==
  /\ \/ OpenReads(c) \/ Saves(c) \/ MakesTables(c) \/ Numbers(c) \/ Stamps(c)
     \/ MigratesToSecond(c) \/ ChecksConflicts(c) \/ MigratesToThird(c)
  /\ UNCHANGED origin

-------------------------------------------------------------------------------
(* Properties. *)

\* A process that has opened the database works under the new index, whatever file
\* it found and whoever else was migrating or died on the way.
OpenedIsIndexed ==
  \A c \in Clients : pc[c] \notin OpenStages => schema.index = "group"

\* Before migration a local backup is made (SPEC.md:175): when anything of an older
\* file has been changed, a backup of it as it was exists.
OldFileIsSaved ==
  /\ origin.version \in 1..2
  /\ schema # origin
  => <<origin.version, origin.version>> \in backups
===============================================================================
