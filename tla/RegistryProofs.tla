----------------------------- MODULE RegistryProofs -----------------------------
(***************************************************************************)
(* Proofs about Registry, for any number of processes, items, proposals,   *)
(* repositories and runs, and for every file a process may find.           *)
(***************************************************************************)
EXTENDS Registry, TLAPS

\* The index is the new one wherever the version says so, and for good; there is
\* one wherever the tables have been made; and without one there are no runs.
IndexOK ==
  /\ schema.version >= CurrentVersion => schema.index = "group"
  /\ schema.index = "none" =>
       /\ \A r \in Runs : runs[r].state = "absent"
       /\ \A c \in Clients : pc[c] \in {"closed", "saving", "making"}

\* The table keeps to the index it has.
TableFits == Fits(schema.index)

\* Every run is in the one work group of its item.
GroupsOK ==
  \A r \in Runs : runs[r].state # "absent" =>
    runs[r].item \in Items /\ runs[r].group \in groups[runs[r].item]

\* What a command carries from its reads: the items it starts, approved where start is
\* not trusted with them, their groups, and the rows it writes back.
LocalOK ==
  \A c \in Clients :
    /\ pc[c] \in {"unknown", "inserting", "refused"} =>
         /\ local[c].item \in Items /\ local[c].repository \in Repositories
         /\ local[c].item \in Proposals \ Trusted =>
              proposals[local[c].item].status = "approved"
    /\ pc[c] = "inserting" /\ local[c].group # None =>
         local[c].group \in groups[local[c].item]
    /\ pc[c] \in {"updating", "committing"} =>
         /\ local[c].run \in Runs /\ local[c].state \in {"active", "ended"}
         /\ runs[local[c].run].state # "absent"
    /\ pc[c] = "approving" => local[c].item \in Proposals

\* Approvals are counted in the status, and only approved proposals have runs, except
\* those that start makes runs of without asking.
ProposalsOK ==
  \A p \in Proposals :
    /\ proposals[p].approvals = IF proposals[p].status = "approved" THEN 1 ELSE 0
    /\ p \notin Trusted =>
         \A r \in Runs : runs[r].item = p => proposals[p].status = "approved"

\* Until an old file is saved nobody has touched it.
Untouched ==
  origin.version \in 1..2 /\ <<origin.version, origin.version>> \notin backups =>
    /\ schema = origin
    /\ \A c \in Clients :
         \/ pc[c] = "closed"
         \/ pc[c] = "saving" /\ seen[c] = origin.version

IInv ==
  /\ TypeOK
  /\ OpenedIsIndexed
  /\ IndexOK
  /\ TableFits
  /\ GroupsOK
  /\ LocalOK
  /\ ProposalsOK
  /\ Untouched

-------------------------------------------------------------------------------
(* The index and the table. *)

\* A collision is one from both sides.
LEMMA CollideSymmetric ==
  ASSUME NEW index, NEW r, NEW q
  PROVE  Collide(index, r, q) <=> Collide(index, q, r)
BY DEF Collide

\* A row the index lets in leaves a table that keeps to it.
LEMMA InsertionFits ==
  ASSUME TypeOK, TableFits, NEW r \in Runs, NEW row, Insertable(r, row),
         runs' = [runs EXCEPT ![r] = row], UNCHANGED schema
  PROVE  TableFits'
<1>1. SUFFICES ASSUME NEW p \in Runs, NEW q \in Runs, p # q
               PROVE  ~Collide(schema.index, runs'[p], runs'[q])
  BY DEF TableFits, Fits
<1>2. CASE p = r
  BY <1>1, <1>2 DEF Insertable, TypeOK
<1>3. CASE q = r
  BY <1>1, <1>3, CollideSymmetric DEF Insertable, TypeOK
<1>4. CASE p # r /\ q # r
  BY <1>1, <1>4 DEF TableFits, Fits, TypeOK
<1> QED
  BY <1>2, <1>3, <1>4

\* The strictest index contains the others.
LEMMA GroupIndexIsStrictest ==
  ASSUME Fits("group"), NEW index
  PROVE  Fits(index)
BY DEF Fits, Collide

-------------------------------------------------------------------------------
(* Opening the file. *)

\* An opening moves to another of its stages or ends, and writes the file at most.
LEMMA OpeningMoves ==
  ASSUME TypeOK, NEW c \in Clients, OpenStep(c)
  PROVE  /\ UNCHANGED <<runs, origin>>
         /\ \E stage \in OpenStages \cup {"idle"} : pc' = [pc EXCEPT ![c] = stage]
<1>1. CASE OpenReads(c)
  <2>1. CASE UNCHANGED pc
    <3>1. pc' = [pc EXCEPT ![c] = "closed"]
      BY <1>1, <2>1 DEF TypeOK, OpenReads
    <3> QED
      BY <1>1, <3>1 DEF OpenReads, OpenStages, OpenStep
  <2>2. CASE ~UNCHANGED pc
    BY <1>1, <2>2 DEF OpenReads, OpenStages, OpenStep, Goes
  <2> QED
    BY <2>1, <2>2
<1>2. CASE Saves(c)
  BY <1>2 DEF Saves, OpenStages, OpenStep, Goes
<1>3. CASE MakesTables(c)
  BY <1>3 DEF MakesTables, OpenStages, OpenStep, Goes
<1>4. CASE Numbers(c)
  BY <1>4 DEF Numbers, NextStage, OpenStages, OpenStep, Goes
<1>5. CASE Stamps(c)
  BY <1>5 DEF Stamps, OpenStages, OpenStep, Goes
<1>6. CASE MigratesToSecond(c)
  BY <1>6 DEF MigratesToSecond, OpenStages, OpenStep, Goes
<1>7. CASE ChecksConflicts(c)
  BY <1>7 DEF ChecksConflicts, OpenStages, OpenStep, Goes
<1>8. CASE MigratesToThird(c)
  BY <1>8 DEF MigratesToThird, OpenStages, OpenStep, Goes
<1> QED
  BY <1>1, <1>2, <1>3, <1>4, <1>5, <1>6, <1>7, <1>8 DEF OpenStep

\* An opening leaves the file well typed.
LEMMA OpeningTyped ==
  ASSUME TypeOK, NEW c \in Clients, OpenStep(c)
  PROVE  /\ schema' \in SchemaType
         /\ backups' \subseteq Nat \X Nat
         /\ seen' \in [Clients -> Nat]
<1> USE DEF TypeOK, SchemaType
<1>1. CASE OpenReads(c)
  BY <1>1 DEF OpenReads
<1>2. CASE Saves(c)
  BY <1>2 DEF Saves
<1>3. CASE MakesTables(c)
  BY <1>3 DEF MakesTables
<1>4. CASE Numbers(c)
  BY <1>4 DEF Numbers
<1>5. CASE Stamps(c)
  BY <1>5 DEF Stamps
<1>6. CASE MigratesToSecond(c)
  BY <1>6 DEF MigratesToSecond
<1>7. CASE ChecksConflicts(c)
  BY <1>7 DEF ChecksConflicts
<1>8. CASE MigratesToThird(c)
  <2>1. schema' = schema \/ schema' = Reindexed(schema)
    BY <1>8 DEF MigratesToThird
  <2>2. Reindexed(schema) \in SchemaType
    BY DEF Reindexed, CurrentVersion
  <2>3. UNCHANGED <<backups, seen>>
    BY <1>8 DEF MigratesToThird
  <2> QED
    BY <2>1, <2>2, <2>3
<1> QED
  BY <1>1, <1>2, <1>3, <1>4, <1>5, <1>6, <1>7, <1>8 DEF OpenStep

\* What the opening does to the index: it comes into being, or becomes the new one.
LEMMA OpeningIndexes ==
  ASSUME TypeOK, IndexOK, TableFits, NEW c \in Clients, OpenStep(c)
  PROVE  /\ schema.index = "group" => schema'.index = "group"
         /\ schema'.index = "none" => schema.index = "none"
         /\ schema'.version >= CurrentVersion => schema'.index = "group"
         /\ TableFits'
<1> USE DEF TypeOK, SchemaType, CurrentVersion
<1>1. CASE UNCHANGED <<runs, schema>>
  BY <1>1 DEF IndexOK, TableFits, Fits
<1>2. CASE MakesTables(c)
  <2>1. UNCHANGED runs
    BY <1>2 DEF MakesTables
  <2>2. CASE schema.index = "none"
    <3>1. schema' = [schema EXCEPT !.index = "group"]
      BY <1>2, <2>2 DEF MakesTables
    <3>2. \A r, q \in Runs : ~Collide("group", runs[r], runs[q])
      BY <2>2 DEF IndexOK, Collide
    <3> QED
      BY <2>1, <2>2, <3>1, <3>2 DEF TableFits, Fits
  <2>3. CASE schema.index # "none"
    <3>1. schema' = schema
      BY <1>2, <2>3 DEF MakesTables
    <3> QED
      BY <1>1, <2>1, <3>1
  <2> QED
    BY <2>2, <2>3
<1>3. CASE Stamps(c)
  BY <1>3 DEF Stamps, IndexOK, TableFits, Fits
<1>4. CASE MigratesToSecond(c)
  BY <1>4 DEF MigratesToSecond, IndexOK, TableFits, Fits
<1>5. CASE MigratesToThird(c)
  <2>1. CASE Fits("group") /\ schema' = Reindexed(schema)
    <3>1. schema'.index = "group" /\ UNCHANGED runs
      BY <1>5, <2>1 DEF MigratesToThird, Reindexed
    <3> QED
      BY <2>1, <3>1 DEF TableFits, Fits
  <2>2. CASE UNCHANGED schema
    <3>1. UNCHANGED runs
      BY <1>5 DEF MigratesToThird
    <3> QED
      BY <1>1, <2>2, <3>1
  <2> QED
    BY <1>5, <2>1, <2>2 DEF MigratesToThird
<1>6. CASE OpenReads(c) \/ Saves(c) \/ Numbers(c) \/ ChecksConflicts(c)
  <2>1. UNCHANGED <<runs, schema>>
    BY <1>6 DEF OpenReads, Saves, Numbers, ChecksConflicts
  <2> QED
    BY <1>1, <2>1
<1> QED
  BY <1>2, <1>3, <1>4, <1>5, <1>6 DEF OpenStep

\* Nobody past the opening is without the new index, and nobody is far into it
\* without any.
LEMMA OpeningKeepsIndex ==
  ASSUME TypeOK, OpenedIsIndexed, IndexOK, TableFits, NEW c \in Clients, OpenStep(c)
  PROVE  OpenedIsIndexed' /\ IndexOK'
<1>1. \A d \in Clients \ {c} : pc'[d] = pc[d]
  BY OpeningMoves DEF TypeOK
<1>2. UNCHANGED runs
  BY OpeningMoves
<1>3. schema.index \in {"none", "repository", "group"}
  BY DEF TypeOK, SchemaType
<1>4. pc'[c] \notin OpenStages => schema'.index = "group"
  <2>1. CASE Numbers(c)
    BY <2>1 DEF Numbers, NextStage, Goes, OpenStages, IndexOK, TypeOK, SchemaType,
                CurrentVersion
  <2>2. CASE MigratesToThird(c)
    BY <2>2 DEF MigratesToThird, Goes, OpenStages, TypeOK, SchemaType, Reindexed
  <2>3. CASE ~Numbers(c) /\ ~MigratesToThird(c)
    <3>1. pc'[c] \in OpenStages
      <4>1. CASE OpenReads(c)
        BY <4>1 DEF OpenReads, Goes, OpenStages, TypeOK
      <4>2. CASE Saves(c)
        BY <4>2 DEF Saves, Goes, OpenStages, TypeOK
      <4>3. CASE MakesTables(c) \/ Stamps(c) \/ MigratesToSecond(c)
        BY <4>3 DEF MakesTables, Stamps, MigratesToSecond, Goes, OpenStages, TypeOK
      <4>4. CASE ChecksConflicts(c)
        BY <4>4 DEF ChecksConflicts, Goes, OpenStages, TypeOK
      <4> QED
        BY <2>3, <4>1, <4>2, <4>3, <4>4 DEF OpenStep
    <3> QED
      BY <3>1
  <2> QED
    BY <2>1, <2>2, <2>3
<1>5. schema'.index = "none" => pc'[c] \in {"closed", "saving", "making"}
  <2>1. CASE OpenReads(c)
    BY <2>1 DEF OpenReads, Goes, TypeOK
  <2>2. CASE Saves(c)
    BY <2>2 DEF Saves, Goes, TypeOK
  <2>3. CASE MakesTables(c)
    BY <2>3 DEF MakesTables, TypeOK, SchemaType
  <2>4. CASE Numbers(c) \/ Stamps(c) \/ MigratesToSecond(c) \/ ChecksConflicts(c)
             \/ MigratesToThird(c)
    <3>1. pc[c] \notin {"closed", "saving", "making"}
      BY <2>4 DEF Numbers, Stamps, MigratesToSecond, ChecksConflicts, MigratesToThird
    <3> QED
      BY <3>1, OpeningIndexes DEF IndexOK
  <2> QED
    BY <2>1, <2>2, <2>3, <2>4 DEF OpenStep
<1>6. OpenedIsIndexed'
  BY <1>1, <1>4, OpeningIndexes DEF OpenedIsIndexed
<1>7. IndexOK'
  BY <1>1, <1>2, <1>5, OpeningIndexes DEF IndexOK, CurrentVersion
<1> QED
  BY <1>6, <1>7

\* Only a process that has saved an old file, or found it changed, writes to it.
LEMMA OpeningSavesFirst ==
  ASSUME TypeOK, Untouched, NEW c \in Clients, OpenStep(c)
  PROVE  Untouched'
<1> DEFINE saved == <<origin.version, origin.version>>
<1>1. SUFFICES ASSUME origin.version \in 1..2, saved \notin backups'
               PROVE  /\ schema' = origin
                      /\ \A d \in Clients :
                           \/ pc'[d] = "closed"
                           \/ pc'[d] = "saving" /\ seen'[d] = origin.version
  BY OpeningMoves DEF Untouched
<1>2. saved \notin backups
  BY <1>1 DEF OpenStep, OpenReads, Saves, MakesTables, Numbers, Stamps,
              MigratesToSecond, ChecksConflicts, MigratesToThird
<1>3. /\ schema = origin
      /\ \A d \in Clients :
           \/ pc[d] = "closed"
           \/ pc[d] = "saving" /\ seen[d] = origin.version
  BY <1>1, <1>2 DEF Untouched
<1>4. CASE OpenReads(c)
  BY <1>1, <1>3, <1>4 DEF OpenReads, Outdated, CurrentVersion, Goes, TypeOK
<1>5. CASE Saves(c)
  <2>1. CASE backups' = backups \cup {<<seen[c], schema.version>>}
    BY <1>1, <1>3, <1>5, <2>1 DEF Saves
  <2>2. CASE UNCHANGED backups /\ Goes(c, "closed")
    BY <1>3, <1>5, <2>2 DEF Saves, Goes, TypeOK
  <2> QED
    BY <1>5, <2>1, <2>2 DEF Saves
<1>6. CASE ~OpenReads(c) /\ ~Saves(c)
  BY <1>3, <1>6 DEF OpenStep, MakesTables, Numbers, Stamps, MigratesToSecond,
                    ChecksConflicts, MigratesToThird
<1> QED
  BY <1>4, <1>5, <1>6

\* Opening the database keeps everything.
LEMMA OpensPreserves ==
  ASSUME IInv, NEW c \in Clients, Opens(c)
  PROVE  IInv'
<1> USE DEF IInv
<1>1. OpenStep(c) /\ UNCHANGED <<groups, proposals, local>>
  BY DEF Opens
<1>2. UNCHANGED <<runs, origin>>
  BY <1>1, OpeningMoves
<1>3. PICK stage \in OpenStages \cup {"idle"} : pc' = [pc EXCEPT ![c] = stage]
  BY <1>1, OpeningMoves
<1>4. TypeOK'
  <2>1. pc' \in [Clients -> Stages]
    BY <1>3 DEF TypeOK, Stages
  <2> QED
    BY <1>1, <1>2, <2>1, OpeningTyped DEF TypeOK
<1>5. GroupsOK' /\ ProposalsOK'
  BY <1>1, <1>2 DEF GroupsOK, ProposalsOK
<1>6. LocalOK'
  BY <1>1, <1>2, <1>3 DEF LocalOK, TypeOK, OpenStages
<1> QED
  BY <1>1, <1>4, <1>5, <1>6, OpeningIndexes, OpeningKeepsIndex, OpeningSavesFirst

-------------------------------------------------------------------------------
(* The commands. *)

\* A command that has opened the database leaves the file as it is.
LEMMA CommandKeepsFile ==
  ASSUME IInv, NEW c \in Clients, NEW stage \in Stages,
         pc[c] \notin OpenStages, stage \notin OpenStages \/ stage = "closed",
         pc' = [pc EXCEPT ![c] = stage], UNCHANGED <<file, seen>>
  PROVE  OpenedIsIndexed' /\ IndexOK' /\ Untouched'
<1> USE DEF IInv, file
<1>1. \A d \in Clients \ {c} : pc'[d] = pc[d]
  BY DEF TypeOK
<1>2. schema.index = "group" /\ schema'.index = "group"
  BY DEF OpenedIsIndexed
<1>3. OpenedIsIndexed' /\ IndexOK'
  BY <1>2 DEF OpenedIsIndexed, IndexOK
<1>4. pc[c] \notin {"closed", "saving"}
  BY DEF OpenStages
<1>5. Untouched'
  BY <1>4 DEF Untouched
<1> QED
  BY <1>3, <1>5

\* Moving on with well-typed reads, or returning, is all that Carry and Return do.
LEMMA CarryTyped ==
  ASSUME TypeOK, NEW c \in Clients, NEW stage \in Stages, NEW l \in Local,
         Carry(c, stage, l)
  PROVE  /\ pc' = [pc EXCEPT ![c] = stage] /\ pc' \in [Clients -> Stages]
         /\ local' = [local EXCEPT ![c] = l] /\ local' \in [Clients -> Local]
         /\ UNCHANGED <<file, seen>>
BY DEF TypeOK, Carry

LEMMA BlankTyped == Blank \in Local
BY DEF Blank, Local

LEMMA ReturnTyped ==
  ASSUME TypeOK, NEW c \in Clients, Return(c)
  PROVE  /\ pc' = [pc EXCEPT ![c] = "closed"] /\ pc' \in [Clients -> Stages]
         /\ local' = [local EXCEPT ![c] = Blank] /\ local' \in [Clients -> Local]
         /\ UNCHANGED <<file, seen>>
BY BlankTyped DEF TypeOK, Return, Stages, OpenStages

\* A command that only returns keeps everything.
LEMMA ReturnPreserves ==
  ASSUME IInv, NEW c \in Clients, pc[c] \notin OpenStages, Return(c),
         UNCHANGED tables
  PROVE  IInv'
<1> USE DEF IInv, tables
<1>1. OpenedIsIndexed' /\ IndexOK' /\ Untouched'
  BY ReturnTyped, CommandKeepsFile DEF OpenStages, Stages
<1>2. TypeOK'
  BY ReturnTyped DEF TypeOK, file
<1>3. TableFits' /\ GroupsOK' /\ ProposalsOK'
  BY ReturnTyped DEF TableFits, Fits, GroupsOK, ProposalsOK, file
<1>4. LocalOK'
  BY ReturnTyped DEF LocalOK, TypeOK
<1> QED
  BY <1>1, <1>2, <1>3, <1>4

\* A command that only reads keeps everything if what it carries is right.
LEMMA ReadPreserves ==
  ASSUME IInv, NEW c \in Clients, NEW stage \in Stages, NEW l \in Local,
         pc[c] \notin OpenStages, stage \notin OpenStages, Carry(c, stage, l),
         UNCHANGED tables,
         stage \in {"unknown", "inserting", "refused"} =>
           /\ l.item \in Items /\ l.repository \in Repositories
           /\ l.item \in Proposals \ Trusted => proposals[l.item].status = "approved",
         stage = "inserting" /\ l.group # None => l.group \in groups[l.item],
         stage \in {"updating", "committing"} =>
           /\ l.run \in Runs /\ l.state \in {"active", "ended"}
           /\ runs[l.run].state # "absent",
         stage = "approving" => l.item \in Proposals
  PROVE  IInv'
<1> USE DEF IInv, tables
<1>1. OpenedIsIndexed' /\ IndexOK' /\ Untouched'
  BY CarryTyped, CommandKeepsFile
<1>2. TypeOK'
  BY CarryTyped DEF TypeOK, file
<1>3. TableFits' /\ GroupsOK' /\ ProposalsOK'
  BY CarryTyped DEF TableFits, Fits, GroupsOK, ProposalsOK, file
<1>4. LocalOK'
  <2>1. SUFFICES ASSUME NEW d \in Clients
                 PROVE  LocalOK!(d)'
    BY DEF LocalOK
  <2>2. CASE d = c
    <3>1. pc'[d] = stage /\ local'[d] = l
      BY <2>2, CarryTyped DEF TypeOK
    <3> QED
      BY <3>1
  <2>3. CASE d # c
    <3>1. pc'[d] = pc[d] /\ local'[d] = local[d]
      BY <2>3, CarryTyped DEF TypeOK
    <3> QED
      BY <3>1 DEF LocalOK
  <2> QED
    BY <2>2, <2>3
<1> QED
  BY <1>1, <1>2, <1>3, <1>4

\* A killed process leaves the tables and the file.
LEMMA DiesPreserves ==
  ASSUME IInv, NEW c \in Clients, Dies(c)
  PROVE  IInv'
<1> USE DEF IInv, tables, file
<1>1. /\ pc' = [pc EXCEPT ![c] = "closed"] /\ local' = [local EXCEPT ![c] = Blank]
      /\ seen' = [seen EXCEPT ![c] = 0] /\ UNCHANGED <<file, tables>>
  BY DEF Dies
<1>2. TypeOK'
  BY <1>1, BlankTyped DEF TypeOK, Stages, OpenStages
<1>3. OpenedIsIndexed' /\ IndexOK'
  BY <1>1 DEF OpenedIsIndexed, IndexOK, OpenStages, TypeOK
<1>4. TableFits' /\ GroupsOK' /\ ProposalsOK'
  BY <1>1 DEF TableFits, Fits, GroupsOK, ProposalsOK
<1>5. LocalOK'
  BY <1>1 DEF LocalOK, TypeOK
<1>6. Untouched'
  BY <1>1 DEF Untouched, TypeOK
<1> QED
  BY <1>2, <1>3, <1>4, <1>5, <1>6

\* Looking for the run of an item keeps everything if the item may be started.
LEMMA LooksPreserves ==
  ASSUME IInv, NEW c \in Clients, pc[c] = "idle", NEW item \in Items, Looks(c, item),
         item \in Proposals \ Trusted => proposals[item].status = "approved"
  PROVE  IInv'
<1>1. UNCHANGED tables
  BY DEF Looks, tables
<1>2. CASE Return(c)
  BY <1>1, <1>2, ReturnPreserves DEF OpenStages
<1>3. CASE ~Return(c)
  <2>1. PICK repository \in Repositories :
          Carry(c, "unknown", [Blank EXCEPT !.item = item,
                                            !.repository = repository])
    BY <1>3 DEF Looks
  <2> DEFINE l == [Blank EXCEPT !.item = item, !.repository = repository]
  <2>2. l \in Local /\ l.item = item /\ l.repository = repository
    BY DEF Blank, Local
  <2>3. Carry(c, "unknown", l)
    BY <2>1
  <2> HIDE DEF l
  <2> QED
    BY <1>1, <2>2, <2>3, ReadPreserves DEF OpenStages, Stages
<1> QED
  BY <1>2, <1>3

\* The items start takes are trusted.
LEMMA StartLooksPreserves ==
  ASSUME IInv, NEW c \in Clients, StartLooks(c)
  PROVE  IInv'
<1>1. PICK item \in Trusted : Looks(c, item)
  BY DEF StartLooks
<1>2. item \in Items /\ item \notin Proposals \ Trusted
  BY RegistryTrusted
<1> QED
  BY <1>1, <1>2, LooksPreserves DEF StartLooks

\* Those start-change takes are approved.
LEMMA StartChangeLooksPreserves ==
  ASSUME IInv, NEW c \in Clients, StartChangeLooks(c)
  PROVE  IInv'
<1>1. PICK p \in Proposals : proposals[p].status = "approved" /\ Looks(c, p)
  BY DEF StartChangeLooks
<1>2. p \in Items
  BY RegistryProposals
<1> QED
  BY <1>1, <1>2, LooksPreserves DEF StartChangeLooks

LEMMA StartFindsGroupPreserves ==
  ASSUME IInv, NEW c \in Clients, StartFindsGroup(c)
  PROVE  IInv'
<1> USE DEF IInv
<1>1. pc[c] = "unknown" /\ UNCHANGED tables
  BY DEF StartFindsGroup, tables
<1>2. /\ local[c] \in Local /\ local[c].item \in Items
      /\ local[c].repository \in Repositories
      /\ local[c].item \in Proposals \ Trusted =>
           proposals[local[c].item].status = "approved"
  BY <1>1 DEF LocalOK, TypeOK
<1>3. PICK group :
        /\ group \in groups[local[c].item] \/ group = None
        /\ Carry(c, "inserting", [local[c] EXCEPT !.group = group])
  BY DEF StartFindsGroup
<1>4. group \in Runs \cup {None}
  BY <1>2, <1>3 DEF TypeOK
<1> DEFINE l == [local[c] EXCEPT !.group = group]
<1>5. /\ l \in Local /\ l.item = local[c].item /\ l.group = group
      /\ l.repository = local[c].repository
  BY <1>2, <1>4 DEF Local
<1>6. Carry(c, "inserting", l)
  BY <1>3
<1> HIDE DEF l
<1> QED
  BY <1>1, <1>2, <1>3, <1>5, <1>6, ReadPreserves DEF OpenStages, Stages

\* A new run comes with its group, and fits.
LEMMA StartInsertsPreserves ==
  ASSUME IInv, NEW c \in Clients, StartInserts(c)
  PROVE  IInv'
<1> USE DEF IInv
<1> DEFINE l == local[c]
<1>1. pc[c] = "inserting" /\ UNCHANGED proposals
  BY DEF StartInserts
<1>2. /\ l \in Local /\ l.item \in Items /\ l.repository \in Repositories
      /\ l.item \in Proposals \ Trusted => proposals[l.item].status = "approved"
      /\ l.group # None => l.group \in groups[l.item]
  BY <1>1 DEF LocalOK, TypeOK
<1>3. CASE UNCHANGED <<runs, groups>> /\ Return(c)
  BY <1>1, <1>3, ReturnPreserves DEF OpenStages, tables
<1>4. CASE UNCHANGED <<runs, groups>> /\ Carry(c, "refused", l)
  BY <1>1, <1>2, <1>4, ReadPreserves DEF OpenStages, Stages, tables
<1>5. CASE ~UNCHANGED <<runs, groups>>
  <2>1. PICK r \in Runs :
          LET group == IF l.group = None THEN r ELSE l.group
              row == [ state |-> "active", item |-> l.item,
                       repository |-> l.repository, group |-> group,
                       version |-> 1 ]
          IN /\ runs[r].state = "absent"
             /\ l.group = None => GroupInsertable(l.item)
             /\ Insertable(r, row)
             /\ groups' = [groups EXCEPT ![l.item] = @ \cup {group}]
             /\ runs' = [runs EXCEPT ![r] = row]
             /\ Return(c)
    BY <1>5 DEF StartInserts
  <2> DEFINE group == IF l.group = None THEN r ELSE l.group
             row == [ state |-> "active", item |-> l.item,
                      repository |-> l.repository, group |-> group,
                      version |-> 1 ]
  <2>2. group \in Runs
    BY <1>2, <2>1 DEF TypeOK
  <2>3. row \in Row /\ row.item = l.item /\ row.group = group /\ row.state = "active"
    BY <1>2, <2>2 DEF Row
  <2>4. /\ runs[r].state = "absent"
        /\ l.group = None => GroupInsertable(l.item)
        /\ Insertable(r, row)
        /\ groups' = [groups EXCEPT ![l.item] = @ \cup {group}]
        /\ runs' = [runs EXCEPT ![r] = row]
        /\ Return(c)
    BY <2>1
  <2>5. \A g \in groups[l.item] : g = group
    <3>1. CASE l.group = None
      BY <2>4, <3>1 DEF GroupInsertable
    <3>2. CASE l.group # None
      <4>1. group = l.group /\ group \in groups[l.item]
        BY <1>2, <3>2
      <4>2. \A i \in Items : \A g, h \in groups[i] : g = h
        BY DEF TypeOK
      <4> HIDE DEF group, l
      <4> QED
        BY <1>2, <4>1, <4>2
    <3> QED
      BY <3>1, <3>2
  <2> HIDE DEF row, group
  <2>6. OpenedIsIndexed' /\ IndexOK' /\ Untouched'
    BY <1>1, <2>4, ReturnTyped, CommandKeepsFile DEF OpenStages, Stages
  <2>7. groups' \in [Items -> SUBSET Runs]
        /\ \A i \in Items : \A g, h \in groups'[i] : g = h
    <3>1. groups'[l.item] = groups[l.item] \cup {group}
      BY <1>2, <2>4 DEF TypeOK
    <3>2. \A i \in Items \ {l.item} : groups'[i] = groups[i]
      BY <2>4 DEF TypeOK
    <3>3. groups' \in [Items -> SUBSET Runs]
      BY <1>2, <2>2, <2>4 DEF TypeOK
    <3> QED
      BY <2>5, <3>1, <3>2, <3>3 DEF TypeOK
  <2>8. TypeOK'
    BY <1>1, <2>3, <2>4, <2>7, ReturnTyped DEF TypeOK, file
  <2>9. TableFits'
    BY <2>4, InsertionFits, ReturnTyped DEF file
  <2>10. \A i \in Items : groups[i] \subseteq groups'[i]
    BY <2>4 DEF TypeOK
  <2>11. GroupsOK'
    <3>1. group \in groups'[l.item]
      BY <1>2, <2>4 DEF TypeOK
    <3> QED
      BY <1>2, <2>3, <2>4, <2>10, <3>1 DEF GroupsOK, TypeOK
  <2>12. LocalOK'
    <3>1. SUFFICES ASSUME NEW d \in Clients, d # c
                   PROVE  LocalOK!(d)'
      BY <2>4, ReturnTyped DEF LocalOK, TypeOK
    <3>2. pc'[d] = pc[d] /\ local'[d] = local[d]
      BY <2>4, <3>1, ReturnTyped DEF TypeOK
    <3>3. \A q \in Runs : runs[q].state # "absent" => runs'[q].state # "absent"
      BY <2>3, <2>4 DEF TypeOK
    <3> QED
      BY <1>1, <2>10, <3>2, <3>3 DEF LocalOK
  <2>13. ProposalsOK'
    BY <1>1, <1>2, <2>3, <2>4 DEF ProposalsOK, TypeOK
  <2> QED
    BY <2>6, <2>8, <2>9, <2>11, <2>12, <2>13
<1> QED
  BY <1>3, <1>4, <1>5 DEF StartInserts

LEMMA StartLooksAgainPreserves ==
  ASSUME IInv, NEW c \in Clients, StartLooksAgain(c)
  PROVE  IInv'
BY ReturnPreserves DEF StartLooksAgain, OpenStages, tables

LEMMA ChangeReadsPreserves ==
  ASSUME IInv, NEW c \in Clients, ChangeReads(c)
  PROVE  IInv'
<1>1. pc[c] = "idle" /\ UNCHANGED tables
  BY DEF ChangeReads, tables
<1>2. PICK r \in Runs, state \in {"active", "ended"} :
        /\ runs[r].state # "absent"
        /\ Carry(c, "updating", [Blank EXCEPT !.run = r, !.state = state])
  BY DEF ChangeReads
<1> DEFINE l == [Blank EXCEPT !.run = r, !.state = state]
<1>3. l \in Local /\ l.run = r /\ l.state = state
  BY DEF Blank, Local
<1>4. Carry(c, "updating", l)
  BY <1>2
<1> HIDE DEF l
<1> QED
  BY <1>1, <1>2, <1>3, <1>4, ReadPreserves DEF OpenStages, Stages

LEMMA UpdateReadsPreserves ==
  ASSUME IInv, NEW c \in Clients, UpdateReads(c)
  PROVE  IInv'
<1> USE DEF IInv
<1>1. pc[c] = "updating" /\ UNCHANGED tables
  BY DEF UpdateReads, tables
<1>2. /\ local[c] \in Local /\ local[c].run \in Runs
      /\ local[c].state \in {"active", "ended"} /\ runs[local[c].run].state # "absent"
  BY <1>1 DEF LocalOK, TypeOK
<1>3. runs[local[c].run].version \in Nat
  BY <1>2 DEF TypeOK, Row
<1> DEFINE l == [local[c] EXCEPT !.version = runs[local[c].run].version]
<1>4. l \in Local /\ l.run = local[c].run /\ l.state = local[c].state
  BY <1>2, <1>3 DEF Local
<1>5. Carry(c, "committing", l)
  BY DEF UpdateReads
<1> HIDE DEF l
<1> QED
  BY <1>1, <1>2, <1>4, <1>5, ReadPreserves DEF OpenStages, Stages

\* What is written back fits, and keeps its item and its group.
LEMMA UpdateCommitsPreserves ==
  ASSUME IInv, NEW c \in Clients, UpdateCommits(c)
  PROVE  IInv'
<1> USE DEF IInv
<1> DEFINE l == local[c]
           row == [runs[l.run] EXCEPT !.state = l.state, !.version = @ + 1]
<1>1. pc[c] = "committing" /\ Return(c) /\ UNCHANGED <<groups, proposals>>
  BY DEF UpdateCommits
<1>2. /\ l \in Local /\ l.run \in Runs
      /\ l.state \in {"active", "ended"} /\ runs[l.run].state # "absent"
  BY <1>1 DEF LocalOK, TypeOK
<1>3. CASE UNCHANGED runs
  BY <1>1, <1>3, ReturnPreserves DEF OpenStages, tables
<1>4. CASE ~UNCHANGED runs
  <2>1. Insertable(l.run, row) /\ runs' = [runs EXCEPT ![l.run] = row]
    BY <1>4 DEF UpdateCommits
  <2>2. /\ row \in Row /\ row.state # "absent"
        /\ row.item = runs[l.run].item /\ row.group = runs[l.run].group
    <3>1. runs[l.run] \in Row
      BY <1>2 DEF TypeOK
    <3>2. runs[l.run].version + 1 \in Nat
      BY <3>1 DEF Row
    <3> HIDE DEF l
    <3> QED
      BY <1>2, <3>1, <3>2 DEF Row
  <2> HIDE DEF row
  <2>3. OpenedIsIndexed' /\ IndexOK' /\ Untouched'
    BY <1>1, ReturnTyped, CommandKeepsFile DEF OpenStages, Stages
  <2>4. TypeOK'
    BY <1>1, <1>2, <2>1, <2>2, ReturnTyped DEF TypeOK, file
  <2>5. TableFits'
    BY <1>1, <1>2, <2>1, InsertionFits, ReturnTyped DEF file
  <2>6. GroupsOK'
    BY <1>1, <1>2, <2>1, <2>2 DEF GroupsOK, TypeOK
  <2>7. ProposalsOK'
    BY <1>1, <1>2, <2>1, <2>2 DEF ProposalsOK, TypeOK
  <2>8. LocalOK'
    <3>1. SUFFICES ASSUME NEW d \in Clients, d # c
                   PROVE  LocalOK!(d)'
      BY <1>1, ReturnTyped DEF LocalOK, TypeOK
    <3>2. pc'[d] = pc[d] /\ local'[d] = local[d]
      BY <1>1, <3>1, ReturnTyped DEF TypeOK
    <3>3. \A q \in Runs : runs[q].state # "absent" => runs'[q].state # "absent"
      BY <1>2, <2>1, <2>2 DEF TypeOK
    <3> QED
      BY <1>1, <3>2, <3>3 DEF LocalOK
  <2> QED
    BY <2>3, <2>4, <2>5, <2>6, <2>7, <2>8
<1> QED
  BY <1>3, <1>4

\* What becomes of a proposal, pending or approved, keeps everything if the count
\* follows and no approval is taken back.
LEMMA ProposalPreserves ==
  ASSUME IInv, NEW c \in Clients, pc[c] \notin OpenStages, Return(c),
         UNCHANGED <<runs, groups>>,
         NEW p \in Proposals, NEW row \in ProposalRow,
         proposals' = [proposals EXCEPT ![p] = row],
         proposals[p].status # "approved",
         row.approvals = IF row.status = "approved" THEN 1 ELSE 0
  PROVE  IInv'
<1> USE DEF IInv
<1>1. OpenedIsIndexed' /\ IndexOK' /\ Untouched'
  BY ReturnTyped, CommandKeepsFile DEF OpenStages, Stages
<1>2. TypeOK'
  BY ReturnTyped DEF TypeOK, file
<1>3. TableFits' /\ GroupsOK'
  BY ReturnTyped DEF TableFits, Fits, GroupsOK, file
<1>4. /\ proposals'[p] = row
      /\ \A q \in Proposals \ {p} : proposals'[q] = proposals[q]
  BY DEF TypeOK
<1>5. ProposalsOK'
  BY <1>4 DEF ProposalsOK
<1>6. \A q \in Proposals :
        proposals[q].status = "approved" => proposals'[q].status = "approved"
  BY <1>4
<1>7. LocalOK'
  <2>1. SUFFICES ASSUME NEW d \in Clients, d # c
                 PROVE  LocalOK!(d)'
    BY ReturnTyped DEF LocalOK, TypeOK
  <2>2. pc'[d] = pc[d] /\ local'[d] = local[d]
    BY <2>1, ReturnTyped DEF TypeOK
  <2> QED
    BY <1>6, <2>2 DEF LocalOK
<1> QED
  BY <1>1, <1>2, <1>3, <1>5, <1>7

LEMMA CreateProposalPreserves ==
  ASSUME IInv, NEW c \in Clients, CreateProposal(c)
  PROVE  IInv'
<1> USE DEF IInv
<1>1. PICK p \in Proposals :
        /\ proposals[p].status = "absent"
        /\ proposals' = [proposals EXCEPT ![p].status = "pending"]
  BY DEF CreateProposal
<1> DEFINE row == [proposals[p] EXCEPT !.status = "pending"]
<1>2. proposals' = [proposals EXCEPT ![p] = row]
  BY <1>1
<1>3. row \in ProposalRow /\ row.status = "pending" /\ row.approvals = 0
  BY <1>1 DEF TypeOK, ProposalRow, ProposalsOK
<1> HIDE DEF row
<1> QED
  BY <1>1, <1>2, <1>3, ProposalPreserves DEF CreateProposal, OpenStages

LEMMA ApproveReadsPreserves ==
  ASSUME IInv, NEW c \in Clients, ApproveReads(c)
  PROVE  IInv'
<1>1. pc[c] = "idle" /\ UNCHANGED tables
  BY DEF ApproveReads, tables
<1>2. PICK p \in Proposals : Carry(c, "approving", [Blank EXCEPT !.item = p])
  BY DEF ApproveReads
<1> DEFINE l == [Blank EXCEPT !.item = p]
<1>3. l \in Local /\ l.item = p
  BY RegistryProposals DEF Blank, Local
<1>4. Carry(c, "approving", l)
  BY <1>2
<1> HIDE DEF l
<1> QED
  BY <1>1, <1>3, <1>4, ReadPreserves DEF OpenStages, Stages

LEMMA ApprovedRow ==
  ASSUME NEW x \in ProposalRow, x.approvals = 0
  PROVE  LET y == [x EXCEPT !.status = "approved", !.approvals = @ + 1]
         IN  y \in ProposalRow /\ y.status = "approved" /\ y.approvals = 1
<1>1. x.approvals + 1 = 1 /\ 1 \in Nat
  OBVIOUS
<1> DEFINE y == [x EXCEPT !.status = "approved", !.approvals = x.approvals + 1]
<1>2. y \in ProposalRow
  BY <1>1 DEF ProposalRow
<1>3. y.status = "approved"
  BY DEF ProposalRow
<1>4. y.approvals = x.approvals + 1
  BY DEF ProposalRow
<1> QED
  BY <1>1, <1>2, <1>3, <1>4

\* An approval counts only from pending.
LEMMA ApproveCommitsPreserves ==
  ASSUME IInv, NEW c \in Clients, ApproveCommits(c)
  PROVE  IInv'
<1> USE DEF IInv
<1> DEFINE p == local[c].item
           row == [proposals[p] EXCEPT !.status = "approved", !.approvals = @ + 1]
<1>1. pc[c] = "approving" /\ Return(c) /\ UNCHANGED <<runs, groups>>
  BY DEF ApproveCommits
<1>2. p \in Proposals
  BY <1>1 DEF LocalOK
<1>3. CASE UNCHANGED proposals
  BY <1>1, <1>3, ReturnPreserves DEF OpenStages, tables
<1>4. CASE ~UNCHANGED proposals
  <2>1. proposals[p].status = "pending"
    BY <1>4 DEF ApproveCommits, Approvable
  <2>2. proposals' = [proposals EXCEPT ![p] = row]
    BY <1>4 DEF ApproveCommits
  <2>3. proposals[p] \in ProposalRow /\ proposals[p].approvals = 0
    BY <1>2, <2>1 DEF TypeOK, ProposalsOK
  <2>4. row \in ProposalRow /\ row.status = "approved" /\ row.approvals = 1
    BY <2>3, ApprovedRow
  <2> HIDE DEF row, p
  <2> QED
    BY <1>1, <1>2, <2>1, <2>2, <2>4, ProposalPreserves DEF OpenStages
<1> QED
  BY <1>3, <1>4

-------------------------------------------------------------------------------
(* The theorems. *)

\* Whatever file is found, and whatever runs are in it.
LEMMA InitHolds == Init => IInv
<1> SUFFICES ASSUME Init PROVE IInv
  OBVIOUS
<1> USE DEF Init, InitSchema
<1>1. schema \in SchemaType /\ origin = schema /\ backups = {}
  BY DEF SchemaType, CurrentVersion
<1>2. /\ \A c \in Clients : pc[c] = "closed" /\ pc[c] \in OpenStages
      /\ pc \in [Clients -> Stages] /\ seen \in [Clients -> Nat]
      /\ local \in [Clients -> Local]
  BY BlankTyped DEF OpenStages, Stages
<1>3. /\ proposals \in [Proposals -> ProposalRow]
      /\ \A p \in Proposals : proposals[p].status = "absent"
                              /\ proposals[p].approvals = 0
  BY DEF ProposalRow
<1>4. schema.version = 0 => schema.index = "none"
  BY DEF CurrentVersion
<1>5. /\ schema.index = "none" => schema.version = 0
      /\ schema.version >= CurrentVersion => schema.index = "group"
  BY DEF CurrentVersion
<1>6. CASE runs = [r \in Runs |-> NoRow] /\ groups = [i \in Items |-> {}]
  <2>1. NoRow \in Row /\ NoRow.state = "absent" /\ NoRow.item = None
    BY DEF NoRow, Row
  <2>2. None \notin Proposals
    BY SchemaNone, RegistryProposals
  <2>3. TypeOK
    BY <1>1, <1>2, <1>3, <1>6, <2>1 DEF TypeOK
  <2>4. TableFits /\ GroupsOK
    BY <1>6, <2>1 DEF TableFits, Fits, Collide, GroupsOK
  <2>5. ProposalsOK
    BY <1>3, <1>6, <2>1, <2>2 DEF ProposalsOK
  <2>6. OpenedIsIndexed /\ IndexOK /\ LocalOK /\ Untouched
    BY <1>1, <1>2, <1>5, <1>6, <2>1
       DEF OpenedIsIndexed, IndexOK, LocalOK, Untouched
  <2> QED
    BY <2>3, <2>4, <2>5, <2>6 DEF IInv
<1>7. CASE schema.version > 0 /\ LeftBehind(schema.index)
  <2>1. PICK active \in SUBSET Runs, item \in Items \ Proposals, group \in Runs,
             repository \in [Runs -> Repositories] :
          /\ runs = [r \in Runs |->
                       IF r \in active
                         THEN [ state |-> "active", item |-> item,
                                repository |-> repository[r], group |-> group,
                                version |-> 1 ]
                         ELSE NoRow]
          /\ groups = [i \in Items |->
                         IF i = item /\ active # {} THEN {group} ELSE {}]
          /\ active # {} => group \in active
          /\ Fits(schema.index)
    BY <1>7 DEF LeftBehind
  <2>2. NoRow \in Row /\ NoRow.state = "absent" /\ NoRow.item = None
    BY DEF NoRow, Row
  <2>3. None \notin Proposals
    BY SchemaNone, RegistryProposals
  <2>4. runs \in [Runs -> Row]
    <3>1. \A r \in active :
            [ state |-> "active", item |-> item, repository |-> repository[r],
              group |-> group, version |-> 1 ] \in Row
      BY DEF Row
    <3> QED
      BY <2>1, <2>2, <3>1
  <2>5. groups \in [Items -> SUBSET Runs]
        /\ \A i \in Items : \A g, h \in groups[i] : g = h
    BY <2>1
  <2>6. TypeOK
    BY <1>1, <1>2, <1>3, <2>4, <2>5 DEF TypeOK
  <2>7. \A r \in Runs :
          \/ r \notin active /\ runs[r].state = "absent" /\ runs[r].item = None
          \/ r \in active /\ runs[r].item = item /\ runs[r].group = group
    BY <2>1, <2>2
  <2>8. TableFits /\ GroupsOK
    BY <2>1, <2>7 DEF TableFits, GroupsOK
  <2>9. ProposalsOK
    BY <1>3, <2>3, <2>7 DEF ProposalsOK
  <2>10. OpenedIsIndexed /\ IndexOK /\ LocalOK /\ Untouched
    BY <1>1, <1>2, <1>5, <1>7
       DEF OpenedIsIndexed, IndexOK, LocalOK, Untouched
  <2> QED
    BY <2>6, <2>8, <2>9, <2>10 DEF IInv
<1> QED
  BY <1>6, <1>7

LEMMA StepHolds == IInv /\ [Next]_vars => IInv'
<1> SUFFICES ASSUME IInv, [Next]_vars PROVE IInv'
  OBVIOUS
<1>1. CASE UNCHANGED vars
  BY <1>1 DEF vars, file, tables, IInv, TypeOK, OpenedIsIndexed, IndexOK, TableFits,
              Fits, GroupsOK, LocalOK, ProposalsOK, Untouched
<1>2. CASE Next
  <2>1. PICK c \in Clients :
          \/ Opens(c)
          \/ StartLooks(c) \/ StartChangeLooks(c) \/ StartFindsGroup(c)
          \/ StartInserts(c) \/ StartLooksAgain(c)
          \/ ChangeReads(c) \/ UpdateReads(c) \/ UpdateCommits(c)
          \/ CreateProposal(c) \/ ApproveReads(c) \/ ApproveCommits(c)
          \/ Dies(c)
    BY <1>2 DEF Next
  <2> QED
    BY <2>1, OpensPreserves, StartLooksPreserves, StartChangeLooksPreserves,
       StartFindsGroupPreserves, StartInsertsPreserves, StartLooksAgainPreserves,
       ChangeReadsPreserves,
       UpdateReadsPreserves, UpdateCommitsPreserves, CreateProposalPreserves,
       ApproveReadsPreserves, ApproveCommitsPreserves, DiesPreserves
<1> QED
  BY <1>1, <1>2

LEMMA InvariantHolds == Spec => []IInv
BY InitHolds, StepHolds, PTL DEF Spec

\* Well-typed tables, and one work group per item: UNIQUE on work_groups
\* (store.go:170) makes up for the group read long before it is inserted.
THEOREM TypeCorrect == Spec => []TypeOK
<1>1. IInv => TypeOK
  BY DEF IInv
<1> QED
  BY <1>1, InvariantHolds, PTL

\* store.Open (store.go:55) returns only under the new index, whatever the file was
\* and whoever migrated it meanwhile.
THEOREM OpenMigrates == Spec => []OpenedIsIndexed
<1>1. IInv => OpenedIsIndexed
  BY DEF IInv
<1> QED
  BY <1>1, InvariantHolds, PTL

\* The backup (store.go:133) is complete before the first change of an old file.
THEOREM BackupFirst == Spec => []OldFileIsSaved
<1>1. IInv => OldFileIsSaved
  BY DEF IInv, Untouched, OldFileIsSaved
<1> QED
  BY <1>1, InvariantHolds, PTL

\* runs_one_active (store.go:181) with one group per item leaves one active run per
\* item, for CreateOrResumeRun and UpdateRun alike.
THEOREM OneRunAtATime == Spec => []OneActiveRun
<1>1. IInv => OneActiveRun
  <2> SUFFICES ASSUME IInv, NEW c \in Clients, pc[c] \notin OpenStages,
                      NEW i \in Items, NEW r \in ActiveRuns(i), NEW q \in ActiveRuns(i),
                      r # q
               PROVE  FALSE
    BY DEF OneActiveRun
  <2>1. r \in Runs /\ q \in Runs /\ runs[r].state = "active" /\ runs[q].state = "active"
        /\ runs[r].item = i /\ runs[q].item = i
    BY DEF ActiveRuns
  <2>2. runs[r].group \in groups[i] /\ runs[q].group \in groups[i]
    BY <2>1 DEF IInv, GroupsOK
  <2>3. runs[r].group = runs[q].group
    BY <2>2 DEF IInv, TypeOK
  <2>4. Collide("group", runs[r], runs[q])
    BY <2>1, <2>3 DEF Collide
  <2>5. Fits("group")
    BY DEF IInv, OpenedIsIndexed, TableFits
  <2> QED
    BY <2>1, <2>4, <2>5 DEF Fits
<1> QED
  BY <1>1, InvariantHolds, PTL

\* ApproveProposal (control.go:614) counts one approval, and start-change (main.go:561)
\* makes the run of a proposal only after it; so does nobody else, where the user's trust
\* policy keeps start (main.go:209) from making runs of proposals.
THEOREM ApprovalsCountOnce == Spec => []ApprovedOnce
<1>1. IInv => ApprovedOnce
  BY DEF IInv, ProposalsOK, ApprovedOnce
<1> QED
  BY <1>1, InvariantHolds, PTL
===============================================================================
