------------------------------- MODULE Registry -------------------------------
(***************************************************************************)
(* Which runs exist: work items, their work groups, the runs started for   *)
(* them, and workflow proposals, whose approval lets a change run start.   *)
(* Every command is a process, and a step is one statement or one          *)
(* transaction of internal/store; a command opens the database first (see  *)
(* Schema).  Of a run only its repository, its group and whether it has    *)
(* ended matter here; Sessions follows one run inside.                     *)
(***************************************************************************)
EXTENDS Schema

CONSTANTS
  Proposals,     \* workflow proposals; each is a work item of workrun-evolution
  Trusted,       \* the items of a provider the user's trust policy ever allows
  VersionBound   \* bound: no run is changed beyond this version

ASSUME RegistryBound == VersionBound \in Nat
ASSUME RegistryProposals == Proposals \subseteq Items
ASSUME RegistryTrusted == Trusted \subseteq Items

VARIABLES
  groups,    \* the work_groups table: the groups of each item
  proposals, \* the proposals table
  local      \* what a command has read and is going to write

file   == <<schema, origin, backups>>
tables == <<runs, groups, proposals>>
vars   == <<file, tables, pc, seen, local>>

ProposalRow == [ status : {"absent", "pending", "approved"}, approvals : Nat ]

Local == [ item : Items \cup {None}, repository : Repositories \cup {None},
           group : Runs \cup {None}, run : Runs \cup {None},
           state : {"absent", "active", "ended"}, version : Nat ]

Stages == OpenStages \cup
  {"idle", "unknown", "inserting", "refused", "updating", "committing",
   "approving"}

\* Well-typed state, with one work group per item at most.
TypeOK ==
  /\ runs \in [Runs -> Row]
  /\ schema \in SchemaType
  /\ origin \in SchemaType
  /\ backups \subseteq Nat \X Nat
  /\ seen \in [Clients -> Nat]
  /\ groups \in [Items -> SUBSET Runs]
  /\ proposals \in [Proposals -> ProposalRow]
  /\ pc \in [Clients -> Stages]
  /\ local \in [Clients -> Local]
  /\ \A i \in Items : \A g, h \in groups[i] : g = h

Blank == [ item |-> None, repository |-> None, group |-> None, run |-> None,
           state |-> "absent", version |-> 0 ]

\* The runs an older program may have left: active runs of one item, which is not a
\* proposal, as far as its index let them in.
LeftBehind(index) ==
  \E active \in SUBSET Runs, item \in Items \ Proposals, group \in Runs,
     repository \in [Runs -> Repositories] :
    /\ runs = [r \in Runs |->
                 IF r \in active
                   THEN [ state |-> "active", item |-> item,
                          repository |-> repository[r], group |-> group,
                          version |-> 1 ]
                   ELSE NoRow]
    /\ groups = [i \in Items |-> IF i = item /\ active # {} THEN {group} ELSE {}]
    /\ active # {} => group \in active
    /\ Fits(index)

Init ==
  /\ InitSchema
  /\ \/ /\ runs = [r \in Runs |-> NoRow]
        /\ groups = [i \in Items |-> {}]
     \/ schema.version > 0 /\ LeftBehind(schema.index)
  /\ proposals = [p \in Proposals |-> [status |-> "absent", approvals |-> 0]]
  /\ local = [c \in Clients |-> Blank]

Opens(c) == OpenStep(c) /\ UNCHANGED <<groups, proposals, local>>

\* The command of c ends, with an answer or an error.
Return(c) ==
  /\ pc' = [pc EXCEPT ![c] = "closed"]
  /\ local' = [local EXCEPT ![c] = Blank]
  /\ UNCHANGED <<file, seen>>

Carry(c, stage, l) ==
  /\ pc' = [pc EXCEPT ![c] = stage]
  /\ local' = [local EXCEPT ![c] = l]
  /\ UNCHANGED <<file, seen>>

\* The process is killed between two statements.
Dies(c) ==
  /\ pc[c] # "closed"
  /\ pc' = [pc EXCEPT ![c] = "closed"]
  /\ local' = [local EXCEPT ![c] = Blank]
  /\ seen' = [seen EXCEPT ![c] = 0]
  /\ UNCHANGED <<file, tables>>

-------------------------------------------------------------------------------
(* Store.CreateOrResumeRun. *)

ActiveRuns(item) == { r \in Runs : runs[r].state = "active" /\ runs[r].item = item }

\* An active run of the item is resumed, or reported as a duplicate when it is in
\* another repository; without one the start goes on.
Looks(c, item) ==
  /\ \/ ActiveRuns(item) # {} /\ Return(c)
     \/ /\ ActiveRuns(item) = {}
        /\ \E repository \in Repositories :
             Carry(c, "unknown", [Blank EXCEPT !.item = item,
                                               !.repository = repository])
  /\ UNCHANGED <<runs, groups, proposals>>

\* start takes any reference, a proposal's too, of a provider the user trusts.
StartLooks(c) ==
  /\ pc[c] = "idle"
  /\ \E item \in Trusted : Looks(c, item)

\* proposal start-change takes an approved proposal and does not ask for trust.  A
\* proposal stays approved, so reading its status is not a step of its own.
StartChangeLooks(c) ==
  /\ pc[c] = "idle"
  /\ \E p \in Proposals : proposals[p].status = "approved" /\ Looks(c, p)

\* The work group of the item, or None for one to be made.
StartFindsGroup(c) ==
  /\ pc[c] = "unknown"
  /\ \E group \in IF groups[local[c].item] = {} THEN {None}
                  ELSE groups[local[c].item] :
       Carry(c, "inserting", [local[c] EXCEPT !.group = group])
  /\ UNCHANGED <<runs, groups, proposals>>

\* Seeded bug: work_groups has no unique index.
GroupInsertableAlways(item) == TRUE

\* UNIQUE(work_item_provider, work_item_id) of work_groups.
GroupInsertable(item) == groups[item] = {}

\* Seeded bug: only the runs of one repository are kept apart.
InsertablePerRepository(r, row) ==
  \A q \in Runs \ {r} : ~Collide("repository", row, runs[q])

\* runs_one_active lets run r be written as this row.
Insertable(r, row) == \A q \in Runs \ {r} : ~Collide(schema.index, row, runs[q])

\* The transaction: a missing group, then the run.  A group that exists by now is
\* an error of its own; only a refused run is looked into.
StartInserts(c) ==
  LET l == local[c]
  IN /\ pc[c] = "inserting"
     /\ \E r \in Runs :
          LET group == IF l.group = None THEN r ELSE l.group
              row == [ state |-> "active", item |-> l.item,
                       repository |-> l.repository, group |-> group,
                       version |-> 1 ]
          IN /\ runs[r].state = "absent"
             /\ \/ /\ l.group = None
                   /\ ~GroupInsertable(l.item)
                   /\ Return(c)
                   /\ UNCHANGED <<runs, groups>>
                \/ /\ l.group = None => GroupInsertable(l.item)
                   /\ ~Insertable(r, row)
                   /\ Carry(c, "refused", l)
                   /\ UNCHANGED <<runs, groups>>
                \/ /\ l.group = None => GroupInsertable(l.item)
                   /\ Insertable(r, row)
                   /\ groups' = [groups EXCEPT ![l.item] = @ \cup {group}]
                   /\ runs' = [runs EXCEPT ![r] = row]
                   /\ Return(c)
     /\ UNCHANGED proposals

\* The run that was in the way is looked up; whether it has ended meanwhile or not,
\* the answer is all that differs.
StartLooksAgain(c) ==
  /\ pc[c] = "refused"
  /\ Return(c)
  /\ UNCHANGED <<runs, groups, proposals>>

-------------------------------------------------------------------------------
(* A command that ends a run, and one that changes an active run and leaves it    *)
(* active (pause, resume, ...): each writes back the run it has read.             *)

ChangeReads(c) ==
  /\ pc[c] = "idle"
  /\ \E r \in Runs, state \in {"active", "ended"} :
       /\ runs[r].state # "absent"
       /\ state = "active" => runs[r].state = "active"
       /\ Carry(c, "updating", [Blank EXCEPT !.run = r, !.state = state])
  /\ UNCHANGED <<runs, groups, proposals>>

UpdateReads(c) ==
  /\ pc[c] = "updating"
  /\ Carry(c, "committing", [local[c] EXCEPT !.version = runs[local[c].run].version])
  /\ UNCHANGED <<runs, groups, proposals>>

\* UpdateRun: the version has not moved, and a run that was ended may come back
\* only while its group has no other active run.
UpdateCommits(c) ==
  LET l == local[c]
      row == [runs[l.run] EXCEPT !.state = l.state, !.version = @ + 1]
  IN /\ pc[c] = "committing"
     /\ \/ /\ l.version = runs[l.run].version
           /\ l.version < VersionBound
           /\ Insertable(l.run, row)
           /\ runs' = [runs EXCEPT ![l.run] = row]
        \/ /\ l.version # runs[l.run].version \/ ~Insertable(l.run, row)
           /\ UNCHANGED runs
     /\ Return(c)
     /\ UNCHANGED <<groups, proposals>>

-------------------------------------------------------------------------------
(* Proposals. *)

CreateProposal(c) ==
  /\ pc[c] = "idle"
  /\ \E p \in Proposals :
       /\ proposals[p].status = "absent"
       /\ proposals' = [proposals EXCEPT ![p].status = "pending"]
  /\ UNCHANGED <<runs, groups>>
  /\ Return(c)

\* ApproveProposal: the status and the hash are read first.
ApproveReads(c) ==
  /\ pc[c] = "idle"
  /\ \E p \in Proposals :
       /\ proposals[p].status = "pending"
       /\ Carry(c, "approving", [Blank EXCEPT !.item = p])
  /\ UNCHANGED <<runs, groups, proposals>>

\* Seeded bug: the update does not ask for the status again.
ApprovableAlways(p) == TRUE

\* UPDATE ... WHERE status='pending'.
Approvable(p) == proposals[p].status = "pending"

ApproveCommits(c) ==
  LET p == local[c].item
  IN /\ pc[c] = "approving"
     /\ \/ /\ Approvable(p)
           /\ proposals' = [proposals EXCEPT ![p].status = "approved",
                                             ![p].approvals = @ + 1]
        \/ ~Approvable(p) /\ UNCHANGED proposals
     /\ Return(c)
     /\ UNCHANGED <<runs, groups>>

-------------------------------------------------------------------------------
Next ==
  \E c \in Clients :
    \/ Opens(c)
    \/ StartLooks(c) \/ StartChangeLooks(c) \/ StartFindsGroup(c)
    \/ StartInserts(c) \/ StartLooksAgain(c)
    \/ ChangeReads(c) \/ UpdateReads(c) \/ UpdateCommits(c)
    \/ CreateProposal(c) \/ ApproveReads(c) \/ ApproveCommits(c)
    \/ Dies(c)

Spec == Init /\ [][Next]_vars

-------------------------------------------------------------------------------
(* Properties. *)

\* A work item has one active run at most (SPEC.md:163), for every command that has
\* opened the database: although a start decides on reads that are old when it
\* inserts, although a command that read a run before it ended can bring it back,
\* and although an older program may have left several.
OneActiveRun ==
  (\E c \in Clients : pc[c] \notin OpenStages) =>
    \A i \in Items : \A r, q \in ActiveRuns(i) : r = q

\* A proposal is approved once, whoever else approves it at the same time, and its
\* change run exists only after that (SPEC.md:598, main.go:561), unless the user lets
\* start make runs of workrun-evolution items, which asks for no approval (main.go:209).
ApprovedOnce ==
  \A p \in Proposals :
    /\ proposals[p].approvals <= 1
    /\ p \notin Trusted =>
         \A r \in Runs : runs[r].item = p => proposals[p].approvals = 1
===============================================================================
