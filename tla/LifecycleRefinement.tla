-------------------------- MODULE LifecycleRefinement --------------------------
(***************************************************************************)
(* Lifecycle implements Milestones and Feedback: every step of the engine  *)
(* is one of theirs, or a stutter, in the states of the inductive          *)
(* invariant of LifecycleProofs.                                           *)
(***************************************************************************)
EXTENDS LifecycleProofs

-------------------------------------------------------------------------------
(* The threads of the review. *)

\* The threads of the comments that came.
NewThreads(r) == Actionable(r.seen \ run.seen)

\* What is reported grows by the threads that came, and the ends by those that came.
LEMMA Reports ==
  ASSUME NEW r \in RunType, run.seen \subseteq r.seen
  PROVE  /\ Actionable(r.seen) = Actionable(run.seen) \cup NewThreads(r)
         /\ NewThreads(r) \in SUBSET Threads
         /\ run.seen \cap EndEvents \subseteq r.seen \cap EndEvents
         /\ NothingEnds(r) <=> r.seen \cap EndEvents = run.seen \cap EndEvents
<1>1. r.seen \subseteq Events
  BY DEF RunType
<1>2. Actionable(r.seen) = Actionable(run.seen) \cup NewThreads(r)
  BY DEF Actionable, NewThreads
<1>3. NewThreads(r) \subseteq Threads
  BY <1>1, EventAssumption DEF Actionable, NewThreads
<1>4. NothingEnds(r) <=> r.seen \cap EndEvents = run.seen \cap EndEvents
  BY <1>1 DEF NothingEnds, EndEvents
<1> QED
  BY <1>2, <1>3, <1>4

\* A completed action files, merges, plans or answers threads, or ends the request.
LEMMA CompletionOnLedger ==
  ASSUME IInv, CompleteAction
  PROVE  [Ledger!Next]_(Ledger!vars)
<1>1. PICK o \in Outcomes, r \in RunType, t \in States :
        /\ Completed(o, r, t)
        /\ run'.planThreads = r.planThreads
        /\ run'.pending = r.pending /\ run'.seen = r.seen
  BY CompletionShape DEF IInv, Control
<1>2. ReviewThreads(o, r) /\ run.seen \subseteq r.seen
  BY <1>1 DEF Completed, ReviewThreads
<1>3. /\ Actionable(run'.seen) = Actionable(run.seen) \cup NewThreads(r)
      /\ NewThreads(r) \in SUBSET Threads
      /\ run.seen \cap EndEvents \subseteq run'.seen \cap EndEvents
      /\ run'.seen \cap EndEvents \in SUBSET EndEvents
      /\ NothingEnds(r) <=> run'.seen \cap EndEvents = run.seen \cap EndEvents
  BY <1>1, <1>2, Reports
<1>4. CASE KeepsThreads(o, r) /\ NothingEnds(r)
  <2>1. NewThreads(r) = {}
    BY <1>4 DEF KeepsThreads, NewThreads, Actionable
  <2> QED
    BY <1>1, <1>3, <1>4, <2>1 DEF KeepsThreads, Ledger!vars, Actionable, EndEvents
<1>5. CASE KeepsThreads(o, r) /\ ~NothingEnds(r)
  <2>1. Ledger!End(NewThreads(r))
    BY <1>1, <1>3, <1>5 DEF KeepsThreads, Ledger!End, Actionable, EndEvents
  <2> QED
    BY <1>3, <2>1 DEF Ledger!Next
<1>6. CASE FilesThreads(o, r)
  <2>1. Ledger!File(NewThreads(r))
    BY <1>1, <1>3, <1>6 DEF FilesThreads, Ledger!File, Actionable, EndEvents, NewThreads
  <2> QED
    BY <1>3, <2>1 DEF Ledger!Next
<1>7. CASE MergesThreads(o, r)
  <2>1. Ledger!Overlap(NewThreads(r))
    BY <1>1, <1>3, <1>7 DEF MergesThreads, Ledger!Overlap, Actionable, EndEvents, NewThreads
  <2> QED
    BY <1>3, <2>1 DEF Ledger!Next
<1>8. CASE PlansThreads(r)
  <2>1. run.planThreads = {}
    BY <1>8 DEF PlansThreads, IInv, Batches, PlanKeepsAnalysisAway
  <2>2. Ledger!Plan
    BY <1>1, <1>8, <2>1 DEF PlansThreads, Ledger!Plan, Actionable, EndEvents
  <2> QED
    BY <2>2 DEF Ledger!Next
<1>9. CASE AnswersThreads(r)
  <2>1. CASE run.planThreads = {}
    BY <1>1, <1>9, <2>1 DEF AnswersThreads, Ledger!vars, Actionable, EndEvents
  <2>2. CASE run.planThreads # {}
    <3>1. Ledger!Answer
      BY <1>1, <1>9, <2>2 DEF AnswersThreads, Ledger!Answer, Actionable, EndEvents
    <3> QED
      BY <3>1 DEF Ledger!Next
  <2> QED
    BY <2>1, <2>2
<1> QED
  BY <1>2, <1>4, <1>5, <1>6, <1>7, <1>8, <1>9 DEF ReviewThreads

\* Every other step leaves the threads alone.
LEMMA LedgerStep ==
  ASSUME IInv, [Next]_vars
  PROVE  [Ledger!Next]_(Ledger!vars)
<1>1. CASE CompleteAction
  BY <1>1, CompletionOnLedger
<1>2. CASE ~CompleteAction
  BY <1>2, StepShape DEF IInv, Untouched, Ledger!vars, Actionable, EndEvents
<1> QED
  BY <1>1, <1>2

\* The review keeps its promise (SPEC.md:305): a comment that was reported is waiting,
\* planned or answered until the change request ends, a plan is never replaced by
\* another, and it is answered as a whole.
THEOREM ReviewKeepsFeedback == Spec => FeedbackKept
<1>1. Init => Ledger!Init
  BY DEF Init, NewRun, Ledger!Init, Actionable
<1>2. IInv /\ [Next]_vars => [Ledger!Next]_(Ledger!vars)
  BY LedgerStep
<1> QED
  BY <1>1, <1>2, Inductive, PTL DEF Spec, FeedbackKept, Ledger!Spec

-------------------------------------------------------------------------------
(* The milestones. *)

\* The run is under review, or kept to go on there.
UnderReview == Reaches(ReviewStates)

\* A run that is stopped, at the gate of the brief or at an end is not under review.
LEMMA ReviewIsNoStop ==
  /\ TerminalStates \cap ReviewStates = {}
  /\ {"blocked", "paused", "brief_stale", "reconciling", "discovering_context",
      BriefGate, None} \cap ReviewStates = {}
  /\ "merged_pending_resolution" \in ReviewStates
  /\ BriefGate # PlanGate /\ GateStates = {BriefGate, PlanGate}
BY NoneAssumption DEF TerminalStates, ReviewStates, BriefGate, PlanGate, GateStates,
   States, ActionStates, Dispatches

\* What each outcome that ends a state of the review leads to, and from where.
LEMMA IntoTheEnd ==
  ASSUME NEW s, NEW o, NEW t \in Targets(s, o)
  PROVE  /\ t \in TerminalStates => t = "resolved"
         /\ o \in {"merged", "closed"} =>
              s \in {"awaiting_review", "confirming_review_plan"}
<1>1. <<s, o, t>> \in Transitions
  BY TargetLine
<1> QED
  BY <1>1 DEF Transitions, TerminalStates, BriefGate, PlanGate

\* What there is to do once the merge was seen.
LEMMA ActionsAtTheEnd ==
  ASSUME NEW type, <<"merged_pending_resolution", type>> \in Dispatches
  PROVE  type = "resolve_work_item"
BY DEF Dispatches

\* What each state says of the fate of the run.
LEMMA FateOpen ==
  ASSUME NEW s
  PROVE  /\ s \notin TerminalStates => Fate(s) = "open"
         /\ s \in TerminalStates \ {"resolved"} => Fate(s) = "abandoned"
         /\ Fate("resolved") = "resolved"
BY DEF Fate, TerminalStates

\* A step that completes nothing.
LEMMA OtherStepOnMilestones ==
  ASSUME IInv, TypeOK', [Next]_vars, ~CompleteAction
  PROVE  [Promise!Next]_(Promise!vars)
<1>1. Untouched /\ (Stays \/ Stops \/ Resumes \/ Approves \/ Ends)
  BY StepShape DEF IInv
<1>2. /\ run'.head = run.head /\ run'.cr = run.cr /\ green' = green
      /\ SeenTypes' = SeenTypes
  BY <1>1 DEF Untouched, SeenTypes
<1>3. run'.head \in Heads \cup {None} /\ run'.cr \in ChangeRequests \cup {None}
  BY DEF TypeOK, RunType
<1>4. approvals' = approvals => ApprovedBriefs' = ApprovedBriefs
  BY DEF ApprovedBriefs
<1>5. CASE Stays
  BY <1>2, <1>4, <1>5 DEF Stays, Promise!vars, Reaches
<1>6. ASSUME run.state \notin TerminalStates, run'.state \notin TerminalStates,
             UnderReview' => UnderReview, approvals' = approvals
      PROVE  Promise!Next
  <2>1. Promise!Work
    BY <1>2, <1>3, <1>4, <1>6, FateOpen
       DEF Promise!Work, Promise!Record, Promise!MayEnter, UnderReview, Reaches
  <2> QED
    BY <2>1 DEF Promise!Next
<1>7. CASE Stops
  <2>1. run'.state \notin TerminalStates /\ (UnderReview' => UnderReview)
    BY <1>7, ReviewIsNoStop DEF Stops, UnderReview, Reaches, TerminalStates
  <2> QED
    BY <1>6, <1>7, <2>1 DEF Stops
<1>8. CASE Resumes
  <2>1. /\ run.state \notin TerminalStates /\ run'.state \notin TerminalStates
        /\ UnderReview' => UnderReview
    BY <1>8, ReviewIsNoStop, KindsOfStates
       DEF Resumes, UnderReview, Reaches, TerminalStates, WaitStates
  <2> QED
    BY <1>6, <1>8, <2>1 DEF Resumes
<1>9. CASE Approves
  <2>1. run.state \notin TerminalStates
    BY <1>9, KindsOfStates DEF Approves
  <2>2. <<run.state, "approved", run'.state>> \in Transitions
    BY <1>9, TargetLine DEF Approves
  <2>3. CASE run.state = BriefGate
    <3>1. run'.state = "preparing_workspace"
      BY <2>2, <2>3 DEF Transitions, BriefGate, PlanGate
    <3>2. UnderReview' <=> UnderReview
      BY <1>9, <2>3, <3>1, ReviewIsNoStop
         DEF Approves, UnderReview, Reaches, ReviewStates, PlanGate
    <3>3. ApprovedBriefs' = ApprovedBriefs \cup {run.brief} /\ run.brief \in Briefs
      BY <1>9, <2>3 DEF Approves, ApprovedBriefs
    <3>4. run'.state \notin TerminalStates
      BY <3>1 DEF TerminalStates
    <3>5. Promise!Approve(run.brief)
      BY <1>2, <2>1, <3>2, <3>3, <3>4, FateOpen DEF Promise!Approve, UnderReview, Reaches
    <3> QED
      BY <3>3, <3>5 DEF Promise!Next
  <2>4. CASE run.state = PlanGate
    <3>1. run'.state = "confirming_review_plan"
      BY <2>2, <2>4 DEF Transitions, BriefGate, PlanGate
    <3>2. UnderReview /\ UnderReview'
      BY <2>4, <3>1 DEF UnderReview, Reaches, ReviewStates
    <3>3. ApprovedBriefs' = ApprovedBriefs
      BY <1>9, <2>4 DEF Approves, ApprovedBriefs
    <3>4. run'.state \notin TerminalStates
      BY <3>1 DEF TerminalStates
    <3> QED
      BY <1>2, <2>1, <3>2, <3>3, <3>4, FateOpen DEF Promise!vars, UnderReview
  <2> QED
    BY <1>9, <2>3, <2>4, ReviewIsNoStop DEF Approves
<1>10. CASE Ends
  <2>1. UnderReview' => UnderReview
    BY <1>10, ReviewIsNoStop DEF Ends, UnderReview, Reaches
  <2>2. Fate(run.state) # "resolved" /\ Fate(run'.state) = "abandoned"
    BY <1>10, FateOpen DEF Ends
  <2>3. Promise!Abandon
    BY <1>2, <1>4, <1>10, <2>1, <2>2
       DEF Ends, Promise!Abandon, Promise!MayLeave, UnderReview, Reaches
  <2> QED
    BY <2>3 DEF Promise!Next
<1> QED
  BY <1>1, <1>5, <1>7, <1>8, <1>9, <1>10

\* What a completed action does to the milestones.
LEMMA CompletionOnMilestones ==
  ASSUME IInv, TypeOK', CompleteAction
  PROVE  [Promise!Next]_(Promise!vars)
<1>1. PICK o \in Outcomes, r \in RunType, t \in States :
        /\ Completed(o, r, t)
        /\ run.state \in ActionStates /\ action # None
        /\ run'.state = t /\ run'.resume = r.resume
        /\ run'.head = r.head /\ run'.cr = r.cr /\ run'.seen = r.seen
        /\ approvals' = approvals
  BY CompletionShape DEF IInv, Control
<1>2. /\ Landing(o, r, t) /\ HeadsAndRequest(o, r) /\ ReviewThreads(o, r)
      /\ r.resume \in {run.resume, None}
      /\ Targets(run.state, o) # {}
  BY <1>1 DEF Completed, Landing
<1>3. /\ run'.head \in Heads \cup {None} /\ run'.cr \in ChangeRequests \cup {None}
      /\ run.cr # None => run'.cr # None
      /\ ApprovedBriefs' = ApprovedBriefs
  BY <1>1, <1>2 DEF TypeOK, RunType, HeadsAndRequest, ApprovedBriefs
<1>4. run.state \notin TerminalStates /\ Fate(run.state) = "open"
  BY <1>1, KindsOfStates, FateOpen
<1>5. action \notin {"reconcile", "inspect_context"} => ApprovedBriefs # {}
  BY <1>1 DEF IInv, Approved, LaterWorkIsApproved, ApprovedBriefs
<1>6. ~UnderReview /\ UnderReview' =>
        ApprovedBriefs # {} /\ run'.head \in green' /\ run'.cr # None
  <2>1. SUFFICES ASSUME t \in ReviewStates, ~UnderReview
                 PROVE  ApprovedBriefs # {} /\ r.head \in green' /\ r.cr # None
    BY <1>1, <1>2, ReviewIsNoStop DEF UnderReview, Reaches
  <2>2. CASE t \in Targets(run.state, o)
    <3>1. run.state = "publishing"
      BY <2>1, <2>2, IntoReview DEF UnderReview, Reaches
    <3>2. action = "publish_change"
      BY <1>1, <3>1, ActionOfState DEF IInv, ActionFitsState
    <3>3. r.cr # None /\ r.head = run.verified /\ r.head # None /\ green' = green
      BY <1>2, <3>2 DEF HeadsAndRequest
    <3> QED
      BY <1>5, <3>2, <3>3 DEF IInv, VerifiedIsGreen
  <2>3. CASE t = run.resume
    BY <2>1, <2>3 DEF UnderReview, Reaches
  <2>4. CASE action = "address_review" /\ run.cr # None
    BY <1>1, <1>2, <1>3, <1>5, <2>4 DEF HeadsAndRequest
  <2> QED
    BY <1>2, <2>2, <2>3, <2>4 DEF Landing
<1>7. "merged" \in SeenTypes => "merged" \in SeenTypes'
  BY <1>1, <1>2 DEF ReviewThreads, SeenTypes
<1>8. CASE t \in TerminalStates
  <2>1. t \in Targets(run.state, o)
    <3>1. "analyzing_review" \notin TerminalStates
      BY DEF TerminalStates
    <3> QED
      BY <1>2, <1>8, <3>1 DEF Landing, IInv, Control, ResumeIsNotFinal
  <2>2. t = "resolved" /\ run.state = "merged_pending_resolution"
    BY <1>8, <2>1, IntoTheEnd, IntoResolution
  <2>3. action = "resolve_work_item"
    BY <1>1, <2>2, ActionsAtTheEnd DEF IInv, ActionFitsState
  <2>4. run'.head = run.head /\ run'.cr = run.cr /\ green' = green /\ run'.seen = run.seen
    BY <1>1, <1>2, <2>3 DEF HeadsAndRequest, ReviewThreads
  <2>5. SeenTypes' = SeenTypes
    BY <2>4 DEF SeenTypes
  <2>6. UnderReview /\ "merged" \in SeenTypes /\ run.cr # None
    BY <2>2, ReviewIsNoStop
       DEF UnderReview, Reaches, IInv, Delivery, MergeObserved, PublishedBeforeReview
  <2>7. Promise!Resolve
    BY <1>1, <1>3, <1>4, <2>2, <2>4, <2>5, <2>6, FateOpen
       DEF Promise!Resolve, Promise!MayLeave, UnderReview, Reaches
  <2> QED
    BY <2>7 DEF Promise!Next
<1>9. CASE t \notin TerminalStates /\ "merged" \in SeenTypes' /\ "merged" \notin SeenTypes
  <2>1. Fate(t) = "open"
    BY <1>9, FateOpen
  <2>2. "merged" \in NewTypes(r) \ SeenTypes
    BY <1>1, <1>9 DEF NewTypes, SeenTypes
  <2>3. o \in {"merged", "closed"}
    BY <1>2, <2>2 DEF ReviewThreads
  <2>4. run.state \in {"awaiting_review", "confirming_review_plan"}
    BY <1>2, <2>3, IntoTheEnd
  <2>5. action = "poll_change_request"
    BY <1>1, <2>4, ActionOfState DEF IInv, ActionFitsState
  <2>6. run'.head = run.head /\ run'.cr = run.cr /\ green' = green
    BY <1>1, <1>2, <2>5 DEF HeadsAndRequest
  <2>7. UnderReview /\ run.cr # None
    BY <2>4 DEF UnderReview, Reaches, ReviewStates, IInv, Delivery, PublishedBeforeReview
  <2>8. Promise!Merge
    BY <1>1, <1>3, <1>4, <1>9, <2>1, <2>6, <2>7
       DEF Promise!Merge, Promise!MayLeave, UnderReview, Reaches
  <2> QED
    BY <2>8 DEF Promise!Next
<1>10. CASE t \notin TerminalStates /\ ("merged" \in SeenTypes' <=> "merged" \in SeenTypes)
  <2>1. Fate(t) = "open"
    BY <1>10, FateOpen
  <2>2. Promise!Record
    BY <1>3 DEF Promise!Record
  <2>3. Promise!MayEnter
    BY <1>6 DEF Promise!MayEnter, UnderReview, Reaches
  <2>4. CASE green' = green
    <3>1. Promise!Work
      BY <1>1, <1>3, <1>4, <1>10, <2>1, <2>2, <2>3, <2>4 DEF Promise!Work
    <3> QED
      BY <3>1 DEF Promise!Next
  <2>5. CASE green' # green
    <3>1. /\ action \in {"verify_change", "address_review"}
          /\ run'.head # None /\ green' = green \cup {run'.head}
      BY <1>1, <1>2, <2>5 DEF HeadsAndRequest
    <3>2. Promise!Check
      BY <1>1, <1>3, <1>4, <1>5, <1>10, <2>1, <2>2, <2>3, <3>1 DEF Promise!Check
    <3> QED
      BY <3>2 DEF Promise!Next
  <2> QED
    BY <2>4, <2>5
<1> QED
  BY <1>7, <1>8, <1>9, <1>10

\* A run keeps its milestones: whatever interrupts it, a checked head of approved work
\* comes under review, a merge is seen there, the item is resolved after that, and
\* nothing comes after the end (README.md:19, README.md:23, SPEC.md:170).
THEOREM RunKeepsMilestones == Spec => MilestonesKept
<1>1. Init => Promise!Init
  <2>1. {"discovering_context", None} \cap ReviewStates = {}
    BY ReviewIsNoStop
  <2>2. Fate("discovering_context") = "open"
    BY FateOpen DEF TerminalStates
  <2> QED
    BY <2>1, <2>2 DEF Init, NewRun, Promise!Init, Reaches, SeenTypes, ApprovedBriefs
<1>2. IInv /\ TypeOK' /\ [Next]_vars => [Promise!Next]_(Promise!vars)
  BY CompletionOnMilestones, OtherStepOnMilestones
<1>3. IInv => TypeOK
  BY DEF IInv
<1> QED
  BY <1>1, <1>2, <1>3, Inductive, PTL DEF Spec, MilestonesKept, Promise!Spec

-------------------------------------------------------------------------------
(* The commands. *)

\* The artifacts that were approved.
Artifacts == { a[2] : a \in approvals }

\* A line that leads out of the state.
LEMMA LineOfState ==
  ASSUME NEW s, NEW o, Targets(s, o) # {}
  PROVE  \E line \in Transitions : line[1] = s /\ line[2] = o
<1>1. PICK t \in Targets(s, o) : TRUE
  OBVIOUS
<1>2. <<s, o, t>> \in Transitions
  BY TargetLine
<1> QED
  BY <1>2

\* What a completed action does is one of the moves.
LEMMA CompletionOnCommands ==
  ASSUME IInv, CompleteAction
  PROVE  Mover!Next
<1>1. PICK o \in Outcomes, r \in RunType, t \in States :
        /\ Completed(o, r, t)
        /\ run.state \in ActionStates /\ action # None /\ action' = None
        /\ run'.state = t /\ run'.resume = r.resume
        /\ run'.brief = r.brief /\ run'.plan = r.plan
        /\ approvals' = approvals
  BY CompletionShape DEF IInv, Control
<1>2. Landing(o, r, t) /\ HeadsAndRequest(o, r) /\ ReviewThreads(o, r)
  BY <1>1 DEF Completed
<1>3. PICK line \in Transitions : line[1] = run.state /\ Mover!Leads(line)
  <2>1. CASE t \in Targets(run.state, o) /\ r.resume = run.resume
    <3>1. <<run.state, o, t>> \in Transitions
      BY <2>1, TargetLine
    <3>2. Mover!Leads(<<run.state, o, t>>)
      BY <1>1, <2>1 DEF Mover!Leads
    <3> QED
      BY <3>1, <3>2
  <2>2. CASE ~(t \in Targets(run.state, o) /\ r.resume = run.resume)
    <3>1. PICK line \in Transitions : line[1] = run.state /\ line[2] = o
      BY <1>1, LineOfState DEF Completed
    <3>2. Mover!Leads(line)
      BY <1>1, <1>2, <2>2, <3>1 DEF Landing, Mover!Leads
    <3> QED
      BY <3>1, <3>2
  <2> QED
    BY <2>1, <2>2
<1>4. run'.brief = run.brief \/ (action = "inspect_context" /\ run'.brief \in Briefs)
  <2>1. r.brief \in Briefs \cup {None}
    BY DEF RunType
  <2> QED
    BY <1>1, <1>2, <2>1 DEF HeadsAndRequest
<1>5. \/ run'.plan = run.plan
      \/ action = "analyze_review" /\ run'.plan \in Plans
      \/ action \in {"poll_change_request", "address_review"} /\ run'.plan = None
  BY <1>1, <1>2 DEF ReviewThreads, KeepsThreads, FilesThreads, MergesThreads,
     PlansThreads, AnswersThreads
<1>6. Mover!Complete
  BY <1>1, <1>3, <1>4, <1>5 DEF Mover!Complete
<1> QED
  BY <1>6 DEF Mover!Next

\* And so is every other step.
LEMMA OtherStepOnCommands ==
  ASSUME IInv, TypeOK', [Next]_vars, ~CompleteAction
  PROVE  [Mover!Next]_(Mover!vars)
<1>1. Untouched /\ (Stays \/ Stops \/ Resumes \/ Approves \/ Ends)
  BY StepShape DEF IInv
<1>2. /\ run'.brief = run.brief /\ run'.plan = run.plan
      /\ run'.brief \in Briefs \cup {None} /\ run'.plan \in Plans \cup {None}
      /\ run'.resume \in States \cup {None}
  BY <1>1 DEF Untouched, TypeOK, RunType
<1>3. approvals' = approvals => Artifacts' = Artifacts
  BY DEF Artifacts
<1>4. CASE Stays
  <2>1. CASE action' = action
    BY <1>2, <1>3, <1>4, <2>1 DEF Stays, Mover!vars, Artifacts
  <2>2. CASE action # None /\ action' = None /\ run.state \in ActionStates
    <3>1. Mover!Fail
      BY <1>2, <1>3, <1>4, <2>2 DEF Stays, Mover!Fail, Artifacts
    <3> QED
      BY <3>1 DEF Mover!Next
  <2>3. CASE action = None /\ <<run.state, action'>> \in Dispatches
    <3>1. action' \in ActionTypes
      BY <2>3 DEF ActionTypes
    <3>2. Mover!Hand
      BY <1>2, <1>3, <1>4, <2>3, <3>1 DEF Stays, Mover!Hand, Artifacts
    <3> QED
      BY <3>2 DEF Mover!Next
  <2> QED
    BY <1>4, <2>1, <2>2, <2>3 DEF Stays
<1>5. CASE Stops
  <2>1. CASE action' = action
    <3>1. Mover!Stop
      BY <1>2, <1>3, <1>5, <2>1 DEF Stops, Mover!Stop, Mover!Reread, Artifacts
    <3> QED
      BY <3>1 DEF Mover!Next
  <2>2. CASE action' # action
    <3>1. Mover!Fail
      BY <1>2, <1>3, <1>5, <2>2 DEF Stops, Mover!Fail, Artifacts
    <3> QED
      BY <3>1 DEF Mover!Next
  <2> QED
    BY <2>1, <2>2
<1>6. CASE Resumes
  <2>1. Mover!Resume
    BY <1>2, <1>3, <1>6 DEF Resumes, WaitStates, Mover!Resume, Mover!Reread, Artifacts
  <2> QED
    BY <2>1 DEF Mover!Next
<1>7. CASE Approves
  <2>1. <<run.state, "approved", run'.state>> \in Transitions
    BY <1>7, TargetLine DEF Approves
  <2>2. Artifacts' = Artifacts \cup {Mover!Artifact} /\ Mover!Artifact # None
    <3>1. PICK kind : approvals' = approvals \cup {<<kind, Mover!Artifact>>}
                      /\ Mover!Artifact \in Briefs \cup Plans
      BY <1>7, ReviewIsNoStop DEF Approves, GateStates, Mover!Artifact
    <3>2. Mover!Artifact # None
      BY <3>1, NoneAssumption
    <3>3. <<kind, Mover!Artifact>>[2] = Mover!Artifact
      OBVIOUS
    <3> HIDE DEF Mover!Artifact
    <3>4. \A a : a \in approvals' <=> a \in approvals \/ a = <<kind, Mover!Artifact>>
      BY <3>1
    <3>5. Artifacts' = Artifacts \cup {Mover!Artifact}
      BY <3>3, <3>4, Zenon DEF Artifacts
    <3> QED
      BY <3>2, <3>5
  <2>3. Mover!Approve
    BY <1>2, <1>7, <2>1, <2>2 DEF Approves, Mover!Approve, Artifacts
  <2> QED
    BY <2>3 DEF Mover!Next
<1>8. CASE Ends
  <2>1. Mover!Stop
    BY <1>2, <1>3, <1>8 DEF Ends, Mover!Stop, Mover!Reread, Artifacts
  <2> QED
    BY <2>1 DEF Mover!Next
<1> QED
  BY <1>1, <1>4, <1>5, <1>6, <1>7, <1>8

\* The engine keeps the promise of the commands: an action that was handed out long
\* ago, and comes back in another state, moves the run along the table of that state.
THEOREM RunKeepsCommands == Spec => CommandsKept
<1>1. Init => Mover!Init
  BY DEF Init, NewRun, Mover!Init
<1>2. IInv /\ TypeOK' /\ [Next]_vars => [Mover!Next]_(Mover!vars)
  BY CompletionOnCommands, OtherStepOnCommands
<1>3. IInv => TypeOK
  BY DEF IInv
<1> QED
  BY <1>1, <1>2, <1>3, Inductive, PTL DEF Spec, CommandsKept, Mover!Spec
===============================================================================
