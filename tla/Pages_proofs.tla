---------------------------- MODULE Pages_proofs ----------------------------
(***************************************************************************)
(* What the pages' operators return, for every table of applications: the  *)
(* limits of the queues and lists, and who gets which button.              *)
(***************************************************************************)
EXTENDS Pages, FiniteSetTheorems, TLAPS

-----------------------------------------------------------------------------
(* Cutting off the oldest rows.                                            *)

(* A limit as large as the table cuts nothing off.                         *)
LEMMA NewestFacts ==
  ASSUME NEW ids \in SUBSET Nat, IsFiniteSet(ids), NEW limit \in Nat
  PROVE  /\ Newest(ids, limit) \subseteq ids
         /\ Cardinality(ids) <= limit => Newest(ids, limit) = ids
<1>1. ASSUME NEW i \in ids, Cardinality(ids) <= limit
      PROVE  Cardinality({j \in ids : j > i}) < limit
  <2>1. /\ IsFiniteSet(ids \ {i}) /\ Cardinality(ids \ {i}) = Cardinality(ids) - 1
        /\ Cardinality(ids) \in Nat
    BY FS_RemoveElement, FS_CardinalityType
  <2>2. {j \in ids : j > i} \in SUBSET (ids \ {i})
    OBVIOUS
  <2>3. /\ Cardinality({j \in ids : j > i}) <= Cardinality(ids \ {i})
        /\ Cardinality({j \in ids : j > i}) \in Nat
    BY <2>1, <2>2, FS_Subset, FS_CardinalityType
  <2>4. QED
    BY <1>1, <2>1, <2>3
<1>2. QED
  BY <1>1 DEF Newest

(* A row that is among the newest of many is among those of fewer, and     *)
(* under a larger limit.                                                   *)
LEMMA NewestGrows ==
  ASSUME NEW all \in SUBSET Nat, IsFiniteSet(all), NEW some \in SUBSET all,
         NEW limit \in Nat, NEW larger \in Nat, limit <= larger,
         NEW i \in some, i \in Newest(all, limit)
  PROVE  i \in Newest(some, larger)
<1>1. {j \in some : j > i} \in SUBSET {j \in all : j > i}
  OBVIOUS
<1>2. IsFiniteSet({j \in all : j > i})
  BY FS_Subset
<1>3. /\ Cardinality({j \in some : j > i}) <= Cardinality({j \in all : j > i})
      /\ Cardinality({j \in some : j > i}) \in Nat
      /\ Cardinality({j \in all : j > i}) \in Nat
  BY <1>1, <1>2, FS_Subset, FS_CardinalityType
<1>4. Cardinality({j \in all : j > i}) < limit
  BY DEF Newest
<1>5. QED
  BY <1>3, <1>4 DEF Newest

(* The list endpoint: a status chip or a larger limit loses no row.        *)
LEMMA ListedGrows ==
  ASSUME NEW table, DOMAIN table \in SUBSET Nat, IsFiniteSet(DOMAIN table),
         NEW user, NEW held, NEW all, NEW some, some \subseteq all,
         NEW limit \in Nat, NEW larger \in Nat, limit <= larger,
         NEW i \in Listed(table, user, held, all, limit), table[i].status \in some
  PROVE  i \in Listed(table, user, held, some, larger)
<1>. DEFINE Visible(statuses) ==
       {j \in DOMAIN table : /\ table[j].status \in statuses
                             /\ hasStaffRole(held) \/ IsOwner(table[j], user)}
<1>1. Visible(all) \in SUBSET DOMAIN table /\ Visible(some) \in SUBSET Visible(all)
  OBVIOUS
<1>2. Visible(all) \in SUBSET Nat /\ IsFiniteSet(Visible(all))
  BY <1>1, FS_Subset
<1>3. i \in Newest(Visible(all), limit)
  BY DEF Listed
<1>4. i \in Visible(some)
  BY <1>3 DEF Newest
<1>. HIDE DEF Visible
<1>5. i \in Newest(Visible(some), larger)
  BY <1>1, <1>2, <1>3, <1>4, NewestGrows
<1>6. QED
  BY <1>5 DEF Listed, Visible

LEMMA ListedFacts ==
  ASSUME NEW table, DOMAIN table \in SUBSET Nat, IsFiniteSet(DOMAIN table),
         NEW user, NEW held, NEW statuses, NEW limit \in Nat
  PROVE  /\ Listed(table, user, held, statuses, limit) \subseteq DOMAIN table
         /\ \A i \in Listed(table, user, held, statuses, limit) : table[i].status \in statuses
BY DEF Listed, Newest

(* Staff who load as many rows as there are see them all.                  *)
LEMMA StaffSeeAll ==
  ASSUME NEW table, DOMAIN table \in SUBSET Nat, IsFiniteSet(DOMAIN table),
         NEW user, NEW held, hasStaffRole(held),
         \A i \in DOMAIN table : table[i].status \in STATUSES,
         NEW limit \in Nat, Cardinality(DOMAIN table) <= limit
  PROVE  Listed(table, user, held, STATUSES, limit) = DOMAIN table
<1>1. {j \in DOMAIN table : /\ table[j].status \in STATUSES
                            /\ hasStaffRole(held) \/ IsOwner(table[j], user)} = DOMAIN table
  OBVIOUS
<1>2. QED
  BY <1>1, NewestFacts DEF Listed

-----------------------------------------------------------------------------
(* Who gets which button.                                                  *)

STAFF_EVENTS == {"assign", "request_info", "mark_ready"}

DECISIONS == {"approve", "reject"}

(* The demands of an edge are those of its event.                          *)
LEMMA EventDemands ==
  ASSUME NEW edge \in TRANSITIONS
  PROVE  /\ edge.event \in STAFF_EVENTS =>
              edge.role = "reviewer" /\ ~edge.ownerOnly /\ ~edge.dualControl
         /\ edge.event \in DECISIONS =>
              edge.role = "approver" /\ ~edge.ownerOnly /\ edge.dualControl
         /\ edge.event \notin STAFF_EVENTS \cup DECISIONS =>
              edge.role = "applicant" /\ edge.ownerOnly /\ ~edge.dualControl
         /\ edge.event = "assign" <=> edge.from = "SUBMITTED" /\ edge.event # "withdraw"
         /\ edge.event \in {"request_info", "mark_ready"} <=> edge.from = "UNDER_REVIEW"
         /\ edge.event \in DECISIONS <=> edge.from = "READY_FOR_DECISION"
         /\ edge.from \in STATUSES \ TERMINAL_STATUSES /\ edge.event \in EVENTS
BY DEF TRANSITIONS, ApplicantEdge, ReviewerEdge, DecisionEdge, STAFF_EVENTS, DECISIONS,
   STATUSES, TERMINAL_STATUSES, EVENTS

(* An event is allowed when an edge for it exists and lets its actor pass. *)
LEMMA AllowedEdge ==
  ASSUME NEW row, NEW user, NEW held, NEW event \in allowedEvents(row, user, held)
  PROVE  \E edge \in FindEdge(row.status, event) :
           /\ PickActorRole(held, edge) # NoRole
           /\ edge.ownerOnly => user = row.applicant
           /\ edge.dualControl => row.reviewedBy # user
<1>1. TransitionVerdict(row, event, user, held, TRUE) = "ok"
  BY DEF allowedEvents
<1>2. FindEdge(row.status, event) # {}
  BY <1>1 DEF TransitionVerdict
<1>3. PICK edge \in FindEdge(row.status, event) : edge = CHOOSE e \in FindEdge(row.status, event) : TRUE
  BY <1>2
<1>4. EdgeVerdict(edge, row, user, held, TRUE) = "ok"
  BY <1>1, <1>2, <1>3 DEF TransitionVerdict
<1>5. QED
  BY <1>4 DEF EdgeVerdict

LEMMA EdgeAllows ==
  ASSUME NEW row, NEW user, NEW held, NEW event \in EVENTS, FindEdge(row.status, event) # {},
         \A edge \in FindEdge(row.status, event) :
           /\ PickActorRole(held, edge) # NoRole
           /\ edge.ownerOnly => user = row.applicant
           /\ edge.dualControl => row.reviewedBy # user
  PROVE  event \in allowedEvents(row, user, held)
<1>1. PICK edge \in FindEdge(row.status, event) : edge = CHOOSE e \in FindEdge(row.status, event) : TRUE
  OBVIOUS
<1>2. EdgeVerdict(edge, row, user, held, TRUE) = "ok"
  BY <1>1 DEF EdgeVerdict
<1>3. QED
  BY <1>1, <1>2 DEF allowedEvents, TransitionVerdict

(* The other way round: a role, an owner, no dual control.                 *)
LEMMA Buttons ==
  ASSUME NEW row, NEW user, NEW held
  PROVE  /\ (row.status = "SUBMITTED" /\ isReviewer(held)) =>
              "assign" \in allowedEvents(row, user, held)
         /\ (row.status = "UNDER_REVIEW" /\ isReviewer(held)) =>
              {"request_info", "mark_ready"} \subseteq allowedEvents(row, user, held)
         /\ (row.status = "READY_FOR_DECISION" /\ isApprover(held) /\ row.reviewedBy # user) =>
              DECISIONS \subseteq allowedEvents(row, user, held)
         /\ (row.status = "DRAFT" /\ IsOwner(row, user) /\ isApplicant(held)) =>
              "submit" \in allowedEvents(row, user, held)
         /\ (row.status = "RFI_REQUESTED" /\ IsOwner(row, user) /\ isApplicant(held)) =>
              "resubmit" \in allowedEvents(row, user, held)
<1>1. /\ FindEdge("SUBMITTED", "assign") # {} /\ FindEdge("UNDER_REVIEW", "request_info") # {}
      /\ FindEdge("UNDER_REVIEW", "mark_ready") # {}
      /\ FindEdge("READY_FOR_DECISION", "approve") # {}
      /\ FindEdge("READY_FOR_DECISION", "reject") # {}
      /\ FindEdge("DRAFT", "submit") # {} /\ FindEdge("RFI_REQUESTED", "resubmit") # {}
  <2>1. ASSUME NEW edge \in TRANSITIONS
        PROVE  edge \in FindEdge(edge.from, edge.event)
    BY DEF FindEdge
  <2>2. \E edge \in TRANSITIONS : edge.from = "SUBMITTED" /\ edge.event = "assign"
    BY DEF TRANSITIONS, ReviewerEdge
  <2>3. \E edge \in TRANSITIONS : edge.from = "UNDER_REVIEW" /\ edge.event = "request_info"
    BY DEF TRANSITIONS, ReviewerEdge
  <2>4. \E edge \in TRANSITIONS : edge.from = "UNDER_REVIEW" /\ edge.event = "mark_ready"
    BY DEF TRANSITIONS, ReviewerEdge
  <2>5. /\ \E edge \in TRANSITIONS : edge.from = "READY_FOR_DECISION" /\ edge.event = "approve"
        /\ \E edge \in TRANSITIONS : edge.from = "READY_FOR_DECISION" /\ edge.event = "reject"
    BY DEF TRANSITIONS, DecisionEdge
  <2>6. /\ \E edge \in TRANSITIONS : edge.from = "DRAFT" /\ edge.event = "submit"
        /\ \E edge \in TRANSITIONS : edge.from = "RFI_REQUESTED" /\ edge.event = "resubmit"
    BY DEF TRANSITIONS, ApplicantEdge
  <2>7. QED
    BY <2>1, <2>2, <2>3, <2>4, <2>5, <2>6
<1>2. \A status, event : \A edge \in FindEdge(status, event) :
        edge \in TRANSITIONS /\ edge.event = event
  BY DEF FindEdge
<1>3. STAFF_EVENTS \subseteq EVENTS /\ DECISIONS \subseteq EVENTS /\ {"submit", "resubmit"} \subseteq EVENTS
  BY DEF STAFF_EVENTS, DECISIONS, EVENTS
<1>4. ASSUME NEW event \in STAFF_EVENTS, isReviewer(held), FindEdge(row.status, event) # {}
      PROVE  event \in allowedEvents(row, user, held)
  <2>1. ASSUME NEW edge \in FindEdge(row.status, event)
        PROVE  PickActorRole(held, edge) # NoRole /\ ~edge.ownerOnly /\ ~edge.dualControl
    <3>1. edge.role = "reviewer" /\ ~edge.ownerOnly /\ ~edge.dualControl
      BY <1>2, EventDemands
    <3>2. QED
      BY <1>4, <3>1 DEF PickActorRole, NoRole, isReviewer
  <2>2. QED
    BY <1>3, <1>4, <2>1, EdgeAllows
<1>5. ASSUME NEW event \in DECISIONS, isApprover(held), row.reviewedBy # user,
             FindEdge(row.status, event) # {}
      PROVE  event \in allowedEvents(row, user, held)
  <2>1. ASSUME NEW edge \in FindEdge(row.status, event)
        PROVE  PickActorRole(held, edge) # NoRole /\ ~edge.ownerOnly
    <3>1. edge.role = "approver" /\ ~edge.ownerOnly
      BY <1>2, EventDemands
    <3>2. QED
      BY <1>5, <3>1 DEF PickActorRole, NoRole, isApprover
  <2>2. QED
    BY <1>3, <1>5, <2>1, EdgeAllows
<1>6. ASSUME NEW event \in {"submit", "resubmit"}, IsOwner(row, user), isApplicant(held),
             FindEdge(row.status, event) # {}
      PROVE  event \in allowedEvents(row, user, held)
  <2>1. ASSUME NEW edge \in FindEdge(row.status, event)
        PROVE  PickActorRole(held, edge) # NoRole /\ ~edge.dualControl
    <3>1. edge.role = "applicant" /\ ~edge.dualControl
      BY <1>2, EventDemands DEF STAFF_EVENTS, DECISIONS
    <3>2. QED
      BY <1>6, <3>1 DEF PickActorRole, NoRole, isApplicant
  <2>2. QED
    BY <1>3, <1>6, <2>1, EdgeAllows DEF IsOwner
<1>7. QED
  BY <1>1, <1>4, <1>5, <1>6 DEF STAFF_EVENTS, DECISIONS

(* Who has a button for a case: its owner, as an applicant or an admin;    *)
(* the reviewers of a case with staff; its approvers.                      *)
LEMMA ButtonHolders ==
  ASSUME NEW row, NEW user, NEW held, allowedEvents(row, user, held) # {}
  PROVE  /\ row.status \in STATUSES \ TERMINAL_STATUSES
         /\ \/ IsOwner(row, user)
            \/ row.status \in {"SUBMITTED", "UNDER_REVIEW"} /\ isReviewer(held)
            \/ row.status = "READY_FOR_DECISION" /\ isApprover(held)
<1>1. PICK event \in allowedEvents(row, user, held) : TRUE
  OBVIOUS
<1>2. PICK edge \in FindEdge(row.status, event) :
             /\ PickActorRole(held, edge) # NoRole
             /\ edge.ownerOnly => user = row.applicant
  BY AllowedEdge
<1>3. edge \in TRANSITIONS /\ edge.from = row.status
  BY DEF FindEdge
<1>4. edge.from \in STATUSES \ TERMINAL_STATUSES
  BY <1>3, EventDemands
<1>5. CASE edge.event \in STAFF_EVENTS
  <2>1. edge.role = "reviewer" /\ edge.from \in {"SUBMITTED", "UNDER_REVIEW"}
    BY <1>3, <1>5, EventDemands DEF STAFF_EVENTS
  <2>2. isReviewer(held)
    BY <1>2, <2>1 DEF PickActorRole, isReviewer
  <2>3. QED
    BY <1>3, <1>4, <2>1, <2>2
<1>6. CASE edge.event \in DECISIONS
  <2>1. edge.role = "approver" /\ edge.from = "READY_FOR_DECISION"
    BY <1>3, <1>6, EventDemands
  <2>2. isApprover(held)
    BY <1>2, <2>1 DEF PickActorRole, isApprover
  <2>3. QED
    BY <1>3, <1>4, <2>1, <2>2
<1>7. CASE edge.event \notin STAFF_EVENTS \cup DECISIONS
  <2>1. edge.ownerOnly
    BY <1>3, <1>7, EventDemands
  <2>2. QED
    BY <1>2, <1>3, <1>4, <2>1 DEF IsOwner
<1>8. QED
  BY <1>5, <1>6, <1>7

(* Dual control keeps the decision from its reviewer, and from nobody else.*)
LEMMA DecisionButtons ==
  ASSUME NEW row, NEW user, NEW held, row.status = "READY_FOR_DECISION", isApprover(held)
  PROVE  DECISIONS \subseteq allowedEvents(row, user, held) <=> ~dualControlBlocks(row, user, held)
<1>1. dualControlBlocks(row, user, held) <=> row.reviewedBy = user
  BY DEF dualControlBlocks, isApprover
<1>2. ASSUME "approve" \in allowedEvents(row, user, held)
      PROVE  row.reviewedBy # user
  <2>1. PICK edge \in FindEdge(row.status, "approve") : edge.dualControl => row.reviewedBy # user
    BY <1>2, AllowedEdge
  <2>2. edge.dualControl
    BY EventDemands DEF FindEdge, DECISIONS
  <2>3. QED
    BY <2>1, <2>2
<1>3. QED
  BY <1>1, <1>2, Buttons DEF DECISIONS
=============================================================================
