------------------------------- MODULE Tickets -------------------------------
(***************************************************************************)
(* Remediation tickets (internal/ticket) and the risks they drive.  A      *)
(* request works in a transaction of its own, but the risk service it      *)
(* calls commits every risk transition in another transaction: what it did *)
(* to the risks stays when the ticket's transaction rolls back.  The ticket*)
(* transaction does not keep the risks from moving: the foreign key check  *)
(* of a link locks the secondary key uk_risk_project_id only.              *)
(***************************************************************************)
EXTENDS Risks

CONSTANTS
    Tickets,    \* ids a new ticket may get
    Requests,   \* concurrent HTTP requests
    Crashes     \* whether the API may die inside a request

VARIABLES
    ticket,     \* table ticket with its ticket_risk rows, by id
    request     \* the request in flight on each connection

ticketVars == <<ticket, request>>

TicketStatuses == {"open", "assigned", "in_progress", "pending_retest",
                   "closed", "rejected", "extended", "cancelled"}

TicketActions == {"assign", "start", "submit_retest", "retest_pass", "close",
                  "retest_reject", "accept_risk", "false_positive", "extend",
                  "cancel"}

NoTicket == [status |-> "absent"]

TicketRow == [status : TicketStatuses, links : SUBSET Risks, closedAt : BOOLEAN]

\* "given" says whether the fields the next status asks for are filled in.
MoveInput == [action : TicketActions, actor : RiskUsers, given : BOOLEAN,
              approvedBy : RiskUsers \cup {NoUser}]

\* Actions with fields to fill in.
NeedsFields == {"assign", "retest_pass", "retest_reject", "accept_risk",
                "false_positive", "extend"}

MoveInputs ==
    {in \in MoveInput :
        /\ in.action \notin NeedsFields => ~in.given
        /\ in.action \notin {"accept_risk", "false_positive"} =>
              in.approvedBy = NoUser}

-----------------------------------------------------------------------------
(* The ticket's status machine.                                            *)

\* "close" leaves only "resolved", which no action reaches.
TicketFrom(action) ==
    [assign |-> {"open"},
     start |-> {"assigned", "rejected", "extended"},
     submit_retest |-> {"in_progress"},
     retest_pass |-> {"pending_retest"},
     close |-> {},
     retest_reject |-> {"pending_retest"},
     accept_risk |-> {"pending_retest"},
     false_positive |-> {"pending_retest"},
     extend |-> {"assigned", "in_progress", "rejected"},
     cancel |-> TicketStatuses \ {"closed"}][action]

nextStatus(action) ==
    [assign |-> "assigned", start |-> "in_progress",
     submit_retest |-> "pending_retest", retest_pass |-> "closed",
     close |-> "closed", retest_reject |-> "rejected",
     accept_risk |-> "cancelled", false_positive |-> "cancelled",
     extend |-> "extended", cancel |-> "cancelled"][action]

AvailableActions(status) == {a \in TicketActions : status \in TicketFrom(a)}

validateTransition(in) ==
    /\ in.action \in NeedsFields => in.given
    /\ in.action \in {"accept_risk", "false_positive"} => in.approvedBy # NoUser

TicketStatusUpdate(row, next) ==
    [row EXCEPT !.status = next,
                !.closedAt = @ \/ next \in {"closed", "cancelled"}]

ticketPermissionForAction(action) ==
    IF action = "retest_pass" THEN "ticket:approve" ELSE "ticket:write"

riskPermissionForTicketAction(action) ==
    IF action = "accept_risk" THEN "risk:accept"
    ELSE IF action = "false_positive" THEN "risk:suppress" ELSE "ticket:write"

accessAndPermit(u, action) ==
    /\ permit(u, "ticket:write")
    /\ permit(u, ticketPermissionForAction(action))
    /\ permit(u, riskPermissionForTicketAction(action))

-----------------------------------------------------------------------------
(* Creating a ticket.                                                      *)

SetRequest(c, new) == request' = [request EXCEPT ![c] = new]

RisksUnchanged ==
    UNCHANGED <<risk, trail, scoreLog, decisions, policies, rules, suppress,
                events, scan, pass>>

\* The earliest due date of the risks: each must exist and have a policy.
deriveTicketDueAt(R) == \A r \in R : Exists(r) /\ ResolveDueAt(risk[r])

\* POST /tickets by "u", up to the insert of the ticket row; ids are not used
\* twice, also not after a rollback.
CreateBegin(c, t, u, R, due) ==
    /\ request[c] = Idle
    /\ ticket[t] = NoTicket
    /\ \A d \in Requests : request[d] # Idle => request[d].t # t
    /\ permit(u, "ticket:write")
    /\ R # {}
    /\ due \/ deriveTicketDueAt(R)
    /\ SetRequest(c, [op |-> "create", t |-> t, actor |-> u, todo |-> R,
                      linked |-> {}, assigning |-> {}])
    /\ UNCHANGED ticket
    /\ RisksUnchanged

\* assignRisk reads the risk without a lock (GetByID) and goes by what it read.
Assigning(r) == {[risk |-> r, status |-> risk[r].status]}

\* LinkRisk inserts the ticket_risk row; the foreign key needs the risk.
LinkTicketRisk(c, r) ==
    /\ request[c].op = "create"
    /\ request[c].assigning = {}
    /\ r \in request[c].todo
    /\ Exists(r)
    /\ SetRequest(c, [request[c] EXCEPT !.todo = @ \ {r}, !.linked = @ \cup {r},
                                        !.assigning = Assigning(r)])
    /\ UNCHANGED ticket
    /\ RisksUnchanged

CreateCommit(c) ==
    /\ request[c].op = "create"
    /\ request[c].todo = {} /\ request[c].assigning = {}
    /\ ticket' = [ticket EXCEPT ![request[c].t] =
                     [status |-> "open", links |-> request[c].linked,
                      closedAt |-> FALSE]]
    /\ SetRequest(c, Idle)
    /\ RisksUnchanged

-----------------------------------------------------------------------------
(* assignRisk, for the risks of a new ticket and of one that is assigned.  *)

\* Mutant: only risks that were confirmed are triaged.
NewIsTriaged(status) == status \in {"confirmed", "reopened"}

\* A new risk is confirmed and then assigned, a confirmed or reopened one is
\* assigned at once, any other is left as it is.
NeedsTriage(status) == status \in {"new", "confirmed", "reopened"}

TriageInput(u, action) ==
    [action |-> action, actor |-> u,
     owner |-> IF action = "assign" THEN u ELSE NoUser,
     reason |-> FALSE, approvedBy |-> NoUser, window |-> FALSE,
     due |-> action = "assign"]

TriageAction(status) == IF status = "new" THEN "confirm" ELSE "assign"

Actor(q) == IF q.op = "create" THEN q.actor ELSE q.in.actor

AssignInput(q, a) == TriageInput(Actor(q), TriageAction(a.status))

AssignRead(c, r) ==
    /\ request[c].op = "move" /\ request[c].in.action = "assign"
    /\ request[c].assigning = {}
    /\ r \in request[c].todo
    /\ SetRequest(c, [request[c] EXCEPT !.todo = @ \ {r}, !.assigning = Assigning(r)])
    /\ UNCHANGED ticket
    /\ RisksUnchanged

\* The transition the status that was read calls for, in a transaction of its
\* own.  A risk just confirmed is assigned next.
AssignTriages(c) ==
    /\ request[c].op \in {"create", "move"}
    /\ \E a \in request[c].assigning :
          /\ NeedsTriage(a.status)
          /\ TransitionStatus(a.risk, AssignInput(request[c], a))
          /\ SetRequest(c, [request[c] EXCEPT !.assigning =
                IF a.status = "new" THEN {[a EXCEPT !.status = "confirmed"]} ELSE {}])
    /\ UNCHANGED ticket

AssignSkips(c) ==
    /\ request[c].op \in {"create", "move"}
    /\ \E a \in request[c].assigning : ~NeedsTriage(a.status)
    /\ SetRequest(c, [request[c] EXCEPT !.assigning = {}])
    /\ UNCHANGED ticket
    /\ RisksUnchanged

-----------------------------------------------------------------------------
(* Moving a ticket.                                                        *)

\* POST /tickets/:id/transitions: the checks and the read of the row.
MoveRead(c, t, in) ==
    /\ request[c] = Idle
    /\ ticket[t] # NoTicket
    /\ accessAndPermit(in.actor, in.action)
    /\ ticket[t].status \in TicketFrom(in.action)
    /\ validateTransition(in)
    /\ SetRequest(c, [op |-> "read", t |-> t, in |-> in, old |-> ticket[t].status])
    /\ UNCHANGED ticket
    /\ RisksUnchanged

\* The row lock of an update that is not committed.
Locked(t) == \E d \in Requests : request[d].op = "move" /\ request[d].t = t

\* Mutant: the update does not ask for the status that was read.
UpdateAnyStatus(c) ==
    /\ request[c].op = "read"
    /\ ~Locked(request[c].t)

\* UPDATE ticket ... WHERE status = old, which waits for the row lock.
UpdateTicketStatus(c) ==
    /\ request[c].op = "read"
    /\ ~Locked(request[c].t)
    /\ ticket[request[c].t].status = request[c].old

MoveUpdate(c) ==
    /\ UpdateTicketStatus(c)
    /\ SetRequest(c, [op |-> "move", t |-> request[c].t, in |-> request[c].in,
                      old |-> request[c].old, assigning |-> {},
                      todo |-> ticket[request[c].t].links])
    /\ UNCHANGED ticket
    /\ RisksUnchanged

\* What a ticket's action asks of a linked risk, or "none".
RiskActionFor(in, old) ==
    IF in.action = "start" /\ old # "rejected" THEN "start_fix"
    ELSE IF in.action \in {"retest_pass", "close"} THEN "mark_fixed"
    ELSE IF in.action = "accept_risk" THEN "accept"
    ELSE IF in.action = "false_positive" THEN "false_positive" ELSE "none"

RiskInputFor(in, action) ==
    [action |-> action, actor |-> in.actor,
     owner |-> NoUser, reason |-> action # "start_fix",
     approvedBy |-> in.approvedBy,
     window |-> action \in {"accept", "false_positive"}, due |-> FALSE]

Done(c, r) == [request[c] EXCEPT !.todo = @ \ {r}]

\* transitionLinkedRisk moves the risk, in a transaction of its own.
MoveRisk(c, r) ==
    LET in == request[c].in
        action == RiskActionFor(in, request[c].old)
    IN  /\ request[c].op = "move"
        /\ r \in request[c].todo
        /\ in.action # "assign"
        /\ action # "none"
        /\ TransitionStatus(r, RiskInputFor(in, action))
        /\ SetRequest(c, Done(c, r))
        /\ UNCHANGED ticket

\* Nothing to do, or a transition the risk's status does not allow, which is
\* no error here (ErrInvalidStatusTransition).
MoveSkips(c, r) ==
    LET in == request[c].in
        action == RiskActionFor(in, request[c].old)
    IN  /\ request[c].op = "move"
        /\ r \in request[c].todo
        /\ in.action # "assign"
        /\ action # "none" => risk[r].status \notin FromStatuses(action)
        /\ SetRequest(c, Done(c, r))
        /\ UNCHANGED ticket
        /\ RisksUnchanged

MoveCommit(c) ==
    /\ request[c].op = "move"
    /\ request[c].todo = {} /\ request[c].assigning = {}
    /\ ticket' = [ticket EXCEPT ![request[c].t] =
                     TicketStatusUpdate(ticket[request[c].t],
                                        nextStatus(request[c].in.action))]
    /\ SetRequest(c, Idle)
    /\ RisksUnchanged

\* The errors that roll a request back: the risk does not exist, the status
\* that was read is gone, or the risk service refuses: a transition assignRisk
\* chose by a status that has changed since, or a decision's own approval.
Fails(c) ==
    LET q == request[c]
        a == RiskActionFor(q.in, q.old)
    IN  \/ q.op = "create" /\ \E r \in q.todo : ~Exists(r)
        \/ q.op = "read" /\ ~Locked(q.t) /\ ticket[q.t].status # q.old
        \/ /\ q.op \in {"create", "move"}
           /\ \E g \in q.assigning : /\ NeedsTriage(g.status)
                                     /\ ~Accepts(risk[g.risk], AssignInput(q, g))
        \/ /\ q.op = "move" /\ q.in.action # "assign" /\ a # "none"
           /\ \E r \in q.todo : /\ risk[r].status \in FromStatuses(a)
                                /\ ~Accepts(risk[r], RiskInputFor(q.in, a))

Rollback(c) ==
    /\ Fails(c) \/ (Crashes /\ request[c] # Idle)
    /\ SetRequest(c, Idle)
    /\ UNCHANGED ticket
    /\ RisksUnchanged

-----------------------------------------------------------------------------
TicketInit ==
    /\ RiskInit
    /\ ticket = [t \in Tickets |-> NoTicket]
    /\ request = [c \in Requests |-> Idle]

RequestStep(c) ==
    \/ \E r \in Risks : \/ LinkTicketRisk(c, r) \/ AssignRead(c, r)
                        \/ MoveRisk(c, r) \/ MoveSkips(c, r)
    \/ AssignTriages(c) \/ AssignSkips(c) \/ CreateCommit(c)
    \/ MoveUpdate(c) \/ MoveCommit(c) \/ Rollback(c)

TicketNext ==
    \E c \in Requests :
        \/ \E t \in Tickets, u \in RiskUsers, R \in SUBSET Risks, due \in BOOLEAN :
              CreateBegin(c, t, u, R, due)
        \/ \E t \in Tickets, in \in MoveInputs : MoveRead(c, t, in)
        \/ RequestStep(c)

\* The risks move on their own too: people, scans and passes.
TicketsAndRisksNext == TicketNext \/ (RiskNext /\ UNCHANGED ticketVars)

TicketSpec == TicketInit /\ [][TicketsAndRisksNext]_<<riskVars, ticketVars>>

-----------------------------------------------------------------------------
(* Properties.                                                             *)

TicketTypeOK ==
    /\ ticket \in [Tickets -> TicketRow \cup {NoTicket}]
    /\ \A c \in Requests : request[c].op \in {"idle", "create", "read", "move"}

\* A ticket moves only along the table of nextStatus from the status it has,
\* so a closed one never moves again, although two requests may have read the
\* same status and the risks were moved before the ticket was committed.
TicketFollowsTable ==
    [][\A t \in Tickets : ticket[t] # NoTicket /\ ticket'[t] # ticket[t] =>
          \E a \in TicketActions : /\ ticket[t].status \in TicketFrom(a)
                                   /\ ticket'[t].status = nextStatus(a)]_ticket

\* A ticket on record links only risks somebody has looked at: assignRisk
\* confirms and assigns them while people, scans and other tickets move the
\* same risks, and a create that could not do so leaves no ticket.
LinkedRiskTriaged ==
    \A t \in Tickets : ticket[t] # NoTicket =>
        \A r \in ticket[t].links : Exists(r) /\ risk[r].status # "new"

=============================================================================
