------------------------------ MODULE Accounts ------------------------------
(***************************************************************************)
(* Accounts, workspaces and the deletion of an account in Firestore.       *)
(*                                                                         *)
(* Deleting an account starts with one transaction that leaves a marker;   *)
(* everything the account owns is then swept away by single deletes, and   *)
(* a last transaction removes the user document and completes the marker.  *)
(* The sweep may die after any delete.  It is resumed from the beginning,  *)
(* by the user's next request or by an operator's cleanup command.  Sign-  *)
(* ins, invitations and requests go on meanwhile: each write checks the    *)
(* markers of the people it is about in its own transaction.               *)
(*                                                                         *)
(* Ids of users are numbers because the cleanup pages through them in      *)
(* order.  The workspace created for a user has the id of the user.        *)
(***************************************************************************)
EXTENDS Naturals, FiniteSets

CONSTANTS
    Users,          \* user ids
    Subjects,       \* Google accounts, each with an email of its own
    FirstId,        \* [Subjects -> Users], the id derived from the subject
    Established,    \* the subjects that have an account in the beginning
    Browsers,       \* browsers, each with a session cookie of its own
    Cookies,        \* [Browsers -> the established subject signed in at first, or None]
    Deleters,       \* DELETE account requests
    Operator,       \* the cleanup command
    Offered,        \* the roles that invitations offer
    PageLimit,      \* the page size of the cleanup
    Budgets,        \* bound: how often each kind of outside event happens, one choice per behaviour
    None            \* an absent field or document

Roles == {"OWNER", "ADMIN", "MANAGER", "MEMBER"}
Kinds == {"signin", "invite", "promote", "ask", "delete", "fault"}
Sweepers == Deleters \cup {Operator}

ASSUME UsersAssumption ==
    /\ Users \subseteq Nat \ {0}
    /\ None \notin Users \cup Subjects \cup Browsers
    /\ Operator \notin Deleters
ASSUME FirstIdAssumption ==
    /\ FirstId \in [Subjects -> Users]
    /\ \A s, t \in Subjects : FirstId[s] = FirstId[t] => s = t
    /\ Established \subseteq Subjects
    /\ Cookies \in [Browsers -> Established \cup {None}]
ASSUME LimitAssumption ==
    /\ Offered \subseteq Roles \ {"OWNER"}
    /\ PageLimit \in Nat \ {0}
    /\ Budgets \subseteq [Kinds -> Nat]
ASSUME FiniteAssumption == IsFiniteSet(Established) /\ IsFiniteSet(Browsers)

VARIABLES
    docs,       \* every document but the markers
    marker,     \* [Users -> deletion marker or None]
    signin,     \* [Browsers -> the state of its sign-in callback]
    known,      \* the identities that requests in flight were authenticated with
    sweep,      \* [Sweepers -> the state of its DeleteAccount call]
    cleanup,    \* the operator's cleanup: its page, what is left of it, its cursor
    left        \* bound: what is left of the budget

vars == <<docs, marker, signin, known, sweep, cleanup, left>>

-----------------------------------------------------------------------------
(* Documents                                                               *)

User(u, s) == [kind |-> "user", user |-> u, email |-> s]
Identity(s, u) == [kind |-> "identity", user |-> u, subject |-> s]
Organization(o) == [kind |-> "organization", org |-> o]
Member(o, u, r) == [kind |-> "member", user |-> u, org |-> o, role |-> r]
Workspace(u, o) == [kind |-> "workspace", user |-> u, org |-> o]
Settings(u) == [kind |-> "settings", user |-> u]
Session(b, u, o) == [kind |-> "session", user |-> u, org |-> o, browser |-> b]
Invitation(o, u, r) == [kind |-> "invitation", user |-> u, org |-> o, role |-> r]
Request(u, v, o) == [kind |-> "request", from |-> u, to |-> v, org |-> o]
Note(u, r) == [kind |-> "note", user |-> u, request |-> r]
Audit(o, u, r) == [kind |-> "audit", user |-> u, org |-> o, request |-> r]

RequestDocs == [kind : {"request"}, from : Users, to : Users, org : Users]
Documents ==
    [kind : {"user"}, user : Users, email : Subjects]
    \cup [kind : {"identity"}, user : Users, subject : Subjects]
    \cup [kind : {"organization"}, org : Users]
    \cup [kind : {"member"}, user : Users, org : Users, role : Roles]
    \cup [kind : {"workspace"}, user : Users, org : Users]
    \cup [kind : {"settings"}, user : Users]
    \cup [kind : {"session"}, user : Users, org : Users, browser : Browsers]
    \cup [kind : {"invitation"}, user : Users, org : Users, role : Roles]
    \cup RequestDocs
    \cup [kind : {"note"}, user : Users, request : RequestDocs]
    \cup [kind : {"audit"}, user : Users, org : Users, request : RequestDocs \cup {None}]

\* accountDeletionDocument.
Marker == [phase : {"deleting", "complete"}, orgs : SUBSET Users]

ASSUME NoneAssumption == None \notin RequestDocs \cup Marker

Of(kind) == {d \in docs : d.kind = kind}
HasUser(u) == \E d \in Of("user") : d.user = u
MembersOf(o) == {d \in Of("member") : d.org = o}
MembershipsOf(u) == {d \in Of("member") : d.user = u}
OwnersOf(o) == {d.user : d \in {m \in MembersOf(o) : m.role = "OWNER"}}
IsMember(u, o) == \E d \in MembersOf(o) : d.user = u
Participants(r) == {r.from, r.to}

\* guardAccountActive: a marker of either phase stops a write.
Active(u) == marker[u] = None

CanInvite(actor, target) ==
    \/ actor = "OWNER" /\ target \in {"ADMIN", "MANAGER", "MEMBER"}
    \/ actor = "ADMIN" /\ target \in {"MANAGER", "MEMBER"}

Spend(kind) == left[kind] > 0 /\ left' = [left EXCEPT ![kind] = @ - 1]

NoSignin == [pc |-> "idle", subject |-> None, prior |-> None, user |-> None, org |-> None]
NoSweep == [pc |-> "idle", user |-> None, orgs |-> {}, work |-> {}, todo |-> {}, at |-> None, org |-> None]

Init ==
    /\ docs = (UNION {LET u == FirstId[s] IN
                     {User(u, s), Identity(s, u), Organization(u), Member(u, u, "OWNER"),
                      Workspace(u, u)} : s \in Established})
              \cup {LET u == FirstId[Cookies[b]] IN Session(b, u, u) :
                        b \in {c \in Browsers : Cookies[c] # None}}
    /\ marker = [u \in Users |-> None]
    /\ signin = [b \in Browsers |-> NoSignin]
    /\ known = {}
    /\ sweep = [d \in Sweepers |-> NoSweep]
    /\ cleanup = [page |-> {}, more |-> FALSE, cursor |-> 0, from |-> 0]
    /\ left \in Budgets

-----------------------------------------------------------------------------
(* Signing in: the Google callback                                         *)

Signin(b, next) ==
    /\ signin' = [signin EXCEPT ![b] = next]
    /\ UNCHANGED <<marker, known, sweep, cleanup>>

\* callback: a consumed flow and a verified profile; the identity is read.
ReadIdentity(b, s) ==
    /\ signin[b].pc = "idle"
    /\ \A d \in Of("session") : d.browser # b
    /\ Spend("signin")
    /\ LET ids == {d.user : d \in {i \in Of("identity") : i.subject = s}}
           prior == IF ids = {} THEN None ELSE CHOOSE u \in ids : TRUE
       IN  Signin(b, [NoSignin EXCEPT !.pc = "match", !.subject = s, !.prior = prior, !.user = prior])
    /\ UNCHANGED docs

\* Without an identity: the user with this email, or the id of the subject.
MatchEmail(b) ==
    LET c == signin[b]
        matches == {d.user : d \in {m \in Of("user") : m.email = c.subject}}
    IN  /\ c.pc = "match"
        /\ \E u \in (IF c.prior # None THEN {c.prior}
                     ELSE IF matches # {} THEN matches ELSE {FirstId[c.subject]}) :
               Signin(b, [c EXCEPT !.pc = "marker", !.user = u])
        /\ UNCHANGED <<docs, left>>

\* randomID: an id that no document, marker or sign-in has.
RandomId ==
    LET used == {u \in Users : \/ ~Active(u)
                               \/ \E d \in docs \ (Of("organization") \cup Of("request")) : d.user = u
                               \/ \E b \in Browsers : signin[b].user = u}
                \cup {FirstId[s] : s \in Subjects}
    IN  {u \in Users \ used : \A v \in Users \ used : u <= v}

\* A pending deletion refuses the sign-in, a completed one gives a new id.
ReadMarker(b) ==
    LET c == signin[b]
    IN  /\ c.pc = "marker"
        /\ \/ /\ Active(c.user)
              /\ Signin(b, [c EXCEPT !.pc = "upsert"])
           \/ /\ ~Active(c.user)
              /\ marker[c.user].phase = "deleting"
              /\ Signin(b, NoSignin)
           \/ /\ ~Active(c.user)
              /\ marker[c.user].phase = "complete"
              /\ \E u \in RandomId : Signin(b, [c EXCEPT !.pc = "upsert", !.user = u])
        /\ UNCHANGED <<docs, left>>

\* Mutant of IdentityUnchanged: the mapping is not compared.
IdentityAnything(c) == TRUE

\* Whether the identity is still the one the callback began with.
IdentityUnchanged(c) ==
    {d.user : d \in {i \in Of("identity") : i.subject = c.subject}} = {c.prior} \ {None}

WriteIdentity(b) ==
    LET c == signin[b]
    IN  /\ c.pc = "upsert"
        /\ \/ /\ Active(c.user)
              /\ IdentityUnchanged(c)
              /\ docs' = {d \in docs : ~(d.kind = "user" /\ d.user = c.user)
                                       /\ ~(d.kind = "identity" /\ d.subject = c.subject)}
                         \cup {User(c.user, c.subject), Identity(c.subject, c.user)}
              /\ Signin(b, [c EXCEPT !.pc = "list"])
           \/ /\ ~(Active(c.user) /\ IdentityUnchanged(c))
              /\ Signin(b, NoSignin)
              /\ UNCHANGED docs
        /\ UNCHANGED left

\* Mutant of ListWorkspaces: a user without workspaces is signed in to none.
ListNoWorkspaces(b) ==
    LET c == signin[b]
        orgs == {d.org : d \in {w \in Of("workspace") : w.user = c.user}}
    IN  /\ c.pc = "list"
        /\ \E o \in (IF orgs = {} THEN {None} ELSE orgs) :
               Signin(b, [c EXCEPT !.pc = "session", !.org = o])
        /\ UNCHANGED <<docs, left>>

\* ListWorkspaces; the first by name is chosen, names being free.
ListWorkspaces(b) ==
    LET c == signin[b]
        orgs == {d.org : d \in {w \in Of("workspace") : w.user = c.user}}
    IN  /\ c.pc = "list"
        /\ \/ /\ orgs = {}
              /\ Signin(b, [c EXCEPT !.pc = "create"])
           \/ \E o \in orgs : Signin(b, [c EXCEPT !.pc = "session", !.org = o])
        /\ UNCHANGED <<docs, left>>

CreateWorkspace(b) ==
    LET c == signin[b]
    IN  /\ c.pc = "create"
        /\ \/ /\ Active(c.user)
              /\ docs' = (docs \ {d \in MembersOf(c.user) : d.user = c.user})
                         \cup {Organization(c.user), Member(c.user, c.user, "OWNER"),
                               Workspace(c.user, c.user)}
              /\ Signin(b, [c EXCEPT !.pc = "session", !.org = c.user])
           \/ /\ ~Active(c.user)
              /\ Signin(b, NoSignin)
              /\ UNCHANGED docs
        /\ UNCHANGED left

\* Mutant of CreateSession: the session is written without the fence.
CreateSessionUnfenced(b) ==
    LET c == signin[b]
    IN  /\ c.pc = "session"
        /\ docs' = docs \cup {Session(b, c.user, c.org)}
        /\ Signin(b, NoSignin)
        /\ UNCHANGED left

CreateSession(b) ==
    LET c == signin[b]
    IN  /\ c.pc = "session"
        /\ docs' = IF Active(c.user) THEN docs \cup {Session(b, c.user, c.org)} ELSE docs
        /\ Signin(b, NoSignin)
        /\ UNCHANGED left

-----------------------------------------------------------------------------
(* Requests of a signed-in user.  One that GetSession authenticated may be *)
(* carried out at any later time.                                          *)

Store(next) ==
    /\ docs' = next
    /\ UNCHANGED <<marker, signin, known, sweep, cleanup>>

\* GetSession for a request with a browser's cookie.
Authenticate(b) ==
    /\ \E d \in Of("session") :
           /\ d.browser = b
           /\ Active(d.user)
           /\ HasUser(d.user)
           /\ IsMember(d.user, d.org)
           /\ known' = known \cup {[user |-> d.user, org |-> d.org]}
    /\ UNCHANGED <<docs, marker, signin, sweep, cleanup, left>>

Logout(b) ==
    /\ \E d \in Of("session") : d.browser = b /\ Store(docs \ {d})
    /\ UNCHANGED left

SwitchWorkspace(i, d, o) ==
    /\ Active(i.user)
    /\ IsMember(i.user, o)
    /\ Organization(o) \in docs
    /\ d.user = i.user
    /\ d.org # o
    /\ Store((docs \ {d}) \cup {Session(d.browser, d.user, o), Audit(o, i.user, None)})
    /\ UNCHANGED left

CreateInvitation(i, role) ==
    /\ Spend("invite")
    /\ Active(i.user)
    /\ \E d \in MembersOf(i.org) : d.user = i.user /\ CanInvite(d.role, role)
    /\ Store(docs \cup {Invitation(i.org, i.user, role), Audit(i.org, i.user, None)})

\* An existing membership keeps its role.
AcceptInvitation(i, inv) ==
    /\ Active(i.user)
    /\ Organization(inv.org) \in docs
    /\ HasUser(i.user)
    /\ Store((docs \ {inv})
             \cup (IF IsMember(i.user, inv.org) THEN {} ELSE {Member(inv.org, i.user, inv.role)})
             \cup {Workspace(i.user, inv.org), Audit(inv.org, i.user, None)})
    /\ UNCHANGED left

\* The way out of ErrLastOrganizationOwner: an operator makes a member an owner.
TransferOwnership(m) ==
    /\ Spend("promote")
    /\ m.role # "OWNER"
    /\ Active(m.user)
    /\ Store((docs \ {m}) \cup {Member(m.org, m.user, "OWNER")})

\* Creating a request notifies its target and is audited.
CreateRequest(i, v) ==
    LET r == Request(i.user, v, i.org)
    IN  /\ Spend("ask")
        /\ v # i.user
        /\ Active(i.user) /\ Active(v)
        /\ IsMember(i.user, i.org) /\ IsMember(v, i.org)
        /\ Store(docs \cup {r, Note(v, r), Audit(i.org, i.user, r)})

\* Any later command of a participant notifies the other one.
ChangeRequest(i, r) ==
    /\ Spend("ask")
    /\ i.user \in Participants(r)
    /\ \A u \in Participants(r) : Active(u)
    /\ Store(docs \cup {Note(u, r) : u \in Participants(r) \ {i.user}} \cup {Audit(r.org, i.user, r)})

\* Stands for the fenced writes of a user's own data: policies, overrides, events,
\* rows, connections and their OAuth flows.
SaveSettings(i) ==
    /\ Spend("ask")
    /\ Active(i.user)
    /\ Store(docs \cup {Settings(i.user)})

-----------------------------------------------------------------------------
(* DeleteAccount                                                           *)

\* Mutant of Successors: owners who are leaving themselves count too.
AllOtherOwners(o, u) == OwnersOf(o) \ {u}

Successors(o, u) == {v \in OwnersOf(o) \ {u} : Active(v)}

MayLeave(o, u) ==
    u \in OwnersOf(o) /\ Cardinality(MembersOf(o)) > 1 => Successors(o, u) # {}

OwnedRequests(u) == {r \in Of("request") : u \in Participants(r)}

\* The sweep begins with the requests the account takes part in.
Sweeping(u, orgs) ==
    [NoSweep EXCEPT !.pc = "request", !.user = u, !.orgs = orgs, !.work = OwnedRequests(u)]

\* beginAccountDeletion and the query of the requests.  A marker that exists
\* is taken as it is.
BeginAccountDeletion(d, u) ==
    /\ d \in Deleters
    /\ sweep[d].pc = "idle"
    /\ Spend("delete")
    /\ \/ /\ ~Active(u)
          /\ marker[u].phase = "deleting"
          /\ sweep' = [sweep EXCEPT ![d] = Sweeping(u, marker[u].orgs)]
          /\ UNCHANGED marker
       \/ /\ Active(u)
          /\ HasUser(u)
          /\ LET orgs == {o \in Users : Organization(o) \in docs /\ IsMember(u, o)}
             IN  /\ \A o \in orgs : MayLeave(o, u)
                 /\ marker' = [marker EXCEPT ![u] = [phase |-> "deleting", orgs |-> orgs]]
                 /\ sweep' = [sweep EXCEPT ![d] = Sweeping(u, orgs)]
    /\ UNCHANGED <<docs, signin, known, cleanup>>

\* What the query of the current stage returns.
Query(c) ==
    IF c.at # None
    THEN {x \in Of(c.pc) : x.request = c.at
                           /\ (c.pc = "note" => x.user \in Participants(c.at))
                           /\ (c.pc = "audit" => x.org = c.at.org)}
    ELSE {x \in Of(c.pc) : x.user = c.user /\ (c.pc = "audit" => x.org \in c.orgs)}

Enter(c, stage, at) ==
    LET next == [c EXCEPT !.pc = stage, !.at = at] IN [next EXCEPT !.todo = Query(next)]

After == [audit |-> "note", note |-> "workspace", workspace |-> "session",
          session |-> "identity", identity |-> "invitation", invitation |-> "settings"]
Collections == {"note", "workspace"}

Swept(d, next) ==
    /\ sweep' = [sweep EXCEPT ![d] = next]
    /\ UNCHANGED <<signin, known, left>>

\* A request keeps until its notifications and audit events are gone.
TakeRequest(d) ==
    LET c == sweep[d]
    IN  /\ c.pc = "request"
        /\ \/ \E r \in c.work : Swept(d, Enter([c EXCEPT !.work = @ \ {r}], "note", r))
           \/ c.work = {} /\ Swept(d, Enter(c, "audit", None))
        /\ UNCHANGED <<docs, marker, cleanup>>

EraseOne(d) ==
    LET c == sweep[d]
    IN  /\ \E x \in c.todo : /\ docs' = docs \ {x}
                            /\ Swept(d, [c EXCEPT !.todo = @ \ {x}])
        /\ UNCHANGED <<marker, cleanup>>

\* Mutant of NextOfRequest: the request goes before its audit events.
NextOfRequestEarly(d) ==
    LET c == sweep[d]
    IN  /\ c.todo = {}
        /\ \/ /\ c.pc = "note" /\ c.at # None
              /\ Swept(d, Enter(c, "audit", c.at))
              /\ docs' = docs \ {c.at}
           \/ /\ c.pc = "audit" /\ c.at # None
              /\ Swept(d, [c EXCEPT !.pc = "request", !.at = None])
              /\ UNCHANGED docs
        /\ UNCHANGED <<marker, cleanup>>

\* Of a request, its audit events follow the notifications, then the request itself.
NextOfRequest(d) ==
    LET c == sweep[d]
    IN  /\ c.todo = {}
        /\ \/ /\ c.pc = "note" /\ c.at # None
              /\ Swept(d, Enter(c, "audit", c.at))
              /\ UNCHANGED docs
           \/ /\ c.pc = "audit" /\ c.at # None
              /\ docs' = docs \ {c.at}
              /\ Swept(d, [c EXCEPT !.pc = "request", !.at = None])
        /\ UNCHANGED <<marker, cleanup>>

\* A collection is swept until it is empty, a query as it was read.
NextStage(d) ==
    LET c == sweep[d]
    IN  /\ c.pc \in DOMAIN After /\ c.at = None /\ c.todo = {}
        /\ \/ /\ c.pc \in Collections /\ Query(c) # {}
              /\ Swept(d, Enter(c, c.pc, None))
           \/ /\ ~(c.pc \in Collections /\ Query(c) # {})
              /\ Swept(d, Enter(c, After[c.pc], None))
        /\ UNCHANGED <<docs, marker, cleanup>>

\* After the settings: one workspace after the other is left, and deleted by a
\* call of its own when nobody was found in it.
LeaveWorkspaces(d) ==
    LET c == sweep[d]
    IN  /\ c.pc = "settings" /\ c.todo = {}
        /\ Swept(d, [c EXCEPT !.pc = "leave"])
        /\ UNCHANGED <<docs, marker, cleanup>>

LeaveWorkspace(d) ==
    LET c == sweep[d]
    IN  /\ c.pc = "leave"
        /\ \E o \in c.orgs :
               /\ docs' = docs \ {m \in MembersOf(o) : m.user = c.user}
               /\ Swept(d, [c EXCEPT !.pc = "check", !.org = o, !.orgs = @ \ {o}])
        /\ UNCHANGED <<marker, cleanup>>

\* Mutant of CheckWorkspace: the check counts the account that has just left.
CheckWorkspaceBeforehand(d) ==
    LET c == sweep[d]
    IN  /\ c.pc = "check"
        /\ \/ /\ Cardinality(MembersOf(c.org)) <= 1
              /\ Swept(d, [c EXCEPT !.pc = "drop"])
           \/ /\ Cardinality(MembersOf(c.org)) > 1
              /\ Swept(d, [c EXCEPT !.pc = "leave", !.org = None])
        /\ UNCHANGED <<docs, marker, cleanup>>

CheckWorkspace(d) ==
    LET c == sweep[d]
    IN  /\ c.pc = "check"
        /\ \/ /\ MembersOf(c.org) = {}
              /\ Swept(d, [c EXCEPT !.pc = "drop"])
           \/ /\ MembersOf(c.org) # {}
              /\ Swept(d, [c EXCEPT !.pc = "leave", !.org = None])
        /\ UNCHANGED <<docs, marker, cleanup>>

DropWorkspace(d) ==
    LET c == sweep[d]
    IN  /\ c.pc = "drop"
        /\ docs' = docs \ {Organization(c.org)}
        /\ Swept(d, [c EXCEPT !.pc = "leave", !.org = None])
        /\ UNCHANGED <<marker, cleanup>>

\* Mutant of Attempted: the cursor of the last page is kept.
AttemptedKeepingCursor(d, u) ==
    IF d = Operator
    THEN cleanup' = [cleanup EXCEPT !.page = @ \ {u}, !.cursor = u]
    ELSE UNCHANGED cleanup

\* Mutant of NextCursor: from where it stopped, always.
SameCursor(page, more, cursor) == cursor

\* Where the cleanup goes on: from the start once its last page is done.
NextCursor(page, more, cursor) == IF page = {} /\ ~more THEN 0 ELSE cursor

\* The cleanup command has attempted the first account of its page: its cursor
\* goes past it, whether the deletion was completed or failed.
Attempted(d, u) ==
    IF d = Operator
    THEN LET rest == cleanup.page \ {u}
         IN  cleanup' = [cleanup EXCEPT !.page = rest, !.cursor = NextCursor(rest, cleanup.more, u)]
    ELSE UNCHANGED cleanup

CompleteDeletion(d) ==
    LET c == sweep[d]
    IN  /\ c.pc = "leave" /\ c.orgs = {}
        /\ docs' = docs \ {x \in Of("user") : x.user = c.user}
        /\ marker' = [marker EXCEPT ![c.user] = [phase |-> "complete", orgs |-> {}]]
        /\ Swept(d, NoSweep)
        /\ Attempted(d, c.user)

\* A call fails, the request or its time ends, or the process dies.
Interrupted(d) ==
    /\ sweep[d].pc # "idle"
    /\ Spend("fault")
    /\ sweep' = [sweep EXCEPT ![d] = NoSweep]
    /\ Attempted(d, sweep[d].user)
    /\ UNCHANGED <<docs, marker, signin, known>>

-----------------------------------------------------------------------------
(* The cleanup command of an operator                                      *)

Pending == {u \in Users : ~Active(u) /\ marker[u].phase = "deleting"}

\* ListPendingAccountDeletions: the first ids past the cursor.
ListPending ==
    LET rest == {u \in Pending : u > cleanup.cursor}
        page == {u \in rest : Cardinality({v \in rest : v < u}) < PageLimit}
    IN  /\ cleanup.page = {}
        /\ cleanup' = [page |-> page, more |-> page # rest, from |-> cleanup.cursor,
                       cursor |-> NextCursor(page, page # rest, cleanup.cursor)]
        /\ UNCHANGED <<docs, marker, signin, known, sweep, left>>

ResumeAccountDeletion ==
    \E u \in cleanup.page :
        /\ \A v \in cleanup.page : u <= v
        /\ sweep[Operator].pc = "idle"
        /\ \/ /\ u \in Pending
              /\ Swept(Operator, Sweeping(u, marker[u].orgs))
              /\ UNCHANGED cleanup
           \/ /\ u \notin Pending
              /\ Attempted(Operator, u)
              /\ UNCHANGED <<signin, known, sweep, left>>
        /\ UNCHANGED <<docs, marker>>

\* The time of the whole run is over, or the command dies and the operator begins
\* again with the cursor it was given or with none.
StopCleanup ==
    /\ cleanup.page # {}
    /\ sweep[Operator].pc = "idle"
    /\ Spend("fault")
    /\ \E c \in {cleanup.cursor, cleanup.from, 0} :
           cleanup' = [page |-> {}, more |-> FALSE, cursor |-> c, from |-> 0]
    /\ UNCHANGED <<docs, marker, signin, known, sweep>>

-----------------------------------------------------------------------------

SigningIn(b) ==
    \/ \E s \in Subjects : ReadIdentity(b, s)
    \/ MatchEmail(b) \/ ReadMarker(b) \/ WriteIdentity(b)
    \/ ListWorkspaces(b) \/ CreateWorkspace(b) \/ CreateSession(b)

Switches(i) == \E d \in Of("session"), o \in Users : SwitchWorkspace(i, d, o)

Invites(i) == \E r \in Offered : CreateInvitation(i, r)

Accepts(i) == \E inv \in Of("invitation") : AcceptInvitation(i, inv)

DeletesAccount(i) == \E d \in Deleters : BeginAccountDeletion(d, i.user)

Requesting(i) ==
    \/ Switches(i) \/ Invites(i) \/ Accepts(i) \/ DeletesAccount(i)
    \/ \E v \in Users : CreateRequest(i, v)
    \/ \E r \in Of("request") : ChangeRequest(i, r)
    \/ SaveSettings(i)

Deleting(d) ==
    \/ TakeRequest(d) \/ EraseOne(d) \/ NextOfRequest(d) \/ NextStage(d)
    \/ LeaveWorkspaces(d) \/ LeaveWorkspace(d) \/ CheckWorkspace(d) \/ DropWorkspace(d)
    \/ CompleteDeletion(d)

Cleaning == ListPending \/ ResumeAccountDeletion \/ StopCleanup

Next ==
    \/ \E b \in Browsers : SigningIn(b) \/ Authenticate(b) \/ Logout(b)
    \/ \E i \in known : Requesting(i)
    \/ \E m \in Of("member") : TransferOwnership(m)
    \/ \E d \in Sweepers : Deleting(d) \/ Interrupted(d)
    \/ Cleaning

Spec == Init /\ [][Next]_vars

\* The operator keeps running the cleanup, and calls that do not fail return.
FairSpec ==
    /\ Spec
    /\ WF_vars(ListPending)
    /\ WF_vars(ResumeAccountDeletion)
    /\ \A d \in Sweepers : WF_vars(Deleting(d))

-----------------------------------------------------------------------------
(* Properties                                                              *)

SigninState ==
    [pc : {"idle", "match", "marker", "upsert", "list", "create", "session"},
     subject : Subjects \cup {None}, prior : Users \cup {None},
     user : Users \cup {None}, org : Users \cup {None}]

SweepState ==
    [pc : {"idle", "request", "settings", "leave", "check", "drop"} \cup DOMAIN After,
     user : Users \cup {None}, orgs : SUBSET Users, work : SUBSET RequestDocs,
     todo : SUBSET Documents, at : RequestDocs \cup {None}, org : Users \cup {None}]

\* Every variable has its type: documents are of the known shapes, a marker keeps the
\* workspaces until it is complete, a sweep works on documents that exist or existed.
TypeOK ==
    /\ docs \subseteq Documents
    /\ marker \in [Users -> {None} \cup Marker]
    /\ signin \in [Browsers -> SigninState]
    /\ known \subseteq [user : Users, org : Users]
    /\ sweep \in [Sweepers -> SweepState]
    /\ cleanup \in [page : SUBSET Users, more : BOOLEAN, cursor : Nat, from : Nat]

\* What an account owns: what is filed under it, and what tells of a request it
\* takes part in, in anybody's inbox or log.
Concerns(d, u) ==
    \/ d.kind = "request" /\ u \in Participants(d)
    \/ d.kind \notin {"request", "organization"} /\ d.user = u
    \/ d.kind \in {"note", "audit"} /\ d.request # None /\ u \in Participants(d.request)

\* Once a deletion is complete nothing of the account is left, whatever the sweep was
\* interrupted at, whoever resumed it and whatever others wrote meanwhile
\* (DeleteAccount, the fences of every writer).
ErasedOnceComplete ==
    \A u \in Users : ~Active(u) /\ marker[u].phase = "complete" => \A d \in docs : ~Concerns(d, u)

\* A member's workspace exists although the check for remaining members and the delete
\* of the workspace are separate calls, the workspace list of an active user names it,
\* and a session is in a workspace of its user (AcceptInvitation, DeleteAccount).
MembershipsCoherent ==
    /\ \A m \in Of("member") :
           Organization(m.org) \in docs /\ (Active(m.user) => Workspace(m.user, m.org) \in docs)
    /\ \A s \in Of("session") : Active(s.user) => IsMember(s.user, s.org)

\* Sign-ins that race with each other and with deletions leave a Google account at most
\* one active user (UpsertGoogleIdentity, "avoid ... creating orphan accounts").
OneAccount ==
    \A s \in Subjects : Cardinality({u \in Users : User(u, s) \in docs /\ Active(u)}) <= 1

\* A workspace with several members never loses its last active owner to a deletion that
\* begins, also when its owners leave at once (beginAccountDeletion).
Led(o) == \E u \in OwnersOf(o) : Active(u)
LedUnlessAlone == \A o \in Users : Led(o) /\ ~Led(o)' => Cardinality(MembersOf(o)) = 1
NeverAbandoned == [][LedUnlessAlone]_vars

\* The last owner of a workspace with several members is not deleted: refused, and asked
\* to hand the ownership over (docs/requirements.md:2398).
LastOwnerStays ==
    [][\A o \in Users : OwnersOf(o) # {} /\ OwnersOf(o)' = {} => MembersOf(o)' = {}]_vars

\* Every deletion that has started is completed in the end, although the cursor of the
\* cleanup passes accounts whose deletion failed (accountcleanup.Run).
DeletionsComplete ==
    \A u \in Users :
        (~Active(u) /\ marker[u].phase = "deleting") ~> (~Active(u) /\ marker[u].phase = "complete")

-----------------------------------------------------------------------------
(* What makes the properties above inductive.                              *)

\* A call in progress has what its stage works with.
SigninInProgress(c) ==
    /\ c.pc # "idle" => c.subject \in Subjects
    /\ c.pc \in {"marker", "upsert", "list", "create", "session"} => c.user \in Users
    /\ c.pc = "session" => c.org \in Users

SweepInProgress(c) ==
    /\ IF c.pc = "idle" THEN c.todo = {} ELSE c.user \in Users
    /\ c.pc \in {"check", "drop"} => c.org \in Users

InProgress ==
    /\ TypeOK
    /\ left \in [Kinds -> Nat]
    /\ \A b \in Browsers : SigninInProgress(signin[b])
    /\ \A d \in Sweepers : SweepInProgress(sweep[d])

\* What a document says of others is so while the people it is about are active, and
\* the marker of one who leaves names the workspaces where there may be traces.
DocSound(d) ==
    /\ d.kind = "organization" => (Active(d.org) => IsMember(d.org, d.org))
    /\ d.kind = "member" =>
          /\ Organization(d.org) \in docs
          /\ IF Active(d.user) THEN Workspace(d.user, d.org) \in docs
             ELSE d.org \in marker[d.user].orgs
    /\ d.kind \in {"workspace", "session"} => (Active(d.user) => IsMember(d.user, d.org))
    /\ d.kind = "invitation" => IsMember(d.user, d.org)
    /\ d.kind = "request" => \A u \in Participants(d) : Active(u) => IsMember(u, d.org)
    /\ d.kind = "note" => d.request \in docs /\ d.user \in Participants(d.request)
    /\ d.kind = "audit" =>
          /\ d.request # None => d.request \in docs /\ d.org = d.request.org
          /\ IF Active(d.user) THEN IsMember(d.user, d.org) ELSE d.org \in marker[d.user].orgs

\* A sign-in will be in a workspace of its user.
SigninSound(c) == c.pc = "session" => (Active(c.user) => IsMember(c.user, c.org))

\* The kinds of documents that are swept by then.
Gone(stage) ==
    CASE stage = "audit" -> {}
      [] stage = "note" -> {"audit"}
      [] stage = "workspace" -> {"audit", "note"}
      [] stage = "session" -> {"audit", "note", "workspace"}
      [] stage = "identity" -> {"audit", "note", "workspace", "session"}
      [] stage = "invitation" -> {"audit", "note", "workspace", "session", "identity"}
      [] stage = "settings" -> {"audit", "note", "workspace", "session", "identity", "invitation"}
      [] OTHER -> {"audit", "note", "workspace", "session", "identity", "invitation", "settings"}

\* What is left of an account is what its sweep still has to do.
SweepSound(c) ==
    c.pc # "idle" =>
        /\ ~Active(c.user)
        /\ c.pc \notin {"leave", "check", "drop"} => marker[c.user].orgs \subseteq c.orgs
        /\ \A m \in MembershipsOf(c.user) : m.org \in c.orgs
        /\ \A o \in c.orgs \cup ({c.org} \ {None}) : Active(o) => IsMember(o, o)
        /\ \A x \in c.todo : /\ x.kind = c.pc /\ x.kind \in Gone("leave")
                             /\ c.pc \notin {"note", "audit"} => x.user = c.user
        /\ c.pc \notin {"note", "audit"} => c.at = None
        /\ c.at # None =>
              /\ c.user \in Participants(c.at)
              /\ \A x \in docs : x.kind = c.pc /\ x.request = c.at => x \in c.todo
              /\ c.pc = "audit" => \A x \in Of("note") : x.request # c.at
        /\ \A r \in c.work : c.user \in Participants(r)
        /\ \A r \in OwnedRequests(c.user) : r \in c.work \/ r = c.at
        /\ c.pc # "request" /\ c.at = None =>
              /\ OwnedRequests(c.user) = {}
              /\ \A x \in docs : x.kind = c.pc /\ x.kind \in Gone("leave") /\ x.user = c.user => x \in c.todo
              /\ \A x \in docs : x.kind \in Gone(c.pc) => x.user # c.user
        /\ c.pc = "drop" => MembersOf(c.org) = {}

\* A workspace named by a marker has been created, by its first owner.
MarkerSound(u) == ~Active(u) => \A o \in marker[u].orgs : Active(o) => IsMember(o, o)

\* Documents, sign-ins, markers and sweeps agree at every moment of a deletion.
SweepsCoherent ==
    /\ \A d \in docs : DocSound(d)
    /\ \A b \in Browsers : SigninSound(signin[b])
    /\ \A u \in Users : MarkerSound(u)
    /\ \A d \in Sweepers : SweepSound(sweep[d])
    /\ ErasedOnceComplete

\* A sign-in keeps to the user its identity names, unless that user is deleted.
SigninMapped(c) ==
    /\ c.pc = "match" => c.user = c.prior
    /\ (c.pc = "marker" /\ c.prior # None) => c.user = c.prior
    /\ (c.pc = "upsert" /\ c.prior # None) => (c.user = c.prior \/ ~Active(c.prior))

\* An active user is the one its Google account is mapped to, which is mapped to one
\* user only.
IdentitiesSound ==
    /\ \A d \in Of("user") : Active(d.user) => Identity(d.email, d.user) \in docs
    /\ \A d, e \in Of("identity") : d.subject = e.subject => d.user = e.user
    /\ \A b \in Browsers : SigninMapped(signin[b])
=============================================================================
