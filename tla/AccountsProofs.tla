--------------------------- MODULE AccountsProofs ---------------------------
(***************************************************************************)
(* Proofs about Accounts: the types, what keeps memberships, workspaces,   *)
(* sign-ins and sweeps coherent at every moment of a deletion, and that    *)
(* nothing of an account is left once its deletion is complete.            *)
(***************************************************************************)
EXTENDS Accounts, FiniteSetTheorems, TLAPS

-----------------------------------------------------------------------------
(* Documents.                                                              *)

\* The documents are of the known shapes,
LEMMA DocumentsMade ==
    ASSUME NEW u \in Users, NEW o \in Users, NEW s \in Subjects, NEW r \in Roles, NEW b \in Browsers,
           NEW q \in RequestDocs
    PROVE  /\ User(u, s) \in Documents /\ Identity(s, u) \in Documents
           /\ Organization(o) \in Documents /\ Member(o, u, r) \in Documents
           /\ Workspace(u, o) \in Documents /\ Settings(u) \in Documents
           /\ Session(b, u, o) \in Documents /\ Invitation(o, u, r) \in Documents
           /\ q \in Documents /\ Note(u, q) \in Documents
           /\ Audit(o, u, q) \in Documents /\ Audit(o, u, None) \in Documents
BY DEF Documents, RequestDocs, User, Identity, Organization, Member, Workspace, Settings, Session,
       Invitation, Note, Audit

LEMMA RequestMade ==
    ASSUME NEW u \in Users, NEW v \in Users, NEW o \in Users
    PROVE  Request(u, v, o) \in RequestDocs
BY DEF Request, RequestDocs

\* and the kind of a document tells its shape.
LEMMA DocumentFields ==
    ASSUME NEW d \in Documents
    PROVE  /\ d.kind = "user" => d.user \in Users /\ d.email \in Subjects /\ d = User(d.user, d.email)
           /\ d.kind = "identity" => d.user \in Users /\ d.subject \in Subjects /\ d = Identity(d.subject, d.user)
           /\ d.kind = "organization" => d.org \in Users /\ d = Organization(d.org)
           /\ d.kind = "member" => d.user \in Users /\ d.org \in Users /\ d.role \in Roles
                                   /\ d = Member(d.org, d.user, d.role)
           /\ d.kind = "workspace" => d.user \in Users /\ d.org \in Users /\ d = Workspace(d.user, d.org)
           /\ d.kind = "settings" => d.user \in Users
           /\ d.kind = "session" => d.user \in Users /\ d.org \in Users /\ d.browser \in Browsers
           /\ d.kind = "invitation" => d.user \in Users /\ d.org \in Users /\ d.role \in Roles
           /\ d.kind = "request" => d \in RequestDocs
           /\ d.kind = "note" => d.user \in Users /\ d.request \in RequestDocs
           /\ d.kind = "audit" => d.user \in Users /\ d.org \in Users /\ d.request \in RequestDocs \cup {None}
<1>1. ASSUME d.kind = "user" PROVE d.user \in Users /\ d.email \in Subjects /\ d = User(d.user, d.email)
  BY <1>1 DEF Documents, RequestDocs, User
<1>2. ASSUME d.kind = "identity" PROVE d.user \in Users /\ d.subject \in Subjects /\ d = Identity(d.subject, d.user)
  BY <1>2 DEF Documents, RequestDocs, Identity
<1>3. ASSUME d.kind = "organization" PROVE d.org \in Users /\ d = Organization(d.org)
  BY <1>3 DEF Documents, RequestDocs, Organization
<1>4. ASSUME d.kind = "member"
      PROVE  d.user \in Users /\ d.org \in Users /\ d.role \in Roles /\ d = Member(d.org, d.user, d.role)
  BY <1>4 DEF Documents, RequestDocs, Member
<1>5. ASSUME d.kind = "workspace" PROVE d.user \in Users /\ d.org \in Users /\ d = Workspace(d.user, d.org)
  BY <1>5 DEF Documents, RequestDocs, Workspace
<1>6. d.kind = "settings" => d.user \in Users
  BY DEF Documents, RequestDocs
<1>7. d.kind = "session" => d.user \in Users /\ d.org \in Users /\ d.browser \in Browsers
  BY DEF Documents, RequestDocs
<1>8. d.kind = "invitation" => d.user \in Users /\ d.org \in Users /\ d.role \in Roles
  BY DEF Documents, RequestDocs
<1>9. d.kind = "request" => d \in RequestDocs
  BY DEF Documents, RequestDocs
<1>10. d.kind = "note" => d.user \in Users /\ d.request \in RequestDocs
  BY DEF Documents, RequestDocs
<1>11. d.kind = "audit" => d.user \in Users /\ d.org \in Users /\ d.request \in RequestDocs \cup {None}
  BY DEF Documents, RequestDocs
<1> QED BY <1>1, <1>2, <1>3, <1>4, <1>5, <1>6, <1>7, <1>8, <1>9, <1>10, <1>11

DocumentKinds ==
    {"user", "identity", "organization", "member", "workspace", "settings", "session", "invitation",
     "request", "note", "audit"}

LEMMA DocumentHasKind ==
    ASSUME NEW d \in Documents
    PROVE  d.kind \in DocumentKinds
BY DEF Documents, RequestDocs, DocumentKinds

LEMMA RequestFields ==
    ASSUME NEW r \in RequestDocs
    PROVE  r.kind = "request" /\ r.from \in Users /\ r.to \in Users /\ r.org \in Users
           /\ Participants(r) \subseteq Users
BY DEF RequestDocs, Participants

-----------------------------------------------------------------------------
(* Types.                                                                  *)

LEMMA SpendTyped ==
    ASSUME left \in [Kinds -> Nat], NEW kind \in Kinds, Spend(kind)
    PROVE  left' \in [Kinds -> Nat]
BY DEF Spend

\* One sign-in goes on, and may write documents.
LEMMA SigninStep ==
    ASSUME InProgress, NEW b \in Browsers, NEW c \in SigninState, SigninInProgress(c), Signin(b, c),
           docs' \subseteq Documents, left' \in [Kinds -> Nat]
    PROVE  InProgress'
<1>1. /\ signin' = [signin EXCEPT ![b] = c] /\ UNCHANGED <<marker, known, sweep, cleanup>>
  BY DEF Signin
<1>2. TypeOK'
  BY <1>1 DEF InProgress, TypeOK
<1>3. \A a \in Browsers : SigninInProgress(signin'[a])
  BY <1>1 DEF InProgress, TypeOK
<1>4. \A d \in Sweepers : SweepInProgress(sweep'[d])
  BY <1>1 DEF InProgress
<1> QED BY <1>2, <1>3, <1>4 DEF InProgress, SigninInProgress, SweepInProgress

\* Only documents are written.
LEMMA StoreStep ==
    ASSUME InProgress, NEW next \in SUBSET Documents, Store(next), left' \in [Kinds -> Nat]
    PROVE  InProgress'
<1>1. docs' \subseteq Documents /\ UNCHANGED <<marker, signin, known, sweep, cleanup>>
  BY DEF Store
<1>2. TypeOK'
  BY <1>1 DEF InProgress, TypeOK
<1> QED BY <1>1, <1>2 DEF InProgress, SigninInProgress, SweepInProgress

\* One sweep goes on.
LEMMA SweptStep ==
    ASSUME InProgress, NEW d \in Sweepers, NEW c \in SweepState, SweepInProgress(c), Swept(d, c),
           docs' \subseteq Documents, marker' \in [Users -> {None} \cup Marker],
           cleanup' \in [page : SUBSET Users, more : BOOLEAN, cursor : Nat, from : Nat]
    PROVE  InProgress'
<1>1. sweep' = [sweep EXCEPT ![d] = c] /\ UNCHANGED <<signin, known, left>>
  BY DEF Swept
<1>2. TypeOK'
  BY <1>1 DEF InProgress, TypeOK
<1>3. \A e \in Sweepers : SweepInProgress(sweep'[e])
  BY <1>1 DEF InProgress, TypeOK
<1>4. left' \in [Kinds -> Nat] /\ \A b \in Browsers : SigninInProgress(signin[b])'
  BY <1>1 DEF InProgress, SigninInProgress
<1> QED BY <1>2, <1>3, <1>4 DEF InProgress, SweepInProgress

\* What the steps start from.
LEMMA CallsTyped ==
    ASSUME InProgress
    PROVE  /\ \A b \in Browsers : signin[b] \in SigninState /\ SigninInProgress(signin[b])
           /\ \A d \in Sweepers : sweep[d] \in SweepState /\ SweepInProgress(sweep[d])
           /\ docs \subseteq Documents /\ left \in [Kinds -> Nat]
           /\ marker \in [Users -> {None} \cup Marker]
           /\ cleanup \in [page : SUBSET Users, more : BOOLEAN, cursor : Nat, from : Nat]
           /\ known \subseteq [user : Users, org : Users]
BY DEF InProgress, TypeOK

LEMMA ReadIdentityTyped ==
    ASSUME InProgress, NEW b \in Browsers, NEW s \in Subjects, ReadIdentity(b, s)
    PROVE  InProgress'
<1> DEFINE ids == {d.user : d \in {i \in Of("identity") : i.subject = s}}
           prior == IF ids = {} THEN None ELSE CHOOSE u \in ids : TRUE
           c == [NoSignin EXCEPT !.pc = "match", !.subject = s, !.prior = prior, !.user = prior]
<1>1. ids \subseteq Users
  BY DocumentFields, CallsTyped DEF Of
<1>2. prior \in Users \cup {None}
  BY <1>1
<1>3. c \in SigninState /\ SigninInProgress(c)
  BY <1>2 DEF SigninState, SigninInProgress, NoSignin
<1>4. Signin(b, c) /\ docs' = docs /\ Spend("signin")
  BY DEF ReadIdentity
<1> HIDE DEF c
<1> QED BY <1>3, <1>4, SigninStep, SpendTyped, CallsTyped DEF Kinds

LEMMA MatchEmailTyped ==
    ASSUME InProgress, NEW b \in Browsers, MatchEmail(b)
    PROVE  InProgress'
<1>1. PICK a : a = signin[b] /\ a \in SigninState /\ SigninInProgress(a) /\ a.pc = "match"
  BY CallsTyped DEF MatchEmail
<1> DEFINE matches == {d.user : d \in {m \in Of("user") : m.email = a.subject}}
<1>2. matches \subseteq Users
  BY DocumentFields, CallsTyped DEF Of
<1>3. a.subject \in Subjects /\ FirstId[a.subject] \in Users
  BY <1>1, FirstIdAssumption DEF SigninInProgress
<1>4. PICK u \in Users : Signin(b, [a EXCEPT !.pc = "marker", !.user = u])
  BY <1>1, <1>2, <1>3 DEF MatchEmail, SigninState
<1>5. [a EXCEPT !.pc = "marker", !.user = u] \in SigninState
      /\ SigninInProgress([a EXCEPT !.pc = "marker", !.user = u])
  BY <1>1, <1>3 DEF SigninState, SigninInProgress
<1>6. UNCHANGED <<docs, left>>
  BY DEF MatchEmail
<1> QED BY <1>4, <1>5, <1>6, SigninStep, CallsTyped

LEMMA NoSigninTyped == NoSignin \in SigninState /\ SigninInProgress(NoSignin)
BY DEF NoSignin, SigninState, SigninInProgress

LEMMA ReadMarkerTyped ==
    ASSUME InProgress, NEW b \in Browsers, ReadMarker(b)
    PROVE  InProgress'
<1>1. PICK a : a = signin[b] /\ a \in SigninState /\ SigninInProgress(a) /\ a.pc = "marker"
  BY CallsTyped DEF ReadMarker
<1>2. UNCHANGED <<docs, left>>
  BY DEF ReadMarker
<1>3. RandomId \subseteq Users
  BY DEF RandomId
<1>4. \A u \in Users : LET c == [a EXCEPT !.pc = "upsert", !.user = u]
                       IN  c \in SigninState /\ SigninInProgress(c)
  BY <1>1 DEF SigninState, SigninInProgress
<1>5. LET c == [a EXCEPT !.pc = "upsert"] IN c \in SigninState /\ SigninInProgress(c)
  BY <1>1 DEF SigninState, SigninInProgress
<1>6. \E c \in SigninState : SigninInProgress(c) /\ Signin(b, c)
  BY <1>1, <1>3, <1>4, <1>5, NoSigninTyped DEF ReadMarker
<1> QED BY <1>2, <1>6, SigninStep, CallsTyped

LEMMA WriteIdentityTyped ==
    ASSUME InProgress, NEW b \in Browsers, WriteIdentity(b)
    PROVE  InProgress'
<1>1. PICK a : a = signin[b] /\ a \in SigninState /\ SigninInProgress(a) /\ a.pc = "upsert"
  BY CallsTyped DEF WriteIdentity
<1>2. a.user \in Users /\ a.subject \in Subjects
  BY <1>1 DEF SigninInProgress
<1>3. LET c == [a EXCEPT !.pc = "list"] IN c \in SigninState /\ SigninInProgress(c)
  BY <1>1 DEF SigninState, SigninInProgress
<1>4. User(a.user, a.subject) \in Documents /\ Identity(a.subject, a.user) \in Documents
  BY <1>2 DEF User, Identity, Documents
<1>5. docs' \subseteq Documents /\ left' = left
  BY <1>1, <1>4, CallsTyped DEF WriteIdentity
<1>6. \E c \in SigninState : SigninInProgress(c) /\ Signin(b, c)
  BY <1>1, <1>3, NoSigninTyped DEF WriteIdentity
<1> QED BY <1>5, <1>6, SigninStep, CallsTyped

LEMMA ListWorkspacesTyped ==
    ASSUME InProgress, NEW b \in Browsers, ListWorkspaces(b)
    PROVE  InProgress'
<1>1. PICK a : a = signin[b] /\ a \in SigninState /\ SigninInProgress(a) /\ a.pc = "list"
  BY CallsTyped DEF ListWorkspaces
<1> DEFINE orgs == {d.org : d \in {w \in Of("workspace") : w.user = a.user}}
<1>2. orgs \subseteq Users
  BY DocumentFields, CallsTyped DEF Of
<1>3. LET c == [a EXCEPT !.pc = "create"] IN c \in SigninState /\ SigninInProgress(c)
  BY <1>1 DEF SigninState, SigninInProgress
<1>4. \A o \in Users : LET c == [a EXCEPT !.pc = "session", !.org = o]
                       IN  c \in SigninState /\ SigninInProgress(c)
  BY <1>1 DEF SigninState, SigninInProgress
<1>5. UNCHANGED <<docs, left>> /\ \E c \in SigninState : SigninInProgress(c) /\ Signin(b, c)
  BY <1>1, <1>2, <1>3, <1>4 DEF ListWorkspaces
<1> QED BY <1>5, SigninStep, CallsTyped

LEMMA CreateWorkspaceTyped ==
    ASSUME InProgress, NEW b \in Browsers, CreateWorkspace(b)
    PROVE  InProgress'
<1>1. PICK a : a = signin[b] /\ a \in SigninState /\ SigninInProgress(a) /\ a.pc = "create"
  BY CallsTyped DEF CreateWorkspace
<1>2. a.user \in Users
  BY <1>1 DEF SigninInProgress
<1>3. LET c == [a EXCEPT !.pc = "session", !.org = a.user] IN c \in SigninState /\ SigninInProgress(c)
  BY <1>1, <1>2 DEF SigninState, SigninInProgress
<1>4. {Organization(a.user), Member(a.user, a.user, "OWNER"), Workspace(a.user, a.user)} \subseteq Documents
  BY <1>2 DEF Documents, Organization, Member, Workspace, Roles
<1>5. docs' \subseteq Documents /\ left' = left
  BY <1>1, <1>4, CallsTyped DEF CreateWorkspace
<1>6. \E c \in SigninState : SigninInProgress(c) /\ Signin(b, c)
  BY <1>1, <1>3, NoSigninTyped DEF CreateWorkspace
<1> QED BY <1>5, <1>6, SigninStep, CallsTyped

LEMMA CreateSessionTyped ==
    ASSUME InProgress, NEW b \in Browsers, CreateSession(b)
    PROVE  InProgress'
<1>1. PICK a : a = signin[b] /\ a \in SigninState /\ SigninInProgress(a) /\ a.pc = "session"
  BY CallsTyped DEF CreateSession
<1>2. Session(b, a.user, a.org) \in Documents
  BY <1>1 DEF SigninInProgress, Documents, Session
<1>3. docs' \subseteq Documents /\ left' = left /\ Signin(b, NoSignin)
  BY <1>1, <1>2, CallsTyped DEF CreateSession
<1> QED BY <1>3, NoSigninTyped, SigninStep, CallsTyped

LEMMA SigningInTyped ==
    ASSUME InProgress, NEW b \in Browsers, SigningIn(b)
    PROVE  InProgress'
BY ReadIdentityTyped, MatchEmailTyped, ReadMarkerTyped, WriteIdentityTyped, ListWorkspacesTyped,
   CreateWorkspaceTyped, CreateSessionTyped DEF SigningIn

LEMMA AuthenticateTyped ==
    ASSUME InProgress, NEW b \in Browsers, Authenticate(b)
    PROVE  InProgress'
<1>1. known' \subseteq [user : Users, org : Users]
  BY DocumentFields, CallsTyped DEF Authenticate, Of
<1>2. UNCHANGED <<docs, marker, signin, sweep, cleanup, left>>
  BY DEF Authenticate
<1>3. TypeOK'
  BY <1>1, <1>2 DEF InProgress, TypeOK
<1> QED BY <1>2, <1>3 DEF InProgress, SigninInProgress, SweepInProgress

\* What a signed-in user writes, other than asking to be deleted.
LEMMA WritingTyped ==
    ASSUME InProgress, NEW i \in known, Requesting(i),
           \A d \in Deleters : ~BeginAccountDeletion(d, i.user)
    PROVE  InProgress'
<1>1. i.user \in Users /\ i.org \in Users
  BY CallsTyped
<1>2. docs \subseteq Documents
  BY CallsTyped
<1> SUFFICES \E next \in SUBSET Documents : Store(next) /\ left' \in [Kinds -> Nat]
  BY StoreStep
<1>3. ASSUME NEW d \in Of("session"), NEW o \in Users, SwitchWorkspace(i, d, o)
      PROVE  \E next \in SUBSET Documents : Store(next) /\ left' \in [Kinds -> Nat]
  <2>1. d.user \in Users /\ d.browser \in Browsers
    BY <1>2, DocumentFields DEF Of
  <2>2. Session(d.browser, d.user, o) \in Documents /\ Audit(o, i.user, None) \in Documents
    BY <1>1, <2>1 DEF Documents, Session, Audit
  <2> QED BY <1>2, <1>3, <2>2, CallsTyped DEF SwitchWorkspace
<1>4. ASSUME NEW r \in Offered, CreateInvitation(i, r)
      PROVE  \E next \in SUBSET Documents : Store(next) /\ left' \in [Kinds -> Nat]
  <2>1. Invitation(i.org, i.user, r) \in Documents /\ Audit(i.org, i.user, None) \in Documents
    BY <1>1, LimitAssumption DEF Documents, Invitation, Audit
  <2>2. left' \in [Kinds -> Nat]
    BY <1>4, CallsTyped, SpendTyped DEF CreateInvitation, Kinds
  <2> QED BY <1>2, <1>4, <2>1, <2>2 DEF CreateInvitation
<1>5. ASSUME NEW inv \in Of("invitation"), AcceptInvitation(i, inv)
      PROVE  \E next \in SUBSET Documents : Store(next) /\ left' \in [Kinds -> Nat]
  <2>1. inv.org \in Users /\ inv.role \in Roles
    BY <1>2, DocumentFields DEF Of
  <2>2. /\ Member(inv.org, i.user, inv.role) \in Documents /\ Workspace(i.user, inv.org) \in Documents
        /\ Audit(inv.org, i.user, None) \in Documents
    BY <1>1, <2>1 DEF Documents, Member, Workspace, Audit
  <2> QED BY <1>2, <1>5, <2>2, CallsTyped DEF AcceptInvitation
<1>6. ASSUME NEW v \in Users, CreateRequest(i, v)
      PROVE  \E next \in SUBSET Documents : Store(next) /\ left' \in [Kinds -> Nat]
  <2>1. Request(i.user, v, i.org) \in RequestDocs
    BY <1>1, RequestMade
  <2>2. /\ Request(i.user, v, i.org) \in Documents /\ Note(v, Request(i.user, v, i.org)) \in Documents
        /\ Audit(i.org, i.user, Request(i.user, v, i.org)) \in Documents
    BY <1>1, <2>1 DEF Documents, Note, Audit
  <2>3. left' \in [Kinds -> Nat]
    BY <1>6, CallsTyped, SpendTyped DEF CreateRequest, Kinds
  <2> QED BY <1>2, <1>6, <2>2, <2>3 DEF CreateRequest
<1>7. ASSUME NEW r \in Of("request"), ChangeRequest(i, r)
      PROVE  \E next \in SUBSET Documents : Store(next) /\ left' \in [Kinds -> Nat]
  <2>1. r \in RequestDocs
    BY <1>2, DocumentFields DEF Of
  <2>2. r.org \in Users /\ Participants(r) \subseteq Users
    BY <2>1, RequestFields
  <2>3. /\ \A u \in Participants(r) : Note(u, r) \in Documents
        /\ Audit(r.org, i.user, r) \in Documents
    BY <1>1, <2>1, <2>2 DEF Documents, Note, Audit
  <2>4. left' \in [Kinds -> Nat]
    BY <1>7, CallsTyped, SpendTyped DEF ChangeRequest, Kinds
  <2> QED BY <1>2, <1>7, <2>3, <2>4 DEF ChangeRequest
<1>8. ASSUME SaveSettings(i)
      PROVE  \E next \in SUBSET Documents : Store(next) /\ left' \in [Kinds -> Nat]
  <2>1. Settings(i.user) \in Documents
    BY <1>1 DEF Documents, Settings
  <2>2. left' \in [Kinds -> Nat]
    BY <1>8, CallsTyped, SpendTyped DEF SaveSettings, Kinds
  <2> QED BY <1>2, <1>8, <2>1, <2>2 DEF SaveSettings
<1> QED BY <1>3, <1>4, <1>5, <1>6, <1>7, <1>8 DEF Requesting, Switches, Invites, Accepts, DeletesAccount

LEMMA LogoutTyped ==
    ASSUME InProgress, NEW b \in Browsers, Logout(b)
    PROVE  InProgress'
BY StoreStep, CallsTyped DEF Logout

LEMMA TransferTyped ==
    ASSUME InProgress, NEW m \in Of("member"), TransferOwnership(m)
    PROVE  InProgress'
<1>1. m.user \in Users /\ m.org \in Users
  BY CallsTyped, DocumentFields DEF Of
<1>2. Member(m.org, m.user, "OWNER") \in Documents
  BY <1>1 DEF Documents, Member, Roles
<1>3. left' \in [Kinds -> Nat]
  BY CallsTyped, SpendTyped DEF TransferOwnership, Kinds
<1> QED BY <1>2, <1>3, CallsTyped, StoreStep DEF TransferOwnership

LEMMA NoSweepTyped == NoSweep \in SweepState /\ SweepInProgress(NoSweep)
BY DEF NoSweep, SweepState, SweepInProgress

LEMMA SweepingTyped ==
    ASSUME InProgress, NEW u \in Users, NEW orgs \in SUBSET Users
    PROVE  Sweeping(u, orgs) \in SweepState /\ SweepInProgress(Sweeping(u, orgs))
<1>1. OwnedRequests(u) \subseteq RequestDocs
  BY CallsTyped, DocumentFields DEF OwnedRequests, Of
<1> QED BY <1>1, NoSweepTyped DEF Sweeping, SweepState, SweepInProgress, NoSweep

LEMMA MarkersTyped ==
    ASSUME InProgress, NEW u \in Users
    PROVE  /\ ~Active(u) => marker[u] \in Marker /\ marker[u].orgs \subseteq Users
           /\ Active(u) <=> marker[u] = None
<1>1. marker[u] \in {None} \cup Marker
  BY CallsTyped
<1> QED BY <1>1 DEF Active, Marker

LEMMA BeginTyped ==
    ASSUME InProgress, NEW d, NEW u \in Users, BeginAccountDeletion(d, u)
    PROVE  InProgress'
<1>1. d \in Sweepers
  BY DEF BeginAccountDeletion, Sweepers
<1>2. left' \in [Kinds -> Nat]
  BY CallsTyped, SpendTyped DEF BeginAccountDeletion, Kinds
<1>3. PICK orgs \in SUBSET Users :
          /\ sweep' = [sweep EXCEPT ![d] = Sweeping(u, orgs)]
          /\ UNCHANGED marker \/ marker' = [marker EXCEPT ![u] = [phase |-> "deleting", orgs |-> orgs]]
  <2>1. CASE ~Active(u)
    BY <2>1, MarkersTyped DEF BeginAccountDeletion
  <2>2. CASE Active(u)
    BY <2>2 DEF BeginAccountDeletion
  <2> QED BY <2>1, <2>2
<1>4. UNCHANGED <<docs, signin, known, cleanup>>
  BY DEF BeginAccountDeletion
<1>5. PICK c : c = Sweeping(u, orgs) /\ c \in SweepState /\ SweepInProgress(c)
  BY SweepingTyped
<1>6. [phase |-> "deleting", orgs |-> orgs] \in Marker
  BY DEF Marker
<1>7. marker' \in [Users -> {None} \cup Marker]
  BY <1>3, <1>6, CallsTyped
<1>8. sweep' = [sweep EXCEPT ![d] = c]
  BY <1>3, <1>5
<1>9. TypeOK'
  BY <1>1, <1>4, <1>5, <1>7, <1>8 DEF InProgress, TypeOK
<1>10. \A e \in Sweepers : SweepInProgress(sweep'[e])
  BY <1>1, <1>5, <1>8, CallsTyped DEF InProgress, TypeOK
<1> QED BY <1>2, <1>4, <1>9, <1>10 DEF InProgress, SigninInProgress, SweepInProgress

LEMMA RequestingTyped ==
    ASSUME InProgress, NEW i \in known, Requesting(i)
    PROVE  InProgress'
<1>1. i.user \in Users
  BY CallsTyped
<1> QED BY <1>1, WritingTyped, BeginTyped

\* The stages of a sweep.
LEMMA StagesInOrder ==
    /\ DOMAIN After = {"audit", "note", "workspace", "session", "identity", "invitation"}
    /\ After["audit"] = "note" /\ After["note"] = "workspace" /\ After["workspace"] = "session"
    /\ After["session"] = "identity" /\ After["identity"] = "invitation" /\ After["invitation"] = "settings"
BY DEF After

LEMMA EnterTyped ==
    ASSUME InProgress, NEW c \in SweepState, c.user \in Users, NEW stage \in DOMAIN After \cup {"settings"},
           NEW at \in RequestDocs \cup {None}
    PROVE  Enter(c, stage, at) \in SweepState /\ SweepInProgress(Enter(c, stage, at))
<1> DEFINE next == [c EXCEPT !.pc = stage, !.at = at]
<1>1. next \in SweepState /\ next.user = c.user /\ next.pc = stage
  BY DEF SweepState
<1>2. Query(next) \subseteq Documents
  BY CallsTyped DEF Query, Of
<1>3. stage \notin {"check", "drop", "idle"}
  BY DEF After
<1> HIDE DEF next
<1>4. [next EXCEPT !.todo = Query(next)] \in SweepState
      /\ SweepInProgress([next EXCEPT !.todo = Query(next)])
  BY <1>1, <1>2, <1>3 DEF SweepState, SweepInProgress
<1> QED BY <1>4 DEF Enter, next

LEMMA CursorTyped ==
    ASSUME InProgress, NEW d, NEW u \in Users, Attempted(d, u)
    PROVE  cleanup' \in [page : SUBSET Users, more : BOOLEAN, cursor : Nat, from : Nat]
<1>1. u \in Nat
  BY UsersAssumption
<1>2. PICK rest, cursor : /\ rest = cleanup.page \ {u} /\ cursor = NextCursor(rest, cleanup.more, u)
  OBVIOUS
<1>3. cursor \in Nat
  BY <1>1, <1>2 DEF NextCursor
<1>4. cleanup' = cleanup \/ cleanup' = [cleanup EXCEPT !.page = rest, !.cursor = cursor]
  BY <1>2 DEF Attempted
<1>5. rest \in SUBSET Users
  BY <1>2, CallsTyped
<1> QED BY <1>3, <1>4, <1>5, CallsTyped

LEMMA DeletingTyped ==
    ASSUME InProgress, NEW d \in Sweepers, Deleting(d)
    PROVE  InProgress'
<1>1. PICK c : c = sweep[d] /\ c \in SweepState /\ SweepInProgress(c)
  BY CallsTyped
<1>2. c.pc # "idle" => c.user \in Users
  BY <1>1 DEF SweepInProgress
<1> SUFFICES \E e \in SweepState :
                 /\ SweepInProgress(e) /\ Swept(d, e) /\ docs' \subseteq Documents
                 /\ marker' \in [Users -> {None} \cup Marker]
                 /\ cleanup' \in [page : SUBSET Users, more : BOOLEAN, cursor : Nat, from : Nat]
  BY SweptStep
<1> DEFINE Goal == \E e \in SweepState :
                 /\ SweepInProgress(e) /\ Swept(d, e) /\ docs' \subseteq Documents
                 /\ marker' \in [Users -> {None} \cup Marker]
                 /\ cleanup' \in [page : SUBSET Users, more : BOOLEAN, cursor : Nat, from : Nat]
<1>3. CASE TakeRequest(d)
  <2>1. c.pc = "request" /\ UNCHANGED <<docs, marker, cleanup>>
    BY <1>1, <1>3 DEF TakeRequest
  <2>2. ASSUME NEW r \in c.work, Swept(d, Enter([c EXCEPT !.work = @ \ {r}], "note", r)) PROVE Goal
    <3>1. [c EXCEPT !.work = @ \ {r}] \in SweepState /\ r \in RequestDocs
          /\ [c EXCEPT !.work = @ \ {r}].user = c.user
      BY <1>1 DEF SweepState
    <3>2. "note" \in DOMAIN After
      BY DEF After
    <3> QED BY <1>2, <2>1, <2>2, <3>1, <3>2, EnterTyped, CallsTyped
  <2>3. ASSUME Swept(d, Enter(c, "audit", None)) PROVE Goal
    <3>1. "audit" \in DOMAIN After
      BY DEF After
    <3> QED BY <1>1, <1>2, <2>1, <2>3, <3>1, EnterTyped, CallsTyped
  <2> QED BY <1>1, <1>3, <2>2, <2>3 DEF TakeRequest
<1>4. CASE EraseOne(d)
  <2>1. PICK x \in c.todo : docs' = docs \ {x} /\ Swept(d, [c EXCEPT !.todo = @ \ {x}])
                            /\ UNCHANGED <<marker, cleanup>>
    BY <1>1, <1>4 DEF EraseOne
  <2>2. [c EXCEPT !.todo = @ \ {x}] \in SweepState /\ SweepInProgress([c EXCEPT !.todo = @ \ {x}])
    BY <1>1 DEF SweepState, SweepInProgress
  <2> QED BY <2>1, <2>2, CallsTyped
<1>5. CASE NextOfRequest(d)
  <2>1. c.at # None /\ c.at \in RequestDocs /\ c.pc \in {"note", "audit"} /\ UNCHANGED <<marker, cleanup>>
        /\ docs' \subseteq docs
    BY <1>1, <1>5 DEF NextOfRequest, SweepState
  <2>2. CASE Swept(d, Enter(c, "audit", c.at))
    <3>1. "audit" \in DOMAIN After
      BY DEF After
    <3> QED BY <1>1, <1>2, <2>1, <2>2, <3>1, EnterTyped, CallsTyped
  <2>3. CASE Swept(d, [c EXCEPT !.pc = "request", !.at = None])
    <3>1. [c EXCEPT !.pc = "request", !.at = None] \in SweepState
          /\ SweepInProgress([c EXCEPT !.pc = "request", !.at = None])
      BY <1>1, <1>2, <2>1 DEF SweepState, SweepInProgress
    <3> QED BY <2>1, <2>3, <3>1, CallsTyped
  <2> QED BY <1>1, <1>5, <2>2, <2>3 DEF NextOfRequest
<1>6. CASE NextStage(d)
  <2>1. /\ c.pc \in DOMAIN After /\ UNCHANGED <<docs, marker, cleanup>>
        /\ Swept(d, Enter(c, c.pc, None)) \/ Swept(d, Enter(c, After[c.pc], None))
    BY <1>1, <1>6 DEF NextStage
  <2>2. c.pc # "idle" /\ After[c.pc] \in DOMAIN After \cup {"settings"}
    BY <2>1, StagesInOrder
  <2> QED BY <1>1, <1>2, <2>1, <2>2, EnterTyped, CallsTyped
<1>7. CASE LeaveWorkspaces(d)
  <2>1. [c EXCEPT !.pc = "leave"] \in SweepState /\ SweepInProgress([c EXCEPT !.pc = "leave"])
    BY <1>1, <1>2, <1>7 DEF SweepState, SweepInProgress, LeaveWorkspaces
  <2> QED BY <1>1, <1>7, <2>1, CallsTyped DEF LeaveWorkspaces
<1>8. CASE LeaveWorkspace(d)
  <2>1. PICK o \in c.orgs : Swept(d, [c EXCEPT !.pc = "check", !.org = o, !.orgs = @ \ {o}])
    BY <1>1, <1>8 DEF LeaveWorkspace
  <2>2. c.pc = "leave" /\ docs' \subseteq docs /\ UNCHANGED <<marker, cleanup>>
    BY <1>1, <1>8 DEF LeaveWorkspace
  <2>3. [c EXCEPT !.pc = "check", !.org = o, !.orgs = @ \ {o}] \in SweepState
        /\ SweepInProgress([c EXCEPT !.pc = "check", !.org = o, !.orgs = @ \ {o}])
    BY <1>1, <1>2, <2>2 DEF SweepState, SweepInProgress
  <2> QED BY <2>1, <2>2, <2>3, CallsTyped
<1>9. CASE CheckWorkspace(d)
  <2>1. c.pc = "check" /\ c.user \in Users /\ c.org \in Users /\ UNCHANGED <<docs, marker, cleanup>>
    BY <1>1, <1>9 DEF CheckWorkspace, SweepInProgress
  <2>2. [c EXCEPT !.pc = "drop"] \in SweepState /\ SweepInProgress([c EXCEPT !.pc = "drop"])
    BY <1>1, <2>1 DEF SweepState, SweepInProgress
  <2>3. [c EXCEPT !.pc = "leave", !.org = None] \in SweepState
        /\ SweepInProgress([c EXCEPT !.pc = "leave", !.org = None])
    BY <1>1, <2>1 DEF SweepState, SweepInProgress
  <2> QED BY <1>1, <1>9, <2>1, <2>2, <2>3, CallsTyped DEF CheckWorkspace
<1>10. CASE DropWorkspace(d)
  <2>1. c.pc = "drop" /\ c.user \in Users /\ UNCHANGED <<marker, cleanup>> /\ docs' \subseteq docs
    BY <1>1, <1>10 DEF DropWorkspace, SweepInProgress
  <2>2. [c EXCEPT !.pc = "leave", !.org = None] \in SweepState
        /\ SweepInProgress([c EXCEPT !.pc = "leave", !.org = None])
    BY <1>1, <2>1 DEF SweepState, SweepInProgress
  <2> QED BY <1>1, <1>10, <2>1, <2>2, CallsTyped DEF DropWorkspace
<1>11. CASE CompleteDeletion(d)
  <2>1. /\ c.pc = "leave" /\ docs' \subseteq docs /\ Swept(d, NoSweep) /\ Attempted(d, c.user)
        /\ marker' = [marker EXCEPT ![c.user] = [phase |-> "complete", orgs |-> {}]]
    BY <1>1, <1>11 DEF CompleteDeletion
  <2>2. [phase |-> "complete", orgs |-> {}] \in Marker
    BY DEF Marker
  <2>3. marker' \in [Users -> {None} \cup Marker]
    BY <2>1, <2>2, CallsTyped
  <2> QED BY <1>2, <2>1, <2>3, NoSweepTyped, CursorTyped, CallsTyped
<1> QED BY <1>3, <1>4, <1>5, <1>6, <1>7, <1>8, <1>9, <1>10, <1>11 DEF Deleting

LEMMA InterruptedTyped ==
    ASSUME InProgress, NEW d \in Sweepers, Interrupted(d)
    PROVE  InProgress'
<1>1. /\ sweep[d].user \in Users /\ Attempted(d, sweep[d].user)
      /\ sweep' = [sweep EXCEPT ![d] = NoSweep] /\ UNCHANGED <<docs, marker, signin, known>>
  BY CallsTyped DEF Interrupted, SweepInProgress
<1>2. cleanup' \in [page : SUBSET Users, more : BOOLEAN, cursor : Nat, from : Nat]
  BY <1>1, CursorTyped
<1>3. left' \in [Kinds -> Nat]
  BY CallsTyped, SpendTyped DEF Interrupted, Kinds
<1>4. TypeOK'
  BY <1>1, <1>2, NoSweepTyped DEF InProgress, TypeOK
<1>5. \A e \in Sweepers : SweepInProgress(sweep'[e])
  BY <1>1, NoSweepTyped, CallsTyped DEF InProgress, TypeOK
<1> QED BY <1>1, <1>3, <1>4, <1>5 DEF InProgress, SigninInProgress, SweepInProgress

\* The cleanup changes its own state only, or starts a sweep.
LEMMA CleaningTyped ==
    ASSUME InProgress, Cleaning
    PROVE  InProgress'
<1> DEFINE Cleanup == [page : SUBSET Users, more : BOOLEAN, cursor : Nat, from : Nat]
<1>1. ASSUME cleanup' \in Cleanup, UNCHANGED <<docs, marker, signin, known, sweep>>, left' \in [Kinds -> Nat]
      PROVE  InProgress'
  BY <1>1 DEF InProgress, TypeOK, SigninInProgress, SweepInProgress
<1>2. cleanup \in Cleanup /\ cleanup.page \subseteq Users /\ cleanup.cursor \in Nat /\ cleanup.from \in Nat
  BY CallsTyped
<1>3. CASE ListPending
  <2>1. PICK page, more, cursor :
            /\ cleanup' = [page |-> page, more |-> more, from |-> cleanup.cursor, cursor |-> cursor]
            /\ page \subseteq Pending /\ more \in BOOLEAN /\ cursor = NextCursor(page, more, cleanup.cursor)
    BY <1>3 DEF ListPending
  <2>2. page \subseteq Users /\ cursor \in Nat
    BY <1>2, <2>1 DEF Pending, NextCursor
  <2>3. cleanup' \in Cleanup
    BY <1>2, <2>1, <2>2
  <2> QED BY <1>1, <1>3, <2>3, CallsTyped DEF ListPending
<1>4. CASE ResumeAccountDeletion
  <2>1. PICK u \in cleanup.page :
            \/ /\ u \in Pending /\ Swept(Operator, Sweeping(u, marker[u].orgs)) /\ UNCHANGED cleanup
            \/ /\ Attempted(Operator, u) /\ UNCHANGED <<signin, known, sweep, left>>
    BY <1>4 DEF ResumeAccountDeletion
  <2>2. u \in Users /\ UNCHANGED <<docs, marker>> /\ Operator \in Sweepers
    BY <1>2, <1>4 DEF ResumeAccountDeletion, Sweepers
  <2>3. CASE u \in Pending /\ Swept(Operator, Sweeping(u, marker[u].orgs)) /\ UNCHANGED cleanup
    <3>1. marker[u].orgs \in SUBSET Users
      BY <2>2, <2>3, MarkersTyped DEF Pending
    <3> QED BY <2>2, <2>3, <3>1, SweepingTyped, SweptStep, CallsTyped
  <2>4. CASE Attempted(Operator, u) /\ UNCHANGED <<signin, known, sweep, left>>
    BY <1>1, <2>2, <2>4, CursorTyped, CallsTyped
  <2> QED BY <2>1, <2>3, <2>4
<1>5. CASE StopCleanup
  <2>1. PICK c \in {cleanup.cursor, cleanup.from, 0} :
            cleanup' = [page |-> {}, more |-> FALSE, cursor |-> c, from |-> 0]
    BY <1>5 DEF StopCleanup
  <2>2. cleanup' \in Cleanup
    BY <1>2, <2>1
  <2>3. left' \in [Kinds -> Nat]
    BY <1>5, CallsTyped, SpendTyped DEF StopCleanup, Kinds
  <2> QED BY <1>1, <1>5, <2>2, <2>3 DEF StopCleanup
<1> QED BY <1>3, <1>4, <1>5 DEF Cleaning

LEMMA InitTyped == Init => InProgress
<1> SUFFICES ASSUME Init PROVE InProgress
  OBVIOUS
<1>1. docs \subseteq Documents
  <2>1. \A s \in Established : /\ FirstId[s] \in Users /\ s \in Subjects
    BY FirstIdAssumption
  <2>2. ASSUME NEW s \in Established
        PROVE  LET u == FirstId[s]
               IN  {User(u, s), Identity(s, u), Organization(u), Member(u, u, "OWNER"), Workspace(u, u)}
                        \subseteq Documents
    BY <2>1, DocumentsMade DEF User, Identity, Organization, Member, Workspace, Documents, Roles
  <2>3. ASSUME NEW b \in {c \in Browsers : Cookies[c] # None}
        PROVE  Session(b, FirstId[Cookies[b]], FirstId[Cookies[b]]) \in Documents
    <3>1. Cookies[b] \in Established
      BY FirstIdAssumption
    <3> QED BY <2>1, <3>1 DEF Session, Documents
  <2> QED BY <2>2, <2>3 DEF Init
<1>2. marker \in [Users -> {None} \cup Marker] /\ known \subseteq [user : Users, org : Users]
  BY DEF Init
<1>3. signin \in [Browsers -> SigninState] /\ sweep \in [Sweepers -> SweepState]
  BY NoSigninTyped, NoSweepTyped DEF Init
<1>4. cleanup \in [page : SUBSET Users, more : BOOLEAN, cursor : Nat, from : Nat]
  BY DEF Init
<1>5. left \in [Kinds -> Nat]
  BY LimitAssumption DEF Init
<1>6. /\ \A b \in Browsers : SigninInProgress(signin[b])
      /\ \A d \in Sweepers : SweepInProgress(sweep[d])
  BY NoSigninTyped, NoSweepTyped DEF Init
<1> QED BY <1>1, <1>2, <1>3, <1>4, <1>5, <1>6 DEF InProgress, TypeOK

LEMMA StepTyped ==
    ASSUME InProgress, [Next]_vars
    PROVE  InProgress'
<1>1. CASE UNCHANGED vars
  BY <1>1 DEF vars, InProgress, TypeOK, SigninInProgress, SweepInProgress
<1>2. CASE Next
  BY <1>2, SigningInTyped, AuthenticateTyped, LogoutTyped, RequestingTyped, TransferTyped,
     DeletingTyped, InterruptedTyped, CleaningTyped DEF Next
<1> QED BY <1>1, <1>2

\* Every document, marker and call in progress has its declared shape, for any number of
\* people, workspaces, browsers and deletions at once.
THEOREM AccountsTyped == Spec => []TypeOK
<1>1. Init => InProgress
  BY InitTyped
<1>2. InProgress /\ [Next]_vars => InProgress'
  BY StepTyped
<1>3. InProgress => TypeOK
  BY DEF InProgress
<1> QED BY <1>1, <1>2, <1>3, PTL DEF Spec

\* What the other proofs take from it.
LEMMA AccountsInProgress == Spec => []InProgress
BY InitTyped, StepTyped, PTL DEF Spec

-----------------------------------------------------------------------------
(* What every step respects, and what stays so because of it.              *)

\* Whoever leaves does not come back, and the marker forgets but never adds.
ActiveFalls ==
    \A u \in Users : ~Active(u) => ~Active(u)' /\ marker'[u].orgs \subseteq marker[u].orgs

\* A document is written about active users only.
NoNewTraces == \A d \in docs' \ docs : \A u \in Users : Concerns(d, u) => Active(u)'

\* Active members stay.
MembersStay == \A u, o \in Users : IsMember(u, o) /\ Active(u)' => IsMember(u, o)'

\* A workspace that has lost its members gets none.
EmptyStays ==
    \A o \in Users : MembersOf(o) = {} /\ (Active(o) => IsMember(o, o)) => MembersOf(o)' = {}

Respectful == ActiveFalls /\ NoNewTraces /\ MembersStay /\ EmptyStays

LEMMA GoneByStage ==
    /\ Gone("audit") = {} /\ Gone("note") = {"audit"} /\ Gone("workspace") = Gone("note") \cup {"note"}
    /\ Gone("session") = Gone("workspace") \cup {"workspace"}
    /\ Gone("identity") = Gone("session") \cup {"session"}
    /\ Gone("invitation") = Gone("identity") \cup {"identity"}
    /\ Gone("settings") = Gone("invitation") \cup {"invitation"}
    /\ Gone("leave") = Gone("settings") \cup {"settings"}
    /\ Gone("check") = Gone("leave") /\ Gone("drop") = Gone("leave")
    /\ \A stage : Gone(stage) \subseteq Gone("leave")
    /\ Gone("leave") = {"audit", "note", "workspace", "session", "identity", "invitation", "settings"}
BY DEF Gone

\* A sweep that does nothing has nothing more to do afterwards.
LEMMA SweepStays ==
    ASSUME InProgress, Respectful, NEW c \in SweepState, SweepInProgress(c), SweepSound(c)
    PROVE  SweepSound(c)'
<1> SUFFICES ASSUME c.pc # "idle" PROVE SweepSound(c)'
  BY DEF SweepSound
<1>1. PICK u \in Users : u = c.user
  BY DEF SweepInProgress
<1>2. ~Active(u) /\ ~Active(u)' /\ marker'[u].orgs \subseteq marker[u].orgs
  BY <1>1 DEF SweepSound, Respectful, ActiveFalls
<1>3. \A d \in docs' : Concerns(d, u) => d \in docs
  BY <1>2 DEF Respectful, NoNewTraces
<1>4. c.pc \notin {"leave", "check", "drop"} => marker'[u].orgs \subseteq c.orgs
  BY <1>1, <1>2 DEF SweepSound
<1>5. \A m \in MembershipsOf(u)' : m.org \in c.orgs
  <2>1. \A m \in MembershipsOf(u)' : Concerns(m, u)
    BY DEF MembershipsOf, Of, Concerns
  <2>2. MembershipsOf(u)' \subseteq MembershipsOf(u)
    BY <1>3, <2>1 DEF MembershipsOf, Of
  <2> QED BY <1>1, <2>2 DEF SweepSound
<1>6. \A o \in c.orgs \cup ({c.org} \ {None}) : Active(o)' => IsMember(o, o)'
  <2>1. ASSUME NEW o \in c.orgs \cup ({c.org} \ {None}), Active(o)' PROVE IsMember(o, o)'
    <3>1. o \in Users
      BY DEF SweepState
    <3>2. Active(o)
      BY <2>1, <3>1 DEF Respectful, ActiveFalls
    <3>3. IsMember(o, o)
      BY <3>2 DEF SweepSound
    <3> QED BY <2>1, <3>1, <3>3 DEF Respectful, MembersStay
  <2> QED BY <2>1
<1>7. ASSUME c.at # None
      PROVE  /\ u \in Participants(c.at)
             /\ \A x \in docs' : x.kind = c.pc /\ x.request = c.at => x \in c.todo
             /\ c.pc = "audit" => \A x \in Of("note")' : x.request # c.at
  <2>1. u \in Participants(c.at) /\ c.pc \in {"note", "audit"}
    BY <1>1, <1>7 DEF SweepSound
  <2>2. \A x \in docs' : x.kind \in {"note", "audit"} /\ x.request = c.at => x \in docs
    BY <1>3, <1>7, <2>1 DEF Concerns
  <2>3. \A x \in docs' : x.kind = c.pc /\ x.request = c.at => x \in c.todo
    BY <1>7, <2>1, <2>2 DEF SweepSound
  <2>4. c.pc = "audit" => \A x \in Of("note")' : x.request # c.at
    BY <1>7, <2>2 DEF SweepSound, Of
  <2> QED BY <2>1, <2>3, <2>4
<1>8. OwnedRequests(u)' \subseteq OwnedRequests(u)
  BY <1>3 DEF OwnedRequests, Of, Concerns
<1>9. c.pc # "request" /\ c.at = None =>
        /\ OwnedRequests(u)' = {}
        /\ \A x \in docs' : x.kind = c.pc /\ x.kind \in Gone("leave") /\ x.user = u => x \in c.todo
        /\ \A x \in docs' : x.kind \in Gone(c.pc) => x.user # u
  <2> SUFFICES ASSUME c.pc # "request" /\ c.at = None
               PROVE  /\ OwnedRequests(u)' = {}
                      /\ \A x \in docs' : x.kind = c.pc /\ x.kind \in Gone("leave") /\ x.user = u => x \in c.todo
                      /\ \A x \in docs' : x.kind \in Gone(c.pc) => x.user # u
    OBVIOUS
  <2>1. \A x \in docs' : x.kind \in Gone("leave") /\ x.user = u => x \in docs
    BY <1>3, GoneByStage DEF Concerns
  <2>2. OwnedRequests(u)' = {}
    BY <1>1, <1>8 DEF SweepSound
  <2>3. \A x \in docs' : x.kind = c.pc /\ x.kind \in Gone("leave") /\ x.user = u => x \in c.todo
    BY <1>1, <2>1 DEF SweepSound
  <2>4. \A x \in docs' : x.kind \in Gone(c.pc) => x.user # u
    BY <1>1, <2>1, GoneByStage DEF SweepSound
  <2> QED BY <2>2, <2>3, <2>4
<1>10. c.pc = "drop" => MembersOf(c.org)' = {}
  <2> SUFFICES ASSUME c.pc = "drop" PROVE MembersOf(c.org)' = {}
    OBVIOUS
  <2>1. c.org \in Users /\ c.org # None /\ MembersOf(c.org) = {}
    BY UsersAssumption DEF SweepSound, SweepInProgress
  <2>2. Active(c.org) => IsMember(c.org, c.org)
    BY <2>1 DEF SweepSound
  <2> QED BY <2>1, <2>2 DEF Respectful, EmptyStays
<1>11. /\ \A r \in OwnedRequests(u)' : r \in c.work \/ r = c.at
       /\ \A r \in c.work : u \in Participants(r)
       /\ \A x \in c.todo : /\ x.kind = c.pc /\ x.kind \in Gone("leave")
                            /\ c.pc \notin {"note", "audit"} => x.user = u
       /\ c.pc \notin {"note", "audit"} => c.at = None
  BY <1>1, <1>8 DEF SweepSound
<1> HIDE DEF SweepState
<1> QED BY <1>1, <1>2, <1>4, <1>5, <1>6, <1>7, <1>9, <1>10, <1>11 DEF SweepSound

\* Sign-ins, markers and completed deletions stay as they should be, too.
LEMMA SigninStays ==
    ASSUME InProgress, Respectful, NEW c \in SigninState, SigninInProgress(c), SigninSound(c)
    PROVE  SigninSound(c)'
<1> SUFFICES ASSUME c.pc = "session", Active(c.user)' PROVE IsMember(c.user, c.org)'
  BY DEF SigninSound
<1>1. c.user \in Users /\ c.org \in Users
  BY DEF SigninInProgress
<1>2. Active(c.user)
  BY <1>1 DEF Respectful, ActiveFalls
<1> QED BY <1>1, <1>2 DEF SigninSound, Respectful, MembersStay

LEMMA MarkerStays ==
    ASSUME InProgress, Respectful, NEW u \in Users, ~Active(u), MarkerSound(u)
    PROVE  MarkerSound(u)'
<1>1. marker'[u].orgs \subseteq marker[u].orgs /\ marker[u].orgs \subseteq Users
  BY MarkersTyped DEF Respectful, ActiveFalls
<1>2. ASSUME NEW o \in marker'[u].orgs, Active(o)' PROVE IsMember(o, o)'
  <2>1. o \in Users /\ o \in marker[u].orgs
    BY <1>1
  <2>2. Active(o)
    BY <1>2, <2>1 DEF Respectful, ActiveFalls
  <2>3. IsMember(o, o)
    BY <2>1, <2>2 DEF MarkerSound
  <2> QED BY <1>2, <2>1, <2>3 DEF Respectful, MembersStay
<1> QED BY <1>2 DEF MarkerSound

\* Nothing is left of the account.
Erased(u) == \A d \in docs : ~Concerns(d, u)

LEMMA ErasedStays ==
    ASSUME Respectful, NEW u \in Users, ~Active(u), Erased(u)
    PROVE  Erased(u)'
<1>1. ~Active(u)'
  BY DEF Respectful, ActiveFalls
<1> QED BY <1>1 DEF Respectful, NoNewTraces, Erased, Concerns

\* A stored document keeps what it speaks of.
DocStays(d) ==
    /\ d.kind = "member" =>
          /\ Organization(d.org) \in docs'
          /\ (Active(d.user)' => Workspace(d.user, d.org) \in docs')
    /\ d.kind = "invitation" => IsMember(d.user, d.org)'
    /\ d.kind = "note" => d.request \in docs'
    /\ d.kind = "audit" /\ d.request # None => d.request \in docs'
    /\ d.kind \in {"member", "audit"} /\ ~Active(d.user)' => d.org \in marker'[d.user].orgs

LEMMA DocStaysSound ==
    ASSUME InProgress, Respectful, NEW d \in docs, DocSound(d), DocStays(d)
    PROVE  DocSound(d)'
<1>1. d \in Documents
  BY CallsTyped
<1>2. ASSUME NEW u \in Users, NEW o \in Users, Active(u) => IsMember(u, o), Active(u)'
      PROVE  IsMember(u, o)'
  <2>1. Active(u)
    BY <1>2 DEF Respectful, ActiveFalls
  <2> QED BY <1>2, <2>1 DEF Respectful, MembersStay
<1>3. CASE d.kind = "organization"
  <2>1. d.org \in Users
    BY <1>1, <1>3, DocumentFields
  <2>2. Active(d.org)' => IsMember(d.org, d.org)'
    BY <1>2, <1>3, <2>1 DEF DocSound
  <2> QED BY <1>3, <2>2 DEF DocSound
<1>4. CASE d.kind = "member"
  BY <1>4 DEF DocSound, DocStays
<1>5. CASE d.kind \in {"workspace", "session"}
  <2>1. d.user \in Users /\ d.org \in Users
    BY <1>1, <1>5, DocumentFields
  <2>2. Active(d.user)' => IsMember(d.user, d.org)'
    BY <1>2, <1>5, <2>1 DEF DocSound
  <2> QED BY <1>5, <2>2 DEF DocSound
<1>6. CASE d.kind = "invitation"
  BY <1>6 DEF DocSound, DocStays
<1>7. CASE d.kind = "request"
  <2>1. d.org \in Users /\ Participants(d) \subseteq Users
    BY <1>1, <1>7, DocumentFields, RequestFields
  <2>2. \A u \in Participants(d) : Active(u)' => IsMember(u, d.org)'
    BY <1>2, <1>7, <2>1 DEF DocSound
  <2> QED BY <1>7, <2>2 DEF DocSound
<1>8. CASE d.kind = "note"
  BY <1>8 DEF DocSound, DocStays
<1>9. CASE d.kind = "audit"
  <2>1. d.user \in Users /\ d.org \in Users
    BY <1>1, <1>9, DocumentFields
  <2>2. Active(d.user) => IsMember(d.user, d.org)
    BY <1>9 DEF DocSound
  <2>3. IF Active(d.user)' THEN IsMember(d.user, d.org)' ELSE d.org \in marker'[d.user].orgs
    BY <1>2, <1>9, <2>1, <2>2 DEF DocStays
  <2>4. d.request # None => d.request \in docs' /\ d.org = d.request.org
    BY <1>9 DEF DocSound, DocStays
  <2> QED BY <1>9, <2>3, <2>4 DEF DocSound
<1>10. CASE d.kind \in {"user", "identity", "settings"}
  BY <1>10 DEF DocSound
<1> QED BY <1>1, <1>3, <1>4, <1>5, <1>6, <1>7, <1>8, <1>9, <1>10, DocumentHasKind DEF DocumentKinds

-----------------------------------------------------------------------------
(* Writing documents.                                                      *)

\* A write drops only what it replaces, and what nobody relies on.
NothingLost ==
    \A d \in docs \ docs' : \/ d.kind \in {"user", "identity", "session", "invitation"}
                            \/ d.kind = "member" /\ IsMember(d.user, d.org)'

\* It is fenced by the markers, and adds what is true.
FencedWrite ==
    \A d \in docs' \ docs :
        /\ DocSound(d)'
        /\ \A u \in Users : Concerns(d, u) => Active(u)
        /\ d.kind = "member" => MembersOf(d.org) # {} \/ (d.user = d.org /\ Active(d.org))

LEMMA ReplacingKeeps ==
    ASSUME NothingLost
    PROVE  /\ \A u, o : IsMember(u, o) => IsMember(u, o)'
           /\ \A o : Organization(o) \in docs => Organization(o) \in docs'
           /\ \A u, o : Workspace(u, o) \in docs => Workspace(u, o) \in docs'
           /\ \A r \in RequestDocs : r \in docs => r \in docs'
<1>1. ASSUME NEW u, NEW o, IsMember(u, o) PROVE IsMember(u, o)'
  <2>1. PICK m \in docs : m.kind = "member" /\ m.org = o /\ m.user = u
    BY <1>1 DEF IsMember, MembersOf, Of
  <2>2. CASE m \in docs'
    BY <2>1, <2>2 DEF IsMember, MembersOf, Of
  <2>3. CASE m \notin docs'
    BY <2>1, <2>3 DEF NothingLost
  <2> QED BY <2>2, <2>3
<1>2. ASSUME NEW d \in docs, d.kind \in {"organization", "workspace", "request"} PROVE d \in docs'
  BY <1>2 DEF NothingLost
<1>3. \A o : Organization(o).kind = "organization"
  BY DEF Organization
<1>4. \A u, o : Workspace(u, o).kind = "workspace"
  BY DEF Workspace
<1> QED BY <1>1, <1>2, <1>3, <1>4, RequestFields

LEMMA WriteRespects ==
    ASSUME InProgress, InProgress', marker' = marker, NothingLost, FencedWrite
    PROVE  Respectful
<1>1. \A u \in Users : Active(u)' <=> Active(u)
  BY DEF Active
<1>2. ActiveFalls
  BY <1>1 DEF ActiveFalls
<1>3. NoNewTraces
  BY <1>1 DEF NoNewTraces, FencedWrite
<1>4. MembersStay
  BY ReplacingKeeps DEF MembersStay
<1>5. ASSUME NEW o \in Users, MembersOf(o) = {}, Active(o) => IsMember(o, o), NEW m \in MembersOf(o)'
      PROVE  FALSE
  <2>1. m \in docs' \ docs /\ m.kind = "member" /\ m.org = o
    BY <1>5 DEF MembersOf, Of
  <2>2. Active(o) /\ IsMember(o, o)
    BY <1>5, <2>1 DEF FencedWrite
  <2> QED BY <1>5, <2>2 DEF IsMember
<1>6. EmptyStays
  BY <1>5 DEF EmptyStays
<1> QED BY <1>2, <1>3, <1>4, <1>6 DEF Respectful

LEMMA WriteKeepsCoherent ==
    ASSUME InProgress, InProgress', SweepsCoherent, marker' = marker, sweep' = sweep, NothingLost,
           FencedWrite, \A b \in Browsers : signin'[b] = signin[b] \/ SigninSound(signin[b])'
    PROVE  SweepsCoherent'
<1>1. Respectful
  BY WriteRespects
<1>2. \A u : Active(u)' <=> Active(u)
  BY DEF Active
<1>3. ASSUME NEW d \in docs' PROVE DocSound(d)'
  <2>1. CASE d \notin docs
    BY <2>1 DEF FencedWrite
  <2>2. CASE d \in docs
    <3>1. DocSound(d) /\ d \in Documents
      BY <2>2, CallsTyped DEF SweepsCoherent
    <3>2. d.kind = "member" => Organization(d.org) \in docs' /\ (Active(d.user)' => Workspace(d.user, d.org) \in docs')
      BY <1>2, <3>1, ReplacingKeeps DEF DocSound
    <3>3. d.kind = "invitation" => IsMember(d.user, d.org)'
      BY <3>1, ReplacingKeeps DEF DocSound
    <3>4. d.kind = "note" => d.request \in docs'
      BY <3>1, ReplacingKeeps, DocumentFields DEF DocSound
    <3>5. (d.kind = "audit" /\ d.request # None) => d.request \in docs'
      <4> SUFFICES ASSUME d.kind = "audit", d.request # None PROVE d.request \in docs'
        OBVIOUS
      <4>1. d.request \in RequestDocs
        BY <3>1, DocumentFields
      <4> QED BY <3>1, <4>1, ReplacingKeeps DEF DocSound
    <3>6. (d.kind \in {"member", "audit"} /\ ~Active(d.user)') => d.org \in marker'[d.user].orgs
      BY <1>2, <3>1 DEF DocSound
    <3>7. DocStays(d)
      BY <3>2, <3>3, <3>4, <3>5, <3>6 DEF DocStays
    <3> QED BY <1>1, <2>2, <3>1, <3>7, DocStaysSound
  <2> QED BY <2>1, <2>2
<1>4. ASSUME NEW b \in Browsers PROVE SigninSound(signin[b])'
  <2>1. CASE signin'[b] = signin[b]
    <3>1. PICK c : c = signin[b] /\ c \in SigninState /\ SigninInProgress(c) /\ SigninSound(c)
      BY CallsTyped DEF SweepsCoherent
    <3>2. SigninSound(c)'
      BY <1>1, <3>1, SigninStays
    <3> QED BY <2>1, <3>1, <3>2 DEF SigninSound
  <2> QED BY <2>1
<1>5. ASSUME NEW u \in Users PROVE MarkerSound(u)'
  <2>1. CASE Active(u)
    BY <1>2, <2>1 DEF MarkerSound
  <2>2. CASE ~Active(u)
    BY <1>1, <2>2, MarkerStays DEF SweepsCoherent
  <2> QED BY <2>1, <2>2
<1>6. ASSUME NEW d \in Sweepers PROVE SweepSound(sweep[d])'
  <2>1. PICK c : c = sweep[d] /\ c \in SweepState /\ SweepInProgress(c) /\ SweepSound(c)
    BY CallsTyped DEF SweepsCoherent
  <2>2. SweepSound(c)'
    BY <1>1, <2>1, SweepStays
  <2>3. sweep'[d] = c
    BY <2>1
  <2> QED BY <2>2, <2>3 DEF SweepSound
<1>7. ErasedOnceComplete'
  <2>1. ASSUME NEW u \in Users, ~Active(u), marker[u].phase = "complete" PROVE Erased(u)'
    BY <1>1, <2>1, ErasedStays DEF SweepsCoherent, ErasedOnceComplete, Erased
  <2> QED BY <1>2, <2>1 DEF ErasedOnceComplete, Erased
<1> QED BY <1>3, <1>4, <1>5, <1>6, <1>7 DEF SweepsCoherent

\* Documents of one active user are fenced by looking at that user's marker.
LEMMA OwnDocuments ==
    ASSUME NEW d, NEW u \in Users, Active(u), d.kind \notin {"request", "organization"}, d.user = u,
           d.kind \notin {"note", "audit"} \/ d.request = None
    PROVE  \A v \in Users : Concerns(d, v) => Active(v)
BY DEF Concerns

LEMMA AuditOfNothing ==
    ASSUME NEW o \in Users, NEW u \in Users, Active(u), Active(u)', IsMember(u, o)'
    PROVE  /\ DocSound(Audit(o, u, None))'
           /\ \A v \in Users : Concerns(Audit(o, u, None), v) => Active(v)
           /\ Audit(o, u, None).kind = "audit"
<1>1. PICK d : d = Audit(o, u, None)
  OBVIOUS
<1>2. d.kind = "audit" /\ d.user = u /\ d.org = o /\ d.request = None
  BY <1>1 DEF Audit
<1>3. DocSound(d)'
  BY <1>2 DEF DocSound
<1>4. \A v \in Users : Concerns(d, v) => Active(v)
  BY <1>2 DEF Concerns
<1> QED BY <1>1, <1>2, <1>3, <1>4

LEMMA SwitchCoherent ==
    ASSUME InProgress, InProgress', SweepsCoherent, NEW i \in known, NEW d \in Of("session"),
           NEW o \in Users, SwitchWorkspace(i, d, o)
    PROVE  SweepsCoherent'
<1>1. /\ i.user \in Users /\ Active(i.user) /\ IsMember(i.user, o) /\ d.user = i.user /\ d.kind = "session"
      /\ docs' = (docs \ {d}) \cup {Session(d.browser, i.user, o), Audit(o, i.user, None)}
      /\ UNCHANGED <<marker, signin, sweep>>
  BY CallsTyped DEF SwitchWorkspace, Of, Store
<1>2. NothingLost
  BY <1>1 DEF NothingLost
<1>3. Active(i.user)' /\ IsMember(i.user, o)'
  BY <1>1, <1>2, ReplacingKeeps DEF Active
<1>4. PICK s : s = Session(d.browser, i.user, o)
  OBVIOUS
<1>5. s.kind = "session" /\ s.user = i.user /\ s.org = o
  BY <1>4 DEF Session
<1>6. DocSound(s)' /\ \A v \in Users : Concerns(s, v) => Active(v)
  BY <1>1, <1>3, <1>5, OwnDocuments DEF DocSound
<1>7. FencedWrite
  BY <1>1, <1>3, <1>4, <1>5, <1>6, AuditOfNothing DEF FencedWrite
<1> QED BY <1>1, <1>2, <1>7, WriteKeepsCoherent

LEMMA InviteCoherent ==
    ASSUME InProgress, InProgress', SweepsCoherent, NEW i \in known, NEW role \in Offered,
           CreateInvitation(i, role)
    PROVE  SweepsCoherent'
<1>1. /\ i.user \in Users /\ i.org \in Users /\ Active(i.user) /\ IsMember(i.user, i.org)
      /\ docs' = docs \cup {Invitation(i.org, i.user, role), Audit(i.org, i.user, None)}
      /\ UNCHANGED <<marker, signin, sweep>>
  BY CallsTyped DEF CreateInvitation, Store, IsMember
<1>2. NothingLost
  BY <1>1 DEF NothingLost
<1>3. Active(i.user)' /\ IsMember(i.user, i.org)'
  BY <1>1, <1>2, ReplacingKeeps DEF Active
<1>4. PICK x : x = Invitation(i.org, i.user, role)
  OBVIOUS
<1>5. x.kind = "invitation" /\ x.user = i.user /\ x.org = i.org
  BY <1>4 DEF Invitation
<1>6. DocSound(x)' /\ \A v \in Users : Concerns(x, v) => Active(v)
  BY <1>1, <1>3, <1>5, OwnDocuments DEF DocSound
<1>7. FencedWrite
  BY <1>1, <1>3, <1>4, <1>5, <1>6, AuditOfNothing DEF FencedWrite
<1> QED BY <1>1, <1>2, <1>7, WriteKeepsCoherent

\* The inviter is still a member, so that the workspace is not about to be dropped.
LEMMA AcceptCoherent ==
    ASSUME InProgress, InProgress', SweepsCoherent, NEW i \in known, NEW inv \in Of("invitation"),
           AcceptInvitation(i, inv)
    PROVE  SweepsCoherent'
<1> DEFINE m == Member(inv.org, i.user, inv.role)
           w == Workspace(i.user, inv.org)
<1>1. /\ i.user \in Users /\ Active(i.user) /\ inv.org \in Users /\ inv.kind = "invitation"
      /\ Organization(inv.org) \in docs
      /\ docs' = (docs \ {inv}) \cup (IF IsMember(i.user, inv.org) THEN {} ELSE {m})
                 \cup {w, Audit(inv.org, i.user, None)}
      /\ UNCHANGED <<marker, signin, sweep>>
  BY CallsTyped, DocumentFields DEF AcceptInvitation, Of, Store
<1>2. /\ m.kind = "member" /\ m.user = i.user /\ m.org = inv.org
      /\ w.kind = "workspace" /\ w.user = i.user /\ w.org = inv.org
  BY DEF Member, Workspace
<1>3. NothingLost
  BY <1>1 DEF NothingLost
<1>4. Active(i.user)' /\ IsMember(i.user, inv.org)' /\ w \in docs' /\ Organization(inv.org) \in docs'
  <2>1. Active(i.user)' /\ w \in docs' /\ Organization(inv.org) \in docs'
    BY <1>1, <1>3, ReplacingKeeps DEF Active
  <2>2. CASE IsMember(i.user, inv.org)
    BY <1>3, <2>1, <2>2, ReplacingKeeps
  <2>3. CASE ~IsMember(i.user, inv.org)
    <3>1. m \in docs'
      BY <1>1, <2>3
    <3> QED BY <1>2, <2>1, <3>1 DEF IsMember, MembersOf, Of
  <2> QED BY <2>2, <2>3
<1> HIDE DEF w
<1>5. DocSound(w)' /\ \A v \in Users : Concerns(w, v) => Active(v)
  BY <1>1, <1>2, <1>4, OwnDocuments DEF DocSound
<1>6. DocSound(m)'
  BY <1>1, <1>2, <1>4 DEF DocSound, w
<1> HIDE DEF m
<1>7. \A v \in Users : Concerns(m, v) => Active(v)
  BY <1>1, <1>2, OwnDocuments
<1>8. MembersOf(inv.org) # {}
  BY <1>1 DEF SweepsCoherent, DocSound, IsMember, Of
<1>9. FencedWrite
  BY <1>1, <1>2, <1>4, <1>5, <1>6, <1>7, <1>8, AuditOfNothing DEF FencedWrite
<1> QED BY <1>1, <1>3, <1>9, WriteKeepsCoherent

\* What tells of a request concerns its participants.
LEMMA CreateRequestCoherent ==
    ASSUME InProgress, InProgress', SweepsCoherent, NEW i \in known, NEW v \in Users, CreateRequest(i, v)
    PROVE  SweepsCoherent'
<1>1. PICK r : r = Request(i.user, v, i.org)
  OBVIOUS
<1>2. /\ i.user \in Users /\ i.org \in Users /\ Active(i.user) /\ Active(v)
      /\ IsMember(i.user, i.org) /\ IsMember(v, i.org)
      /\ docs' = docs \cup {r, Note(v, r), Audit(i.org, i.user, r)}
      /\ UNCHANGED <<marker, signin, sweep>>
  BY <1>1, CallsTyped DEF CreateRequest, Store
<1>3. /\ r.kind = "request" /\ r.org = i.org /\ Participants(r) = {i.user, v} /\ r \in docs'
      /\ r \in RequestDocs /\ r # None
  BY <1>1, <1>2, RequestMade, NoneAssumption DEF Request, Participants
<1>4. NothingLost
  BY <1>2 DEF NothingLost
<1>5. Active(i.user)' /\ Active(v)' /\ IsMember(i.user, i.org)' /\ IsMember(v, i.org)'
  BY <1>2, <1>4, ReplacingKeeps DEF Active
<1>6. DocSound(r)' /\ \A u \in Users : Concerns(r, u) => Active(u)
  BY <1>2, <1>3, <1>5 DEF DocSound, Concerns
<1>7. PICK n, a : n = Note(v, r) /\ a = Audit(i.org, i.user, r)
  OBVIOUS
<1>8. /\ n.kind = "note" /\ n.user = v /\ n.request = r
      /\ a.kind = "audit" /\ a.user = i.user /\ a.org = i.org /\ a.request = r
  BY <1>7 DEF Note, Audit
<1>9. DocSound(n)' /\ \A u \in Users : Concerns(n, u) => Active(u)
  BY <1>2, <1>3, <1>8 DEF DocSound, Concerns
<1>10. DocSound(a)' /\ \A u \in Users : Concerns(a, u) => Active(u)
  BY <1>2, <1>3, <1>5, <1>8 DEF DocSound, Concerns
<1>11. FencedWrite
  BY <1>2, <1>3, <1>6, <1>7, <1>8, <1>9, <1>10 DEF FencedWrite
<1> QED BY <1>2, <1>4, <1>11, WriteKeepsCoherent

LEMMA ChangeRequestCoherent ==
    ASSUME InProgress, InProgress', SweepsCoherent, NEW i \in known, NEW r \in Of("request"), ChangeRequest(i, r)
    PROVE  SweepsCoherent'
<1>1. /\ r \in docs /\ r.kind = "request" /\ r \in RequestDocs /\ r.org \in Users
      /\ Participants(r) \subseteq Users /\ r # None
  BY CallsTyped, DocumentFields, RequestFields, NoneAssumption DEF Of
<1>2. /\ i.user \in Participants(r) /\ \A u \in Participants(r) : Active(u)
      /\ docs' = docs \cup {Note(u, r) : u \in Participants(r) \ {i.user}} \cup {Audit(r.org, i.user, r)}
      /\ UNCHANGED <<marker, signin, sweep>>
  BY DEF ChangeRequest, Store
<1>3. NothingLost
  BY <1>2 DEF NothingLost
<1>4. IsMember(i.user, r.org)' /\ Active(i.user)' /\ r \in docs'
  <2>1. IsMember(i.user, r.org)
    BY <1>1, <1>2 DEF SweepsCoherent, DocSound
  <2> QED BY <1>1, <1>2, <1>3, <2>1, ReplacingKeeps DEF Active
<1>5. ASSUME NEW w \in Participants(r), NEW n, n = Note(w, r)
      PROVE  DocSound(n)' /\ n.kind = "note" /\ \A u \in Users : Concerns(n, u) => Active(u)
  <2>1. n.kind = "note" /\ n.user = w /\ n.request = r
    BY <1>5 DEF Note
  <2> QED BY <1>2, <1>4, <2>1 DEF DocSound, Concerns
<1>6. PICK a : a = Audit(r.org, i.user, r)
  OBVIOUS
<1>7. a.kind = "audit" /\ a.user = i.user /\ a.org = r.org /\ a.request = r
  BY <1>6 DEF Audit
<1>8. DocSound(a)' /\ \A u \in Users : Concerns(a, u) => Active(u)
  BY <1>1, <1>2, <1>4, <1>7 DEF DocSound, Concerns
<1>9. FencedWrite
  BY <1>2, <1>5, <1>6, <1>7, <1>8 DEF FencedWrite
<1> QED BY <1>2, <1>3, <1>9, WriteKeepsCoherent

LEMMA SettingsCoherent ==
    ASSUME InProgress, InProgress', SweepsCoherent, NEW i \in known, SaveSettings(i)
    PROVE  SweepsCoherent'
<1>1. /\ i.user \in Users /\ Active(i.user) /\ docs' = docs \cup {Settings(i.user)}
      /\ UNCHANGED <<marker, signin, sweep>>
  BY CallsTyped DEF SaveSettings, Store
<1>2. PICK x : x = Settings(i.user)
  OBVIOUS
<1>3. x.kind = "settings" /\ x.user = i.user
  BY <1>2 DEF Settings
<1>4. DocSound(x)' /\ \A v \in Users : Concerns(x, v) => Active(v)
  BY <1>1, <1>3, OwnDocuments DEF DocSound
<1>5. NothingLost
  BY <1>1 DEF NothingLost
<1>6. FencedWrite
  BY <1>1, <1>2, <1>3, <1>4 DEF FencedWrite
<1> QED BY <1>1, <1>5, <1>6, WriteKeepsCoherent

LEMMA LogoutCoherent ==
    ASSUME InProgress, InProgress', SweepsCoherent, NEW b \in Browsers, Logout(b)
    PROVE  SweepsCoherent'
<1>1. PICK d \in docs : d.kind = "session" /\ docs' = docs \ {d}
  BY DEF Logout, Of, Store
<1>2. UNCHANGED <<marker, signin, sweep>>
  BY DEF Logout, Store
<1>3. NothingLost /\ FencedWrite
  BY <1>1 DEF NothingLost, FencedWrite
<1> QED BY <1>2, <1>3, WriteKeepsCoherent

LEMMA TransferCoherent ==
    ASSUME InProgress, InProgress', SweepsCoherent, NEW m \in Of("member"), TransferOwnership(m)
    PROVE  SweepsCoherent'
<1>1. /\ m \in docs /\ m.kind = "member" /\ m.user \in Users /\ m.org \in Users /\ Active(m.user)
      /\ docs' = (docs \ {m}) \cup {Member(m.org, m.user, "OWNER")}
      /\ UNCHANGED <<marker, signin, sweep>>
  BY CallsTyped, DocumentFields DEF TransferOwnership, Of, Store
<1>2. PICK x : x = Member(m.org, m.user, "OWNER")
  OBVIOUS
<1>3. x.kind = "member" /\ x.user = m.user /\ x.org = m.org
  BY <1>2 DEF Member
<1>4. IsMember(m.user, m.org)'
  BY <1>1, <1>2, <1>3 DEF IsMember, MembersOf, Of
<1>5. NothingLost
  BY <1>1, <1>4 DEF NothingLost
<1>6. Organization(m.org) \in docs /\ Workspace(m.user, m.org) \in docs
  BY <1>1 DEF SweepsCoherent, DocSound
<1>7. DocSound(x)'
  BY <1>1, <1>3, <1>5, <1>6, ReplacingKeeps DEF DocSound, Active
<1>8. \A v \in Users : Concerns(x, v) => Active(v)
  BY <1>1, <1>3, OwnDocuments
<1>9. MembersOf(m.org) # {}
  BY <1>1 DEF MembersOf, Of
<1>10. FencedWrite
  BY <1>1, <1>2, <1>3, <1>7, <1>8, <1>9 DEF FencedWrite
<1> QED BY <1>1, <1>5, <1>10, WriteKeepsCoherent

LEMMA AuthenticateCoherent ==
    ASSUME InProgress, InProgress', SweepsCoherent, NEW b \in Browsers, Authenticate(b)
    PROVE  SweepsCoherent'
<1>1. UNCHANGED <<docs, marker, signin, sweep>>
  BY DEF Authenticate
<1>2. NothingLost /\ FencedWrite
  BY <1>1 DEF NothingLost, FencedWrite
<1> QED BY <1>1, <1>2, WriteKeepsCoherent

-----------------------------------------------------------------------------
(* Signing in.                                                             *)

LEMMA SigninCoherent ==
    ASSUME InProgress, InProgress', SweepsCoherent, NEW b \in Browsers, NEW c, Signin(b, c),
           SigninSound(c)', NothingLost, FencedWrite
    PROVE  SweepsCoherent'
<1>1. signin' = [signin EXCEPT ![b] = c] /\ UNCHANGED <<marker, sweep>>
  BY DEF Signin
<1>2. DOMAIN signin = Browsers
  BY DEF InProgress, TypeOK
<1>3. \A a \in Browsers : signin'[a] = signin[a] \/ SigninSound(signin[a])'
  <2> SUFFICES ASSUME NEW a \in Browsers PROVE signin'[a] = signin[a] \/ SigninSound(signin[a])'
    OBVIOUS
  <2>1. signin'[a] = IF a = b THEN c ELSE signin[a]
    BY <1>1, <1>2
  <2> QED BY <2>1 DEF SigninSound
<1> QED BY <1>1, <1>3, WriteKeepsCoherent

LEMMA ReadingCoherent ==
    ASSUME InProgress, InProgress', SweepsCoherent, NEW b \in Browsers, NEW c, Signin(b, c),
           c.pc # "session", docs' = docs
    PROVE  SweepsCoherent'
<1>1. NothingLost /\ FencedWrite
  BY DEF NothingLost, FencedWrite
<1>2. SigninSound(c)'
  BY DEF SigninSound
<1> QED BY <1>1, <1>2, SigninCoherent

LEMMA ReadIdentityCoherent ==
    ASSUME InProgress, InProgress', SweepsCoherent, NEW b \in Browsers, NEW s \in Subjects, ReadIdentity(b, s)
    PROVE  SweepsCoherent'
<1>1. PICK prior : Signin(b, [NoSignin EXCEPT !.pc = "match", !.subject = s, !.prior = prior, !.user = prior])
  BY DEF ReadIdentity
<1>2. PICK c : c = [NoSignin EXCEPT !.pc = "match", !.subject = s, !.prior = prior, !.user = prior]
  OBVIOUS
<1>3. c.pc = "match" /\ Signin(b, c) /\ docs' = docs
  BY <1>1, <1>2 DEF NoSignin, ReadIdentity
<1> QED BY <1>3, ReadingCoherent

LEMMA MatchEmailCoherent ==
    ASSUME InProgress, InProgress', SweepsCoherent, NEW b \in Browsers, MatchEmail(b)
    PROVE  SweepsCoherent'
<1>1. PICK a : a = signin[b] /\ a \in SigninState
  BY CallsTyped
<1>2. PICK u : Signin(b, [a EXCEPT !.pc = "marker", !.user = u])
  BY <1>1 DEF MatchEmail
<1>3. PICK c : c = [a EXCEPT !.pc = "marker", !.user = u]
  OBVIOUS
<1>4. c.pc = "marker" /\ Signin(b, c) /\ docs' = docs
  BY <1>1, <1>2, <1>3 DEF SigninState, MatchEmail
<1> QED BY <1>4, ReadingCoherent

LEMMA ReadMarkerCoherent ==
    ASSUME InProgress, InProgress', SweepsCoherent, NEW b \in Browsers, ReadMarker(b)
    PROVE  SweepsCoherent'
<1>1. PICK a : a = signin[b] /\ a \in SigninState
  BY CallsTyped
<1>2. /\ [a EXCEPT !.pc = "upsert"].pc = "upsert" /\ NoSignin.pc = "idle"
      /\ \A u : [a EXCEPT !.pc = "upsert", !.user = u].pc = "upsert"
  BY <1>1 DEF SigninState, NoSignin
<1>3. PICK c : Signin(b, c) /\ c.pc # "session"
  BY <1>1, <1>2 DEF ReadMarker
<1>4. docs' = docs
  BY DEF ReadMarker
<1> QED BY <1>3, <1>4, ReadingCoherent

LEMMA WriteIdentityCoherent ==
    ASSUME InProgress, InProgress', SweepsCoherent, NEW b \in Browsers, WriteIdentity(b)
    PROVE  SweepsCoherent'
<1>1. PICK a : a = signin[b] /\ a \in SigninState /\ SigninInProgress(a) /\ a.pc = "upsert"
  BY CallsTyped DEF WriteIdentity
<1>2. CASE Signin(b, NoSignin) /\ docs' = docs
  <2>1. NoSignin.pc # "session"
    BY DEF NoSignin
  <2> QED BY <1>2, <2>1, ReadingCoherent
<1>3. CASE /\ Active(a.user)
           /\ docs' = {d \in docs : ~(d.kind = "user" /\ d.user = a.user)
                                    /\ ~(d.kind = "identity" /\ d.subject = a.subject)}
                      \cup {User(a.user, a.subject), Identity(a.subject, a.user)}
           /\ Signin(b, [a EXCEPT !.pc = "list"])
  <2>1. PICK c, x, y : /\ c = [a EXCEPT !.pc = "list"] /\ x = User(a.user, a.subject)
                       /\ y = Identity(a.subject, a.user)
    OBVIOUS
  <2>2. /\ c.pc = "list" /\ x.kind = "user" /\ x.user = a.user
        /\ y.kind = "identity" /\ y.user = a.user
    BY <1>1, <2>1 DEF SigninState, User, Identity
  <2>3. DocSound(x)' /\ DocSound(y)' /\ SigninSound(c)'
    BY <2>2 DEF DocSound, SigninSound
  <2>4. a.user \in Users
    BY <1>1 DEF SigninInProgress
  <2>5. \A v \in Users : (Concerns(x, v) => Active(v)) /\ (Concerns(y, v) => Active(v))
    BY <1>3, <2>2, <2>4, OwnDocuments
  <2>6. NothingLost
    BY <1>3 DEF NothingLost
  <2>7. FencedWrite
    BY <1>3, <2>1, <2>2, <2>3, <2>5 DEF FencedWrite
  <2>8. Signin(b, c)
    BY <1>3, <2>1
  <2> QED BY <2>3, <2>6, <2>7, <2>8, SigninCoherent
<1> QED BY <1>1, <1>2, <1>3 DEF WriteIdentity

\* The list of an active user names workspaces it is a member of.
LEMMA ListWorkspacesCoherent ==
    ASSUME InProgress, InProgress', SweepsCoherent, NEW b \in Browsers, ListWorkspaces(b)
    PROVE  SweepsCoherent'
<1>1. PICK a : a = signin[b] /\ a \in SigninState /\ SigninInProgress(a) /\ a.pc = "list"
  BY CallsTyped DEF ListWorkspaces
<1>2. docs' = docs /\ marker' = marker
  BY DEF ListWorkspaces, Signin
<1>3. CASE Signin(b, [a EXCEPT !.pc = "create"])
  <2>1. [a EXCEPT !.pc = "create"].pc # "session"
    BY <1>1 DEF SigninState
  <2> QED BY <1>2, <1>3, <2>1, ReadingCoherent
<1>4. ASSUME NEW w \in docs, w.kind = "workspace", w.user = a.user,
             Signin(b, [a EXCEPT !.pc = "session", !.org = w.org])
      PROVE  SweepsCoherent'
  <2>1. PICK c : c = [a EXCEPT !.pc = "session", !.org = w.org]
    OBVIOUS
  <2>2. c.user = w.user /\ c.org = w.org
    BY <1>1, <1>4, <2>1 DEF SigninState
  <2>3. Active(w.user) => IsMember(w.user, w.org)
    BY <1>4 DEF SweepsCoherent, DocSound
  <2>4. SigninSound(c)'
    BY <1>2, <2>2, <2>3 DEF SigninSound, Active, IsMember, MembersOf, Of
  <2>5. NothingLost /\ FencedWrite
    BY <1>2 DEF NothingLost, FencedWrite
  <2>6. Signin(b, c)
    BY <1>4, <2>1
  <2> QED BY <2>4, <2>5, <2>6, SigninCoherent
<1> QED BY <1>1, <1>3, <1>4 DEF ListWorkspaces, Of

LEMMA CreateWorkspaceCoherent ==
    ASSUME InProgress, InProgress', SweepsCoherent, NEW b \in Browsers, CreateWorkspace(b)
    PROVE  SweepsCoherent'
<1>1. PICK a : a = signin[b] /\ a \in SigninState /\ SigninInProgress(a) /\ a.pc = "create"
  BY CallsTyped DEF CreateWorkspace
<1>2. PICK u \in Users : u = a.user
  BY <1>1 DEF SigninInProgress
<1>3. CASE Signin(b, NoSignin) /\ docs' = docs
  <2>1. NoSignin.pc # "session"
    BY DEF NoSignin
  <2> QED BY <1>3, <2>1, ReadingCoherent
<1>4. CASE /\ Active(u)
           /\ docs' = (docs \ {d \in MembersOf(u) : d.user = u})
                      \cup {Organization(u), Member(u, u, "OWNER"), Workspace(u, u)}
           /\ Signin(b, [a EXCEPT !.pc = "session", !.org = u])
  <2>1. PICK c, g, m, w : /\ c = [a EXCEPT !.pc = "session", !.org = u]
                          /\ g = Organization(u) /\ m = Member(u, u, "OWNER") /\ w = Workspace(u, u)
    OBVIOUS
  <2>2. /\ c.user = u /\ c.org = u /\ g.kind = "organization" /\ g.org = u
        /\ m.kind = "member" /\ m.user = u /\ m.org = u
        /\ w.kind = "workspace" /\ w.user = u /\ w.org = u
    BY <1>1, <1>2, <2>1 DEF SigninState, Organization, Member, Workspace
  <2>3. m \in docs' /\ Organization(u) \in docs' /\ Workspace(u, u) \in docs'
    BY <1>4, <2>1
  <2>4. Active(u)' /\ IsMember(u, u)'
    BY <1>4, <2>2, <2>3 DEF IsMember, MembersOf, Of, Signin, Active
  <2>5. DocSound(g)' /\ DocSound(m)' /\ DocSound(w)' /\ SigninSound(c)'
    <3>1. DocSound(g)'
      BY <2>2, <2>4 DEF DocSound
    <3>2. DocSound(m)'
      BY <2>2, <2>3, <2>4 DEF DocSound
    <3>3. DocSound(w)'
      BY <2>2, <2>4 DEF DocSound
    <3> QED BY <2>2, <2>4, <3>1, <3>2, <3>3 DEF SigninSound
  <2>6. \A v \in Users : (Concerns(m, v) => Active(v)) /\ (Concerns(w, v) => Active(v)) /\ ~Concerns(g, v)
    BY <1>4, <2>2, OwnDocuments DEF Concerns
  <2>7. NothingLost
    BY <1>4, <2>4 DEF NothingLost, MembersOf, Of
  <2>8. FencedWrite
    BY <1>4, <2>1, <2>2, <2>5, <2>6 DEF FencedWrite
  <2>9. Signin(b, c)
    BY <1>4, <2>1
  <2> QED BY <2>5, <2>7, <2>8, <2>9, SigninCoherent
<1> QED BY <1>1, <1>2, <1>3, <1>4 DEF CreateWorkspace

LEMMA CreateSessionCoherent ==
    ASSUME InProgress, InProgress', SweepsCoherent, NEW b \in Browsers, CreateSession(b)
    PROVE  SweepsCoherent'
<1>1. PICK a : a = signin[b] /\ SigninInProgress(a) /\ a.pc = "session" /\ SigninSound(a)
  BY CallsTyped DEF CreateSession, SweepsCoherent
<1>2. Signin(b, NoSignin) /\ NoSignin.pc # "session"
  BY DEF CreateSession, NoSignin
<1>3. CASE ~Active(a.user)
  BY <1>1, <1>2, <1>3, ReadingCoherent DEF CreateSession
<1>4. CASE Active(a.user)
  <2>1. PICK x : x = Session(b, a.user, a.org)
    OBVIOUS
  <2>2. x.kind = "session" /\ x.user = a.user /\ x.org = a.org
    BY <2>1 DEF Session
  <2>3. docs' = docs \cup {x}
    BY <1>1, <1>4, <2>1 DEF CreateSession
  <2>4. NothingLost
    BY <2>3 DEF NothingLost
  <2>5. IsMember(a.user, a.org)'
    BY <1>1, <1>4, <2>4, ReplacingKeeps DEF SigninSound
  <2>6. DocSound(x)'
    BY <2>2, <2>5 DEF DocSound
  <2>7. a.user \in Users
    BY <1>1 DEF SigninInProgress
  <2>8. FencedWrite
    BY <1>4, <2>2, <2>3, <2>6, <2>7, OwnDocuments DEF FencedWrite
  <2>9. SigninSound(NoSignin)'
    BY <1>2 DEF SigninSound
  <2> QED BY <1>2, <2>4, <2>8, <2>9, SigninCoherent
<1> QED BY <1>3, <1>4

LEMMA SigningInCoherent ==
    ASSUME InProgress, InProgress', SweepsCoherent, NEW b \in Browsers, SigningIn(b)
    PROVE  SweepsCoherent'
BY ReadIdentityCoherent, MatchEmailCoherent, ReadMarkerCoherent, WriteIdentityCoherent,
   ListWorkspacesCoherent, CreateWorkspaceCoherent, CreateSessionCoherent DEF SigningIn

-----------------------------------------------------------------------------
(* Sweeping.                                                               *)

\* One sweep goes on; no document is written.
LEMMA SweepCoherent ==
    ASSUME InProgress, InProgress', SweepsCoherent, Respectful, NEW d \in Sweepers, NEW c,
           sweep' = [sweep EXCEPT ![d] = c], signin' = signin,
           \A x \in docs' : x \in docs /\ DocStays(x),
           SweepSound(c)',
           \A u \in Users : ~Active(u)' => \/ ~Active(u) /\ marker'[u] = marker[u]
                                           \/ MarkerSound(u)' /\ (marker'[u].phase = "complete" => Erased(u)')
    PROVE  SweepsCoherent'
<1>1. ASSUME NEW x \in docs' PROVE DocSound(x)'
  <2>1. x \in docs /\ DocSound(x) /\ DocStays(x)
    BY DEF SweepsCoherent
  <2> QED BY <2>1, DocStaysSound
<1>2. ASSUME NEW b \in Browsers PROVE SigninSound(signin[b])'
  <2>1. PICK a : a = signin[b] /\ a \in SigninState /\ SigninInProgress(a) /\ SigninSound(a)
    BY CallsTyped DEF SweepsCoherent
  <2>2. SigninSound(a)'
    BY <2>1, SigninStays
  <2> QED BY <2>1, <2>2 DEF SigninSound
<1>3. ASSUME NEW u \in Users PROVE MarkerSound(u)'
  <2>1. CASE Active(u)'
    BY <2>1 DEF MarkerSound
  <2>2. CASE ~Active(u)' /\ ~Active(u)
    BY <2>2, MarkerStays DEF SweepsCoherent
  <2>3. CASE ~Active(u)' /\ Active(u)
    BY <2>3
  <2> QED BY <2>1, <2>2, <2>3
<1>4. ASSUME NEW e \in Sweepers PROVE SweepSound(sweep[e])'
  <2>1. sweep'[e] = IF e = d THEN c ELSE sweep[e]
    BY DEF InProgress, TypeOK
  <2>2. PICK a : a = sweep[e] /\ a \in SweepState /\ SweepInProgress(a) /\ SweepSound(a)
    BY CallsTyped DEF SweepsCoherent
  <2>3. SweepSound(a)'
    BY <2>2, SweepStays
  <2> QED BY <2>1, <2>2, <2>3 DEF SweepSound
<1>5. ASSUME NEW u \in Users, ~Active(u)', marker'[u].phase = "complete" PROVE Erased(u)'
  <2>1. CASE ~Active(u) /\ marker'[u] = marker[u]
    <3>1. Erased(u)
      BY <1>5, <2>1 DEF SweepsCoherent, ErasedOnceComplete, Erased
    <3> QED BY <2>1, <3>1, ErasedStays
  <2>2. CASE MarkerSound(u)' /\ (marker'[u].phase = "complete" => Erased(u)')
    BY <1>5, <2>2
  <2> QED BY <1>5, <2>1, <2>2
<1>6. ErasedOnceComplete'
  BY <1>5 DEF ErasedOnceComplete, Erased
<1> QED BY <1>1, <1>2, <1>3, <1>4, <1>6 DEF SweepsCoherent

\* It deletes documents, of those who leave if they are memberships,
LEMMA ErasingCoherent ==
    ASSUME InProgress, InProgress', SweepsCoherent, NEW d \in Sweepers, NEW c,
           sweep' = [sweep EXCEPT ![d] = c], signin' = signin, marker' = marker,
           docs' \subseteq docs,
           \A x \in docs \ docs' : x.kind = "member" => ~Active(x.user),
           \A x \in docs' : DocStays(x),
           SweepSound(c)'
    PROVE  SweepsCoherent'
<1>1. \A u : Active(u)' <=> Active(u)
  BY DEF Active
<1>2. ActiveFalls /\ NoNewTraces
  BY <1>1 DEF ActiveFalls, NoNewTraces
<1>3. ASSUME NEW u, NEW o, IsMember(u, o), Active(u) PROVE IsMember(u, o)'
  <2>1. PICK m \in docs : m.kind = "member" /\ m.org = o /\ m.user = u
    BY <1>3 DEF IsMember, MembersOf, Of
  <2>2. m \in docs'
    BY <1>3, <2>1
  <2> QED BY <2>1, <2>2 DEF IsMember, MembersOf, Of
<1>4. MembersStay
  BY <1>1, <1>3 DEF MembersStay
<1>5. EmptyStays
  BY DEF EmptyStays, MembersOf, Of
<1>6. Respectful
  BY <1>2, <1>4, <1>5 DEF Respectful
<1> QED BY <1>1, <1>6, SweepCoherent

\* or it only finds out what is left to do.
LEMMA LookingCoherent ==
    ASSUME InProgress, InProgress', SweepsCoherent, NEW d \in Sweepers, NEW c,
           sweep' = [sweep EXCEPT ![d] = c], signin' = signin, marker' = marker, docs' = docs,
           SweepSound(c)
    PROVE  SweepsCoherent'
<1>1. SweepSound(c)'
  BY DEF SweepSound, Active, MembershipsOf, OwnedRequests, MembersOf, IsMember, Of
<1>2. ASSUME NEW x \in docs' PROVE DocStays(x)
  <2>1. DocSound(x)
    BY <1>2 DEF SweepsCoherent
  <2> QED BY <2>1 DEF DocSound, DocStays, Active, IsMember, MembersOf, Of
<1> QED BY <1>1, <1>2, ErasingCoherent

\* What a call works on as it enters a stage.
LEMMA EnterFields ==
    ASSUME NEW c \in SweepState, NEW stage, NEW at, NEW e, e = Enter(c, stage, at)
    PROVE  /\ e.pc = stage /\ e.at = at /\ e.user = c.user /\ e.orgs = c.orgs /\ e.work = c.work
           /\ e.org = c.org
           /\ at # None => e.todo = {x \in Of(stage) : x.request = at
                                                       /\ (stage = "note" => x.user \in Participants(at))
                                                       /\ (stage = "audit" => x.org = at.org)}
           /\ at = None => e.todo = {x \in Of(stage) : x.user = c.user /\ (stage = "audit" => x.org \in c.orgs)}
<1>1. PICK n : n = [c EXCEPT !.pc = stage, !.at = at]
  OBVIOUS
<1>2. /\ n.pc = stage /\ n.at = at /\ n.user = c.user /\ n.orgs = c.orgs /\ n.work = c.work /\ n.org = c.org
      /\ DOMAIN n = DOMAIN c /\ "todo" \in DOMAIN c
  BY <1>1 DEF SweepState
<1>3. e = [n EXCEPT !.todo = Query(n)]
  BY <1>1 DEF Enter
<1>4. /\ e.pc = n.pc /\ e.at = n.at /\ e.user = n.user /\ e.orgs = n.orgs /\ e.work = n.work
      /\ e.org = n.org /\ e.todo = Query(n)
  BY <1>1, <1>3 DEF SweepState
<1>5. at # None => Query(n) = {x \in Of(stage) : x.request = at
                                                 /\ (stage = "note" => x.user \in Participants(at))
                                                 /\ (stage = "audit" => x.org = at.org)}
  BY <1>2 DEF Query
<1>6. at = None => Query(n) = {x \in Of(stage) : x.user = c.user /\ (stage = "audit" => x.org \in c.orgs)}
  BY <1>2 DEF Query
<1> QED BY <1>2, <1>4, <1>5, <1>6

\* What a sweep knows before it comes to the workspaces.
Early(c) ==
    /\ ~Active(c.user)
    /\ marker[c.user].orgs \subseteq c.orgs
    /\ \A m \in MembershipsOf(c.user) : m.org \in c.orgs
    /\ \A o \in c.orgs \cup ({c.org} \ {None}) : Active(o) => IsMember(o, o)
    /\ \A r \in c.work : c.user \in Participants(r)

\* Notifications and audit events of a request are filed where the queries look.
LEMMA EnterRequestSound ==
    ASSUME InProgress, SweepsCoherent, NEW c \in SweepState, NEW r \in RequestDocs,
           NEW stage \in {"note", "audit"}, NEW e, e = Enter(c, stage, r), Early(c),
           c.user \in Participants(r),
           \A q \in OwnedRequests(c.user) : q \in c.work \/ q = r,
           stage = "audit" => \A x \in Of("note") : x.request # r
    PROVE  SweepSound(e)
<1>1. r # None
  BY NoneAssumption
<1>2. /\ e.pc = stage /\ e.at = r /\ e.user = c.user /\ e.orgs = c.orgs /\ e.work = c.work /\ e.org = c.org
      /\ e.todo = {x \in Of(stage) : x.request = r
                                     /\ (stage = "note" => x.user \in Participants(r))
                                     /\ (stage = "audit" => x.org = r.org)}
  BY <1>1, EnterFields
<1>3. \A x \in docs : x.kind = stage /\ x.request = r => x \in e.todo
  <2> SUFFICES ASSUME NEW x \in docs, x.kind = stage, x.request = r PROVE x \in e.todo
    OBVIOUS
  <2>1. DocSound(x)
    BY DEF SweepsCoherent
  <2> QED BY <1>1, <1>2, <2>1 DEF DocSound, Of
<1>4. \A x \in e.todo : x.kind = stage /\ x.kind \in Gone("leave")
  BY <1>2, GoneByStage DEF Of
<1> QED BY <1>1, <1>2, <1>3, <1>4 DEF SweepSound, Early

\* After the requests, one kind of the account's own documents follows the other.
LEMMA EnterOwnSound ==
    ASSUME InProgress, SweepsCoherent, NEW c \in SweepState, NEW stage \in Gone("leave"), NEW e,
           e = Enter(c, stage, None), Early(c), c.user \in Users, OwnedRequests(c.user) = {},
           \A x \in docs : x.kind \in Gone(stage) => x.user # c.user
    PROVE  SweepSound(e)
<1>1. /\ e.pc = stage /\ e.at = None /\ e.user = c.user /\ e.orgs = c.orgs /\ e.work = c.work /\ e.org = c.org
      /\ e.todo = {x \in Of(stage) : x.user = c.user /\ (stage = "audit" => x.org \in c.orgs)}
  BY EnterFields
<1>2. \A x \in docs : x.kind = stage /\ x.user = c.user => x \in e.todo
  <2> SUFFICES ASSUME NEW x \in docs, x.kind = stage, x.user = c.user PROVE x \in e.todo
    OBVIOUS
  <2>1. DocSound(x)
    BY DEF SweepsCoherent
  <2>2. stage = "audit" => x.org \in c.orgs
    BY <2>1 DEF DocSound, Early
  <2> QED BY <1>1, <2>2 DEF Of
<1>3. \A x \in e.todo : x.kind = stage /\ x.user = c.user
  BY <1>1 DEF Of
<1>4. stage \notin {"leave", "check", "drop", "request"}
  BY GoneByStage
<1> QED BY <1>1, <1>2, <1>3, <1>4 DEF SweepSound, Early

LEMMA SoundEarly ==
    ASSUME NEW c, SweepSound(c), c.pc \notin {"idle", "leave", "check", "drop"}
    PROVE  Early(c)
BY DEF SweepSound, Early

LEMMA TakeRequestCoherent ==
    ASSUME InProgress, InProgress', SweepsCoherent, NEW d \in Sweepers, TakeRequest(d)
    PROVE  SweepsCoherent'
<1>1. PICK c : /\ c = sweep[d] /\ c \in SweepState /\ c.user \in Users /\ c.pc = "request"
               /\ SweepSound(c) /\ Early(c)
  BY CallsTyped, SoundEarly DEF TakeRequest, SweepsCoherent, SweepInProgress
<1>2. UNCHANGED <<docs, marker, signin>>
  BY DEF TakeRequest, Swept
<1>3. c.at = None /\ None \notin OwnedRequests(c.user)
  <2>1. \A r \in OwnedRequests(c.user) : r \in RequestDocs
    BY CallsTyped, DocumentFields DEF OwnedRequests, Of
  <2> QED BY <1>1, <2>1, NoneAssumption DEF SweepSound
<1>4. ASSUME NEW r \in c.work, Swept(d, Enter([c EXCEPT !.work = @ \ {r}], "note", r))
      PROVE  SweepsCoherent'
  <2>1. PICK b, e : b = [c EXCEPT !.work = @ \ {r}] /\ e = Enter(b, "note", r)
    OBVIOUS
  <2>2. /\ b \in SweepState /\ b.user = c.user /\ b.orgs = c.orgs /\ b.org = c.org /\ b.work = c.work \ {r}
        /\ r \in RequestDocs
    BY <1>1, <2>1 DEF SweepState
  <2>3. Early(b) /\ b.user \in Participants(r)
    BY <1>1, <2>2 DEF Early
  <2>4. \A q \in OwnedRequests(b.user) : q \in b.work \/ q = r
    BY <1>1, <1>3, <2>2 DEF SweepSound
  <2>5. SweepSound(e)
    BY <2>1, <2>2, <2>3, <2>4, EnterRequestSound
  <2>6. sweep' = [sweep EXCEPT ![d] = e]
    BY <1>4, <2>1 DEF Swept
  <2> QED BY <1>2, <2>5, <2>6, LookingCoherent
<1>5. ASSUME c.work = {}, Swept(d, Enter(c, "audit", None)) PROVE SweepsCoherent'
  <2>1. PICK e : e = Enter(c, "audit", None)
    OBVIOUS
  <2>2. OwnedRequests(c.user) = {}
    BY <1>1, <1>3, <1>5 DEF SweepSound
  <2>3. SweepSound(e)
    BY <1>1, <2>1, <2>2, EnterOwnSound, GoneByStage
  <2>4. sweep' = [sweep EXCEPT ![d] = e]
    BY <1>5, <2>1 DEF Swept
  <2> QED BY <1>2, <2>3, <2>4, LookingCoherent
<1> QED BY <1>1, <1>4, <1>5 DEF TakeRequest

\* A document is deleted that nothing else speaks of.
LEMMA EraseCoherent ==
    ASSUME InProgress, InProgress', SweepsCoherent, NEW d \in Sweepers, EraseOne(d)
    PROVE  SweepsCoherent'
<1>1. PICK c : c = sweep[d] /\ c \in SweepState /\ SweepInProgress(c) /\ SweepSound(c)
  BY CallsTyped DEF SweepsCoherent
<1>2. PICK x \in c.todo : docs' = docs \ {x} /\ sweep' = [sweep EXCEPT ![d] = [c EXCEPT !.todo = @ \ {x}]]
  BY <1>1 DEF EraseOne, Swept
<1>3. UNCHANGED <<marker, signin>>
  BY DEF EraseOne, Swept
<1>4. PICK e : e = [c EXCEPT !.todo = @ \ {x}]
  OBVIOUS
<1>5. /\ e.pc = c.pc /\ e.at = c.at /\ e.user = c.user /\ e.orgs = c.orgs /\ e.work = c.work
      /\ e.org = c.org /\ e.todo = c.todo \ {x}
  BY <1>1, <1>4 DEF SweepState
<1>6. c.pc # "idle"
  BY <1>1, <1>2 DEF SweepInProgress
<1>7. x.kind = c.pc /\ x.kind \in Gone("leave") /\ (c.pc \notin {"note", "audit"} => x.user = c.user)
      /\ ~Active(c.user)
  BY <1>1, <1>2, <1>6 DEF SweepSound
<1>8. x.kind \notin {"member", "organization", "request"}
  BY <1>7, GoneByStage
<1>9. ASSUME NEW u, NEW o, IsMember(u, o) PROVE IsMember(u, o)'
  BY <1>2, <1>8, <1>9 DEF IsMember, MembersOf, Of
<1>10. \A o : Organization(o) \in docs => Organization(o) \in docs'
  BY <1>2, <1>8 DEF Organization
<1>11. \A u, o : Active(u) /\ Workspace(u, o) \in docs => Workspace(u, o) \in docs'
  BY <1>2, <1>7 DEF Workspace
<1>12. \A r \in RequestDocs : r \in docs => r \in docs'
  BY <1>2, <1>8, RequestFields
<1>13. ASSUME NEW y \in docs' PROVE DocStays(y)
  <2>1. y \in docs /\ y \in Documents /\ DocSound(y) /\ (\A u : Active(u)' <=> Active(u))
    BY <1>2, <1>3, CallsTyped DEF SweepsCoherent, Active
  <2>2. y.kind = "member" => /\ Organization(y.org) \in docs'
                             /\ Active(y.user)' => Workspace(y.user, y.org) \in docs'
    BY <1>10, <1>11, <2>1 DEF DocSound
  <2>3. y.kind = "invitation" => IsMember(y.user, y.org)'
    BY <1>9, <2>1 DEF DocSound
  <2>4. y.kind = "note" => y.request \in docs'
    BY <1>12, <2>1, DocumentFields DEF DocSound
  <2>5. ASSUME y.kind = "audit", y.request # None PROVE y.request \in docs'
    <3>1. y.request \in RequestDocs
      BY <2>1, <2>5, DocumentFields
    <3> QED BY <1>12, <2>1, <2>5, <3>1 DEF DocSound
  <2>6. (y.kind \in {"member", "audit"} /\ ~Active(y.user)') => y.org \in marker'[y.user].orgs
    BY <1>3, <2>1 DEF DocSound
  <2> QED BY <2>2, <2>3, <2>4, <2>5, <2>6 DEF DocStays
<1>14. SweepSound(e)'
  <2>1. /\ OwnedRequests(c.user)' \subseteq OwnedRequests(c.user)
        /\ MembershipsOf(c.user)' \subseteq MembershipsOf(c.user)
        /\ Of("note")' \subseteq Of("note")
        /\ \A o : MembersOf(o)' \subseteq MembersOf(o)
        /\ \A u : Active(u)' <=> Active(u)
    BY <1>2, <1>3 DEF OwnedRequests, MembershipsOf, MembersOf, Of, Active
  <2>2. e.pc = "drop" => MembersOf(e.org)' = {}
    BY <1>1, <1>5, <1>6, <2>1 DEF SweepSound
  <2>3. \A o \in e.orgs \cup ({e.org} \ {None}) : Active(o)' => IsMember(o, o)'
    BY <1>1, <1>5, <1>6, <1>9, <2>1 DEF SweepSound
  <2>4. e.at # None =>
          /\ e.user \in Participants(e.at)
          /\ \A y \in docs' : y.kind = e.pc /\ y.request = e.at => y \in e.todo
          /\ e.pc = "audit" => \A y \in Of("note")' : y.request # e.at
    BY <1>1, <1>2, <1>5, <1>6, <2>1 DEF SweepSound
  <2>5. e.pc # "request" /\ e.at = None =>
          /\ OwnedRequests(e.user)' = {}
          /\ \A y \in docs' : y.kind = e.pc /\ y.kind \in Gone("leave") /\ y.user = e.user => y \in e.todo
          /\ \A y \in docs' : y.kind \in Gone(e.pc) => y.user # e.user
    BY <1>1, <1>2, <1>5, <1>6, <2>1 DEF SweepSound
  <2>6. /\ ~Active(e.user)'
        /\ e.pc \notin {"leave", "check", "drop"} => marker'[e.user].orgs \subseteq e.orgs
        /\ \A m \in MembershipsOf(e.user)' : m.org \in e.orgs
        /\ \A y \in e.todo : /\ y.kind = e.pc /\ y.kind \in Gone("leave")
                             /\ e.pc \notin {"note", "audit"} => y.user = e.user
        /\ e.pc \notin {"note", "audit"} => e.at = None
        /\ \A r \in e.work : e.user \in Participants(r)
        /\ \A r \in OwnedRequests(e.user)' : r \in e.work \/ r = e.at
    BY <1>1, <1>3, <1>5, <1>6, <2>1 DEF SweepSound
  <2> QED BY <2>2, <2>3, <2>4, <2>5, <2>6 DEF SweepSound
<1>15. sweep' = [sweep EXCEPT ![d] = e] /\ docs' \subseteq docs
       /\ \A y \in docs \ docs' : y.kind # "member"
  BY <1>2, <1>4, <1>8
<1> QED BY <1>3, <1>13, <1>14, <1>15, ErasingCoherent

\* What it works with shrinks with the documents.
LEMMA FewerDocuments ==
    ASSUME docs' \subseteq docs, marker' = marker
    PROVE  /\ \A u : OwnedRequests(u)' \subseteq OwnedRequests(u)
           /\ \A u : MembershipsOf(u)' \subseteq MembershipsOf(u)
           /\ \A o : MembersOf(o)' \subseteq MembersOf(o)
           /\ \A u : Active(u)' <=> Active(u)
BY DEF OwnedRequests, MembershipsOf, MembersOf, Of, Active

\* A document that is about nothing that was deleted keeps what it speaks of.
LEMMA ErasingStays ==
    ASSUME InProgress, SweepsCoherent, docs' \subseteq docs, marker' = marker,
           NEW y \in docs',
           y.kind = "member" => Organization(y.org) \notin docs \ docs',
           \A u, o : Active(u) => Workspace(u, o) \notin docs \ docs',
           y.kind = "invitation" => \A m \in docs \ docs' : m.kind = "member" => m.user # y.user,
           y.kind \in {"note", "audit"} => \A r \in RequestDocs : y.request = r => r \notin docs \ docs'
    PROVE  DocStays(y)
<1>1. y \in docs /\ y \in Documents /\ DocSound(y) /\ (\A u : Active(u)' <=> Active(u))
  BY CallsTyped, FewerDocuments DEF SweepsCoherent
<1>2. y.kind = "member" => /\ Organization(y.org) \in docs'
                           /\ Active(y.user)' => Workspace(y.user, y.org) \in docs'
  BY <1>1 DEF DocSound
<1>3. ASSUME y.kind = "invitation" PROVE IsMember(y.user, y.org)'
  <2>1. PICK m \in docs : m.kind = "member" /\ m.org = y.org /\ m.user = y.user
    BY <1>1, <1>3 DEF DocSound, IsMember, MembersOf, Of
  <2>2. m \in docs'
    BY <1>3, <2>1
  <2> QED BY <2>1, <2>2 DEF IsMember, MembersOf, Of
<1>4. y.kind = "note" => y.request \in docs'
  BY <1>1, DocumentFields DEF DocSound
<1>5. ASSUME y.kind = "audit", y.request # None PROVE y.request \in docs'
  <2>1. y.request \in RequestDocs
    BY <1>1, <1>5, DocumentFields
  <2> QED BY <1>1, <1>5, <2>1 DEF DocSound
<1>6. (y.kind \in {"member", "audit"} /\ ~Active(y.user)') => y.org \in marker'[y.user].orgs
  BY <1>1 DEF DocSound
<1> QED BY <1>2, <1>3, <1>4, <1>5, <1>6 DEF DocStays

\* A request goes when nothing tells of it any more.
LEMMA NextOfRequestCoherent ==
    ASSUME InProgress, InProgress', SweepsCoherent, NEW d \in Sweepers, NextOfRequest(d)
    PROVE  SweepsCoherent'
<1>1. PICK c : c = sweep[d] /\ c \in SweepState /\ SweepInProgress(c) /\ SweepSound(c)
  BY CallsTyped DEF SweepsCoherent
<1>2. UNCHANGED <<marker, signin>>
  BY DEF NextOfRequest, Swept
<1>3. /\ c.todo = {} /\ c.at # None /\ c.at \in RequestDocs /\ c.pc \in {"note", "audit"} /\ c.user \in Users
      /\ Early(c)
  <2>1. c.todo = {} /\ c.at # None /\ c.pc \in {"note", "audit"}
    BY <1>1 DEF NextOfRequest
  <2>2. c.at \in RequestDocs /\ c.user \in Users
    BY <1>1, <2>1 DEF SweepInProgress, SweepState
  <2> QED BY <1>1, <2>1, <2>2, SoundEarly
<1>4. /\ c.user \in Participants(c.at)
      /\ \A x \in docs : ~(x.kind = c.pc /\ x.request = c.at)
      /\ c.pc = "audit" => \A x \in Of("note") : x.request # c.at
      /\ \A q \in OwnedRequests(c.user) : q \in c.work \/ q = c.at
  BY <1>1, <1>3 DEF SweepSound
<1>5. CASE c.pc = "note" /\ Swept(d, Enter(c, "audit", c.at)) /\ docs' = docs
  <2>1. PICK e : e = Enter(c, "audit", c.at)
    OBVIOUS
  <2>2. \A x \in Of("note") : x.request # c.at
    BY <1>4, <1>5 DEF Of
  <2>3. SweepSound(e)
    BY <1>1, <1>3, <1>4, <2>1, <2>2, EnterRequestSound
  <2>4. sweep' = [sweep EXCEPT ![d] = e]
    BY <1>5, <2>1 DEF Swept
  <2> QED BY <1>2, <1>5, <2>3, <2>4, LookingCoherent
<1>6. CASE /\ c.pc = "audit" /\ docs' = docs \ {c.at}
           /\ Swept(d, [c EXCEPT !.pc = "request", !.at = None])
  <2>1. PICK e : e = [c EXCEPT !.pc = "request", !.at = None]
    OBVIOUS
  <2>2. /\ e.pc = "request" /\ e.at = None /\ e.user = c.user /\ e.orgs = c.orgs /\ e.work = c.work
        /\ e.org = c.org /\ e.todo = {}
    BY <1>1, <1>3, <2>1 DEF SweepState
  <2>3. c.at.kind = "request" /\ docs' \subseteq docs
    BY <1>3, <1>6, RequestFields
  <2>4. ASSUME NEW y \in docs' PROVE DocStays(y)
    <3>1. \A o : Organization(o) \notin docs \ docs'
      BY <1>6, <2>3 DEF Organization
    <3>2. \A u, o : Workspace(u, o) \notin docs \ docs'
      BY <1>6, <2>3 DEF Workspace
    <3>3. \A m \in docs \ docs' : m.kind # "member"
      BY <1>6, <2>3
    <3>4. y.kind \in {"note", "audit"} => \A r \in RequestDocs : y.request = r => r \notin docs \ docs'
      BY <1>4, <1>6, <2>3, <2>4 DEF Of
    <3> QED BY <1>2, <2>3, <3>1, <3>2, <3>3, <3>4, ErasingStays
  <2>5. /\ \A q \in OwnedRequests(c.user)' : q \in c.work
        /\ \A o : IsMember(o, o) => IsMember(o, o)'
    BY <1>4, <1>6, <2>3 DEF OwnedRequests, Of, IsMember, MembersOf
  <2>6. SweepSound(e)'
    <3>1. Early(c)'
      <4>1. ~Active(c.user)' /\ marker'[c.user].orgs \subseteq c.orgs /\ \A r \in c.work : c.user \in Participants(r)
        BY <1>2, <1>3, <2>3, FewerDocuments DEF Early
      <4>2. \A m \in MembershipsOf(c.user)' : m.org \in c.orgs
        BY <1>2, <1>3, <2>3, FewerDocuments DEF Early
      <4>3. \A o \in c.orgs \cup ({c.org} \ {None}) : Active(o)' => IsMember(o, o)'
        BY <1>2, <1>3, <2>3, <2>5, FewerDocuments DEF Early
      <4> QED BY <4>1, <4>2, <4>3 DEF Early
    <3> QED BY <2>2, <2>5, <3>1 DEF SweepSound, Early
  <2>7. sweep' = [sweep EXCEPT ![d] = e]
    BY <1>6, <2>1 DEF Swept
  <2>8. \A x \in docs \ docs' : x.kind # "member"
    BY <1>6, <2>3
  <2> QED BY <1>2, <2>3, <2>4, <2>6, <2>7, <2>8, ErasingCoherent
<1> QED BY <1>1, <1>3, <1>5, <1>6 DEF NextOfRequest

\* A stage ends when the query that it began with, or a new one, finds nothing left.
LEMMA NextStageCoherent ==
    ASSUME InProgress, InProgress', SweepsCoherent, NEW d \in Sweepers, NextStage(d)
    PROVE  SweepsCoherent'
<1>1. PICK c : c = sweep[d] /\ c \in SweepState /\ SweepInProgress(c) /\ SweepSound(c)
  BY CallsTyped DEF SweepsCoherent
<1>2. UNCHANGED <<docs, marker, signin>>
  BY DEF NextStage, Swept
<1>3. c.pc \in DOMAIN After /\ c.at = None /\ c.todo = {}
  BY <1>1 DEF NextStage
<1>4. c.pc \in Gone("leave") /\ c.user \in Users /\ Early(c) /\ c.pc \notin {"request", "idle"}
  BY <1>1, <1>3, StagesInOrder, GoneByStage, SoundEarly DEF SweepInProgress
<1>5. /\ OwnedRequests(c.user) = {}
      /\ \A x \in docs : x.kind = c.pc => x.user # c.user
      /\ \A x \in docs : x.kind \in Gone(c.pc) => x.user # c.user
  BY <1>1, <1>3, <1>4 DEF SweepSound
<1>6. PICK stage : /\ stage \in {c.pc, After[c.pc]} /\ Swept(d, Enter(c, stage, None))
  BY <1>1 DEF NextStage
<1>7. /\ stage \in Gone("leave")
      /\ \A x \in docs : x.kind \in Gone(stage) => x.user # c.user
  <2>1. CASE stage = c.pc
    BY <1>4, <1>5, <2>1
  <2>2. CASE stage = After[c.pc]
    <3>1. After[c.pc] \in Gone("leave") /\ Gone(After[c.pc]) = Gone(c.pc) \cup {c.pc}
      BY <1>3, StagesInOrder, GoneByStage
    <3> QED BY <1>5, <2>2, <3>1
  <2> QED BY <1>6, <2>1, <2>2
<1>8. PICK e : e = Enter(c, stage, None)
  OBVIOUS
<1>9. SweepSound(e)
  BY <1>1, <1>4, <1>5, <1>7, <1>8, EnterOwnSound
<1>10. sweep' = [sweep EXCEPT ![d] = e]
  BY <1>6, <1>8 DEF Swept
<1> QED BY <1>2, <1>9, <1>10, LookingCoherent

\* When it comes to the workspaces, nothing else is left of the account.
Late(c) ==
    /\ ~Active(c.user)
    /\ \A m \in MembershipsOf(c.user) : m.org \in c.orgs
    /\ \A o \in c.orgs \cup ({c.org} \ {None}) : Active(o) => IsMember(o, o)
    /\ c.todo = {} /\ c.at = None
    /\ \A r \in c.work : c.user \in Participants(r)
    /\ OwnedRequests(c.user) = {}
    /\ \A x \in docs : x.kind \in Gone("leave") => x.user # c.user

LEMMA SoundLate ==
    ASSUME NEW c, SweepSound(c), c.pc \in {"leave", "check", "drop"}
    PROVE  Late(c)
<1>1. c.pc \notin {"request", "idle", "note", "audit"} /\ c.pc \notin Gone("leave") /\ Gone(c.pc) = Gone("leave")
  BY GoneByStage
<1>2. c.at = None
  BY <1>1 DEF SweepSound
<1>3. c.todo = {}
  BY <1>1 DEF SweepSound
<1> QED BY <1>1, <1>2, <1>3 DEF SweepSound, Late

LEMMA LateSound ==
    ASSUME NEW c, Late(c), c.pc \in {"leave", "check", "drop"}, c.pc = "drop" => MembersOf(c.org) = {}
    PROVE  SweepSound(c)
<1>1. c.pc \notin {"request", "idle", "note", "audit"} /\ c.pc \notin Gone("leave") /\ Gone(c.pc) = Gone("leave")
  BY GoneByStage
<1> QED BY <1>1 DEF SweepSound, Late

LEMMA LeaveWorkspacesCoherent ==
    ASSUME InProgress, InProgress', SweepsCoherent, NEW d \in Sweepers, LeaveWorkspaces(d)
    PROVE  SweepsCoherent'
<1>1. PICK c : c = sweep[d] /\ c \in SweepState /\ SweepSound(c) /\ c.pc = "settings" /\ c.todo = {}
  BY CallsTyped DEF SweepsCoherent, LeaveWorkspaces
<1>2. UNCHANGED <<docs, marker, signin>> /\ Swept(d, [c EXCEPT !.pc = "leave"])
  BY <1>1 DEF LeaveWorkspaces, Swept
<1>3. PICK e : e = [c EXCEPT !.pc = "leave"]
  OBVIOUS
<1>4. /\ e.pc = "leave" /\ e.at = c.at /\ e.user = c.user /\ e.orgs = c.orgs /\ e.work = c.work
      /\ e.org = c.org /\ e.todo = {}
  BY <1>1, <1>3 DEF SweepState
<1>5. /\ ~Active(c.user) /\ (\A m \in MembershipsOf(c.user) : m.org \in c.orgs) /\ c.at = None
      /\ \A o \in c.orgs \cup ({c.org} \ {None}) : Active(o) => IsMember(o, o)
      /\ \A r \in c.work : c.user \in Participants(r)
  BY <1>1 DEF SweepSound
<1>6. /\ OwnedRequests(c.user) = {}
      /\ \A x \in docs : x.kind = "settings" => x.user # c.user
      /\ \A x \in docs : x.kind \in Gone("settings") => x.user # c.user
  BY <1>1, <1>5, GoneByStage DEF SweepSound
<1>7. \A x \in docs : x.kind \in Gone("leave") => x.user # c.user
  BY <1>6, GoneByStage
<1>8. Late(e)
  BY <1>4, <1>5, <1>6, <1>7 DEF Late
<1>9. SweepSound(e)
  BY <1>4, <1>8, LateSound
<1> QED BY <1>2, <1>3, <1>9, LookingCoherent DEF Swept

\* The membership of the one who leaves is the only one that goes, and an invitation
\* of theirs would have gone before.
LEMMA LeaveWorkspaceCoherent ==
    ASSUME InProgress, InProgress', SweepsCoherent, NEW d \in Sweepers, LeaveWorkspace(d)
    PROVE  SweepsCoherent'
<1>1. PICK c : c = sweep[d] /\ c \in SweepState /\ c.pc = "leave" /\ Late(c)
  BY CallsTyped, SoundLate DEF SweepsCoherent, LeaveWorkspace
<1>2. UNCHANGED <<marker, signin>>
  BY DEF LeaveWorkspace, Swept
<1>3. PICK o \in c.orgs : /\ docs' = docs \ {m \in MembersOf(o) : m.user = c.user}
                          /\ Swept(d, [c EXCEPT !.pc = "check", !.org = o, !.orgs = @ \ {o}])
  BY <1>1 DEF LeaveWorkspace
<1>4. PICK e : e = [c EXCEPT !.pc = "check", !.org = o, !.orgs = @ \ {o}]
  OBVIOUS
<1>5. /\ e.pc = "check" /\ e.at = c.at /\ e.user = c.user /\ e.orgs = c.orgs \ {o} /\ e.work = c.work
      /\ e.org = o /\ e.todo = c.todo
  BY <1>1, <1>4 DEF SweepState
<1>6. \A x \in docs \ docs' : x.kind = "member" /\ x.user = c.user /\ ~Active(x.user)
  BY <1>1, <1>3 DEF MembersOf, Of, Late
<1>7. docs' \subseteq docs
  BY <1>3
<1>8. ASSUME NEW y \in docs' PROVE DocStays(y)
  <2>1. \A a : Organization(a) \notin docs \ docs'
    BY <1>6 DEF Organization
  <2>2. \A u, a : Workspace(u, a) \notin docs \ docs'
    BY <1>6 DEF Workspace
  <2>3. y.kind = "invitation" => \A m \in docs \ docs' : m.kind = "member" => m.user # y.user
    BY <1>1, <1>6, <1>7, GoneByStage DEF Late
  <2>4. \A r \in RequestDocs : r \notin docs \ docs'
    BY <1>6, RequestFields
  <2> QED BY <1>2, <1>7, <2>1, <2>2, <2>3, <2>4, ErasingStays
<1>9. ASSUME NEW a, Active(a), IsMember(a, a) PROVE IsMember(a, a)'
  <2>1. PICK m \in docs : m.kind = "member" /\ m.org = a /\ m.user = a
    BY <1>9 DEF IsMember, MembersOf, Of
  <2>2. m \in docs'
    BY <1>6, <1>9, <2>1
  <2> QED BY <2>1, <2>2 DEF IsMember, MembersOf, Of
<1>10. Late(e)'
  <2>1. \A m \in MembershipsOf(e.user)' : m.org \in e.orgs
    <3> SUFFICES ASSUME NEW m \in MembershipsOf(e.user)' PROVE m.org \in e.orgs
      OBVIOUS
    <3>1. m \in MembershipsOf(c.user) /\ m \in docs' /\ m.kind = "member" /\ m.user = c.user /\ m \in docs
      BY <1>5, <1>7 DEF MembershipsOf, Of
    <3>2. m.org # o
      BY <1>3, <3>1 DEF MembersOf, Of
    <3> QED BY <1>1, <1>5, <3>1, <3>2 DEF Late
  <2>2. \A a \in e.orgs \cup ({e.org} \ {None}) : Active(a)' => IsMember(a, a)'
    BY <1>1, <1>2, <1>5, <1>7, <1>9, FewerDocuments DEF Late
  <2>3. /\ ~Active(e.user)' /\ e.todo = {} /\ e.at = None /\ \A r \in e.work : e.user \in Participants(r)
    BY <1>1, <1>2, <1>5, <1>7, FewerDocuments DEF Late
  <2>4. OwnedRequests(e.user)' = {} /\ \A x \in docs' : x.kind \in Gone("leave") => x.user # e.user
    BY <1>1, <1>2, <1>5, <1>7, FewerDocuments DEF Late
  <2> QED BY <2>1, <2>2, <2>3, <2>4 DEF Late
<1>11. SweepSound(e)'
  <2>1. Gone("check") = Gone("leave") /\ "check" \notin Gone("leave")
    BY GoneByStage
  <2> QED BY <1>5, <1>10, <2>1 DEF SweepSound, Late
<1> QED BY <1>2, <1>3, <1>4, <1>6, <1>7, <1>8, <1>11, ErasingCoherent DEF Swept

LEMMA CheckWorkspaceCoherent ==
    ASSUME InProgress, InProgress', SweepsCoherent, NEW d \in Sweepers, CheckWorkspace(d)
    PROVE  SweepsCoherent'
<1>1. PICK c : c = sweep[d] /\ c \in SweepState /\ c.pc = "check" /\ Late(c)
  BY CallsTyped, SoundLate DEF SweepsCoherent, CheckWorkspace
<1>2. UNCHANGED <<docs, marker, signin>>
  BY DEF CheckWorkspace, Swept
<1>3. CASE MembersOf(c.org) = {} /\ Swept(d, [c EXCEPT !.pc = "drop"])
  <2>1. PICK e : e = [c EXCEPT !.pc = "drop"]
    OBVIOUS
  <2>2. /\ e.pc = "drop" /\ e.at = c.at /\ e.user = c.user /\ e.orgs = c.orgs /\ e.work = c.work
        /\ e.org = c.org /\ e.todo = c.todo
    BY <1>1, <2>1 DEF SweepState
  <2>3. Late(e)
    BY <1>1, <2>2 DEF Late
  <2>4. SweepSound(e)
    BY <1>3, <2>2, <2>3, LateSound
  <2> QED BY <1>2, <1>3, <2>1, <2>4, LookingCoherent DEF Swept
<1>4. CASE Swept(d, [c EXCEPT !.pc = "leave", !.org = None])
  <2>1. PICK e : e = [c EXCEPT !.pc = "leave", !.org = None]
    OBVIOUS
  <2>2. /\ e.pc = "leave" /\ e.at = c.at /\ e.user = c.user /\ e.orgs = c.orgs /\ e.work = c.work
        /\ e.org = None /\ e.todo = c.todo
    BY <1>1, <2>1 DEF SweepState
  <2>3. Late(e)
    BY <1>1, <2>2 DEF Late
  <2>4. SweepSound(e)
    BY <2>2, <2>3, LateSound
  <2> QED BY <1>2, <1>4, <2>1, <2>4, LookingCoherent DEF Swept
<1> QED BY <1>1, <1>3, <1>4 DEF CheckWorkspace

\* Nobody has joined the workspace since the check found nobody in it.
LEMMA DropWorkspaceCoherent ==
    ASSUME InProgress, InProgress', SweepsCoherent, NEW d \in Sweepers, DropWorkspace(d)
    PROVE  SweepsCoherent'
<1>1. PICK c : c = sweep[d] /\ c \in SweepState /\ c.pc = "drop" /\ Late(c) /\ MembersOf(c.org) = {}
  <2>1. SweepSound(sweep[d]) /\ sweep[d] \in SweepState /\ sweep[d].pc = "drop"
    BY CallsTyped DEF SweepsCoherent, DropWorkspace
  <2>2. Late(sweep[d])
    BY <2>1, SoundLate
  <2>3. MembersOf(sweep[d].org) = {}
    BY <2>1 DEF SweepSound
  <2> QED BY <2>1, <2>2, <2>3
<1>2. UNCHANGED <<marker, signin>> /\ docs' = docs \ {Organization(c.org)}
      /\ Swept(d, [c EXCEPT !.pc = "leave", !.org = None])
  BY <1>1 DEF DropWorkspace, Swept
<1>3. PICK e : e = [c EXCEPT !.pc = "leave", !.org = None]
  OBVIOUS
<1>4. /\ e.pc = "leave" /\ e.at = c.at /\ e.user = c.user /\ e.orgs = c.orgs /\ e.work = c.work
      /\ e.org = None /\ e.todo = c.todo
  BY <1>1, <1>3 DEF SweepState
<1>5. docs' \subseteq docs /\ \A x \in docs \ docs' : x.kind = "organization" /\ x.org = c.org
  BY <1>2 DEF Organization
<1>6. ASSUME NEW y \in docs' PROVE DocStays(y)
  <2>1. ASSUME y.kind = "member" PROVE Organization(y.org) \notin docs \ docs'
    <3>1. y.org # c.org
      BY <1>1, <1>5, <2>1 DEF MembersOf, Of
    <3>2. Organization(y.org).org = y.org
      BY DEF Organization
    <3> QED BY <1>5, <3>1, <3>2
  <2>2. \A u, a : Workspace(u, a) \notin docs \ docs'
    BY <1>5 DEF Workspace
  <2>3. \A m \in docs \ docs' : m.kind # "member"
    BY <1>5
  <2>4. \A r \in RequestDocs : r \notin docs \ docs'
    BY <1>5, RequestFields
  <2> QED BY <1>2, <1>5, <2>1, <2>2, <2>3, <2>4, ErasingStays
<1>7. Late(e)'
  <2>1. ASSUME NEW a, IsMember(a, a) PROVE IsMember(a, a)'
    BY <1>5, <2>1 DEF IsMember, MembersOf, Of
  <2>2. \A a \in e.orgs \cup ({e.org} \ {None}) : Active(a)' => IsMember(a, a)'
    BY <1>1, <1>2, <1>4, <1>5, <2>1, FewerDocuments DEF Late
  <2>3. /\ ~Active(e.user)' /\ e.todo = {} /\ e.at = None /\ \A r \in e.work : e.user \in Participants(r)
        /\ \A m \in MembershipsOf(e.user)' : m.org \in e.orgs
    BY <1>1, <1>2, <1>4, <1>5, FewerDocuments DEF Late
  <2>4. OwnedRequests(e.user)' = {} /\ \A x \in docs' : x.kind \in Gone("leave") => x.user # e.user
    BY <1>1, <1>2, <1>4, <1>5, FewerDocuments DEF Late
  <2> QED BY <2>2, <2>3, <2>4 DEF Late
<1>8. SweepSound(e)'
  <2>1. "leave" \notin Gone("leave")
    BY GoneByStage
  <2> QED BY <1>4, <1>7, <2>1 DEF SweepSound, Late
<1>9. \A x \in docs \ docs' : x.kind # "member"
  BY <1>5
<1> QED BY <1>2, <1>3, <1>5, <1>6, <1>8, <1>9, ErasingCoherent DEF Swept

\* A sweep that is not under way has nothing to keep to.
LEMMA NoSweepSound == SweepSound(NoSweep) /\ SweepSound(NoSweep)'
BY DEF SweepSound, NoSweep

LEMMA InterruptedCoherent ==
    ASSUME InProgress, InProgress', SweepsCoherent, NEW d \in Sweepers, Interrupted(d)
    PROVE  SweepsCoherent'
<1>1. UNCHANGED <<docs, marker, signin>> /\ sweep' = [sweep EXCEPT ![d] = NoSweep]
  BY DEF Interrupted
<1> QED BY <1>1, NoSweepSound, LookingCoherent

\* The last transaction finds an account of which only the user document is left.
LEMMA CompleteCoherent ==
    ASSUME InProgress, InProgress', SweepsCoherent, NEW d \in Sweepers, CompleteDeletion(d)
    PROVE  SweepsCoherent'
<1>1. PICK c : c = sweep[d] /\ c \in SweepState /\ c.user \in Users /\ c.pc = "leave" /\ Late(c) /\ c.orgs = {}
  <2>1. SweepSound(sweep[d]) /\ sweep[d] \in SweepState /\ sweep[d].pc = "leave" /\ sweep[d].orgs = {}
        /\ SweepInProgress(sweep[d])
    BY CallsTyped DEF SweepsCoherent, CompleteDeletion
  <2> QED BY <2>1, SoundLate DEF SweepInProgress
<1>2. PICK u \in Users : u = c.user
  BY <1>1
<1>3. PICK m : m = [phase |-> "complete", orgs |-> {}]
  OBVIOUS
<1>4. /\ docs' = docs \ {x \in Of("user") : x.user = u} /\ marker' = [marker EXCEPT ![u] = m]
      /\ sweep' = [sweep EXCEPT ![d] = NoSweep] /\ signin' = signin
  BY <1>1, <1>2, <1>3 DEF CompleteDeletion, Swept
<1>5. m # None /\ m.orgs = {} /\ DOMAIN marker = Users
  BY <1>3, NoneAssumption DEF Marker, InProgress, TypeOK
<1>6. /\ ~Active(u) /\ OwnedRequests(u) = {} /\ MembershipsOf(u) = {}
      /\ \A x \in docs : x.kind \in Gone("leave") => x.user # u
  BY <1>1, <1>2 DEF Late
<1>7. ~Active(u)' /\ \A v \in Users : (Active(v)' <=> Active(v)) /\ (v # u => marker'[v] = marker[v])
  BY <1>4, <1>5, <1>6 DEF Active
<1>8. docs' \subseteq docs /\ \A x \in docs \ docs' : x.kind = "user"
  BY <1>4 DEF Of
<1>9. \A v, o : IsMember(v, o) => IsMember(v, o)'
  BY <1>8 DEF IsMember, MembersOf, Of
<1>10. Respectful
  <2>1. ActiveFalls
    <3> SUFFICES ASSUME NEW v \in Users, ~Active(v) PROVE ~Active(v)' /\ marker'[v].orgs \subseteq marker[v].orgs
      BY DEF ActiveFalls
    <3>1. CASE v = u
      BY <1>4, <1>5, <1>7, <3>1
    <3>2. CASE v # u
      BY <1>7, <3>2
    <3> QED BY <3>1, <3>2
  <2>2. NoNewTraces
    BY <1>8 DEF NoNewTraces
  <2>3. MembersStay
    BY <1>9 DEF MembersStay
  <2>4. EmptyStays
    BY <1>8 DEF EmptyStays, MembersOf, Of
  <2> QED BY <2>1, <2>2, <2>3, <2>4 DEF Respectful
<1>11. ASSUME NEW x \in docs' PROVE x \in docs /\ DocStays(x)
  <2>1. x \in docs /\ x \in Documents /\ DocSound(x)
    BY <1>8, CallsTyped DEF SweepsCoherent
  <2>2. \A y \in docs : y.kind # "user" => y \in docs'
    BY <1>8
  <2>3. \A o : Organization(o) \in docs => Organization(o) \in docs'
    BY <2>2 DEF Organization
  <2>4. \A v, o : Workspace(v, o) \in docs => Workspace(v, o) \in docs'
    BY <2>2 DEF Workspace
  <2>5. \A r \in RequestDocs : r \in docs => r \in docs'
    BY <2>2, RequestFields
  <2>6. ASSUME x.kind \in {"member", "audit"} PROVE x.user \in Users /\ x.user # u
    <3>1. x.user \in Users
      BY <2>1, <2>6, DocumentFields
    <3>2. x.user # u
      BY <1>6, <2>1, <2>6, GoneByStage DEF MembershipsOf, Of
    <3> QED BY <3>1, <3>2
  <2>7. x.kind = "member" => /\ Organization(x.org) \in docs'
                             /\ Active(x.user)' => Workspace(x.user, x.org) \in docs'
    BY <1>7, <2>1, <2>3, <2>4, <2>6 DEF DocSound
  <2>8. x.kind = "invitation" => IsMember(x.user, x.org)'
    BY <1>9, <2>1 DEF DocSound
  <2>9. x.kind = "note" => x.request \in docs'
    BY <2>1, <2>5, DocumentFields DEF DocSound
  <2>10. ASSUME x.kind = "audit", x.request # None PROVE x.request \in docs'
    <3>1. x.request \in RequestDocs
      BY <2>1, <2>10, DocumentFields
    <3> QED BY <2>1, <2>5, <2>10, <3>1 DEF DocSound
  <2>11. (x.kind \in {"member", "audit"} /\ ~Active(x.user)') => x.org \in marker'[x.user].orgs
    BY <1>7, <2>1, <2>6 DEF DocSound
  <2> QED BY <2>1, <2>7, <2>8, <2>9, <2>10, <2>11 DEF DocStays
<1>12. Erased(u)'
  <2> SUFFICES ASSUME NEW x \in docs', Concerns(x, u) PROVE FALSE
    BY DEF Erased, Concerns
  <2>1. x \in docs /\ x \in Documents /\ DocSound(x)
    BY <1>8, CallsTyped DEF SweepsCoherent
  <2>2. CASE x.kind = "request" /\ u \in Participants(x)
    BY <1>6, <2>1, <2>2 DEF OwnedRequests, Of
  <2>3. CASE x.kind \notin {"request", "organization"} /\ x.user = u
    <3>1. x.kind \in Gone("leave") \cup {"user", "member"}
      BY <2>1, <2>3, DocumentHasKind, GoneByStage DEF DocumentKinds
    <3>2. CASE x.kind \in Gone("leave")
      BY <1>6, <2>1, <2>3, <3>2
    <3>3. CASE x.kind = "user"
      BY <1>4, <2>3, <3>3 DEF Of
    <3>4. CASE x.kind = "member"
      BY <1>6, <2>1, <2>3, <3>4 DEF MembershipsOf, Of
    <3> QED BY <3>1, <3>2, <3>3, <3>4
  <2>4. CASE x.kind \in {"note", "audit"} /\ x.request # None /\ u \in Participants(x.request)
    <3>1. x.request \in docs /\ x.request \in RequestDocs
      <4>1. x.request \in docs
        BY <2>1, <2>4 DEF DocSound
      <4>2. x.request \in RequestDocs
        BY <2>1, <2>4, DocumentFields
      <4> QED BY <4>1, <4>2
    <3>2. x.request \in OwnedRequests(u)
      BY <2>4, <3>1, RequestFields DEF OwnedRequests, Of
    <3> QED BY <1>6, <3>2
  <2> QED BY <2>2, <2>3, <2>4 DEF Concerns
<1>13. MarkerSound(u)'
  BY <1>4, <1>5 DEF MarkerSound
<1>14. \A v \in Users : ~Active(v)' => \/ ~Active(v) /\ marker'[v] = marker[v]
                                       \/ MarkerSound(v)' /\ (marker'[v].phase = "complete" => Erased(v)')
  BY <1>7, <1>12, <1>13
<1> QED BY <1>4, <1>10, <1>11, <1>14, NoSweepSound, SweepCoherent

\* The marker of one who leaves names the workspaces where there are traces, so that a
\* sweep that begins with it, now or later, comes past all of them.
LEMMA SweepingSound ==
    ASSUME InProgress, SweepsCoherent, NEW u \in Users, ~Active(u)
    PROVE  SweepSound(Sweeping(u, marker[u].orgs))
<1>1. PICK c : c = Sweeping(u, marker[u].orgs)
  OBVIOUS
<1>2. /\ c.pc = "request" /\ c.user = u /\ c.orgs = marker[u].orgs /\ c.work = OwnedRequests(u)
      /\ c.todo = {} /\ c.at = None /\ c.org = None
  BY <1>1 DEF Sweeping, NoSweep
<1>3. \A m \in MembershipsOf(u) : m.org \in c.orgs
  BY <1>2 DEF SweepsCoherent, DocSound, MembershipsOf, Of
<1>4. \A o \in c.orgs \cup ({c.org} \ {None}) : Active(o) => IsMember(o, o)
  BY <1>2 DEF SweepsCoherent, MarkerSound
<1>5. \A r \in c.work : u \in Participants(r)
  BY <1>2 DEF OwnedRequests
<1> QED BY <1>1, <1>2, <1>3, <1>4, <1>5 DEF SweepSound

LEMMA BeginCoherent ==
    ASSUME InProgress, InProgress', SweepsCoherent, NEW d, NEW u \in Users, BeginAccountDeletion(d, u)
    PROVE  SweepsCoherent'
<1>1. d \in Sweepers /\ UNCHANGED <<docs, signin>>
  BY DEF BeginAccountDeletion, Sweepers
<1>2. CASE /\ ~Active(u) /\ marker' = marker
           /\ sweep' = [sweep EXCEPT ![d] = Sweeping(u, marker[u].orgs)]
  BY <1>1, <1>2, SweepingSound, LookingCoherent
<1>3. CASE Active(u)
  <2>1. PICK orgs : /\ orgs = {o \in Users : Organization(o) \in docs /\ IsMember(u, o)}
                    /\ marker' = [marker EXCEPT ![u] = [phase |-> "deleting", orgs |-> orgs]]
                    /\ sweep' = [sweep EXCEPT ![d] = Sweeping(u, orgs)]
    BY <1>3 DEF BeginAccountDeletion
  <2>2. PICK m, c : m = [phase |-> "deleting", orgs |-> orgs] /\ c = Sweeping(u, orgs)
    OBVIOUS
  <2>3. /\ c.pc = "request" /\ c.user = u /\ c.orgs = orgs /\ c.work = OwnedRequests(u)
        /\ c.todo = {} /\ c.at = None /\ c.org = None /\ m.orgs = orgs /\ m.phase = "deleting"
    BY <2>2 DEF Sweeping, NoSweep
  <2>4. m \in Marker /\ m # None /\ DOMAIN marker = Users
    BY <2>1, <2>2, NoneAssumption DEF Marker, InProgress, TypeOK
  <2>5. marker'[u] = m /\ \A v \in Users : v # u => marker'[v] = marker[v]
    BY <2>1, <2>2, <2>4
  <2>6. ~Active(u)' /\ \A v \in Users : v # u => (Active(v)' <=> Active(v))
    BY <2>4, <2>5 DEF Active
  <2>7. /\ \A v, o : IsMember(v, o)' <=> IsMember(v, o)
        /\ \A o : MembersOf(o)' = MembersOf(o)
        /\ MembershipsOf(u)' = MembershipsOf(u) /\ OwnedRequests(u)' = OwnedRequests(u)
    BY <1>1 DEF IsMember, MembersOf, MembershipsOf, OwnedRequests, Of
  <2>8. Respectful
    <3>1. ActiveFalls
      BY <1>3, <2>5, <2>6 DEF ActiveFalls
    <3>2. NoNewTraces
      BY <1>1 DEF NoNewTraces
    <3>3. MembersStay /\ EmptyStays
      BY <2>7 DEF MembersStay, EmptyStays
    <3> QED BY <3>1, <3>2, <3>3 DEF Respectful
  <2>9. \A x \in docs : x.kind = "member" /\ x.user = u => x.org \in orgs
    <3> SUFFICES ASSUME NEW x \in docs, x.kind = "member", x.user = u PROVE x.org \in orgs
      OBVIOUS
    <3>1. DocSound(x) /\ x.org \in Users
      BY CallsTyped, DocumentFields DEF SweepsCoherent
    <3>2. IsMember(u, x.org)
      BY DEF IsMember, MembersOf, Of
    <3> QED BY <2>1, <3>1, <3>2 DEF DocSound
  <2>10. \A x \in docs : x.kind = "audit" /\ x.user = u => x.org \in orgs
    <3> SUFFICES ASSUME NEW x \in docs, x.kind = "audit", x.user = u PROVE x.org \in orgs
      OBVIOUS
    <3>1. IsMember(u, x.org)
      BY <1>3 DEF SweepsCoherent, DocSound
    <3>2. PICK y \in docs : y.kind = "member" /\ y.org = x.org /\ y.user = u
      BY <3>1 DEF IsMember, MembersOf, Of
    <3> QED BY <2>9, <3>2
  <2>11. ASSUME NEW x \in docs' PROVE x \in docs /\ DocStays(x)
    <3>1. x \in docs /\ DocSound(x) /\ x \in Documents
      BY <1>1, CallsTyped DEF SweepsCoherent
    <3>2. x.kind \in {"member", "audit", "workspace"} => x.user \in Users
      BY <3>1, DocumentFields
    <3>3. x.kind = "member" => /\ Organization(x.org) \in docs'
                               /\ Active(x.user)' => Workspace(x.user, x.org) \in docs'
      BY <1>1, <2>6, <3>1, <3>2 DEF DocSound
    <3>4. x.kind = "invitation" => IsMember(x.user, x.org)'
      BY <2>7, <3>1 DEF DocSound
    <3>5. /\ x.kind = "note" => x.request \in docs'
          /\ x.kind = "audit" /\ x.request # None => x.request \in docs'
      BY <1>1, <3>1 DEF DocSound
    <3>6. ASSUME x.kind \in {"member", "audit"}, ~Active(x.user)' PROVE x.org \in marker'[x.user].orgs
      <4>1. CASE x.user = u
        BY <2>3, <2>5, <2>9, <2>10, <3>1, <3>6, <4>1
      <4>2. CASE x.user # u
        BY <2>5, <2>6, <3>1, <3>2, <3>6, <4>2 DEF DocSound
      <4> QED BY <4>1, <4>2
    <3> QED BY <3>1, <3>3, <3>4, <3>5, <3>6 DEF DocStays
  <2>12. ASSUME NEW o \in orgs, Active(o)' PROVE IsMember(o, o)'
    <3>1. o \in Users /\ Organization(o) \in docs /\ Active(o)
      BY <1>3, <2>1, <2>6, <2>12
    <3>2. PICK x : x = Organization(o)
      OBVIOUS
    <3>3. DocSound(x) /\ x.kind = "organization" /\ x.org = o
      BY <3>1, <3>2 DEF SweepsCoherent, Organization
    <3> QED BY <2>7, <3>1, <3>3 DEF DocSound
  <2>13. MarkerSound(u)' /\ marker'[u].phase # "complete"
    BY <2>3, <2>5, <2>12 DEF MarkerSound
  <2>14. SweepSound(c)'
    <3>1. \A x \in MembershipsOf(u)' : x.org \in orgs
      BY <2>7, <2>9 DEF MembershipsOf, Of
    <3>2. \A r \in OwnedRequests(u) : u \in Participants(r)
      BY DEF OwnedRequests
    <3> QED BY <2>3, <2>5, <2>6, <2>7, <2>12, <3>1, <3>2 DEF SweepSound
  <2>15. \A v \in Users : ~Active(v)' => \/ ~Active(v) /\ marker'[v] = marker[v]
                                         \/ MarkerSound(v)' /\ (marker'[v].phase = "complete" => Erased(v)')
    BY <2>5, <2>6, <2>13
  <2>16. sweep' = [sweep EXCEPT ![d] = c]
    BY <2>1, <2>2
  <2> QED BY <1>1, <2>8, <2>11, <2>14, <2>15, <2>16, SweepCoherent
<1> QED BY <1>2, <1>3 DEF BeginAccountDeletion

LEMMA RequestingCoherent ==
    ASSUME InProgress, InProgress', SweepsCoherent, NEW i \in known, Requesting(i)
    PROVE  SweepsCoherent'
<1>1. i.user \in Users
  BY CallsTyped
<1> QED BY <1>1, SwitchCoherent, InviteCoherent, AcceptCoherent, CreateRequestCoherent, ChangeRequestCoherent,
           SettingsCoherent, BeginCoherent
        DEF Requesting, Switches, Invites, Accepts, DeletesAccount

LEMMA CleaningCoherent ==
    ASSUME InProgress, InProgress', SweepsCoherent, Cleaning
    PROVE  SweepsCoherent'
<1>1. UNCHANGED <<docs, marker, signin>>
  BY DEF Cleaning, ListPending, ResumeAccountDeletion, StopCleanup, Swept
<1>2. CASE sweep' = sweep
  <2>1. NothingLost /\ FencedWrite
    BY <1>1 DEF NothingLost, FencedWrite
  <2> QED BY <1>1, <1>2, <2>1, WriteKeepsCoherent
<1>3. ASSUME NEW u \in Users, ~Active(u), sweep' = [sweep EXCEPT ![Operator] = Sweeping(u, marker[u].orgs)]
      PROVE  SweepsCoherent'
  <2>1. Operator \in Sweepers
    BY DEF Sweepers
  <2> QED BY <1>1, <1>3, <2>1, SweepingSound, LookingCoherent
<1>4. CASE ListPending \/ StopCleanup
  BY <1>2, <1>4 DEF ListPending, StopCleanup
<1>5. CASE ResumeAccountDeletion
  BY <1>2, <1>3, <1>5 DEF ResumeAccountDeletion, Swept, Pending
<1> QED BY <1>4, <1>5 DEF Cleaning

LEMMA StepCoherent ==
    ASSUME InProgress, InProgress', SweepsCoherent, [Next]_vars
    PROVE  SweepsCoherent'
<1>1. CASE UNCHANGED vars
  <2>1. UNCHANGED <<docs, marker, signin, sweep>>
    BY <1>1 DEF vars
  <2>2. NothingLost /\ FencedWrite
    BY <2>1 DEF NothingLost, FencedWrite
  <2> QED BY <2>1, <2>2, WriteKeepsCoherent
<1>2. ASSUME NEW d \in Sweepers, Deleting(d) PROVE SweepsCoherent'
  BY <1>2, TakeRequestCoherent, EraseCoherent, NextOfRequestCoherent, NextStageCoherent, LeaveWorkspacesCoherent,
     LeaveWorkspaceCoherent, CheckWorkspaceCoherent, DropWorkspaceCoherent, CompleteCoherent DEF Deleting
<1>3. CASE Next
  BY <1>2, <1>3, SigningInCoherent, AuthenticateCoherent, LogoutCoherent, RequestingCoherent, TransferCoherent,
     InterruptedCoherent, CleaningCoherent DEF Next
<1> QED BY <1>1, <1>3

LEMMA InitCoherent == Init => SweepsCoherent
<1> SUFFICES ASSUME Init PROVE SweepsCoherent
  OBVIOUS
<1>1. \A u \in Users : Active(u)
  BY DEF Init, Active
<1>2. ASSUME NEW s \in Established
      PROVE  LET u == FirstId[s]
             IN  {Organization(u), Member(u, u, "OWNER"), Workspace(u, u)} \subseteq docs /\ u \in Users
  BY FirstIdAssumption DEF Init
<1>3. ASSUME NEW s \in Established PROVE IsMember(FirstId[s], FirstId[s])
  <2>1. PICK m : m = Member(FirstId[s], FirstId[s], "OWNER") /\ m \in docs
    BY <1>2
  <2>2. m.kind = "member" /\ m.org = FirstId[s] /\ m.user = FirstId[s]
    BY <2>1 DEF Member
  <2> QED BY <2>1, <2>2 DEF IsMember, MembersOf, Of
<1>4. ASSUME NEW x \in docs PROVE DocSound(x)
  <2>1. \/ \E s \in Established : LET u == FirstId[s]
              IN x \in {User(u, s), Identity(s, u), Organization(u), Member(u, u, "OWNER"), Workspace(u, u)}
        \/ \E b \in Browsers : /\ Cookies[b] # None
                               /\ LET u == FirstId[Cookies[b]] IN x = Session(b, u, u)
    BY DEF Init
  <2>2. ASSUME NEW s \in Established, NEW u, u = FirstId[s],
               x \in {User(u, s), Identity(s, u), Organization(u), Member(u, u, "OWNER"), Workspace(u, u)}
        PROVE  DocSound(x)
    <3>1. IsMember(u, u) /\ Organization(u) \in docs /\ Workspace(u, u) \in docs /\ Active(u)
      BY <1>1, <1>2, <1>3, <2>2
    <3>2. CASE x \in {User(u, s), Identity(s, u)}
      <4>1. x.kind \in {"user", "identity"}
        BY <3>2 DEF User, Identity
      <4> QED BY <4>1 DEF DocSound
    <3>3. CASE x = Organization(u)
      <4>1. x.kind = "organization" /\ x.org = u
        BY <3>3 DEF Organization
      <4> QED BY <3>1, <4>1 DEF DocSound
    <3>4. CASE x = Member(u, u, "OWNER")
      <4>1. x.kind = "member" /\ x.org = u /\ x.user = u
        BY <3>4 DEF Member
      <4> QED BY <3>1, <4>1 DEF DocSound
    <3>5. CASE x = Workspace(u, u)
      <4>1. x.kind = "workspace" /\ x.org = u /\ x.user = u
        BY <3>5 DEF Workspace
      <4> QED BY <3>1, <4>1 DEF DocSound
    <3> QED BY <2>2, <3>2, <3>3, <3>4, <3>5
  <2>3. ASSUME NEW b \in Browsers, Cookies[b] # None, NEW u, u = FirstId[Cookies[b]], x = Session(b, u, u)
        PROVE  DocSound(x)
    <3>1. Cookies[b] \in Established
      BY <2>3, FirstIdAssumption
    <3>2. IsMember(u, u)
      BY <1>3, <2>3, <3>1
    <3>3. x.kind = "session" /\ x.org = u /\ x.user = u
      BY <2>3 DEF Session
    <3> QED BY <3>2, <3>3 DEF DocSound
  <2> QED BY <2>1, <2>2, <2>3
<1>5. \A b \in Browsers : SigninSound(signin[b])
  BY DEF Init, NoSignin, SigninSound
<1>6. \A d \in Sweepers : SweepSound(sweep[d])
  BY NoSweepSound DEF Init
<1> QED BY <1>1, <1>4, <1>5, <1>6 DEF SweepsCoherent, MarkerSound, ErasedOnceComplete

LEMMA AccountsCoherent == Spec => [](InProgress /\ SweepsCoherent)
<1>1. Init => InProgress /\ SweepsCoherent
  BY InitTyped, InitCoherent
<1>2. InProgress /\ SweepsCoherent /\ [Next]_vars => (InProgress /\ SweepsCoherent)'
  BY StepTyped, StepCoherent
<1> QED BY <1>1, <1>2, PTL DEF Spec

\* Once a deletion is complete nothing of the account is left in the store, wherever its
\* sweeps were interrupted, however many of them ran at once, and whatever sign-ins,
\* invitations, requests and settings others wrote meanwhile.
THEOREM NothingIsLeft == Spec => []ErasedOnceComplete
<1>1. SweepsCoherent => ErasedOnceComplete
  BY DEF SweepsCoherent
<1> QED BY <1>1, AccountsCoherent, PTL

\* A member's workspace exists, the list of an active user names it, and a session is in
\* a workspace of its user, although a workspace is checked and deleted by two calls.
THEOREM MembershipsStayCoherent == Spec => []MembershipsCoherent
<1>1. SweepsCoherent => MembershipsCoherent
  <2> SUFFICES ASSUME SweepsCoherent PROVE MembershipsCoherent
    OBVIOUS
  <2>1. ASSUME NEW m \in Of("member")
        PROVE  Organization(m.org) \in docs /\ (Active(m.user) => Workspace(m.user, m.org) \in docs)
    BY DEF SweepsCoherent, DocSound, Of
  <2>2. ASSUME NEW s \in Of("session") PROVE Active(s.user) => IsMember(s.user, s.org)
    BY DEF SweepsCoherent, DocSound, Of
  <2> QED BY <2>1, <2>2 DEF MembershipsCoherent
<1> QED BY <1>1, AccountsCoherent, PTL

-----------------------------------------------------------------------------
(* One active user for a Google account, and an owner for a workspace.     *)

\* User and identity documents come and go with sign-ins and deletions only,
IdentitiesKept ==
    /\ \A d \in docs' \ docs : d.kind \notin {"user", "identity"}
    /\ \A d \in docs \ docs' : d.kind = "identity" => ~Active(d.user)

\* an active owner stays one,
OwnersKept ==
    \A d \in docs \ docs' : (d.kind = "member" /\ d.role = "OWNER" /\ Active(d.user))
                                => Member(d.org, d.user, "OWNER") \in docs'

\* and a step writes a few documents.
FewWritten == IsFiniteSet(docs' \ docs)

Modest == IdentitiesKept /\ OwnersKept /\ FewWritten

LEMMA FewFinite ==
    ASSUME NEW S, NEW a, NEW b, NEW c, S \subseteq {a, b, c}
    PROVE  IsFiniteSet(S)
<1>1. IsFiniteSet({a})
  BY FS_Singleton
<1>2. IsFiniteSet({a} \cup {b})
  BY <1>1, FS_AddElement
<1>3. IsFiniteSet(({a} \cup {b}) \cup {c})
  BY <1>2, FS_AddElement
<1>4. S \in SUBSET (({a} \cup {b}) \cup {c})
  OBVIOUS
<1> QED BY <1>3, <1>4, FS_Subset

LEMMA NothingWritten ==
    ASSUME docs' \subseteq docs
    PROVE  FewWritten
<1>1. docs' \ docs = {}
  OBVIOUS
<1> QED BY <1>1, FS_EmptySet DEF FewWritten

LEMMA UnchangedModest ==
    ASSUME docs' = docs
    PROVE  Modest
BY NothingWritten DEF Modest, IdentitiesKept, OwnersKept

LEMMA RequestingModest ==
    ASSUME InProgress, NEW i \in known, Requesting(i)
    PROVE  Modest
<1>1. ASSUME NEW a, NEW b, NEW c, docs' \ docs \subseteq {a, b, c},
             \A x \in {a, b, c} : x.kind \notin {"user", "identity"},
             \A x \in docs \ docs' : x.kind \notin {"member", "identity"}
      PROVE  Modest
  <2>1. FewWritten
    BY <1>1, FewFinite DEF FewWritten
  <2> QED BY <1>1, <2>1 DEF Modest, IdentitiesKept, OwnersKept
<1>2. ASSUME NEW d \in Of("session"), NEW o \in Users, SwitchWorkspace(i, d, o) PROVE Modest
  <2>1. PICK a, b : a = Session(d.browser, d.user, o) /\ b = Audit(o, i.user, None)
    OBVIOUS
  <2>2. a.kind = "session" /\ b.kind = "audit"
    BY <2>1 DEF Session, Audit
  <2>3. docs' = (docs \ {d}) \cup {a, b} /\ d.kind = "session"
    BY <1>2, <2>1 DEF SwitchWorkspace, Store, Of
  <2> QED BY <1>1, <2>2, <2>3
<1>3. ASSUME NEW role \in Offered, CreateInvitation(i, role) PROVE Modest
  <2>1. PICK a, b : a = Invitation(i.org, i.user, role) /\ b = Audit(i.org, i.user, None)
    OBVIOUS
  <2>2. a.kind = "invitation" /\ b.kind = "audit"
    BY <2>1 DEF Invitation, Audit
  <2>3. docs' = docs \cup {a, b}
    BY <1>3, <2>1 DEF CreateInvitation, Store
  <2> QED BY <1>1, <2>2, <2>3
<1>4. ASSUME NEW inv \in Of("invitation"), AcceptInvitation(i, inv) PROVE Modest
  <2>1. PICK a, b, c : /\ a = Member(inv.org, i.user, inv.role) /\ b = Workspace(i.user, inv.org)
                       /\ c = Audit(inv.org, i.user, None)
    OBVIOUS
  <2>2. a.kind = "member" /\ b.kind = "workspace" /\ c.kind = "audit"
    BY <2>1 DEF Member, Workspace, Audit
  <2>3. docs' \ docs \subseteq {a, b, c} /\ docs \ docs' \subseteq {inv} /\ inv.kind = "invitation"
    BY <1>4, <2>1 DEF AcceptInvitation, Store, Of
  <2> QED BY <1>1, <2>2, <2>3
<1>5. ASSUME NEW v \in Users, CreateRequest(i, v) PROVE Modest
  <2>1. PICK r : r = Request(i.user, v, i.org)
    OBVIOUS
  <2>2. PICK a, b : a = Note(v, r) /\ b = Audit(i.org, i.user, r)
    OBVIOUS
  <2>3. r.kind = "request" /\ a.kind = "note" /\ b.kind = "audit"
    BY <2>1, <2>2 DEF Request, Note, Audit
  <2>4. docs' = docs \cup {r, a, b}
    BY <1>5, <2>1, <2>2 DEF CreateRequest, Store
  <2> QED BY <1>1, <2>3, <2>4
<1>6. ASSUME NEW r \in Of("request"), ChangeRequest(i, r) PROVE Modest
  <2>1. PICK a, b, c : a = Note(r.from, r) /\ b = Note(r.to, r) /\ c = Audit(r.org, i.user, r)
    OBVIOUS
  <2>2. a.kind = "note" /\ b.kind = "note" /\ c.kind = "audit"
    BY <2>1 DEF Note, Audit
  <2>3. docs \subseteq docs' /\ docs' \ docs \subseteq {a, b, c}
    BY <1>6, <2>1 DEF ChangeRequest, Store, Participants
  <2> QED BY <1>1, <2>2, <2>3
<1>7. ASSUME SaveSettings(i) PROVE Modest
  <2>1. PICK a : a = Settings(i.user)
    OBVIOUS
  <2>2. a.kind = "settings"
    BY <2>1 DEF Settings
  <2>3. docs' = docs \cup {a}
    BY <1>7, <2>1 DEF SaveSettings, Store
  <2> QED BY <1>1, <2>2, <2>3
<1>8. ASSUME NEW d \in Deleters, BeginAccountDeletion(d, i.user) PROVE Modest
  BY <1>8, UnchangedModest DEF BeginAccountDeletion
<1> QED BY <1>2, <1>3, <1>4, <1>5, <1>6, <1>7, <1>8 DEF Requesting, Switches, Invites, Accepts, DeletesAccount

LEMMA TransferModest ==
    ASSUME InProgress, NEW m \in Of("member"), TransferOwnership(m)
    PROVE  Modest
<1>1. PICK a : a = Member(m.org, m.user, "OWNER")
  OBVIOUS
<1>2. a.kind = "member"
  BY <1>1 DEF Member
<1>3. docs' = (docs \ {m}) \cup {a} /\ m.role # "OWNER" /\ m.kind = "member"
  BY <1>1 DEF TransferOwnership, Store, Of
<1>4. FewWritten
  BY <1>3, FewFinite DEF FewWritten
<1> QED BY <1>2, <1>3, <1>4 DEF Modest, IdentitiesKept, OwnersKept

LEMMA CreateWorkspaceModest ==
    ASSUME InProgress, NEW b \in Browsers, CreateWorkspace(b)
    PROVE  Modest
<1>1. PICK c : c = signin[b]
  OBVIOUS
<1>2. CASE docs' = docs
  BY <1>2, UnchangedModest
<1>3. CASE docs' = (docs \ {d \in MembersOf(c.user) : d.user = c.user})
                   \cup {Organization(c.user), Member(c.user, c.user, "OWNER"), Workspace(c.user, c.user)}
  <2>1. PICK g, m, w : /\ g = Organization(c.user) /\ m = Member(c.user, c.user, "OWNER")
                       /\ w = Workspace(c.user, c.user)
    OBVIOUS
  <2>2. g.kind = "organization" /\ m.kind = "member" /\ w.kind = "workspace"
    BY <2>1 DEF Organization, Member, Workspace
  <2>3. /\ docs' \ docs \subseteq {g, m, w} /\ m \in docs'
        /\ \A d \in docs \ docs' : d.kind = "member" /\ d.user = c.user /\ d.org = c.user
    BY <1>3, <2>1 DEF MembersOf, Of
  <2>4. FewWritten
    BY <2>3, FewFinite DEF FewWritten
  <2> QED BY <2>1, <2>2, <2>3, <2>4 DEF Modest, IdentitiesKept, OwnersKept
<1> QED BY <1>1, <1>2, <1>3 DEF CreateWorkspace

\* A sweep deletes what belongs to an account that leaves.
LEMMA DeletingModest ==
    ASSUME InProgress, SweepsCoherent, NEW d \in Sweepers, Deleting(d)
    PROVE  Modest
<1>1. PICK c : c = sweep[d] /\ c \in SweepState /\ SweepInProgress(c) /\ SweepSound(c)
  BY CallsTyped DEF SweepsCoherent
<1>2. ASSUME docs' \subseteq docs, \A x \in docs \ docs' : x.kind \in {"member", "identity"} => ~Active(x.user)
      PROVE  Modest
  BY <1>2, NothingWritten DEF Modest, IdentitiesKept, OwnersKept
<1>3. CASE docs' = docs
  BY <1>3, UnchangedModest
<1>4. CASE EraseOne(d)
  <2>1. PICK x \in c.todo : docs' = docs \ {x}
    BY <1>1, <1>4 DEF EraseOne
  <2>2. c.pc # "idle"
    BY <1>1, <2>1 DEF SweepInProgress
  <2>3. x.kind \in Gone("leave") /\ x.kind = c.pc /\ (c.pc \notin {"note", "audit"} => x.user = c.user)
        /\ ~Active(c.user)
    BY <1>1, <2>1, <2>2 DEF SweepSound
  <2> QED BY <1>2, <2>1, <2>3
<1>5. CASE NextOfRequest(d)
  <2>1. CASE docs' = docs \ {c.at} /\ c.at # None
    <3>1. c.at.kind = "request"
      BY <1>1, <2>1, RequestFields DEF SweepState
    <3> QED BY <1>2, <2>1, <3>1
  <2> QED BY <1>1, <1>3, <1>5, <2>1 DEF NextOfRequest
<1>6. CASE LeaveWorkspace(d)
  <2>1. ~Active(c.user)
    BY <1>1, <1>6 DEF SweepSound, LeaveWorkspace
  <2> QED BY <1>1, <1>2, <1>6, <2>1 DEF LeaveWorkspace, MembersOf, Of
<1>7. CASE DropWorkspace(d)
  <2>1. \A x \in docs \ docs' : x.kind = "organization"
    BY <1>7 DEF DropWorkspace, Organization
  <2> QED BY <1>2, <1>7, <2>1 DEF DropWorkspace
<1>8. CASE CompleteDeletion(d)
  <2>1. \A x \in docs \ docs' : x.kind = "user"
    BY <1>8 DEF CompleteDeletion, Of
  <2> QED BY <1>2, <1>8, <2>1 DEF CompleteDeletion
<1>9. CASE TakeRequest(d) \/ NextStage(d) \/ LeaveWorkspaces(d) \/ CheckWorkspace(d)
  BY <1>3, <1>9 DEF TakeRequest, NextStage, LeaveWorkspaces, CheckWorkspace
<1> QED BY <1>4, <1>5, <1>6, <1>7, <1>8, <1>9 DEF Deleting

\* Every step is modest, but for the one that writes an identity.
LEMMA StepModest ==
    ASSUME InProgress, SweepsCoherent, [Next]_vars
    PROVE  Modest \/ \E b \in Browsers : WriteIdentity(b)
<1>1. CASE UNCHANGED vars
  BY <1>1, UnchangedModest DEF vars
<1>2. ASSUME NEW b \in Browsers, SigningIn(b), ~WriteIdentity(b) PROVE Modest
  <2>1. CASE CreateWorkspace(b)
    BY <2>1, CreateWorkspaceModest
  <2>2. CASE CreateSession(b)
    <3>1. PICK x : x = Session(b, signin[b].user, signin[b].org)
      OBVIOUS
    <3>2. x.kind = "session"
      BY <3>1 DEF Session
    <3>3. docs \subseteq docs' /\ docs' \ docs \subseteq {x, x, x}
      BY <2>2, <3>1 DEF CreateSession
    <3>4. FewWritten
      BY <3>3, FewFinite DEF FewWritten
    <3> QED BY <3>2, <3>3, <3>4 DEF Modest, IdentitiesKept, OwnersKept
  <2>3. CASE (\E s \in Subjects : ReadIdentity(b, s)) \/ MatchEmail(b) \/ ReadMarker(b) \/ ListWorkspaces(b)
    BY <2>3, UnchangedModest DEF ReadIdentity, MatchEmail, ReadMarker, ListWorkspaces
  <2> QED BY <1>2, <2>1, <2>2, <2>3 DEF SigningIn
<1>3. ASSUME NEW b \in Browsers, Authenticate(b) \/ Logout(b) PROVE Modest
  <2>1. docs' \subseteq docs /\ \A x \in docs \ docs' : x.kind = "session"
    BY <1>3 DEF Authenticate, Logout, Store, Of
  <2> QED BY <2>1, NothingWritten DEF Modest, IdentitiesKept, OwnersKept
<1>4. CASE (\E d \in Sweepers : Interrupted(d)) \/ Cleaning
  BY <1>4, UnchangedModest DEF Interrupted, Cleaning, ListPending, ResumeAccountDeletion, StopCleanup
<1> QED BY <1>1, <1>2, <1>3, <1>4, RequestingModest, TransferModest, DeletingModest DEF Next

\* That one writes a user and its identity, if the account is still mapped as it was
\* when the sign-in began.
LEMMA WriteIdentityWrites ==
    ASSUME InProgress, NEW b \in Browsers, WriteIdentity(b)
    PROVE  /\ OwnersKept /\ FewWritten
           /\ \/ docs' = docs
              \/ /\ Active(signin[b].user) /\ IdentityUnchanged(signin[b])
                 /\ docs' = {d \in docs : ~(d.kind = "user" /\ d.user = signin[b].user)
                                          /\ ~(d.kind = "identity" /\ d.subject = signin[b].subject)}
                            \cup {User(signin[b].user, signin[b].subject),
                                  Identity(signin[b].subject, signin[b].user)}
<1>1. PICK c : c = signin[b]
  OBVIOUS
<1>2. CASE docs' = docs
  BY <1>2, UnchangedModest DEF Modest
<1>3. CASE /\ Active(c.user) /\ IdentityUnchanged(c)
           /\ docs' = {d \in docs : ~(d.kind = "user" /\ d.user = c.user)
                                    /\ ~(d.kind = "identity" /\ d.subject = c.subject)}
                      \cup {User(c.user, c.subject), Identity(c.subject, c.user)}
  <2>1. PICK x, y : x = User(c.user, c.subject) /\ y = Identity(c.subject, c.user)
    OBVIOUS
  <2>2. docs' \ docs \subseteq {x, y, y} /\ \A d \in docs \ docs' : d.kind \in {"user", "identity"}
    BY <1>3, <2>1
  <2>3. FewWritten
    BY <2>2, FewFinite DEF FewWritten
  <2> QED BY <1>1, <1>3, <2>2, <2>3 DEF OwnersKept
<1> QED BY <1>1, <1>2, <1>3 DEF WriteIdentity

\* Markers are set as a deletion begins and as it completes,
LEMMA MarkersBegun ==
    ASSUME InProgress, [Next]_vars
    PROVE  \/ marker' = marker
           \/ \E d \in Deleters, u \in Users : BeginAccountDeletion(d, u)
           \/ \E d \in Sweepers : CompleteDeletion(d)
<1>1. ASSUME NEW i \in known, Requesting(i)
      PROVE  marker' = marker \/ \E d \in Deleters, u \in Users : BeginAccountDeletion(d, u)
  <2>1. i.user \in Users
    BY CallsTyped
  <2> QED BY <1>1, <2>1 DEF Requesting, Switches, Invites, Accepts, DeletesAccount, SwitchWorkspace,
             CreateInvitation, AcceptInvitation, CreateRequest, ChangeRequest, SaveSettings, Store
<1>2. ASSUME NEW d, Deleting(d) PROVE marker' = marker \/ CompleteDeletion(d)
  BY <1>2 DEF Deleting, TakeRequest, EraseOne, NextOfRequest, NextStage, LeaveWorkspaces, LeaveWorkspace,
              CheckWorkspace, DropWorkspace
<1>3. ASSUME NEW b, SigningIn(b) PROVE marker' = marker
  BY <1>3 DEF SigningIn, ReadIdentity, MatchEmail, ReadMarker, WriteIdentity, ListWorkspaces, CreateWorkspace,
              CreateSession, Signin
<1>4. CASE \/ UNCHANGED vars \/ Cleaning \/ (\E d \in Sweepers : Interrupted(d))
           \/ \E b \in Browsers : Authenticate(b) \/ Logout(b)
           \/ \E m \in Of("member") : TransferOwnership(m)
  BY <1>4 DEF vars, Cleaning, ListPending, ResumeAccountDeletion, StopCleanup, Interrupted, Authenticate,
              Logout, TransferOwnership, Store
<1> QED BY <1>1, <1>2, <1>3, <1>4 DEF Next

\* and are never taken back.
LEMMA LeavingIsFinal ==
    ASSUME InProgress, [Next]_vars
    PROVE  \A u \in Users : ~Active(u) => ~Active(u)'
<1>1. DOMAIN marker = Users
  BY DEF InProgress, TypeOK
<1>2. CASE marker' = marker
  BY <1>2 DEF Active
<1>3. ASSUME NEW u, NEW m \in Marker, marker' = [marker EXCEPT ![u] = m]
      PROVE  \A v \in Users : ~Active(v) => ~Active(v)'
  BY <1>1, <1>3, NoneAssumption DEF Active
<1>4. ASSUME NEW d, NEW u, BeginAccountDeletion(d, u) PROVE \A v \in Users : ~Active(v) => ~Active(v)'
  <2>1. CASE Active(u)
    <3>1. PICK orgs \in SUBSET Users : marker' = [marker EXCEPT ![u] = [phase |-> "deleting", orgs |-> orgs]]
      BY <1>4, <2>1 DEF BeginAccountDeletion
    <3>2. [phase |-> "deleting", orgs |-> orgs] \in Marker
      BY DEF Marker
    <3> QED BY <1>3, <3>1, <3>2
  <2>2. CASE ~Active(u)
    BY <1>2, <1>4, <2>2 DEF BeginAccountDeletion
  <2> QED BY <2>1, <2>2
<1>5. ASSUME NEW d, CompleteDeletion(d) PROVE \A v \in Users : ~Active(v) => ~Active(v)'
  <2>1. [phase |-> "complete", orgs |-> {}] \in Marker
    BY DEF Marker
  <2> QED BY <1>3, <1>5, <2>1 DEF CompleteDeletion
<1> QED BY <1>2, <1>4, <1>5, MarkersBegun

\* Who becomes inactive has begun to leave.
LEMMA LeavingIsBegun ==
    ASSUME InProgress, SweepsCoherent, [Next]_vars, NEW u \in Users, Active(u), ~Active(u)'
    PROVE  \E d \in Deleters, v \in Users : BeginAccountDeletion(d, v)
<1>1. marker' # marker
  BY DEF Active
<1>2. ASSUME NEW d \in Sweepers, CompleteDeletion(d) PROVE FALSE
  <2>1. PICK c : c = sweep[d] /\ c.pc = "leave" /\ SweepSound(c)
    BY <1>2 DEF SweepsCoherent, CompleteDeletion
  <2>2. ~Active(c.user)
    BY <2>1 DEF SweepSound
  <2> QED BY <1>2, <2>1, <2>2 DEF CompleteDeletion, Active, InProgress, TypeOK
<1> QED BY <1>1, <1>2, MarkersBegun

\* A sign-in that was mapped, stays so.
LEMMA MappingStays ==
    ASSUME InProgress, [Next]_vars, NEW c \in SigninState, SigninMapped(c)
    PROVE  SigninMapped(c)'
<1>1. c.prior # None => c.prior \in Users
  BY DEF SigninState
<1> QED BY <1>1, LeavingIsFinal DEF SigninMapped

\* The steps of a sign-in keep to the mapping that it read.
LEMMA SigninStaysMapped ==
    ASSUME InProgress, IdentitiesSound, [Next]_vars, NEW b \in Browsers, SigningIn(b)
    PROVE  \A a \in Browsers : SigninMapped(signin[a])'
<1>1. ASSUME NEW c, Signin(b, c), SigninMapped(c)' PROVE \A a \in Browsers : SigninMapped(signin[a])'
  <2> SUFFICES ASSUME NEW a \in Browsers PROVE SigninMapped(signin[a])'
    OBVIOUS
  <2>1. signin'[a] = IF a = b THEN c ELSE signin[a]
    BY <1>1 DEF Signin, InProgress, TypeOK
  <2>2. PICK e : e = signin[a] /\ e \in SigninState /\ SigninMapped(e)
    BY CallsTyped DEF IdentitiesSound
  <2>3. SigninMapped(e)'
    BY <2>2, MappingStays
  <2> QED BY <1>1, <2>1, <2>2, <2>3 DEF SigninMapped
<1>2. ASSUME NEW c, Signin(b, c), c.pc \notin {"match", "marker", "upsert"}
      PROVE  \A a \in Browsers : SigninMapped(signin[a])'
  <2>1. SigninMapped(c)'
    BY <1>2 DEF SigninMapped
  <2> QED BY <1>1, <1>2, <2>1
<1>3. NoSignin.pc \notin {"match", "marker", "upsert"}
  BY DEF NoSignin
<1>4. PICK a : a = signin[b] /\ a \in SigninState /\ SigninMapped(a) /\ SigninInProgress(a)
  BY CallsTyped DEF IdentitiesSound
<1>5. ASSUME NEW s \in Subjects, ReadIdentity(b, s) PROVE \A e \in Browsers : SigninMapped(signin[e])'
  <2>1. PICK prior : Signin(b, [NoSignin EXCEPT !.pc = "match", !.subject = s, !.prior = prior, !.user = prior])
    BY <1>5 DEF ReadIdentity
  <2>2. PICK c : c = [NoSignin EXCEPT !.pc = "match", !.subject = s, !.prior = prior, !.user = prior]
    OBVIOUS
  <2>3. c.pc = "match" /\ c.user = prior /\ c.prior = prior
    BY <2>2 DEF NoSignin
  <2>4. SigninMapped(c)'
    BY <2>3 DEF SigninMapped
  <2> QED BY <1>1, <2>1, <2>2, <2>4
<1>6. ASSUME MatchEmail(b) PROVE \A e \in Browsers : SigninMapped(signin[e])'
  <2>1. PICK u : /\ Signin(b, [a EXCEPT !.pc = "marker", !.user = u])
                 /\ a.prior # None => u = a.prior
    BY <1>4, <1>6 DEF MatchEmail
  <2>2. PICK c : c = [a EXCEPT !.pc = "marker", !.user = u]
    OBVIOUS
  <2>3. c.pc = "marker" /\ c.user = u /\ c.prior = a.prior
    BY <1>4, <2>2 DEF SigninState
  <2>4. SigninMapped(c)'
    BY <2>1, <2>3 DEF SigninMapped
  <2> QED BY <1>1, <2>1, <2>2, <2>4
<1>7. ASSUME ReadMarker(b) PROVE \A e \in Browsers : SigninMapped(signin[e])'
  <2>1. a.pc = "marker" /\ a.user \in Users /\ UNCHANGED marker
    BY <1>4, <1>7 DEF ReadMarker, SigninInProgress, Signin
  <2>2. PICK c : Signin(b, c) /\ \/ c = [a EXCEPT !.pc = "upsert"]
                                 \/ c = NoSignin
                                 \/ ~Active(a.user) /\ \E u : c = [a EXCEPT !.pc = "upsert", !.user = u]
    BY <1>4, <1>7 DEF ReadMarker
  <2>3. CASE c = [a EXCEPT !.pc = "upsert"]
    <3>1. c.pc = "upsert" /\ c.user = a.user /\ c.prior = a.prior
      BY <1>4, <2>3 DEF SigninState
    <3>2. SigninMapped(c)'
      BY <1>4, <2>1, <3>1 DEF SigninMapped
    <3> QED BY <1>1, <2>2, <3>2
  <2>4. CASE c = NoSignin
    BY <1>2, <1>3, <2>2, <2>4
  <2>5. ASSUME NEW u, ~Active(a.user), c = [a EXCEPT !.pc = "upsert", !.user = u]
        PROVE  \A e \in Browsers : SigninMapped(signin[e])'
    <3>1. c.pc = "upsert" /\ c.prior = a.prior
      BY <1>4, <2>5 DEF SigninState
    <3>2. c.prior # None => ~Active(c.prior)'
      BY <1>4, <2>1, <2>5, <3>1 DEF SigninMapped, Active
    <3>3. SigninMapped(c)'
      BY <3>1, <3>2 DEF SigninMapped
    <3> QED BY <1>1, <2>2, <3>3
  <2> QED BY <2>2, <2>3, <2>4, <2>5
<1>8. ASSUME WriteIdentity(b) \/ ListWorkspaces(b) \/ CreateWorkspace(b) \/ CreateSession(b)
      PROVE  \A e \in Browsers : SigninMapped(signin[e])'
  <2>1. /\ [a EXCEPT !.pc = "list"].pc = "list" /\ [a EXCEPT !.pc = "create"].pc = "create"
        /\ \A o : [a EXCEPT !.pc = "session", !.org = o].pc = "session"
    BY <1>4 DEF SigninState
  <2>2. PICK c : Signin(b, c) /\ c.pc \notin {"match", "marker", "upsert"}
    <3>1. CASE WriteIdentity(b)
      BY <1>3, <1>4, <2>1, <3>1 DEF WriteIdentity
    <3>2. CASE ListWorkspaces(b)
      BY <1>3, <1>4, <2>1, <3>2 DEF ListWorkspaces
    <3>3. CASE CreateWorkspace(b)
      BY <1>3, <1>4, <2>1, <3>3 DEF CreateWorkspace
    <3>4. CASE CreateSession(b)
      BY <1>3, <3>4 DEF CreateSession
    <3> QED BY <1>8, <3>1, <3>2, <3>3, <3>4
  <2> QED BY <1>2, <2>2
<1> QED BY <1>5, <1>6, <1>7, <1>8 DEF SigningIn

LEMMA SigningInAlone ==
    ASSUME [Next]_vars
    PROVE  signin' = signin \/ \E b \in Browsers : SigningIn(b)
<1>1. ASSUME NEW i, Requesting(i) PROVE signin' = signin
  BY <1>1 DEF Requesting, Switches, Invites, Accepts, DeletesAccount, SwitchWorkspace, CreateInvitation,
           AcceptInvitation, CreateRequest, ChangeRequest, SaveSettings, Store, BeginAccountDeletion
<1>2. ASSUME NEW d, Deleting(d) PROVE signin' = signin
  BY <1>2 DEF Deleting, TakeRequest, EraseOne, NextOfRequest, NextStage, LeaveWorkspaces, LeaveWorkspace,
              CheckWorkspace, DropWorkspace, CompleteDeletion, Swept
<1>3. CASE \/ UNCHANGED vars \/ Cleaning \/ (\E d \in Sweepers : Interrupted(d))
           \/ \E b \in Browsers : Authenticate(b) \/ Logout(b)
           \/ \E m \in Of("member") : TransferOwnership(m)
  BY <1>3 DEF vars, Cleaning, ListPending, ResumeAccountDeletion, StopCleanup, Interrupted, Authenticate,
              Logout, TransferOwnership, Store, Swept
<1> QED BY <1>1, <1>2, <1>3 DEF Next

\* The mapping is compared in the transaction that writes it: an active user whose
\* identity is replaced is the one that is written.
LEMMA StepIdentities ==
    ASSUME InProgress, SweepsCoherent, IdentitiesSound, [Next]_vars
    PROVE  IdentitiesSound'
<1>1. \A b \in Browsers : SigninMapped(signin[b])'
  <2>1. CASE signin' = signin
    <3> SUFFICES ASSUME NEW b \in Browsers PROVE SigninMapped(signin[b])'
      OBVIOUS
    <3>1. PICK e : e = signin[b] /\ e \in SigninState /\ SigninMapped(e)
      BY CallsTyped DEF IdentitiesSound
    <3>2. SigninMapped(e)'
      BY <3>1, MappingStays
    <3> QED BY <2>1, <3>1, <3>2 DEF SigninMapped
  <2>2. CASE \E b \in Browsers : SigningIn(b)
    BY <2>2, SigninStaysMapped
  <2> QED BY <2>1, <2>2, SigningInAlone
<1>2. \A u \in Users : Active(u)' => Active(u)
  BY LeavingIsFinal
<1>3. docs \subseteq Documents
  BY CallsTyped
<1>4. \A s, u : Identity(s, u).kind = "identity" /\ Identity(s, u).user = u /\ Identity(s, u).subject = s
  BY DEF Identity
<1>5. CASE IdentitiesKept
  <2>1. ASSUME NEW d \in Of("user")', Active(d.user)' PROVE Identity(d.email, d.user) \in docs'
    <3>1. d \in docs /\ d.kind = "user" /\ d.user \in Users
      BY <1>3, <1>5, <2>1, DocumentFields DEF Of, IdentitiesKept
    <3>2. Active(d.user)
      BY <1>2, <2>1, <3>1
    <3>3. Identity(d.email, d.user) \in docs
      BY <3>1, <3>2 DEF IdentitiesSound, Of
    <3> QED BY <1>4, <1>5, <3>2, <3>3 DEF IdentitiesKept
  <2>2. ASSUME NEW d \in Of("identity")', NEW e \in Of("identity")', d.subject = e.subject PROVE d.user = e.user
    <3>1. d \in Of("identity") /\ e \in Of("identity")
      BY <1>5, <2>2 DEF Of, IdentitiesKept
    <3> QED BY <2>2, <3>1 DEF IdentitiesSound
  <2> QED BY <1>1, <2>1, <2>2 DEF IdentitiesSound
<1>6. ASSUME NEW b \in Browsers, WriteIdentity(b), docs' # docs PROVE IdentitiesSound'
  <2>1. PICK c : /\ c = signin[b] /\ c \in SigninState /\ SigninMapped(c) /\ c.pc = "upsert"
                 /\ c.user \in Users /\ c.subject \in Subjects
    BY <1>6, CallsTyped DEF IdentitiesSound, WriteIdentity, SigninInProgress
  <2>2. PICK x, y : x = User(c.user, c.subject) /\ y = Identity(c.subject, c.user)
    OBVIOUS
  <2>3. /\ Active(c.user) /\ IdentityUnchanged(c)
        /\ docs' = {d \in docs : ~(d.kind = "user" /\ d.user = c.user)
                                 /\ ~(d.kind = "identity" /\ d.subject = c.subject)} \cup {x, y}
    BY <1>6, <2>1, <2>2, WriteIdentityWrites
  <2>4. /\ x.kind = "user" /\ x.user = c.user /\ x.email = c.subject
        /\ y.kind = "identity" /\ y.user = c.user /\ y.subject = c.subject
    BY <2>2 DEF User, Identity
  <2>5. ASSUME NEW d \in docs, d.kind = "identity", d.subject = c.subject, Active(d.user)
        PROVE  d.user = c.user
    <3>1. d.user \in {c.prior} \ {None}
      BY <2>3, <2>5 DEF IdentityUnchanged, Of
    <3> QED BY <2>1, <2>5, <3>1 DEF SigninMapped
  <2>6. ASSUME NEW d \in Of("user")', Active(d.user)' PROVE Identity(d.email, d.user) \in docs'
    <3>1. CASE d = x
      BY <2>2, <2>3, <2>4, <3>1
    <3>2. CASE d # x
      <4>1. d \in docs /\ d.kind = "user" /\ d.user # c.user /\ d.user \in Users
        <5>1. d \in docs' /\ d.kind = "user"
          BY <2>6 DEF Of
        <5>2. d \in docs /\ d.user # c.user
          BY <2>3, <2>4, <3>2, <5>1
        <5> QED BY <1>3, <5>1, <5>2, DocumentFields
      <4>2. Active(d.user)
        BY <1>2, <2>6, <4>1
      <4>3. PICK i : i = Identity(d.email, d.user)
        OBVIOUS
      <4>4. i \in docs /\ i.kind = "identity" /\ i.user = d.user
        BY <1>4, <4>1, <4>2, <4>3 DEF IdentitiesSound, Of
      <4>5. i.subject # c.subject
        BY <2>5, <4>1, <4>2, <4>4
      <4> QED BY <2>3, <4>3, <4>4, <4>5
    <3> QED BY <3>1, <3>2
  <2>7. ASSUME NEW d \in Of("identity")', NEW e \in Of("identity")', d.subject = e.subject PROVE d.user = e.user
    <3>1. \A i \in Of("identity")' : i = y \/ (i \in Of("identity") /\ i.subject # c.subject)
      BY <2>3, <2>4 DEF Of
    <3> QED BY <2>4, <2>7, <3>1 DEF IdentitiesSound
  <2> QED BY <1>1, <2>6, <2>7 DEF IdentitiesSound
<1>7. CASE docs' = docs
  BY <1>5, <1>7, UnchangedModest DEF Modest
<1> QED BY <1>5, <1>6, <1>7, StepModest DEF Modest

LEMMA InitIdentities == Init => IdentitiesSound
<1> SUFFICES ASSUME Init PROVE IdentitiesSound
  OBVIOUS
<1>1. ASSUME NEW x \in docs
      PROVE  \/ \E s \in Established : x = User(FirstId[s], s)
             \/ \E s \in Established : x = Identity(s, FirstId[s])
             \/ x.kind \notin {"user", "identity"}
  <2>1. \/ \E s \in Established : LET u == FirstId[s]
              IN x \in {User(u, s), Identity(s, u), Organization(u), Member(u, u, "OWNER"), Workspace(u, u)}
        \/ \E b \in Browsers : LET u == FirstId[Cookies[b]] IN x = Session(b, u, u)
    BY DEF Init
  <2> QED BY <2>1 DEF Organization, Member, Workspace, Session
<1>2. ASSUME NEW x \in Of("user") PROVE Identity(x.email, x.user) \in docs
  <2>1. PICK s \in Established : x = User(FirstId[s], s)
    BY <1>1 DEF Of, Identity
  <2>2. x.email = s /\ x.user = FirstId[s]
    BY <2>1 DEF User
  <2> QED BY <2>2 DEF Init
<1>3. \A x \in Of("identity") : x.user = FirstId[x.subject]
  <2> SUFFICES ASSUME NEW x \in Of("identity") PROVE x.user = FirstId[x.subject]
    OBVIOUS
  <2>1. PICK s \in Established : x = Identity(s, FirstId[s])
    BY <1>1 DEF Of, User
  <2> QED BY <2>1 DEF Identity
<1>4. \A b \in Browsers : SigninMapped(signin[b])
  BY DEF Init, NoSignin, SigninMapped
<1> QED BY <1>2, <1>3, <1>4 DEF IdentitiesSound

\* A Google account has at most one active user, however its sign-ins race with each
\* other and with the deletions of its former users.
THEOREM OneAccountEach == Spec => []OneAccount
<1>1. Init => IdentitiesSound
  BY InitIdentities
<1>2. InProgress /\ SweepsCoherent /\ IdentitiesSound /\ [Next]_vars => IdentitiesSound'
  BY StepIdentities
<1>3. IdentitiesSound => OneAccount
  <2> SUFFICES ASSUME IdentitiesSound, NEW s \in Subjects
               PROVE  Cardinality({u \in Users : User(u, s) \in docs /\ Active(u)}) <= 1
    BY DEF OneAccount
  <2> DEFINE S == {u \in Users : User(u, s) \in docs /\ Active(u)}
  <2>1. ASSUME NEW u \in S PROVE Identity(s, u) \in Of("identity")
    <3>1. PICK x : x = User(u, s)
      OBVIOUS
    <3>2. x \in Of("user") /\ x.user = u /\ x.email = s /\ Active(u)
      BY <2>1, <3>1 DEF User, Of
    <3> QED BY <3>2 DEF IdentitiesSound, Of, Identity
  <2>2. \A u, v \in S : u = v
    <3>1. \A u : Identity(s, u).subject = s /\ Identity(s, u).user = u
      BY DEF Identity
    <3> QED BY <2>1, <3>1 DEF IdentitiesSound
  <2> HIDE DEF S
  <2>3. CASE S = {}
    BY <2>3, FS_EmptySet DEF S
  <2>4. CASE S # {}
    <3>1. PICK u : S = {u}
      BY <2>2, <2>4
    <3>2. Cardinality({u}) = 1
      BY FS_Singleton
    <3> QED BY <3>1, <3>2 DEF S
  <2> QED BY <2>3, <2>4
<1> QED BY <1>1, <1>2, <1>3, AccountsCoherent, PTL DEF Spec

\* There are finitely many documents at any time,
LEMMA FinitelyMany == Spec => []IsFiniteSet(docs)
<1>1. Init => IsFiniteSet(docs)
  <2> SUFFICES ASSUME Init PROVE IsFiniteSet(docs)
    OBVIOUS
  <2> DEFINE start == [s \in Established |->
                           {User(FirstId[s], s), Identity(s, FirstId[s]), Organization(FirstId[s]),
                            Member(FirstId[s], FirstId[s], "OWNER"), Workspace(FirstId[s], FirstId[s])}]
             signed == [b \in Browsers |-> Session(b, FirstId[Cookies[b]], FirstId[Cookies[b]])]
             starts == {start[s] : s \in Established}
             sessions == {signed[b] : b \in Browsers}
  <2>1. IsFiniteSet(starts) /\ IsFiniteSet(sessions)
    <3>1. start \in Surjection(Established, starts) /\ signed \in Surjection(Browsers, sessions)
      BY DEF Surjection
    <3> HIDE DEF start, signed, starts, sessions
    <3> QED BY <3>1, FiniteAssumption, FS_Surjection
  <2>2. \A T \in starts : IsFiniteSet(T)
    <3> SUFFICES ASSUME NEW s \in Established PROVE IsFiniteSet(start[s])
      OBVIOUS
    <3>1. IsFiniteSet({User(FirstId[s], s), Identity(s, FirstId[s]), Organization(FirstId[s])})
      BY FewFinite
    <3>2. IsFiniteSet({Member(FirstId[s], FirstId[s], "OWNER"), Workspace(FirstId[s], FirstId[s])})
      BY FewFinite
    <3>3. IsFiniteSet({User(FirstId[s], s), Identity(s, FirstId[s]), Organization(FirstId[s])}
                      \cup {Member(FirstId[s], FirstId[s], "OWNER"), Workspace(FirstId[s], FirstId[s])})
      BY <3>1, <3>2, FS_Union
    <3>4. start[s] = {User(FirstId[s], s), Identity(s, FirstId[s]), Organization(FirstId[s])}
                     \cup {Member(FirstId[s], FirstId[s], "OWNER"), Workspace(FirstId[s], FirstId[s])}
      OBVIOUS
    <3> QED BY <3>3, <3>4
  <2>3. docs \subseteq (UNION starts) \cup sessions
    BY DEF Init
  <2> HIDE DEF starts, sessions
  <2>4. IsFiniteSet((UNION starts) \cup sessions)
    BY <2>1, <2>2, FS_UNION, FS_Union
  <2> QED BY <2>3, <2>4, FS_Subset
<1>2. IsFiniteSet(docs) /\ InProgress /\ SweepsCoherent /\ [Next]_vars => IsFiniteSet(docs)'
  <2> SUFFICES ASSUME IsFiniteSet(docs), InProgress, SweepsCoherent, [Next]_vars PROVE IsFiniteSet(docs')
    OBVIOUS
  <2>1. FewWritten
    BY StepModest, WriteIdentityWrites DEF Modest
  <2>2. IsFiniteSet(docs \cup (docs' \ docs))
    BY <2>1, FS_Union DEF FewWritten
  <2>3. docs' \in SUBSET (docs \cup (docs' \ docs))
    OBVIOUS
  <2> QED BY <2>2, <2>3, FS_Subset
<1> QED BY <1>1, <1>2, AccountsCoherent, PTL DEF Spec

\* so that the members of a workspace can be counted.
LEMMA BeginLeavesLed ==
    ASSUME InProgress, SweepsCoherent, IsFiniteSet(docs), NEW d, NEW u \in Users, BeginAccountDeletion(d, u),
           NEW o \in Users, Led(o), ~Led(o)'
    PROVE  Cardinality(MembersOf(o)) = 1
<1>1. docs' = docs
  BY DEF BeginAccountDeletion
<1>2. OwnersOf(o)' = OwnersOf(o)
  BY <1>1 DEF OwnersOf, MembersOf, Of
<1>3. PICK v \in OwnersOf(o) : Active(v) /\ ~Active(v)'
  BY <1>2 DEF Led
<1>4. Active(u) /\ v = u /\ \A w \in Users : w # u => (Active(w)' <=> Active(w))
  <2>1. v \in Users
    BY CallsTyped, DocumentFields DEF OwnersOf, MembersOf, Of
  <2>2. Active(u)
    BY <1>3 DEF BeginAccountDeletion, Active
  <2>3. \A w \in Users : w # u => (Active(w)' <=> Active(w))
    BY <2>2 DEF BeginAccountDeletion, Active, InProgress, TypeOK
  <2> QED BY <1>3, <2>1, <2>2, <2>3
<1>5. PICK m \in docs : m.kind = "member" /\ m.org = o /\ m.user = u
  BY <1>3, <1>4 DEF OwnersOf, MembersOf, Of
<1>6. Organization(o) \in docs /\ IsMember(u, o)
  BY <1>5 DEF SweepsCoherent, DocSound, IsMember, MembersOf, Of
<1>7. MayLeave(o, u)
  BY <1>4, <1>6 DEF BeginAccountDeletion
<1>8. Successors(o, u) = {}
  <2> SUFFICES ASSUME NEW w \in Successors(o, u) PROVE FALSE
    OBVIOUS
  <2>1. w \in OwnersOf(o) /\ w # u /\ Active(w) /\ w \in Users
    BY CallsTyped, DocumentFields DEF Successors, OwnersOf, MembersOf, Of
  <2> QED BY <1>2, <1>4, <2>1 DEF Led
<1>9. ~(Cardinality(MembersOf(o)) > 1)
  BY <1>3, <1>4, <1>7, <1>8 DEF MayLeave
<1>10. IsFiniteSet(MembersOf(o)) /\ MembersOf(o) # {}
  BY <1>5, FS_Subset DEF MembersOf, Of
<1>11. Cardinality(MembersOf(o)) \in Nat /\ Cardinality(MembersOf(o)) # 0
  BY <1>10, FS_CardinalityType, FS_EmptySet
<1> QED BY <1>9, <1>11

\* Nobody is refused to leave but the last active owner of a workspace with others in it,
\* and nothing else takes an active owner away.
THEOREM WorkspacesStayLed == Spec => NeverAbandoned
<1>1. IsFiniteSet(docs) /\ InProgress /\ SweepsCoherent /\ [Next]_vars => LedUnlessAlone
  <2> SUFFICES ASSUME IsFiniteSet(docs), InProgress, SweepsCoherent, [Next]_vars,
                      NEW o \in Users, Led(o), ~Led(o)'
               PROVE  Cardinality(MembersOf(o)) = 1
    BY DEF LedUnlessAlone
  <2>1. OwnersKept
    BY StepModest, WriteIdentityWrites DEF Modest
  <2>2. PICK m \in docs : m.kind = "member" /\ m.org = o /\ m.role = "OWNER" /\ Active(m.user)
    BY DEF Led, OwnersOf, MembersOf, Of
  <2>3. m.user \in OwnersOf(o)' /\ m.user \in Users
    <3>1. m.user \in Users
      BY <2>2, CallsTyped, DocumentFields
    <3>2. CASE m \in docs'
      BY <2>2, <3>1, <3>2 DEF OwnersOf, MembersOf, Of
    <3>3. CASE m \notin docs'
      <4>1. PICK x \in docs' : x = Member(o, m.user, "OWNER")
        BY <2>1, <2>2, <3>3 DEF OwnersKept
      <4>2. x.kind = "member" /\ x.org = o /\ x.role = "OWNER" /\ x.user = m.user
        BY <4>1 DEF Member
      <4> QED BY <3>1, <4>1, <4>2 DEF OwnersOf, MembersOf, Of
    <3> QED BY <3>2, <3>3
  <2>4. ~Active(m.user)'
    BY <2>3 DEF Led
  <2>5. \E d \in Deleters, u \in Users : BeginAccountDeletion(d, u)
    BY <2>2, <2>3, <2>4, LeavingIsBegun
  <2> QED BY <2>5, BeginLeavesLed
<1> QED BY <1>1, AccountsCoherent, FinitelyMany, PTL DEF Spec, NeverAbandoned

=============================================================================
