-------------------------------- MODULE Access --------------------------------
(***************************************************************************)
(* Who may do what: users, their roles and the permission profiles of the  *)
(* roles, edited by administrators whose requests may overlap, and the     *)
(* sessions of one browser, whose tabs share the tokens and log in,        *)
(* refresh and log out at the same time.                                   *)
(*                                                                         *)
(* The tokens of a pair are issued together and are one number here. Rows  *)
(* are read whole and saved whole: TypeORM writes every column in which    *)
(* the row it is given differs from the one in the table.                  *)
(***************************************************************************)
EXTENDS AccessMatrix, Naturals

CONSTANTS
  Users, Roles, Profiles, Centres, Lines,
  None,
  Tabs,           \* requests of the browser that may overlap
  Edits,          \* requests of administrators that may overlap
  InitialUsers, InitialRoles, InitialProfiles,
  LineCentre,     \* the centre of each line
  RoleCentres,    \* the centres a role is linked to
  Patches,        \* what an edit of a user may ask for
  RolePatches,    \* and of a role
  MaxTokens,      \* bound: token pairs issued
  CallLimit,      \* bound: requests
  EditLimit,      \* bound: requests of administrators among them
  FaultLimit      \* bound: lost answers and sessions that expire

ASSUME AccessAssumption ==
  /\ None \notin Users \union Roles \union Profiles \union Centres \union Lines
  /\ LineCentre \in [Lines -> Centres] /\ RoleCentres \in [Roles -> SUBSET Centres]
  /\ MaxTokens \in Nat /\ CallLimit \in Nat /\ EditLimit \in Nat /\ FaultLimit \in Nat

VARIABLES
  users, roles, profiles,
  sessions,     \* core.user_sessions
  issued,       \* token pairs issued so far
  hold,         \* what the browser keeps: its user, session and tokens
  tab,          \* local state of the browser's requests
  edit,         \* local state of the administrators' requests
  bound,        \* requests and faults so far
  past          \* history, for the properties

vars == <<users, roles, profiles, sessions, issued, hold, tab, edit, bound, past>>

-----------------------------------------------------------------------------
(* Types.                                                                  *)

Tokens == 1 .. MaxTokens

\* A deleted row keeps its email or its profile; an absent one never existed.
RowStates == {"absent", "live", "deleted"}
User == [state : RowStates, role : Roles, centre : Centres, lines : SUBSET Lines]
Role == [state : RowStates, scope : {"global", "centre"}, admin : BOOLEAN, profile : Profiles]
Profile == [state : RowStates, access : {"full", "narrow"}, active : BOOLEAN]

Matrices ==
  [full |-> matrixFromFlatPermissions(ALL_KEYS),
   narrow |-> matrixFromFlatPermissions({<<"JOBS", "VIEW">>})]
Resolved == [a \in DOMAIN Matrices |-> resolveFlatPermissionsFromMatrix(Matrices[a])]

\* A session is numbered by the first pair issued for it.
Session == [user : Users \union {None}, token : Tokens \union {0}, active : BOOLEAN,
            fresh : BOOLEAN, access : {"full", "narrow", "none"}]
NoSession == [user |-> None, token |-> 0, active |-> FALSE, fresh |-> TRUE, access |-> "none"]

Held == [user : Users \union {None}, session : Tokens \union {0}, token : Tokens \union {0}]
NoHold == [user |-> None, session |-> 0, token |-> 0]

Tab == [pc : {"idle", "user", "issue", "answer", "leave"}, user : Users \union {None},
        session : Tokens \union {0}, token : Tokens \union {0},
        access : {"full", "narrow", "none"}]
NoTab == [pc |-> "idle", user |-> None, session |-> 0, token |-> 0, access |-> "none"]

\* None: the field is not in the request.
Patch == [role : Roles \union {None}, centre : Centres \union {None},
          lines : (SUBSET Lines) \union {{None}}]
RolePatch == [scope : {"global", "centre"}, admin : BOOLEAN, profile : Profiles,
              access : {"full", "narrow", "same"}]
ASSUME NoneIsNoRow == None \notin User \union Role \union Profile
ASSUME PatchesAssumption == Patches \subseteq Patch /\ RolePatches \subseteq RolePatch

\* A request writes, in this order, what it has of: the profile, the end of its
\* sessions, the role; the lines and the row of a user, or for a new or removed
\* user the row and the lines.
Edit == [pc : {"idle", "lines", "user", "profile", "drop", "role"}, insert : BOOLEAN,
         user : Users \union {None}, urow : User \union {None}, lines : (SUBSET Lines) \union {{None}},
         role : Roles \union {None}, rrow : Role \union {None},
         profile : Profiles \union {None}, prow : Profile \union {None}, drop : BOOLEAN]
NoEdit == [pc |-> "idle", insert |-> FALSE, user |-> None, urow |-> None, lines |-> {None},
           role |-> None, rrow |-> None, profile |-> None, prow |-> None, drop |-> FALSE]

Bound == [calls : 0 .. CallLimit, edits : 0 .. EditLimit, faults : 0 .. FaultLimit]
Past == [overlap : BOOLEAN,            \* two edits overlapped, or one stopped half way
         out : SUBSET Tokens,          \* sessions that were logged out
         crossed : SUBSET Tokens,      \* sessions that expired, were signed out, lost an answer,
                                       \* or had a refresh in flight at a refresh or logout
         aged : SUBSET Tokens]         \* sessions whose access or profile changed by an edit
                                       \* that signs nobody out, or with their login in flight
TypeOK ==
  /\ users \in [Users -> User] /\ roles \in [Roles -> Role] /\ profiles \in [Profiles -> Profile]
  /\ sessions \in [Tokens -> Session]
  /\ issued \in 0 .. MaxTokens
  /\ hold \in Held /\ tab \in [Tabs -> Tab]
  /\ edit \in [Edits -> Edit]
  /\ bound \in Bound /\ past \in Past

-----------------------------------------------------------------------------
(* Permissions.                                                            *)

Live(row) == row.state = "live"
isGlobalScope(u) == roles[users[u].role].scope = "global"

ProfileOf(u) == roles[users[u].role].profile

\* resolveUserPermissions(): the join reads the role and the profile of a user
\* whether or not they are deleted.
AccessOf(u) ==
  LET p == profiles[ProfileOf(u)] IN
  IF isGlobalScope(u) THEN "full" ELSE IF p.active THEN p.access ELSE "none"

Allowed(u, key) == AccessOf(u) # "none" /\ key \in Resolved[AccessOf(u)]

Valid(s, token) ==
  sessions[s].user # None /\ sessions[s].token = token /\ sessions[s].active /\ sessions[s].fresh

-----------------------------------------------------------------------------
(* The browser (AuthController, AuthService).                              *)

TabStart(t) == tab[t].pc = "idle" /\ bound.calls + bound.edits < CallLimit
CountCall == bound' = [bound EXCEPT !.calls = @ + 1]
rows == <<users, roles, profiles>>

\* The password is right; the user, the role and the profile are one query.
Login(t) ==
  /\ TabStart(t) /\ hold = NoHold
  /\ \E u \in Users :
       /\ Live(users[u])
       /\ tab' = [tab EXCEPT ![t] = [NoTab EXCEPT !.pc = "issue", !.user = u,
                                                  !.access = AccessOf(u)]]
  /\ CountCall
  /\ UNCHANGED <<rows, sessions, issued, hold, edit, past>>

\* getActiveSessionByRefreshJti(), and the expiry.
FindSession(token) == {s \in Tokens : Valid(s, token)}

\* The browser drops tokens that are refused.
Refused(t) ==
  /\ tab' = [tab EXCEPT ![t] = NoTab]
  /\ hold' = IF hold.token = tab[t].token THEN NoHold ELSE hold

Refresh(t) ==
  /\ TabStart(t) /\ hold # NoHold
  /\ LET found == FindSession(hold.token) IN
       \/ \E s \in found :
            /\ tab' = [tab EXCEPT ![t] = [NoTab EXCEPT !.pc = "user", !.user = hold.user,
                                                       !.session = s, !.token = hold.token]]
            /\ hold' = hold
       \/ found = {} /\ hold' = NoHold /\ tab' = tab
  /\ CountCall
  /\ UNCHANGED <<rows, sessions, issued, edit, past>>

ReadUser(t) ==
  /\ tab[t].pc = "user"
  /\ \/ /\ Live(users[tab[t].user])
        /\ tab' = [tab EXCEPT ![t].pc = "issue", ![t].access = AccessOf(tab[t].user)]
        /\ hold' = hold
     \/ ~ Live(users[tab[t].user]) /\ Refused(t)
  /\ UNCHANGED <<rows, sessions, issued, edit, bound, past>>

InFlight(s) == \E t \in Tabs : tab[t].pc \in {"user", "issue"} /\ tab[t].session = s

\* Mutant: the update has no token to write.
Renewed_Blank(row, n, a) == [row EXCEPT !.token = None, !.active = TRUE, !.fresh = TRUE, !.access = a]

\* Mutant: the update leaves the old refresh token.
Renewed_Kept(row, n, a) == [row EXCEPT !.active = TRUE, !.fresh = TRUE, !.access = a]

Renewed(row, n, a) == [row EXCEPT !.token = n, !.active = TRUE, !.fresh = TRUE, !.access = a]

\* saveUserSession(): an insert, or an update by id, which finds no row if the
\* session was deleted. The pair goes to the browser all the same.
IssueTokens(t) ==
  /\ tab[t].pc = "issue" /\ issued < MaxTokens
  /\ LET n == issued + 1
         s == tab[t].session
         others == {x \in Tabs \ {t} : tab[x].pc \in {"user", "issue"} /\ tab[x].session = s} IN
       /\ issued' = n
       /\ sessions' =
            IF s = 0 THEN [sessions EXCEPT ![n] = [user |-> tab[t].user, token |-> n, active |-> TRUE,
                                                   fresh |-> TRUE, access |-> tab[t].access]]
            ELSE IF sessions[s].user = None THEN sessions
            ELSE [sessions EXCEPT ![s] = Renewed(sessions[s], n, tab[t].access)]
       /\ tab' = [tab EXCEPT ![t].pc = "answer", ![t].token = n, ![t].session = IF s = 0 THEN n ELSE s]
       /\ past' = [past EXCEPT
            !.crossed = IF s # 0 /\ (others # {} \/ sessions[s].token # tab[t].token)
                        THEN @ \union {s} ELSE @,
            !.aged = LET x == IF s = 0 THEN n ELSE s IN
                     IF tab[t].access = AccessOf(tab[t].user) THEN @ \ {x} ELSE @ \union {x}]
  /\ UNCHANGED <<rows, hold, edit, bound>>

\* The browser stores what it is given, in the order of the answers.
Answer(t) ==
  /\ tab[t].pc = "answer"
  /\ hold' = [user |-> tab[t].user, session |-> tab[t].session, token |-> tab[t].token]
  /\ tab' = [tab EXCEPT ![t] = NoTab]
  /\ UNCHANGED <<rows, sessions, issued, edit, bound, past>>

LoseAnswer(t) ==
  /\ tab[t].pc = "answer" /\ bound.faults < FaultLimit
  /\ past' = [past EXCEPT !.crossed = @ \union {tab[t].session}]
  /\ tab' = [tab EXCEPT ![t] = NoTab]
  /\ bound' = [bound EXCEPT !.faults = @ + 1]
  /\ UNCHANGED <<rows, sessions, issued, hold, edit>>

\* AuthGuard: buildUserContext() finds the session and then the user.
EnterLogout(t) ==
  /\ TabStart(t) /\ hold # NoHold
  /\ IF FindSession(hold.token) # {} /\ Live(users[hold.user])
     THEN tab' = [tab EXCEPT ![t] = [NoTab EXCEPT !.pc = "leave", !.user = hold.user,
                                                  !.session = hold.session, !.token = hold.token]]
          /\ hold' = hold
     ELSE tab' = tab /\ hold' = NoHold
  /\ CountCall
  /\ UNCHANGED <<rows, sessions, issued, edit, past>>

\* Mutant: the user alone decides which row is closed, and none is.
Closed_Other(user, token) == {s \in Tokens : sessions[s].user = user /\ sessions[s].token # token}

\* deactivateSession(): the row of this user with this access token.
Closed(user, token) == {s \in Tokens : sessions[s].user = user /\ sessions[s].token = token}

Logout(t) ==
  /\ tab[t].pc = "leave"
  /\ LET hit == Closed(tab[t].user, tab[t].token)
         s == tab[t].session IN
       /\ sessions' = [x \in Tokens |-> IF x \in hit THEN [sessions[x] EXCEPT !.active = FALSE]
                                        ELSE sessions[x]]
       /\ past' = [past EXCEPT !.out = @ \union {s},
                               !.crossed = IF InFlight(s) \/ sessions[s].token # tab[t].token
                                           THEN @ \union {s} ELSE @]
  /\ tab' = [tab EXCEPT ![t] = NoTab]
  /\ hold' = IF hold.session = tab[t].session THEN NoHold ELSE hold
  /\ UNCHANGED <<rows, issued, edit, bound>>

\* expired_at passes.
Expire ==
  /\ bound.faults < FaultLimit
  /\ \E s \in Tokens :
       /\ sessions[s].active /\ sessions[s].fresh
       /\ sessions' = [sessions EXCEPT ![s].fresh = FALSE]
       /\ past' = [past EXCEPT !.crossed = @ \union {s}]
  /\ bound' = [bound EXCEPT !.faults = @ + 1]
  /\ UNCHANGED <<rows, issued, hold, tab, edit>>

-----------------------------------------------------------------------------
(* The administrators. A request is admitted, reads and checks in one step *)
(* and then writes, one row a step.                                        *)

\* AuthGuard and PermissionsGuard of an administrator, whose own session is not
\* followed here.
Actors(key) == {a \in Users : Live(users[a]) /\ Allowed(a, key)}

EditStart(e) ==
  edit[e].pc = "idle" /\ bound.edits < EditLimit /\ bound.calls + bound.edits < CallLimit
Begin(e, work) ==
  /\ edit' = [edit EXCEPT ![e] = work]
  /\ bound' = [bound EXCEPT !.edits = @ + 1]
  /\ past' = [past EXCEPT !.overlap = @ \/ \E x \in Edits : edit[x].pc # "idle"]
  /\ UNCHANGED <<rows, sessions, issued, hold, tab>>

assertActorCanManage(a, centre, scope) ==
  isGlobalScope(a) \/ (scope # "global" /\ centre = users[a].centre)

assertLinesBelongToCentre(lines, centre) == \A l \in lines : LineCentre[l] = centre

\* A Centre User, unlike the administrators, works on a line.
NeedsLine(role) == role.scope = "centre" /\ ~ role.admin

\* The email must be new, that of a deleted user included.
CreateUser(e) ==
  /\ EditStart(e)
  /\ \E a \in Actors(<<"USER", "CREATE">>), u \in Users, p \in Patches :
       /\ users[u].state = "absent"
       /\ p.role # None /\ p.centre # None /\ Live(roles[p.role])
       /\ NeedsLine(roles[p.role]) => p.lines \notin {{}, {None}}
       /\ assertActorCanManage(a, p.centre, roles[p.role].scope)
       /\ assertLinesBelongToCentre(p.lines \ {None}, p.centre)
       /\ Begin(e, [NoEdit EXCEPT
            !.pc = "user", !.insert = TRUE, !.user = u,
            !.urow = [state |-> "live", role |-> p.role, centre |-> p.centre, lines |-> {}],
            !.lines = IF p.lines = {} THEN {None} ELSE p.lines])

\* Mutant: the lines of the old centre are kept.
LinesAfter_Kept(u, p) == p.lines

\* The lines to write, {None} if the request leaves them.
LinesAfter(u, p) ==
  IF p.lines = {None} /\ p.centre \notin {None, users[u].centre} THEN {} ELSE p.lines

UpdateUser(e) ==
  /\ EditStart(e)
  /\ \E a \in Actors(<<"USER", "EDIT">>), u \in Users, p \in Patches :
       LET row == [users[u] EXCEPT !.role = IF p.role = None THEN @ ELSE p.role,
                                   !.centre = IF p.centre = None THEN @ ELSE p.centre]
           lines == LinesAfter(u, p) IN
       /\ Live(users[u])
       /\ p.role # None => Live(roles[p.role])
       /\ assertActorCanManage(a, users[u].centre, roles[users[u].role].scope)
       /\ assertActorCanManage(a, row.centre, roles[row.role].scope)
       /\ NeedsLine(roles[row.role]) => (IF lines = {None} THEN users[u].lines ELSE lines) # {}
       /\ assertLinesBelongToCentre(lines \ {None}, row.centre)
       /\ Begin(e, [NoEdit EXCEPT !.pc = IF lines = {None} THEN "user" ELSE "lines",
                                  !.user = u, !.urow = row, !.lines = lines])

RemoveUser(e) ==
  /\ EditStart(e)
  /\ \E a \in Actors(<<"USER", "DELETE">>), u \in Users :
       /\ Live(users[u])
       /\ assertActorCanManage(a, users[u].centre, roles[users[u].role].scope)
       /\ Begin(e, [NoEdit EXCEPT !.pc = "user", !.user = u, !.lines = {},
                                  !.urow = [users[u] EXCEPT !.state = "deleted"]])

\* resolveRoleScope(): a centre-scoped actor makes roles of its own centre only.
CreateRole(e) ==
  /\ EditStart(e)
  /\ \E a \in Actors(<<"ROLES", "UPSERT">>), r \in Roles, p \in RolePatches :
       /\ roles[r].state = "absent" /\ Live(profiles[p.profile])
       /\ ~ \E x \in Roles : Live(roles[x]) /\ roles[x].profile = p.profile
       /\ isGlobalScope(a) \/ (p.scope = "centre" /\ RoleCentres[r] = {users[a].centre})
       /\ p.scope = "centre" => RoleCentres[r] # {}
       /\ Begin(e, [NoEdit EXCEPT
            !.pc = "role", !.insert = TRUE, !.role = r,
            !.rrow = [state |-> "live", scope |-> p.scope,
                      admin |-> p.scope = "centre" /\ p.admin, profile |-> p.profile]])

assertActorCanManageRole(a, r) ==
  isGlobalScope(a) \/ (roles[r].scope = "centre" /\ users[a].centre \in RoleCentres[r])

\* The access is written to the profile the role is to have.
UpdateRole(e) ==
  /\ EditStart(e)
  /\ \E a \in Actors(<<"ROLES", "UPSERT">>), r \in Roles, p \in RolePatches :
       LET row == [roles[r] EXCEPT !.scope = p.scope, !.admin = p.scope = "centre" /\ p.admin,
                                   !.profile = p.profile] IN
       /\ Live(roles[r]) /\ assertActorCanManageRole(a, r)
       /\ isGlobalScope(a) \/ p.scope = "centre"
       /\ Live(profiles[roles[r].profile]) /\ Live(profiles[p.profile])
       /\ ~ \E x \in Roles \ {r} : Live(roles[x]) /\ roles[x].profile = p.profile
       /\ Begin(e, IF p.access = "same" THEN [NoEdit EXCEPT !.pc = "role", !.role = r, !.rrow = row]
                   ELSE [NoEdit EXCEPT !.pc = "profile", !.role = r, !.rrow = row, !.drop = TRUE,
                           !.profile = p.profile,
                           !.prow = [profiles[p.profile] EXCEPT !.access = p.access]])

\* Mutant: the users of the role are not counted.
Unused_Uncounted(r) == TRUE

\* countActiveUsersByRoleId() = 0
Unused(r) == \A u \in Users : ~ (Live(users[u]) /\ users[u].role = r)

RemoveRole(e) ==
  /\ EditStart(e)
  /\ \E a \in Actors(<<"ROLES", "DELETE">>), r \in Roles :
       /\ Live(roles[r]) /\ assertActorCanManageRole(a, r) /\ Unused(r)
       /\ Begin(e, [NoEdit EXCEPT !.pc = "role", !.role = r,
                                  !.rrow = [roles[r] EXCEPT !.state = "deleted"]])

CreateProfile(e) ==
  /\ EditStart(e) /\ Actors(<<"PERMISSIONS", "UPSERT">>) # {}
  /\ \E p \in Profiles, access \in {"full", "narrow"} :
       /\ profiles[p].state = "absent"
       /\ Begin(e, [NoEdit EXCEPT !.pc = "profile", !.profile = p,
                                  !.prow = [state |-> "live", access |-> access, active |-> TRUE]])

\* A request that gives the access signs its users out even if it is the same.
EditProfile(e) ==
  /\ EditStart(e) /\ Actors(<<"PERMISSIONS", "UPSERT">>) # {}
  /\ \E p \in Profiles, access \in {"full", "narrow"}, active, drop \in BOOLEAN :
       /\ Live(profiles[p]) /\ (access # profiles[p].access => drop)
       /\ Begin(e, [NoEdit EXCEPT !.pc = "profile", !.profile = p, !.drop = drop,
                                  !.prow = [profiles[p] EXCEPT !.access = access, !.active = active]])

RemoveProfile(e) ==
  /\ EditStart(e) /\ Actors(<<"PERMISSIONS", "DELETE">>) # {}
  /\ \E p \in Profiles :
       /\ Live(profiles[p]) /\ ~ \E r \in Roles : Live(roles[r]) /\ roles[r].profile = p
       /\ Begin(e, [NoEdit EXCEPT !.pc = "profile", !.profile = p,
                                  !.prow = [profiles[p] EXCEPT !.state = "deleted"]])

\* What is left to write of a request, or nothing.
Go(e, work) == edit' = [edit EXCEPT ![e] = IF work.pc = "idle" THEN NoEdit ELSE work]
Same == UNCHANGED <<issued, hold, tab, bound>>

\* Sessions whose user's access or profile this step changes.
Aging == {s \in Tokens : \E u \in Users :
            sessions[s].user = u /\ <<AccessOf(u), ProfileOf(u)>>' # <<AccessOf(u), ProfileOf(u)>>}
Age == past' = [past EXCEPT !.aged = @ \union Aging]

\* replaceForUser(), syncForUser() and softDeleteByUserId().
SaveLines(e) ==
  /\ edit[e].pc = "lines"
  /\ users' = [users EXCEPT ![edit[e].user].lines = edit[e].lines]
  /\ Go(e, [edit[e] EXCEPT !.pc = IF edit[e].urow = None THEN "idle" ELSE "user", !.lines = {None}])
  /\ UNCHANGED <<roles, profiles, sessions, past>> /\ Same

\* An insert meets the unique index if the row has come to exist since the check.
SaveUser(e) ==
  /\ edit[e].pc = "user"
  /\ UNCHANGED <<roles, profiles, sessions>> /\ Same
  /\ LET u == edit[e].user IN
       \/ /\ edit[e].insert /\ users[u].state # "absent"
          /\ edit' = [edit EXCEPT ![e] = NoEdit]
          /\ UNCHANGED <<users, past>>
       \/ /\ edit[e].insert => users[u].state = "absent"
          /\ users' = [users EXCEPT ![u] = [edit[e].urow EXCEPT !.lines = users[u].lines]]
          /\ Go(e, [edit[e] EXCEPT !.pc = IF edit[e].lines = {None} THEN "idle" ELSE "lines",
                                   !.urow = None, !.insert = FALSE])
          /\ Age

SaveProfile(e) ==
  /\ edit[e].pc = "profile"
  /\ UNCHANGED <<users, roles, sessions>> /\ Same
  /\ profiles' = [profiles EXCEPT ![edit[e].profile] = edit[e].prow]
  /\ Go(e, [edit[e] EXCEPT !.pc = IF edit[e].drop THEN "drop" ELSE "idle", !.prow = None])
  /\ IF edit[e].drop THEN past' = past ELSE Age

\* Mutant: no session goes.
SignedOut_None(profile) == {}

\* deleteByPermissionId(), by the role's profile as it is stored now.
SignedOut(profile) ==
  {s \in Tokens : \E u \in Users : sessions[s].user = u /\ ProfileOf(u) = profile}

Drop(e) ==
  /\ edit[e].pc = "drop"
  /\ LET gone == SignedOut(edit[e].profile) IN
       /\ sessions' = [s \in Tokens |-> IF s \in gone THEN NoSession ELSE sessions[s]]
       /\ past' = [past EXCEPT !.crossed = @ \union gone]
  /\ Go(e, [edit[e] EXCEPT !.pc = IF edit[e].rrow = None THEN "idle" ELSE "role",
                           !.profile = None, !.drop = FALSE])
  /\ UNCHANGED rows /\ Same

\* The name of a role and its profile are unique, deleted roles included.
SaveRole(e) ==
  /\ edit[e].pc = "role"
  /\ UNCHANGED <<users, profiles, sessions>> /\ Same
  /\ LET r == edit[e].role
         clash == \/ edit[e].insert /\ roles[r].state # "absent"
                  \/ \E x \in Roles \ {r} : /\ roles[x].state # "absent"
                                            /\ roles[x].profile = edit[e].rrow.profile IN
       IF clash THEN UNCHANGED <<roles, past>>
       ELSE roles' = [roles EXCEPT ![r] = edit[e].rrow] /\ Age
  /\ edit' = [edit EXCEPT ![e] = NoEdit]

\* The database refuses the next write, or the server stops.
Abandon(e) ==
  /\ edit[e].pc # "idle" /\ bound.faults < FaultLimit
  /\ edit' = [edit EXCEPT ![e] = NoEdit]
  /\ bound' = [bound EXCEPT !.faults = @ + 1]
  /\ past' = [past EXCEPT
       !.overlap = TRUE,
       !.aged = IF edit[e].pc = "drop" THEN @ \union SignedOut(edit[e].profile) ELSE @]
  /\ UNCHANGED <<rows, sessions, issued, hold, tab>>

-----------------------------------------------------------------------------
\* Users whose role is there, roles whose profile is there and theirs alone.
Backed(us, rs, ps) ==
  /\ \A u \in Users : Live(us[u]) => Live(rs[us[u].role])
  /\ \A r \in Roles : Live(rs[r]) => Live(ps[rs[r].profile])
  /\ \A r, q \in Roles : r # q /\ Live(rs[r]) /\ Live(rs[q]) => rs[r].profile # rs[q].profile

\* Lines of the user's centre, and none of a user who is not there.
OwnLines(us) == \A u \in Users :
  IF Live(us[u]) THEN assertLinesBelongToCentre(us[u].lines, us[u].centre) ELSE us[u].lines = {}

\* Rows as bootstrapAdmin() and edits that did not overlap leave them.
ASSUME InitialAssumption ==
  /\ InitialUsers \in [Users -> User] /\ InitialRoles \in [Roles -> Role]
  /\ InitialProfiles \in [Profiles -> Profile]
  /\ Backed(InitialUsers, InitialRoles, InitialProfiles) /\ OwnLines(InitialUsers)

Init ==
  /\ users = InitialUsers /\ roles = InitialRoles /\ profiles = InitialProfiles
  /\ sessions = [s \in Tokens |-> NoSession] /\ issued = 0 /\ hold = NoHold
  /\ tab = [t \in Tabs |-> NoTab] /\ edit = [e \in Edits |-> NoEdit]
  /\ bound = [calls |-> 0, edits |-> 0, faults |-> 0]
  /\ past = [overlap |-> FALSE, out |-> {}, crossed |-> {}, aged |-> {}]

\* The requests of AuthController.
AuthRequest(t) ==
  \/ Login(t) \/ Refresh(t) \/ ReadUser(t) \/ IssueTokens(t) \/ Answer(t) \/ LoseAnswer(t)
  \/ EnterLogout(t) \/ Logout(t)

\* Those of UsersController, RolesController and PermissionsController.
UserRequest(e) == CreateUser(e) \/ UpdateUser(e) \/ RemoveUser(e) \/ SaveLines(e) \/ SaveUser(e)
RoleRequest(e) == CreateRole(e) \/ UpdateRole(e) \/ RemoveRole(e) \/ SaveRole(e)
ProfileRequest(e) == CreateProfile(e) \/ EditProfile(e) \/ RemoveProfile(e) \/ SaveProfile(e)

Next ==
  \/ \E t \in Tabs : AuthRequest(t)
  \/ Expire
  \/ \E e \in Edits :
       UserRequest(e) \/ RoleRequest(e) \/ ProfileRequest(e) \/ Drop(e) \/ Abandon(e)

Spec == Init /\ [][Next]_vars

-----------------------------------------------------------------------------
(* Properties.                                                             *)

Quiet == ~ past.overlap /\ \A e \in Edits : edit[e].pc = "idle"

\* As long as the edits come one after another, a user who can log in has a role
\* that is there, the role a profile that is there, and no two roles share one:
\* RolesService and PermissionService refuse to remove what is in use.
RolesBacked == Quiet => Backed(users, roles, profiles)

\* As long as the edits come one after another, the lines of a user are lines of
\* its centre, whichever of the two an edit changes, and a removed user has none.
LinesOfCentre == Quiet => OwnLines(users)

\* A session that was logged out stays closed, unless a refresh of it was already
\* under way: saveUserSession() then opens it again.
LoggedOutStays == \A s \in past.out \ past.crossed : ~ sessions[s].active

\* The tokens the browser holds are the ones of its session, whatever the other
\* tabs do, unless two refreshes crossed, an answer was lost, or the session
\* expired, was logged out or was signed out by an edit of the profile.
StaysLoggedIn ==
  hold # NoHold /\ hold.session \notin past.out \union past.crossed =>
    \/ Valid(hold.session, hold.token)
    \/ \E t \in Tabs : tab[t].pc = "answer" /\ tab[t].session = hold.session

\* The permissions a browser was told at login or refresh are those its user has
\* now: an edit of the access signs out every session of the profile it changes.
\* Left out are the edits that sign nobody out (another role for a user, another
\* profile or scope for a role, a profile switched off) and logins in flight.
ToldAsStored ==
  \A s \in Tokens \ past.aged, u \in Users :
    sessions[s].user = u =>
      \/ sessions[s].access = AccessOf(u)
      \/ \E e \in Edits : edit[e].pc = "drop" /\ s \in SignedOut(edit[e].profile)

\* What the checks of UsersService, RolesService and PermissionService keep.
AccessInv == TypeOK /\ RolesBacked /\ LinesOfCentre

\* What AuthService keeps between the browser's tokens and user_sessions.
SessionsInv == LoggedOutStays /\ StaysLoggedIn /\ ToldAsStored

=============================================================================
