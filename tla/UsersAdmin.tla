----------------------------- MODULE UsersAdmin -----------------------------
(* The users page of one browser tab (apps/frontend, UsersClientPage and
   useUsersAdmin): the list of users, whom it creates and deactivates, the drawer
   on one user with its role picker, and the two saves of a role, over the
   endpoints of apps/flask_api (blueprints/users.py).

   A role is assigned by one upsert in one transaction; the tenant-wide save
   assigns it in this workspace among the others.  `assigned` is the history of
   the users of this workspace, so that an answer is the place in it that the
   server read.  The list is the one of the active users.  The picker is not tied to a query: it is written by
   two effects, when what they watch has changed, and by the user. *)
EXTENDS QueryCache, Naturals, Sequences

CONSTANTS
  Users, NoUser, Roles, NoRole,
  Catalog,        \* the roles this workspace offers, in their order
  MaxRoleSaves,   \* saves of the page
  MaxGrants       \* roles given elsewhere, and users the page creates or deactivates

DefaultRole == "viewer"

UsersAssumption ==
  /\ NoUser \notin Users /\ NoRole \notin Roles /\ DefaultRole \in Roles
  /\ Catalog \in Seq(Roles) /\ Len(Catalog) > 0
  /\ MaxRoleSaves \in Nat /\ MaxGrants \in Nat

VARIABLES
  assigned,   \* Seq of [role: Users -> Roles or NoRole, active: set of users]
  users,      \* the cache entry of the list
  roles,      \* [Users -> cache entry]: one role query per user
  catalog,    \* has the catalog been loaded?
  drawer,     \* the user selected for the drawer
  picker,     \* the role in the picker
  touched,    \* has the user picked since an effect wrote the picker?
  save,       \* the save in progress
  due,        \* what the open drawer's role has to have been read after
  roleSaves,
  grants,     \* roles given elsewhere, and users created or deactivated
  change      \* has a user been created or deactivated, and the list not been asked for?

vars == <<assigned, users, roles, catalog, drawer, picker, touched, save, due, roleSaves, grants, change>>

NoSave == [phase |-> "idle", user |-> NoUser, role |-> NoRole, wide |-> FALSE]

TypeOK ==
  /\ assigned \in Seq([role : [Users -> Roles \cup {NoRole}], active : SUBSET Users])
  /\ Len(assigned) > 0
  /\ users \in Entries(DOMAIN assigned) /\ roles \in [Users -> Entries(DOMAIN assigned)]
  /\ catalog \in BOOLEAN /\ touched \in BOOLEAN
  /\ drawer \in Users \cup {NoUser} /\ picker \in Roles
  /\ save \in [phase : {"idle", "asked", "saved", "listing", "listed", "rereading"},
               user : Users \cup {NoUser}, role : Roles \cup {NoRole}, wide : BOOLEAN]
  /\ due \in 0 .. Len(assigned) /\ roleSaves \in 0 .. MaxRoleSaves /\ grants \in 0 .. MaxGrants
  /\ change \in BOOLEAN

Init ==
  /\ assigned = <<[role |-> [u \in Users |-> NoRole], active |-> Users]>>
  /\ users = Mount(NewEntry) /\ roles = [u \in Users |-> NewEntry]
  /\ catalog = FALSE /\ drawer = NoUser /\ picker = DefaultRole
  /\ touched = FALSE
  /\ save = NoSave /\ due = 0 /\ roleSaves = 0 /\ grants = 0
  /\ change = FALSE

-----------------------------------------------------------------------------
(* What the drawer shows *)

RoleAt(entry, u) == IF entry.data = NoData THEN NoRole ELSE assigned[entry.data].role[u]

ListedUsers(us) == IF us.data = NoData THEN {} ELSE assigned[us.data].active
ListedRole(us, u) == IF u \in ListedUsers(us) THEN RoleAt(us, u) ELSE NoRole

\* Slip: nobody's role is proposed as no role.
ProposedAsIs(us, rs, u) ==
  IF u # NoUser /\ RoleAt(rs[u], u) # NoRole THEN RoleAt(rs[u], u)
  ELSE IF u # NoUser THEN ListedRole(us, u) ELSE DefaultRole

\* The first effect: the role query's role, else the list's; and "viewer" when
\* neither has one.
Proposed(us, rs, u) ==
  IF u # NoUser /\ RoleAt(rs[u], u) # NoRole THEN RoleAt(rs[u], u)
  ELSE IF ListedRole(us, u) # NoRole THEN ListedRole(us, u)
  ELSE DefaultRole

InCatalog(r) == \E i \in DOMAIN Catalog : Catalog[i] = r

\* The second: a role the catalog does not offer becomes its first one.
Offered(r, loaded) == IF loaded /\ ~InCatalog(r) THEN Catalog[1] ELSE r

\* What the first effect watches, as far as it is modelled: the answer to the role
\* query, if there is one, and the list.  Either also has fields that are not.
RoleShown(rs, u) == IF u = NoUser \/ rs[u].data = NoData THEN {} ELSE {RoleAt(rs[u], u)}
RoleRead(rs, u) == IF u = NoUser THEN NoData ELSE rs[u].data
Items(us) ==
  IF us.data = NoData THEN NoData ELSE [u \in ListedUsers(us) |-> RoleAt(us, u)]

\* The drawer is open if the user selected is listed: it closes when a new list
\* lacks that user, and opens again when a later one has the user back.
DrawerOpen == drawer \in ListedUsers(users)

\* The page is rendered with new lists, roles or drawer: the first effect runs if
\* the role, the user or the items are not what they were, and it may if they were
\* read at another moment, for a field that is not modelled.
Effects(us, rs, u) ==
  /\ users' = us /\ roles' = rs /\ drawer' = u
  /\ \/ /\ u # drawer \/ RoleRead(rs, u) # RoleRead(roles, drawer) \/ us.data # users.data
        /\ picker' = Offered(Proposed(us, rs, u), catalog) /\ touched' = FALSE
     \/ /\ u = drawer /\ RoleShown(rs, u) = RoleShown(roles, drawer) /\ Items(us) = Items(users)
        /\ UNCHANGED <<picker, touched>>

LoadCatalog ==
  /\ ~catalog
  /\ catalog' = TRUE /\ picker' = Offered(picker, TRUE)
  /\ UNCHANGED <<assigned, users, roles, drawer, touched, save, due, roleSaves, grants, change>>

ManageRole(u) ==
  /\ u \in ListedUsers(users)
  /\ Effects(users, IF u = drawer THEN roles ELSE [roles EXCEPT ![u] = Mount(@)], u)
  /\ due' = IF u = drawer THEN due ELSE 0
  /\ UNCHANGED <<assigned, catalog, save, roleSaves, grants, change>>

CloseDrawer ==
  /\ DrawerOpen
  /\ Effects(users, roles, NoUser)
  /\ due' = 0
  /\ UNCHANGED <<assigned, catalog, save, roleSaves, grants, change>>

PickRole(r) ==
  /\ DrawerOpen /\ r # picker
  /\ catalog => InCatalog(r)
  /\ picker' = r /\ touched' = TRUE
  /\ UNCHANGED <<assigned, users, roles, catalog, drawer, save, due, roleSaves, grants, change>>

-----------------------------------------------------------------------------
(* Saving *)

\* The button is off while the mutation runs, its refetches included.  The box
\* for all the workspaces is ticked or not.
SaveRole ==
  /\ DrawerOpen /\ save = NoSave /\ roleSaves < MaxRoleSaves
  /\ \E wide \in BOOLEAN :
       save' = [phase |-> "asked", user |-> drawer, role |-> picker, wide |-> wide]
  /\ roleSaves' = roleSaves + 1
  /\ UNCHANGED <<assigned, users, roles, catalog, drawer, picker, touched, due, grants, change>>

Given(u, r) == Append(assigned, [assigned[Len(assigned)] EXCEPT !.role[u] = r])

\* The handler assigns the role, and its answer may be lost; or it refuses.
AnswerSave ==
  /\ save.phase = "asked"
  /\ \/ /\ assigned' = Given(save.user, save.role)
        /\ \/ /\ save' = [save EXCEPT !.phase = "saved"]
              /\ due' = IF ~save.wide /\ drawer = save.user THEN Len(assigned') ELSE due
           \/ save' = NoSave /\ UNCHANGED due
     \/ save' = NoSave /\ UNCHANGED <<assigned, due>>
  /\ UNCHANGED <<users, roles, catalog, drawer, picker, touched, roleSaves, grants, change>>

\* invalidateUsers: its key begins every list's and no role's.
RereadUsers ==
  /\ save.phase = "saved"
  /\ save' = [save EXCEPT !.phase = "listing"]
  /\ users' = Invalidate(users)
  /\ UNCHANGED <<assigned, roles, catalog, drawer, picker, touched, due, roleSaves, grants, change>>

\* The list has come back: a tenant-wide save is over, the other goes on to the
\* role of the user it was for, which is fetched if the drawer is still on it.
RereadRole ==
  /\ save.phase = "listed" \/ (save.phase = "listing" /\ ~users.busy)
  /\ save' = IF save.wide THEN NoSave ELSE [save EXCEPT !.phase = "rereading"]
  /\ roles' = IF ~save.wide /\ drawer = save.user
              THEN [roles EXCEPT ![drawer] = Invalidate(@)] ELSE roles
  /\ UNCHANGED <<assigned, users, catalog, drawer, picker, touched, due, roleSaves, grants, change>>

\* Slip: the role has just been invalidated, so it is not fetched again.
RefetchNothing ==
  /\ save.phase = "rereading" /\ ~roles[save.user].busy
  /\ save' = NoSave
  /\ UNCHANGED <<assigned, users, roles, catalog, drawer, picker, touched, due, roleSaves, grants, change>>

\* The mutation is over; the drawer's role is fetched once more.
RefetchRole ==
  /\ save.phase = "rereading" /\ ~roles[save.user].busy
  /\ save' = NoSave
  /\ roles' = IF drawer = NoUser THEN roles ELSE [roles EXCEPT ![drawer] = Invalidate(@)]
  /\ UNCHANGED <<assigned, users, catalog, drawer, picker, touched, due, roleSaves, grants, change>>

-----------------------------------------------------------------------------
(* Creating and deactivating *)

Altered(active) == Append(assigned, [assigned[Len(assigned)] EXCEPT !.active = active])

\* The handler writes the row, and its answer is on its way or lost; a failure is
\* told and nothing else is done.  The page waits for one change before the next.
Change(active) ==
  /\ ~change /\ grants < MaxGrants
  /\ assigned' = Altered(active)
  /\ change' \in BOOLEAN /\ grants' = grants + 1
  /\ UNCHANGED <<users, roles, catalog, drawer, picker, touched, save, due, roleSaves>>

\* An identifier that exists is made active again, by an upsert.
SubmitCreate(u) == Change(assigned[Len(assigned)].active \cup {u})

DeactivateUser(u) ==
  /\ u \in ListedUsers(users)
  /\ Change(assigned[Len(assigned)].active \ {u})

\* The same invalidateUsers; nothing is done when the list has come.  A save that
\* waits for the request this one takes the place of waits no more.
RelistUsers ==
  /\ change /\ change' = FALSE
  /\ users' = Invalidate(users)
  /\ save' = IF save.phase = "listing" THEN [save EXCEPT !.phase = "listed"] ELSE save
  /\ UNCHANGED <<assigned, roles, catalog, drawer, picker, touched, due, roleSaves, grants>>

\* The button beside the error of the list: a request that is out is sent anew.
RetryUsers ==
  /\ IsError(users)
  /\ users' = Invalidate(users)
  /\ save' = IF save.phase = "listing" THEN [save EXCEPT !.phase = "listed"] ELSE save
  /\ UNCHANGED <<assigned, roles, catalog, drawer, picker, touched, due, roleSaves, grants, change>>

-----------------------------------------------------------------------------
(* The server's reads, and other administrators *)

\* A failure is heard of when it happens: it changes nothing the page watches.
Read(e) == {Answer(e, Len(assigned)), Deliver(Answer(e, Failure))}

ReadAnswer ==
  /\ \/ Unanswered(users) /\ users' \in Read(users) /\ UNCHANGED roles
     \/ \E u \in Users : /\ Unanswered(roles[u]) /\ UNCHANGED users
                         /\ \E e \in Read(roles[u]) : roles' = [roles EXCEPT ![u] = e]
  /\ UNCHANGED <<assigned, catalog, drawer, picker, touched, save, due, roleSaves, grants, change>>

DeliverAnswer ==
  /\ \/ Answered(users) /\ Effects(Deliver(users), roles, drawer)
     \/ \E u \in Users :
          Answered(roles[u]) /\ Effects(users, [roles EXCEPT ![u] = Deliver(@)], drawer)
  /\ UNCHANGED <<assigned, catalog, save, due, roleSaves, grants, change>>

GrantElsewhere(u, r) ==
  /\ grants < MaxGrants /\ assigned[Len(assigned)].role[u] # r
  /\ assigned' = Given(u, r) /\ grants' = grants + 1
  /\ UNCHANGED <<users, roles, catalog, drawer, picker, touched, save, due, roleSaves, change>>

Next ==
  \/ LoadCatalog \/ CloseDrawer \/ SaveRole
  \/ AnswerSave \/ RereadUsers \/ RereadRole \/ RefetchRole
  \/ RelistUsers \/ RetryUsers
  \/ ReadAnswer \/ DeliverAnswer
  \/ \E u \in Users :
       ManageRole(u) \/ SubmitCreate(u) \/ DeactivateUser(u) \/ \E r \in Roles : GrantElsewhere(u, r)
  \/ \E r \in Roles : PickRole(r)

Spec == Init /\ [][Next]_vars

-----------------------------------------------------------------------------
(* Properties *)

PageAtRest == save = NoSave /\ AtRest(users) /\ DrawerOpen /\ AtRest(roles[drawer])

(* Once everything the page asked for has come back, a picker its user has not
   touched proposes the role that the drawer names, as the catalog offers it,
   and after a save of that user's role in this workspace that role has been
   read after the save: however the answers of the list, of the role and of
   requests sent before the save are ordered, no earlier role is left in the
   picker to be given back by the next press of Save. *)
PickerFollowsTheSave ==
  (PageAtRest /\ ~touched) =>
    /\ roles[drawer].data >= due
    /\ RoleAt(roles[drawer], drawer) # NoRole => picker = Offered(RoleAt(roles[drawer], drawer), catalog)
=============================================================================
