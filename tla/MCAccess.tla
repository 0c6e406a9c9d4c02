------------------------------- MODULE MCAccess -------------------------------
(***************************************************************************)
(* An instance of Access: an administrator of the system, one of a centre, *)
(* and an operator with a line; one user, role and profile are yet to be   *)
(* made.  What runs, the requests on access or the changes the audit log   *)
(* tells of, is chosen once for a behaviour: they share nothing here.      *)
(***************************************************************************)
EXTENDS Access, AuditTrail

MCLineCentre == [l1 |-> "c1", l2 |-> "c2"]
MCRoleCentres == [system |-> {}, admin |-> {"c1", "c2"}, operator |-> {"c1", "c2"}, new |-> {"c1"}]

MCUser(state, role, lines) == [state |-> state, role |-> role, centre |-> "c1", lines |-> lines]
MCUsers == [u1 |-> MCUser("live", "system", {}), u2 |-> MCUser("live", "admin", {}),
            u3 |-> MCUser("live", "operator", {"l1"}), u4 |-> MCUser("absent", "operator", {})]

MCRole(state, scope, admin, profile) ==
  [state |-> state, scope |-> scope, admin |-> admin, profile |-> profile]
MCRoles == [system |-> MCRole("live", "global", FALSE, "p1"),
            admin |-> MCRole("live", "centre", TRUE, "p2"),
            operator |-> MCRole("live", "centre", FALSE, "p3"),
            new |-> MCRole("absent", "centre", FALSE, "p4")]

MCProfile(state, access) == [state |-> state, access |-> access, active |-> TRUE]
MCProfiles == [p1 |-> MCProfile("live", "full"), p2 |-> MCProfile("live", "full"),
               p3 |-> MCProfile("live", "narrow"), p4 |-> MCProfile("absent", "narrow")]

\* A move without lines, an operator of a line, a line of the other centre, and
\* an operator made administrator.
MCPatch(role, centre, lines) == [role |-> role, centre |-> centre, lines |-> lines]
MCPatches == {MCPatch(None, "c2", {None}), MCPatch("operator", "c1", {"l1"}),
              MCPatch(None, "c2", {"l2"}), MCPatch("admin", None, {})}

\* A role made global, another access in place, and another profile with it.
MCRolePatch(scope, profile, access) ==
  [scope |-> scope, admin |-> FALSE, profile |-> profile, access |-> access]
MCRolePatches == {MCRolePatch("global", "p2", "same"), MCRolePatch("centre", "p3", "full"),
                  MCRolePatch("centre", "p4", "full")}

VARIABLE side

\* Rows meet in the audit only through the requests: one row is enough at a time.
\* A capture has more operations, and one request less.
MCInit ==
  /\ Init /\ InitAudit
  /\ side \in {"access"} \union Items
  /\ \A x \in Items \ {side} : store[x].st = "absent"

MCNext ==
  /\ \/ side = "access" /\ Next /\ UNCHANGED auditVars
     \/ /\ side \in Items /\ NextAudit /\ UNCHANGED vars
        /\ \A w \in Writers : writer'[w].at \in {NoRow, side}
        /\ side \in CaptureRows => writes' < WriteLimit
  /\ UNCHANGED side

MCSpec == MCInit /\ [][MCNext]_<<vars, auditVars, side>>
=============================================================================
