----------------------------- MODULE AccessMatrix -----------------------------
(***************************************************************************)
(* The access matrix of a permission profile: which flags it stores for a  *)
(* module and its submodules, the permission keys the guards read from it, *)
(* and the matrix made of a set of keys.                                   *)
(***************************************************************************)
EXTENDS FiniteSets

\* create and edit of a module or submodule, beside view.
FLAGS == {"view", "create", "edit"}

FLAT_MODULES == {"dashboard", "job_management", "reports_analytics", "configuration"}

SUBMODULES ==
  [appointments |-> {"list_view", "calendar_view"},
   master_management |-> {"vehicle", "center", "line", "admin_pc", "camera_anpr", "charges"},
   transactions |-> {"payments", "vehicle_records", "customers", "file_processing",
                     "rop_management"},
   user_management |-> {"users", "roles", "permissions", "audit_logs"}]

SUBMODULE_MODULES == DOMAIN SUBMODULES

\* A key is <<area, operation>>, and a row of MODULE_PERMISSION_MAP the keys that
\* each flag stands for.
Keys(view, create, edit) == [view |-> view, create |-> create, edit |-> edit]
Crud(area) ==
  Keys({<<area, "VIEW">>}, {<<area, "CREATE">>}, {<<area, "UPSERT">>, <<area, "DELETE">>})
ViewOnly(area) == Keys({<<area, "VIEW">>}, {}, {})

\* MODULE_PERMISSION_MAP: the keys of a module itself.
ModuleKeys(m) ==
  CASE m = "dashboard" -> ViewOnly("DASHBOARD")
    [] m = "reports_analytics" -> ViewOnly("REPORTS")
    [] m = "job_management" -> Crud("JOBS")
    [] m = "configuration" ->
         Keys({<<"CONFIGURATION", "VIEW">>}, {<<"CONFIGURATION", "UPSERT">>},
              {<<"CONFIGURATION", "UPSERT">>})
    [] m = "appointments" ->
         Keys({}, {<<"APPOINTMENTS", "CREATE">>},
              {<<"APPOINTMENTS", "UPSERT">>, <<"APPOINTMENTS", "DELETE">>})
    [] OTHER -> Keys({}, {}, {})

\* MODULE_PERMISSION_MAP: the keys of a submodule. The masters share theirs.
SubmoduleKeys(m, s) ==
  CASE m = "appointments" -> ViewOnly("APPOINTMENTS")
    [] m = "master_management" -> IF s = "camera_anpr" THEN Crud("ANPR") ELSE Crud("MASTERS")
    [] s = "payments" -> Crud("PAYMENTS")
    [] s = "vehicle_records" -> Crud("VEHICLE_RECORDS")
    [] s = "customers" -> Crud("CUSTOMERS")
    [] s = "file_processing" -> ViewOnly("FILE_PROCESSING")
    [] s = "rop_management" -> Crud("ROP")
    [] s = "users" ->
         Keys({<<"USER", "VIEW">>}, {<<"USER", "CREATE">>},
              {<<"USER", "EDIT">>, <<"USER", "DELETE">>})
    [] s = "roles" -> Crud("ROLES")
    [] s = "permissions" -> Crud("PERMISSIONS")
    [] s = "audit_logs" -> ViewOnly("AUDIT")

\* Places of the matrix: a module itself, <<m, "self">>, or a submodule of it.
Parents == {<<m, "self">> : m \in SUBMODULE_MODULES}
Submodules == UNION {{m} \X SUBMODULES[m] : m \in SUBMODULE_MODULES}
Place == {<<m, "self">> : m \in FLAT_MODULES} \union Parents \union Submodules
KeysAt(p) == IF p[2] = "self" THEN ModuleKeys(p[1]) ELSE SubmoduleKeys(p[1], p[2])

\* A matrix is the set of its flags that are on, <<place, flag>>.
Flags == Place \X FLAGS

ALL_KEYS == UNION {KeysAt(g[1])[g[2]] : g \in Flags}

-----------------------------------------------------------------------------
(* normalizeRoleAccessMatrix(): a stored row may lack places and may hold  *)
(* places of an older version; what is missing is off.                     *)

normalizeRoleAccessMatrix(stored) == stored \intersect Flags

Parent(p) == <<p[1], "self">>

\* The flags that count: without its view a module of submodules gives nothing.
Granted(matrix) ==
  {g \in matrix : Parent(g[1]) \in Parents => <<Parent(g[1]), "view">> \in matrix}

resolveFlatPermissionsFromMatrix(stored) ==
  UNION {KeysAt(g[1])[g[2]] : g \in Granted(normalizeRoleAccessMatrix(stored))}

\* matrixFromFlatPermissions(): a flag of a place is on if one of its keys is
\* there, a flag of a module of submodules also if it is on below.
Own(keys) == {g \in Flags : KeysAt(g[1])[g[2]] \intersect keys # {}}
matrixFromFlatPermissions(keys) ==
  Own(keys) \union {<<Parent(g[1]), g[2]>> : g \in {h \in Own(keys) : h[1] \in Submodules}}
=============================================================================
