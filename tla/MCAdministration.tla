-------------------------- MODULE MCAdministration --------------------------
(***************************************************************************)
(* What administrators do: SFTP provisioning and user administration do    *)
(* not read each other's state, so that a behaviour is about one of them.  *)
(***************************************************************************)
EXTENDS SftpProvisioning, Accounts

CONSTANTS create1, create2, provision, rotate, remove, fresh, other,
          ann, dan, dev, una, new, nobody, north, south, g1, g2

VARIABLE focus

MCOpKind == [o \in Operations |->
  CASE o \in {create1, create2} -> "create" [] o = provision -> "provision"
    [] o = rotate -> "rotate" [] OTHER -> "remove"]
MCOpTenant == [o \in Operations |-> IF o = create2 THEN other ELSE fresh]
MCOpName == [o \in Operations |-> "acme"]

MCHomeTenant == [p \in People |-> CASE p = new -> south [] p = nobody -> NoTenant [] OTHER -> north]
MCFirstRole == [p \in People |->
  CASE p = ann -> "ADMIN" [] p = dan -> "DEALERADMIN" [] p \in {dev, nobody} -> "DEVELOPER"
    [] p = una -> "USER" [] OTHER -> NotYet]
MCFirstGroup == [t \in Dealers |-> IF t = north THEN g1 ELSE NoGroup]

Task(kind, by, on, value) == [kind |-> kind, by |-> by, on |-> on, value |-> value]
LogsIn(p) == Task("login", p, p, "on")
Uses(p) == Task("use", p, p, "on")

MCAgendas ==
  { \* an account is switched off while its user logs in and works
    [tasks |-> {LogsIn(una), Uses(una), Task("set_active", ann, una, "off")}, ticks |-> 4],
    \* a tenant is switched off and on
    [tasks |-> {Uses(una), Task("set_tenant", ann, north, "off"), Task("set_tenant", ann, north, "on")},
     ticks |-> 1],
    \* as many requests as the limit allows
    [tasks |-> {LogsIn(una), Uses(una)}, ticks |-> 5],
    \* groups are assigned while a dealer administrator writes
    [tasks |-> {Task("assign_group", dev, north, "east"), Task("assign_group", dev, south, "east"),
                Task("assign_group", dev, north, NoGroup),
                Task("set_active", dan, new, "off"), Task("add_user", dan, new, "USER")}, ticks |-> 0],
    \* a user is promoted, demoted and deleted, a group is added
    [tasks |-> {LogsIn(una), Task("set_role", dan, una, "ADMIN"), Task("set_role", una, ann, "USER"),
                Task("delete_user", dan, una, "on")}, ticks |-> 0],
    [tasks |-> {Task("add_group", dev, dev, "east"), Task("assign_group", dev, south, "east"),
                Task("set_tenant", dan, north, "off"), Uses(nobody)}, ticks |-> 0] }

\* The operations that are asked for.
Cast == IF focus = "names" THEN {create1, create2, remove} ELSE {create1, provision, rotate, remove}

Connections == Permutations(Slots)

Init ==
  /\ focus \in {"names", "keys", "accounts"}
  /\ SftpInit /\ AccInit
  /\ focus # "accounts" => agenda = CHOOSE a \in Agendas : TRUE

Next ==
  \/ /\ focus # "accounts" /\ SftpNext
     /\ \A o \in Operations \ Cast : step'[o] = "idle"
     /\ UNCHANGED <<focus, accVars>>
  \/ focus = "accounts" /\ AccNext /\ UNCHANGED <<focus, sftpVars>>

Spec == Init /\ [][Next]_<<focus, sftpVars, accVars>>

\* The types of both modules.
AdministrationTypeOK == SftpTypeOK /\ AccTypeOK
=============================================================================
