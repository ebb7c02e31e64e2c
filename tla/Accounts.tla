------------------------------ MODULE Accounts ------------------------------
(***************************************************************************)
(* The accounts of the administration: invitations and their activation,   *)
(* the admin role and the disabling of an account.                         *)
(*                                                                         *)
(* Each operation is a database transaction that locks rows one after the  *)
(* other, so that what it read in one statement is what it relies on in    *)
(* the next only for the rows it has locked; a transaction that waits for  *)
(* one that waits for it is rolled back by the database.  An actor may do  *)
(* anything to another account while active: a role of its own may carry   *)
(* any permission, and the permission is looked up before the transaction. *)
(***************************************************************************)
EXTENDS Naturals, Sequences, FiniteSets

CONSTANTS
  Users,        \* the addresses an account may have
  FirstAdmins,  \* the accounts of the administrators the system starts with
  Slots,        \* the transactions that may be under way at once
  MaxLinks      \* bound on the activation links of one account

ASSUME AccountsAssumption ==
  /\ FirstAdmins \subseteq Users /\ FirstAdmins # {}
  /\ MaxLinks \in Nat

VARIABLES
  status,  \* the status of each account, "absent" without one
  admins,  \* the accounts that the admin role is assigned to
  links,   \* for each account its activation links: open or used
  tx       \* the transactions under way

vars == <<status, admins, links, tx>>

None == [none |-> TRUE]

\* The rows that transactions lock: accounts, open links, the admin role.
UserRow(u) == <<"user", u>>
LinkRow(u) == <<"link", u>>
RoleRow == <<"role", "admin">>
Rows == {UserRow(u) : u \in Users} \cup {LinkRow(u) : u \in Users} \cup {RoleRow}

Transaction ==
  [op : {"disable", "removeRole", "resend", "activate"}, user : Users, link : Nat,
   step : {"first", "second", "write"}, locks : SUBSET Rows]

TypeInvariant ==
  /\ status \in [Users -> {"absent", "pending", "active", "inactive"}]
  /\ admins \subseteq Users
  /\ links \in [Users -> Seq({"open", "used"})]
  /\ tx \in [Slots -> {None} \cup Transaction]

Init ==
  /\ status = [u \in Users |-> IF u \in FirstAdmins THEN "active" ELSE "absent"]
  /\ admins = FirstAdmins
  /\ links = [u \in Users |-> <<>>]
  /\ tx = [s \in Slots |-> None]

ActiveAdmins == {u \in admins : status[u] = "active"}

Locks(s) == IF tx[s] = None THEN {} ELSE tx[s].locks
Free(s, rows) == \A t \in Slots \ {s} : Locks(t) \cap rows = {}
Unlocked(rows) == \A t \in Slots : Locks(t) \cap rows = {}

At(s, op, step) == tx[s] # None /\ tx[s].op = op /\ tx[s].step = step

Begins(s, op, u, link, step) ==
  /\ tx[s] = None
  /\ tx' = [tx EXCEPT ![s] =
       [op |-> op, user |-> u, link |-> link, step |-> step, locks |-> {}]]
  /\ UNCHANGED <<status, admins, links>>

\* A statement that locks rows, once nobody else holds them.
Acquires(s, rows, next) ==
  /\ Free(s, rows)
  /\ tx' = [tx EXCEPT ![s].locks = @ \cup rows, ![s].step = next]
  /\ UNCHANGED <<status, admins, links>>

\* Commit or rollback: the locks are released.
Ends(s) == tx' = [tx EXCEPT ![s] = None]
Refuses(s) == Ends(s) /\ UNCHANGED <<status, admins, links>>

-----------------------------------------------------------------------------
(* Invitation and activation.                                              *)

\* The unique index on the address leaves one of two invitations at once.
Invite(u, asAdmin) ==
  /\ status[u] = "absent"
  /\ MaxLinks > 0
  /\ asAdmin => Unlocked({RoleRow})
  /\ status' = [status EXCEPT ![u] = "pending"]
  /\ admins' = IF asAdmin THEN admins \cup {u} ELSE admins
  /\ links' = [links EXCEPT ![u] = Append(@, "open")]
  /\ UNCHANGED tx

BeginResend(s, u) ==
  /\ status[u] # "absent"
  /\ Len(links[u]) < MaxLinks
  /\ Begins(s, "resend", u, 0, "first")

\* Faulty variant: an account that is not pending leaves the transaction open.
FaultyResendLocks(s) ==
  /\ At(s, "resend", "first")
  /\ Free(s, {UserRow(tx[s].user)})
  /\ IF status[tx[s].user] # "pending" THEN UNCHANGED vars
     ELSE Acquires(s, {UserRow(tx[s].user)}, "write")

ResendLocks(s) ==
  /\ At(s, "resend", "first")
  /\ Free(s, {UserRow(tx[s].user)})
  /\ IF status[tx[s].user] # "pending" THEN Refuses(s)
     ELSE Acquires(s, {UserRow(tx[s].user)}, "write")

\* Faulty variant: the links sent before stay valid.
FaultyResendWrites(s) ==
  /\ At(s, "resend", "write")
  /\ Free(s, {LinkRow(tx[s].user)})
  /\ links' = [links EXCEPT ![tx[s].user] = Append(@, "open")]
  /\ Ends(s)
  /\ UNCHANGED <<status, admins>>

\* The open links are marked used, and a new one is made.
ResendWrites(s) ==
  /\ At(s, "resend", "write")
  /\ Free(s, {LinkRow(tx[s].user)})
  /\ links' = [links EXCEPT ![tx[s].user] = Append([n \in DOMAIN @ |-> "used"], "open")]
  /\ Ends(s)
  /\ UNCHANGED <<status, admins>>

\* Any link of the account may be opened, the replaced ones too.
BeginActivate(s, u, n) == Begins(s, "activate", u, n, "first")

\* Faulty variant: the link is read without a lock.
FaultyActivateLocksLink(s) ==
  /\ At(s, "activate", "first")
  /\ IF links[tx[s].user][tx[s].link] = "used" THEN Refuses(s) ELSE Acquires(s, {}, "second")

\* activateAccount locks the link first, the opposite order of a resend ...
ActivateLocksLink(s) ==
  /\ At(s, "activate", "first")
  /\ IF links[tx[s].user][tx[s].link] = "used" THEN Refuses(s)
     ELSE Acquires(s, {LinkRow(tx[s].user)}, "second")

\* ... then the account, which has no password yet while it is pending.
ActivateLocksUser(s) ==
  /\ At(s, "activate", "second")
  /\ Free(s, {UserRow(tx[s].user)})
  /\ IF status[tx[s].user] # "pending" THEN Refuses(s)
     ELSE Acquires(s, {UserRow(tx[s].user)}, "write")

ActivateWrites(s) ==
  /\ At(s, "activate", "write")
  /\ links' = [links EXCEPT ![tx[s].user][tx[s].link] = "used"]
  /\ status' = [status EXCEPT ![tx[s].user] = "active"]
  /\ Ends(s)
  /\ UNCHANGED admins

-----------------------------------------------------------------------------
(* The admin role and disabling.                                           *)

\* assignRoles: the insert needs both rows it refers to.
AssignAdmin(u) ==
  /\ status[u] # "absent"
  /\ Unlocked({UserRow(u), RoleRow})
  /\ admins' = admins \cup {u}
  /\ UNCHANGED <<status, links, tx>>

BeginRemoveRole(s, actor, u) ==
  /\ status[actor] = "active" /\ actor # u
  /\ status[u] # "absent"
  /\ Begins(s, "removeRole", u, 0, "second")

BeginDisable(s, actor, u) ==
  /\ status[actor] = "active" /\ actor # u
  /\ status[u] # "absent"
  /\ Begins(s, "disable", u, 0, "first")

DisableLocks(s) ==
  /\ At(s, "disable", "first")
  /\ Free(s, {UserRow(tx[s].user)})
  /\ IF status[tx[s].user] = "inactive" THEN Refuses(s)
     ELSE Acquires(s, {UserRow(tx[s].user)}, "second")

Counting(s) == At(s, "disable", "second") \/ At(s, "removeRole", "second")

\* Faulty variant: the administrators are counted without locking their rows.
FaultyCountAdmins(s) ==
  /\ Counting(s)
  /\ IF ActiveAdmins = {tx[s].user} THEN Refuses(s) ELSE Acquires(s, {}, "write")

\* getActiveAdminIds: the rows of account, assignment and role are locked and,
\* after a wait, looked at again; the last active administrator is refused.
CountAdmins(s) ==
  /\ Counting(s)
  /\ Free(s, {UserRow(a) : a \in ActiveAdmins} \cup {RoleRow})
  /\ IF ActiveAdmins = {tx[s].user} THEN Refuses(s)
     ELSE Acquires(s, {UserRow(a) : a \in ActiveAdmins} \cup {RoleRow}, "write")

DisableWrites(s) ==
  /\ At(s, "disable", "write")
  /\ status' = [status EXCEPT ![tx[s].user] = "inactive"]
  /\ Ends(s)
  /\ UNCHANGED <<admins, links>>

RemoveRoleWrites(s) ==
  /\ At(s, "removeRole", "write")
  /\ admins' = admins \ {tx[s].user}
  /\ Ends(s)
  /\ UNCHANGED <<status, links>>

-----------------------------------------------------------------------------
(* The database.                                                           *)

\* The rows that the next statement of a transaction locks.
Wanted(s) ==
  IF tx[s] = None THEN {}
  ELSE IF Counting(s) THEN {UserRow(a) : a \in ActiveAdmins} \cup {RoleRow}
  ELSE IF At(s, "activate", "first") \/ At(s, "resend", "write") THEN {LinkRow(tx[s].user)}
  ELSE IF tx[s].step = "write" THEN {}
  ELSE {UserRow(tx[s].user)}

WaitsFor(s, t) == s # t /\ Wanted(s) \cap Locks(t) # {}

\* A transaction in a circle of transactions that wait for each other.
DatabaseAborts(s) ==
  /\ \E circle \in SUBSET Slots :
       s \in circle /\ \A t \in circle : \E r \in circle : WaitsFor(t, r)
  /\ Refuses(s)

\* The process dies or a statement fails: the transaction is rolled back.
Fails(s) ==
  /\ tx[s] # None
  /\ Refuses(s)

-----------------------------------------------------------------------------
TransactionBegins(s) ==
  \E u \in Users :
    \/ BeginResend(s, u)
    \/ \E n \in DOMAIN links[u] : BeginActivate(s, u, n)
    \/ \E actor \in Users : BeginRemoveRole(s, actor, u) \/ BeginDisable(s, actor, u)

TransactionStep(s) ==
  \/ ResendLocks(s) \/ ResendWrites(s)
  \/ ActivateLocksLink(s) \/ ActivateLocksUser(s) \/ ActivateWrites(s)
  \/ DisableLocks(s) \/ CountAdmins(s) \/ DisableWrites(s) \/ RemoveRoleWrites(s)

Next ==
  \/ \E u \in Users : AssignAdmin(u) \/ \E asAdmin \in BOOLEAN : Invite(u, asAdmin)
  \/ \E s \in Slots :
       TransactionBegins(s) \/ TransactionStep(s) \/ DatabaseAborts(s) \/ Fails(s)

Spec == Init /\ [][Next]_vars

\* Statements are executed, the database hands a row to those that wait for it in
\* turn (strong fairness), and it looks for circles of waits.
FairSpec ==
  /\ Spec
  /\ \A s \in Slots : SF_vars(TransactionStep(s)) /\ WF_vars(DatabaseAborts(s))

-----------------------------------------------------------------------------
(* Properties.                                                             *)

\* The system always has an active administrator (README.md:111), whoever
\* disables whom at once with whatever checks made before.
LastAdminRemains == \E u \in Users : u \in admins /\ status[u] = "active"

\* No row is locked twice, and an invited account has exactly one open
\* link, the newest, also after a resend and an activation that met halfway;
\* an account that was activated has none.
AccountsConsistent ==
  /\ TypeInvariant
  /\ \A s \in Slots : \A t \in Slots \ {s} : Locks(s) \cap Locks(t) = {}
  /\ \A u \in Users :
       LET open == {n \in DOMAIN links[u] : links[u][n] = "open"} IN
       /\ status[u] = "pending" => open = {Len(links[u])}
       /\ status[u] = "active" => open = {}

\* An account becomes active only through the newest link, used by that very
\* step, and an account that was disabled stays so.
OnlyTheNewestLinkActivates ==
  [][\A u \in Users :
       /\ status[u] # "active" /\ status'[u] = "active" =>
            /\ status[u] = "pending"
            /\ links[u][Len(links[u])] = "open"
            /\ links'[u] = [links[u] EXCEPT ![Len(links[u])] = "used"]
       /\ status[u] = "inactive" => status'[u] = "inactive"
    ]_vars

\* Every transaction ends, those that wait for each other too.
TransactionsEnd == \A s \in Slots : tx[s] # None ~> tx[s] = None
=============================================================================
