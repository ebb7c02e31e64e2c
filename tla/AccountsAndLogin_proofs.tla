---------------------- MODULE AccountsAndLogin_proofs -----------------------
(***************************************************************************)
(* Theorems about who may log in: first Accounts, for every set of         *)
(* accounts, administrators and concurrent transactions, then              *)
(* LoginSessions, for any number of requests at once, any limit of         *)
(* failures and any length of a lock.                                      *)
(***************************************************************************)
EXTENDS Accounts, LoginSessions, TLAPS


-----------------------------------------------------------------------------
(* The inductive invariant.                                                *)

\* What a transaction has read and relies on, under the locks it holds.
Reliant(s) ==
  tx[s] # None =>
    LET u == tx[s].user IN
    /\ tx[s].op = "activate" => tx[s].link \in 1 .. Len(links[u])
    /\ tx[s].op = "activate" /\ tx[s].step # "first" =>
         LinkRow(u) \in tx[s].locks /\ links[u][tx[s].link] = "open"
    /\ tx[s].op \in {"activate", "resend"} /\ tx[s].step = "write" =>
         UserRow(u) \in tx[s].locks /\ status[u] = "pending"
    /\ tx[s].op = "disable" /\ tx[s].step # "first" => UserRow(u) \in tx[s].locks
    /\ tx[s].op \in {"disable", "removeRole"} /\ tx[s].step = "write" =>
         /\ RoleRow \in tx[s].locks
         /\ \E a \in Users : a # u /\ a \in admins /\ status[a] = "active"

LocksExclude == \A s, t \in Slots : s # t => Locks(s) \cap Locks(t) = {}

LinksFit ==
  \A u \in Users :
    /\ status[u] = "absent" => Len(links[u]) = 0
    /\ status[u] = "pending" =>
         /\ Len(links[u]) > 0
         /\ \A n \in 1 .. Len(links[u]) : links[u][n] = IF n = Len(links[u]) THEN "open" ELSE "used"
    /\ status[u] = "active" => \A n \in 1 .. Len(links[u]) : links[u][n] = "used"

Inv ==
  /\ TypeInvariant
  /\ LocksExclude
  /\ \A s \in Slots : Reliant(s)
  /\ LinksFit
  /\ LastAdminRemains

LEMMA TransactionIsSome ==
  /\ \A t \in Transaction : t # None
  /\ \A t \in Transaction : /\ t.user \in Users /\ t.link \in Nat
                            /\ t.step \in {"first", "second", "write"}
                            /\ t.locks \in SUBSET Rows
BY DEF Transaction, None

\* The invariant holds initially.
LEMMA InitInv == Init => Inv
<1> SUFFICES ASSUME Init PROVE Inv
  OBVIOUS
<1>1. TypeInvariant
  BY AccountsAssumption DEF Init, TypeInvariant
<1>2. LocksExclude /\ \A s \in Slots : Reliant(s)
  BY DEF Init, LocksExclude, Locks, Reliant
<1>3. LinksFit
  BY DEF Init, LinksFit
<1>4. LastAdminRemains
  BY AccountsAssumption DEF Init, LastAdminRemains
<1> QED BY <1>1, <1>2, <1>3, <1>4 DEF Inv

-----------------------------------------------------------------------------
(* Steps that change the transactions only.                                *)

\* A transaction that ends takes nothing from the others.
LEMMA RefusesKeepsInv ==
  ASSUME Inv, NEW s \in Slots, Refuses(s)
  PROVE  Inv'
<1> USE DEF Inv
<1>1. tx' = [tx EXCEPT ![s] = None] /\ UNCHANGED <<status, admins, links>>
  BY DEF Refuses, Ends
<1>2. \A t \in Slots : tx'[t] = IF t = s THEN None ELSE tx[t]
  BY <1>1 DEF TypeInvariant
<1>3. TypeInvariant'
  BY <1>1 DEF TypeInvariant
<1>4. LocksExclude'
  BY <1>2 DEF LocksExclude, Locks
<1>5. \A t \in Slots : Reliant(t)'
  BY <1>1, <1>2 DEF Reliant
<1>6. LinksFit' /\ LastAdminRemains'
  BY <1>1 DEF LinksFit, LastAdminRemains
<1> QED BY <1>3, <1>4, <1>5, <1>6

\* A transaction that begins relies on nothing but the link it was given.
LEMMA BeginsKeepsInv ==
  ASSUME Inv, NEW s \in Slots, NEW u \in Users, NEW n \in Nat,
         NEW op \in {"disable", "removeRole", "resend", "activate"},
         NEW step \in {"first", "second"},
         op \in {"activate", "disable"} => step = "first",
         op = "activate" => n \in 1 .. Len(links[u]),
         Begins(s, op, u, n, step)
  PROVE  Inv'
<1> USE DEF Inv
<1> DEFINE new == [op |-> op, user |-> u, link |-> n, step |-> step, locks |-> {}]
<1>1. tx' = [tx EXCEPT ![s] = new] /\ UNCHANGED <<status, admins, links>>
  BY DEF Begins
<1>2. new \in Transaction
  BY DEF Transaction
<1>3. \A t \in Slots : tx'[t] = IF t = s THEN new ELSE tx[t]
  BY <1>1 DEF TypeInvariant
<1>4. TypeInvariant'
  BY <1>1, <1>2 DEF TypeInvariant
<1>5. LocksExclude'
  BY <1>2, <1>3, TransactionIsSome DEF LocksExclude, Locks
<1>6. \A t \in Slots : Reliant(t)'
  BY <1>1, <1>2, <1>3 DEF Reliant
<1>7. LinksFit' /\ LastAdminRemains'
  BY <1>1 DEF LinksFit, LastAdminRemains
<1> QED BY <1>4, <1>5, <1>6, <1>7

\* Rows are locked by one transaction at a time; what the transaction itself
\* relies on after the step is for the caller to show.
LEMMA AcquiresKeepsInv ==
  ASSUME Inv, NEW s \in Slots, tx[s] # None, NEW rows \in SUBSET Rows,
         NEW next \in {"second", "write"}, Acquires(s, rows, next), Reliant(s)'
  PROVE  Inv'
<1> USE DEF Inv
<1>1. /\ tx' = [tx EXCEPT ![s].locks = @ \cup rows, ![s].step = next]
      /\ UNCHANGED <<status, admins, links>> /\ Free(s, rows)
  BY DEF Acquires
<1>2. tx[s] \in Transaction
  BY DEF TypeInvariant
<1> DEFINE new == [tx[s] EXCEPT !.locks = @ \cup rows, !.step = next]
<1>3. new \in Transaction /\ new.locks = tx[s].locks \cup rows
  BY <1>2 DEF Transaction
<1>4. \A t \in Slots : tx'[t] = IF t = s THEN new ELSE tx[t]
  BY <1>1, <1>2 DEF TypeInvariant
<1>5. TypeInvariant'
  BY <1>1, <1>3, <1>4 DEF TypeInvariant
<1>6. LocksExclude'
  <2>1. \A t \in Slots \ {s} : Locks(t)' = Locks(t)
    BY <1>4 DEF Locks
  <2>2. Locks(s)' = Locks(s) \cup rows
    BY <1>3, <1>4, TransactionIsSome DEF Locks
  <2>3. \A t \in Slots \ {s} : Locks(t) \cap rows = {}
    BY <1>1 DEF Free
  <2> QED BY <2>1, <2>2, <2>3 DEF LocksExclude
<1>7. \A t \in Slots \ {s} : Reliant(t)'
  <2> SUFFICES ASSUME NEW t \in Slots \ {s} PROVE Reliant(t)'
    OBVIOUS
  <2>1. tx'[t] = tx[t] /\ status' = status /\ admins' = admins /\ links' = links
    BY <1>1, <1>4
  <2>2. Reliant(t)
    BY <1>1
  <2> QED BY <2>1, <2>2, SMT DEF Reliant
<1>8. LinksFit' /\ LastAdminRemains'
  BY <1>1 DEF LinksFit, LastAdminRemains
<1> QED BY <1>5, <1>6, <1>7, <1>8

\* The transaction after a step that locks rows.
LEMMA AcquiredTransaction ==
  ASSUME TypeInvariant, NEW s \in Slots, tx[s] # None, NEW rows \in SUBSET Rows,
         NEW next \in {"second", "write"}, Acquires(s, rows, next)
  PROVE  /\ tx'[s].op = tx[s].op /\ tx'[s].user = tx[s].user /\ tx'[s].link = tx[s].link
         /\ tx'[s].step = next /\ tx'[s].locks = tx[s].locks \cup rows
         /\ tx[s].user \in Users
         /\ UNCHANGED <<status, admins, links>>
<1>1. /\ tx' = [tx EXCEPT ![s].locks = @ \cup rows, ![s].step = next]
      /\ UNCHANGED <<status, admins, links>>
  BY DEF Acquires
<1>2. tx[s] \in Transaction
  BY DEF TypeInvariant
<1>3. tx'[s] = [tx[s] EXCEPT !.locks = @ \cup rows, !.step = next]
  BY <1>1 DEF TypeInvariant
<1> PICK old \in Transaction : old = tx[s]
  BY <1>2
<1> PICK new : new = [old EXCEPT !.locks = @ \cup rows, !.step = next]
  OBVIOUS
<1>4. /\ new.op = old.op /\ new.user = old.user /\ new.link = old.link
      /\ new.step = next /\ new.locks = old.locks \cup rows /\ old.user \in Users
  BY DEF Transaction
<1>5. tx'[s] = new
  BY <1>3
<1> QED BY <1>1, <1>4, <1>5

-----------------------------------------------------------------------------
(* The steps of a transaction that lock rows.                              *)

\* A resend holds the account, which is pending.
LEMMA ResendLocksKeepsInv ==
  ASSUME Inv, NEW s \in Slots, ResendLocks(s)
  PROVE  Inv'
<1>1. /\ tx[s] # None /\ tx[s].op = "resend"
      /\ tx[s] \in Transaction /\ tx[s].user \in Users
  BY TransactionIsSome DEF ResendLocks, At, Inv, TypeInvariant
<1>2. CASE status[tx[s].user] # "pending"
  BY <1>2, RefusesKeepsInv DEF ResendLocks
<1>3. CASE status[tx[s].user] = "pending"
  <2> DEFINE rows == {UserRow(tx[s].user)}
  <2>1. Acquires(s, rows, "write") /\ rows \in SUBSET Rows
    BY <1>1, <1>3 DEF ResendLocks, Rows
  <2>2. Reliant(s)'
    BY <1>1, <1>3, <2>1, AcquiredTransaction DEF Inv, Reliant
  <2> QED BY <1>1, <2>1, <2>2, AcquiresKeepsInv
<1> QED BY <1>2, <1>3

\* An activation holds its link, which is not used.
LEMMA ActivateLocksLinkKeepsInv ==
  ASSUME Inv, NEW s \in Slots, ActivateLocksLink(s)
  PROVE  Inv'
<1>1. /\ tx[s] # None /\ tx[s].op = "activate"
      /\ tx[s] \in Transaction /\ tx[s].user \in Users
  BY TransactionIsSome DEF ActivateLocksLink, At, Inv, TypeInvariant
<1>2. CASE links[tx[s].user][tx[s].link] = "used"
  BY <1>2, RefusesKeepsInv DEF ActivateLocksLink
<1>3. CASE links[tx[s].user][tx[s].link] # "used"
  <2> DEFINE rows == {LinkRow(tx[s].user)}
  <2>1. Acquires(s, rows, "second") /\ rows \in SUBSET Rows
    BY <1>1, <1>3 DEF ActivateLocksLink, Rows
  <2>2. tx[s].link \in 1 .. Len(links[tx[s].user])
    BY <1>1 DEF Inv, Reliant
  <2>3. links[tx[s].user] \in Seq({"open", "used"})
    BY <1>1 DEF Inv, TypeInvariant
  <2>4. links[tx[s].user][tx[s].link] = "open"
    BY <1>3, <2>2, <2>3
  <2>5. Reliant(s)'
    BY <1>1, <2>1, <2>2, <2>4, AcquiredTransaction DEF Inv, Reliant
  <2> QED BY <1>1, <2>1, <2>5, AcquiresKeepsInv
<1> QED BY <1>2, <1>3

\* ... and then the account, which is pending.
LEMMA ActivateLocksUserKeepsInv ==
  ASSUME Inv, NEW s \in Slots, ActivateLocksUser(s)
  PROVE  Inv'
<1>1. /\ tx[s] # None /\ tx[s].op = "activate" /\ tx[s].step = "second"
      /\ tx[s] \in Transaction /\ tx[s].user \in Users
  BY TransactionIsSome DEF ActivateLocksUser, At, Inv, TypeInvariant
<1>2. CASE status[tx[s].user] # "pending"
  BY <1>2, RefusesKeepsInv DEF ActivateLocksUser
<1>3. CASE status[tx[s].user] = "pending"
  <2> DEFINE rows == {UserRow(tx[s].user)}
  <2>1. Acquires(s, rows, "write") /\ rows \in SUBSET Rows
    BY <1>1, <1>3 DEF ActivateLocksUser, Rows
  <2>2. Reliant(s)'
    BY <1>1, <1>3, <2>1, AcquiredTransaction DEF Inv, Reliant
  <2> QED BY <1>1, <2>1, <2>2, AcquiresKeepsInv
<1> QED BY <1>2, <1>3

\* Disabling holds the account.
LEMMA DisableLocksKeepsInv ==
  ASSUME Inv, NEW s \in Slots, DisableLocks(s)
  PROVE  Inv'
<1>1. /\ tx[s] # None /\ tx[s].op = "disable"
      /\ tx[s] \in Transaction /\ tx[s].user \in Users
  BY TransactionIsSome DEF DisableLocks, At, Inv, TypeInvariant
<1>2. CASE status[tx[s].user] = "inactive"
  BY <1>2, RefusesKeepsInv DEF DisableLocks
<1>3. CASE status[tx[s].user] # "inactive"
  <2> DEFINE rows == {UserRow(tx[s].user)}
  <2>1. Acquires(s, rows, "second") /\ rows \in SUBSET Rows
    BY <1>1, <1>3 DEF DisableLocks, Rows
  <2>2. Reliant(s)'
    BY <1>1, <2>1, AcquiredTransaction DEF Inv, Reliant
  <2> QED BY <1>1, <2>1, <2>2, AcquiresKeepsInv
<1> QED BY <1>2, <1>3

\* The count holds the role and has seen another active administrator.
LEMMA CountAdminsKeepsInv ==
  ASSUME Inv, NEW s \in Slots, CountAdmins(s)
  PROVE  Inv'
<1>1. /\ tx[s] # None /\ tx[s].op \in {"disable", "removeRole"} /\ tx[s].step = "second"
      /\ tx[s] \in Transaction /\ tx[s].user \in Users
  BY TransactionIsSome DEF CountAdmins, Counting, At, Inv, TypeInvariant
<1>2. CASE ActiveAdmins = {tx[s].user}
  BY <1>2, RefusesKeepsInv DEF CountAdmins
<1>3. CASE ActiveAdmins # {tx[s].user}
  <2> DEFINE rows == {UserRow(a) : a \in ActiveAdmins} \cup {RoleRow}
  <2>1. admins \subseteq Users
    BY DEF Inv, TypeInvariant
  <2>2. Acquires(s, rows, "write") /\ rows \in SUBSET Rows /\ RoleRow \in rows
    BY <1>1, <1>3, <2>1 DEF CountAdmins, Rows, ActiveAdmins
  <2>3. \E a \in Users : a \in ActiveAdmins
    BY DEF Inv, LastAdminRemains, ActiveAdmins
  <2>4. \E a \in Users : a # tx[s].user /\ a \in admins /\ status[a] = "active"
    BY <1>3, <2>1, <2>3 DEF ActiveAdmins
  <2> HIDE DEF rows
  <2>5. Reliant(s)'
    BY <1>1, <2>2, <2>4, AcquiredTransaction DEF Inv, Reliant
  <2> QED BY <1>1, <2>2, <2>5, AcquiresKeepsInv
<1> QED BY <1>2, <1>3

-----------------------------------------------------------------------------
(* The steps that write.                                                   *)

\* Two transactions never hold the same row.
LEMMA HoldersDiffer ==
  ASSUME LocksExclude, NEW s \in Slots, NEW t \in Slots, s # t,
         tx[s] # None, tx[t] # None, NEW row, row \in tx[s].locks
  PROVE  row \notin tx[t].locks
BY DEF LocksExclude, Locks

\* The locks and the other transactions after one has ended.
LEMMA EndsKeepsLocks ==
  ASSUME TypeInvariant, LocksExclude, NEW s \in Slots, Ends(s)
  PROVE  /\ tx' \in [Slots -> {None} \cup Transaction]
         /\ LocksExclude'
         /\ tx'[s] = None
         /\ \A t \in Slots \ {s} : tx'[t] = tx[t]
<1>1. \A t \in Slots : tx'[t] = IF t = s THEN None ELSE tx[t]
  BY DEF TypeInvariant, Ends
<1>2. tx' \in [Slots -> {None} \cup Transaction]
  BY DEF TypeInvariant, Ends
<1>3. LocksExclude'
  BY <1>1 DEF LocksExclude, Locks
<1> QED BY <1>1, <1>2, <1>3

\* The new links of a resend: all used, but the last one.
LEMMA NewLinks ==
  ASSUME NEW old \in Seq({"open", "used"})
  PROVE  LET new == Append([n \in DOMAIN old |-> "used"], "open") IN
         /\ new \in Seq({"open", "used"}) /\ Len(new) = Len(old) + 1 /\ Len(new) > 0
         /\ \A n \in 1 .. Len(new) : new[n] = IF n = Len(new) THEN "open" ELSE "used"
<1> DEFINE used == [n \in DOMAIN old |-> "used"]
<1>1. DOMAIN old = 1 .. Len(old) /\ Len(old) \in Nat
  OBVIOUS
<1>2. used \in Seq({"open", "used"}) /\ Len(used) = Len(old) /\ \A n \in 1 .. Len(used) : used[n] = "used"
  BY <1>1
<1> HIDE DEF used
<1>3. Append(used, "open") \in Seq({"open", "used"}) /\ Len(Append(used, "open")) = Len(used) + 1
  BY <1>2
<1>4. \A n \in 1 .. Len(used) + 1 :
        Append(used, "open")[n] = IF n = Len(used) + 1 THEN "open" ELSE used[n]
  BY <1>2
<1>5. \A n \in 1 .. Len(used) + 1 : Append(used, "open")[n] = IF n = Len(used) + 1 THEN "open" ELSE "used"
  BY <1>1, <1>2, <1>4
<1> QED BY <1>1, <1>2, <1>3, <1>5 DEF used

\* A resend leaves the newest link only.
LEMMA ResendWritesKeepsInv ==
  ASSUME Inv, NEW s \in Slots, ResendWrites(s)
  PROVE  Inv'
<1> USE DEF Inv
<1> DEFINE u == tx[s].user
           new == Append([n \in DOMAIN links[u] |-> "used"], "open")
<1>1. /\ tx[s] # None /\ tx[s].op = "resend" /\ tx[s].step = "write"
      /\ u \in Users
  BY TransactionIsSome DEF ResendWrites, At, TypeInvariant
<1>2. UserRow(u) \in tx[s].locks /\ status[u] = "pending"
  BY <1>1 DEF Reliant
<1>3. /\ links' = [links EXCEPT ![u] = new] /\ Ends(s) /\ UNCHANGED <<status, admins>>
      /\ Free(s, {LinkRow(u)})
  BY DEF ResendWrites
<1>4. links[u] \in Seq({"open", "used"})
  BY <1>1 DEF TypeInvariant
<1>5. /\ new \in Seq({"open", "used"}) /\ Len(new) = Len(links[u]) + 1 /\ Len(new) > 0
      /\ \A n \in 1 .. Len(new) : new[n] = IF n = Len(new) THEN "open" ELSE "used"
  BY <1>4, NewLinks
<1> HIDE DEF new
<1>6. /\ links'[u] = new /\ \A v \in Users : v # u => links'[v] = links[v]
      /\ links' \in [Users -> Seq({"open", "used"})]
  BY <1>1, <1>3, <1>5 DEF TypeInvariant
<1>7. TypeInvariant' /\ LocksExclude'
  BY <1>3, <1>6, EndsKeepsLocks DEF TypeInvariant
<1>8. \A t \in Slots : Reliant(t)'
  <2> SUFFICES ASSUME NEW t \in Slots, t # s, tx[t] # None PROVE Reliant(t)'
    BY <1>3, EndsKeepsLocks DEF Reliant
  <2>1. tx'[t] = tx[t]
    BY <1>3, EndsKeepsLocks
  <2>2. LinkRow(u) \notin tx[t].locks
    BY <1>3 DEF Free, Locks
  <2>3. tx[t].user = u =>
          /\ tx[t].op = "activate" => tx[t].step = "first"
          /\ tx[t].op = "activate" => tx[t].link \in 1 .. Len(new)
    BY <1>4, <1>5, <2>2 DEF Reliant
  <2>4. tx[t].user \in Users
    BY TransactionIsSome DEF TypeInvariant
  <2> QED BY <1>3, <1>6, <2>1, <2>3, <2>4 DEF Reliant
<1>9. LinksFit'
  BY <1>2, <1>3, <1>5, <1>6 DEF LinksFit
<1>10. LastAdminRemains'
  BY <1>3 DEF LastAdminRemains
<1> QED BY <1>7, <1>8, <1>9, <1>10

\* An activation uses the only link that was not used.
LEMMA ActivateWritesKeepsInv ==
  ASSUME Inv, NEW s \in Slots, ActivateWrites(s)
  PROVE  Inv'
<1> USE DEF Inv
<1> DEFINE u == tx[s].user
           n == tx[s].link
<1>1. /\ tx[s] # None /\ tx[s].op = "activate" /\ tx[s].step = "write"
      /\ u \in Users
  BY TransactionIsSome DEF ActivateWrites, At, TypeInvariant
<1>2. /\ UserRow(u) \in tx[s].locks /\ status[u] = "pending"
      /\ LinkRow(u) \in tx[s].locks /\ n \in 1 .. Len(links[u]) /\ links[u][n] = "open"
  BY <1>1 DEF Reliant
<1>3. /\ links' = [links EXCEPT ![u][n] = "used"] /\ Ends(s) /\ UNCHANGED admins
      /\ status' = [status EXCEPT ![u] = "active"]
  BY DEF ActivateWrites
<1>4. links[u] \in Seq({"open", "used"}) /\ Len(links[u]) \in Nat
  BY <1>1 DEF TypeInvariant
<1>5. n = Len(links[u])
  BY <1>1, <1>2 DEF LinksFit
<1> DEFINE new == [links[u] EXCEPT ![n] = "used"]
<1>6. /\ new \in Seq({"open", "used"}) /\ Len(new) = Len(links[u])
      /\ \A k \in 1 .. Len(new) : new[k] = "used"
  <2>1. new \in Seq({"open", "used"}) /\ Len(new) = Len(links[u])
    BY <1>2, <1>4
  <2>2. \A k \in 1 .. Len(new) : new[k] = IF k = n THEN "used" ELSE links[u][k]
    BY <1>4, <2>1
  <2>3. \A k \in 1 .. Len(links[u]) : links[u][k] = IF k = Len(links[u]) THEN "open" ELSE "used"
    BY <1>1, <1>2 DEF LinksFit
  <2> QED BY <1>5, <2>1, <2>2, <2>3
<1>7. links' = [links EXCEPT ![u] = new]
  BY <1>1, <1>3 DEF TypeInvariant
<1> HIDE DEF new
<1>8. /\ links'[u] = new /\ \A v \in Users : v # u => links'[v] = links[v]
      /\ links' \in [Users -> Seq({"open", "used"})]
      /\ status'[u] = "active" /\ \A v \in Users : v # u => status'[v] = status[v]
      /\ status' \in [Users -> {"absent", "pending", "active", "inactive"}]
  BY <1>1, <1>3, <1>6, <1>7 DEF TypeInvariant
<1>9. TypeInvariant' /\ LocksExclude'
  BY <1>3, <1>8, EndsKeepsLocks DEF TypeInvariant
<1>10. \A t \in Slots : Reliant(t)'
  <2> SUFFICES ASSUME NEW t \in Slots, t # s, tx[t] # None PROVE Reliant(t)'
    BY <1>3, EndsKeepsLocks DEF Reliant
  <2>1. tx'[t] = tx[t] /\ tx[t].user \in Users
    BY <1>3, EndsKeepsLocks, TransactionIsSome DEF TypeInvariant
  <2>2. LinkRow(u) \notin tx[t].locks /\ UserRow(u) \notin tx[t].locks
    BY <1>1, <1>2, HoldersDiffer
  <2>3. tx[t].user = u => /\ tx[t].op = "activate" => tx[t].step = "first"
                          /\ ~(tx[t].op \in {"activate", "resend"} /\ tx[t].step = "write")
    BY <2>2 DEF Reliant
  <2>4. \A a \in Users : status[a] = "active" => status'[a] = "active"
    BY <1>8
  <2> QED BY <1>3, <1>6, <1>8, <2>1, <2>3, <2>4 DEF Reliant
<1>11. LinksFit'
  BY <1>6, <1>8 DEF LinksFit
<1>12. LastAdminRemains'
  BY <1>3, <1>8 DEF LastAdminRemains
<1> QED BY <1>9, <1>10, <1>11, <1>12

\* While the counting transaction s holds the role, no other one removes an
\* administrator: what the others have counted still holds after s has written.
LEMMA OnlyOneRemoves ==
  ASSUME Inv, NEW s \in Slots, NEW t \in Slots, s # t, tx[s] # None, tx[t] # None,
         tx[s].op \in {"disable", "removeRole"}, tx[s].step = "write"
  PROVE  ~(tx[t].op \in {"disable", "removeRole"} /\ tx[t].step = "write")
BY HoldersDiffer DEF Inv, Reliant

\* A disabled account leaves another active administrator.
LEMMA DisableWritesKeepsInv ==
  ASSUME Inv, NEW s \in Slots, DisableWrites(s)
  PROVE  Inv'
<1> USE DEF Inv
<1> DEFINE u == tx[s].user
<1>1. /\ tx[s] # None /\ tx[s].op = "disable" /\ tx[s].step = "write" /\ u \in Users
  BY TransactionIsSome DEF DisableWrites, At, TypeInvariant
<1>2. /\ UserRow(u) \in tx[s].locks
      /\ \E a \in Users : a # u /\ a \in admins /\ status[a] = "active"
  BY <1>1 DEF Reliant
<1>3. status' = [status EXCEPT ![u] = "inactive"] /\ Ends(s) /\ UNCHANGED <<admins, links>>
  BY DEF DisableWrites
<1>4. /\ status'[u] = "inactive" /\ \A v \in Users : v # u => status'[v] = status[v]
      /\ status' \in [Users -> {"absent", "pending", "active", "inactive"}]
  BY <1>1, <1>3 DEF TypeInvariant
<1>5. TypeInvariant' /\ LocksExclude'
  BY <1>3, <1>4, EndsKeepsLocks DEF TypeInvariant
<1>6. \A t \in Slots : Reliant(t)'
  <2> SUFFICES ASSUME NEW t \in Slots, t # s, tx[t] # None PROVE Reliant(t)'
    BY <1>3, EndsKeepsLocks DEF Reliant
  <2>1. tx'[t] = tx[t] /\ tx[t].user \in Users
    BY <1>3, EndsKeepsLocks, TransactionIsSome DEF TypeInvariant
  <2>2. UserRow(u) \notin tx[t].locks
    BY <1>1, <1>2, HoldersDiffer
  <2>3. tx[t].user = u => ~(tx[t].op \in {"activate", "resend"} /\ tx[t].step = "write")
    BY <2>2 DEF Reliant
  <2>4. ~(tx[t].op \in {"disable", "removeRole"} /\ tx[t].step = "write")
    BY <1>1, OnlyOneRemoves
  <2> QED BY <1>3, <1>4, <2>1, <2>3, <2>4 DEF Reliant
<1>7. LinksFit'
  BY <1>3, <1>4 DEF LinksFit
<1>8. LastAdminRemains'
  BY <1>2, <1>3, <1>4 DEF LastAdminRemains
<1> QED BY <1>5, <1>6, <1>7, <1>8

\* So does an account that loses the role.
LEMMA RemoveRoleWritesKeepsInv ==
  ASSUME Inv, NEW s \in Slots, RemoveRoleWrites(s)
  PROVE  Inv'
<1> USE DEF Inv
<1> DEFINE u == tx[s].user
<1>1. /\ tx[s] # None /\ tx[s].op = "removeRole" /\ tx[s].step = "write" /\ u \in Users
  BY TransactionIsSome DEF RemoveRoleWrites, At, TypeInvariant
<1>2. \E a \in Users : a # u /\ a \in admins /\ status[a] = "active"
  BY <1>1 DEF Reliant
<1>3. admins' = admins \ {u} /\ Ends(s) /\ UNCHANGED <<status, links>>
  BY DEF RemoveRoleWrites
<1>4. TypeInvariant' /\ LocksExclude'
  BY <1>3, EndsKeepsLocks DEF TypeInvariant
<1>5. \A t \in Slots : Reliant(t)'
  <2> SUFFICES ASSUME NEW t \in Slots, t # s, tx[t] # None PROVE Reliant(t)'
    BY <1>3, EndsKeepsLocks DEF Reliant
  <2>1. tx'[t] = tx[t]
    BY <1>3, EndsKeepsLocks
  <2>2. ~(tx[t].op \in {"disable", "removeRole"} /\ tx[t].step = "write")
    BY <1>1, OnlyOneRemoves
  <2> QED BY <1>3, <2>1, <2>2 DEF Reliant
<1>6. LinksFit'
  BY <1>3 DEF LinksFit
<1>7. LastAdminRemains'
  BY <1>2, <1>3 DEF LastAdminRemains
<1> QED BY <1>4, <1>5, <1>6, <1>7

-----------------------------------------------------------------------------
(* The operations of a single step.                                        *)

\* A new account has one open link, and no transaction is about it.
LEMMA InviteKeepsInv ==
  ASSUME Inv, NEW u \in Users, NEW asAdmin \in BOOLEAN, Invite(u, asAdmin)
  PROVE  Inv'
<1> USE DEF Inv
<1>1. /\ status[u] = "absent" /\ status' = [status EXCEPT ![u] = "pending"]
      /\ links' = [links EXCEPT ![u] = Append(@, "open")] /\ UNCHANGED tx
      /\ admins' = admins \/ admins' = admins \cup {u}
  BY DEF Invite
<1>2. links[u] \in Seq({"open", "used"}) /\ Len(links[u]) = 0
  BY <1>1 DEF TypeInvariant, LinksFit
<1> DEFINE new == Append(links[u], "open")
<1>3. new \in Seq({"open", "used"}) /\ Len(new) = 1 /\ new[1] = "open"
  BY <1>2
<1> HIDE DEF new
<1>4. /\ links'[u] = new /\ \A v \in Users : v # u => links'[v] = links[v]
      /\ links' \in [Users -> Seq({"open", "used"})]
      /\ status'[u] = "pending" /\ \A v \in Users : v # u => status'[v] = status[v]
      /\ status' \in [Users -> {"absent", "pending", "active", "inactive"}]
  BY <1>1, <1>3 DEF TypeInvariant, new
<1>5. TypeInvariant'
  BY <1>1, <1>4 DEF TypeInvariant
<1>6. LocksExclude'
  BY <1>1 DEF LocksExclude, Locks
<1>7. \A t \in Slots : Reliant(t)'
  <2> SUFFICES ASSUME NEW t \in Slots, tx[t] # None PROVE Reliant(t)'
    BY <1>1 DEF Reliant
  <2>1. tx[t].user \in Users
    BY TransactionIsSome DEF TypeInvariant
  <2>2. tx[t].user = u => /\ tx[t].op # "activate"
                          /\ ~(tx[t].op = "resend" /\ tx[t].step = "write")
    BY <1>1, <1>2 DEF Reliant
  <2>3. \A a \in Users : a \in admins /\ status[a] = "active" =>
                           a \in admins' /\ status'[a] = "active"
    BY <1>1, <1>4
  <2> QED BY <1>1, <1>4, <2>1, <2>2, <2>3 DEF Reliant
<1>8. LinksFit'
  <2>1. Len(new) > 0 /\ \A n \in 1 .. Len(new) : n = Len(new) /\ new[n] = "open"
    BY <1>3
  <2> QED BY <1>4, <2>1 DEF LinksFit
<1>9. LastAdminRemains'
  BY <1>1, <1>4 DEF LastAdminRemains
<1> QED BY <1>5, <1>6, <1>7, <1>8, <1>9

LEMMA AssignAdminKeepsInv ==
  ASSUME Inv, NEW u \in Users, AssignAdmin(u)
  PROVE  Inv'
<1> USE DEF Inv
<1>1. admins' = admins \cup {u} /\ UNCHANGED <<status, links, tx>>
  BY DEF AssignAdmin
<1>2. TypeInvariant'
  BY <1>1 DEF TypeInvariant
<1>3. LocksExclude' /\ \A t \in Slots : Reliant(t)'
  BY <1>1 DEF LocksExclude, Locks, Reliant
<1>4. LinksFit' /\ LastAdminRemains'
  BY <1>1 DEF LinksFit, LastAdminRemains
<1> QED BY <1>2, <1>3, <1>4

-----------------------------------------------------------------------------
(* The theorems.                                                           *)

LEMMA NextKeepsInv == Inv /\ [Next]_vars => Inv'
<1> SUFFICES ASSUME Inv, [Next]_vars PROVE Inv'
  OBVIOUS
<1>1. ASSUME NEW u \in Users, AssignAdmin(u) PROVE Inv'
  BY <1>1, AssignAdminKeepsInv
<1>2. ASSUME NEW u \in Users, NEW asAdmin \in BOOLEAN, Invite(u, asAdmin) PROVE Inv'
  BY <1>2, InviteKeepsInv
<1>3. ASSUME NEW s \in Slots, TransactionBegins(s) PROVE Inv'
  <2>1. ASSUME NEW u \in Users, BeginResend(s, u) PROVE Inv'
    BY <2>1, BeginsKeepsInv DEF BeginResend
  <2>2. ASSUME NEW u \in Users, NEW n \in DOMAIN links[u], BeginActivate(s, u, n) PROVE Inv'
    <3>1. links[u] \in Seq({"open", "used"})
      BY DEF Inv, TypeInvariant
    <3>2. n \in Nat /\ n \in 1 .. Len(links[u])
      BY <3>1
    <3> QED BY <2>2, <3>2, BeginsKeepsInv DEF BeginActivate
  <2>3. ASSUME NEW u \in Users, NEW actor \in Users, BeginRemoveRole(s, actor, u) PROVE Inv'
    BY <2>3, BeginsKeepsInv DEF BeginRemoveRole
  <2>4. ASSUME NEW u \in Users, NEW actor \in Users, BeginDisable(s, actor, u) PROVE Inv'
    BY <2>4, BeginsKeepsInv DEF BeginDisable
  <2> QED BY <1>3, <2>1, <2>2, <2>3, <2>4 DEF TransactionBegins
<1>4. ASSUME NEW s \in Slots, TransactionStep(s) PROVE Inv'
  BY <1>4, ResendLocksKeepsInv, ResendWritesKeepsInv, ActivateLocksLinkKeepsInv,
     ActivateLocksUserKeepsInv, ActivateWritesKeepsInv, DisableLocksKeepsInv,
     CountAdminsKeepsInv, DisableWritesKeepsInv, RemoveRoleWritesKeepsInv
     DEF TransactionStep
<1>5. ASSUME NEW s \in Slots, DatabaseAborts(s) \/ Fails(s) PROVE Inv'
  BY <1>5, RefusesKeepsInv DEF DatabaseAborts, Fails
<1>6. CASE UNCHANGED vars
  <2>1. UNCHANGED <<status, admins, links, tx>>
    BY <1>6 DEF vars
  <2>2. TypeInvariant' /\ LastAdminRemains'
    BY <2>1 DEF Inv, TypeInvariant, LastAdminRemains
  <2>3. LocksExclude'
    BY <2>1 DEF Inv, LocksExclude, Locks
  <2>4. LinksFit'
    <3>1. LinksFit /\ status' = status /\ links' = links
      BY <2>1 DEF Inv
    <3> QED BY <3>1, Zenon DEF LinksFit
  <2>5. \A s \in Slots : Reliant(s)'
    BY <2>1 DEF Inv, Reliant
  <2> QED BY <2>2, <2>3, <2>4, <2>5 DEF Inv
<1> QED BY <1>1, <1>2, <1>3, <1>4, <1>5, <1>6 DEF Next

\* The invariant, for the fair specification too, which implies Spec.
THEOREM InvariantHolds == Spec => []Inv
BY InitInv, NextKeepsInv, PTL DEF Spec

\* Whoever disables whom at once, an active administrator is left.
THEOREM LastAdminAlwaysRemains == Spec => []LastAdminRemains
<1>1. Inv => LastAdminRemains
  BY DEF Inv
<1> QED BY <1>1, InvariantHolds, PTL

\* No row has two holders, and an invited account has one open link.
THEOREM AccountsAlwaysConsistent == Spec => []AccountsConsistent
<1>1. ASSUME Inv PROVE AccountsConsistent
  <2>1. TypeInvariant /\ LocksExclude /\ LinksFit
    BY <1>1 DEF Inv
  <2>2. \A s \in Slots : \A t \in Slots \ {s} : Locks(s) \cap Locks(t) = {}
    BY <2>1 DEF LocksExclude
  <2>3. ASSUME NEW u \in Users
        PROVE  LET open == {n \in DOMAIN links[u] : links[u][n] = "open"} IN
               /\ status[u] = "pending" => open = {Len(links[u])}
               /\ status[u] = "active" => open = {}
    <3>1. DOMAIN links[u] = 1 .. Len(links[u]) /\ Len(links[u]) \in Nat
      BY <2>1 DEF TypeInvariant
    <3> QED BY <2>1, <3>1 DEF LinksFit
  <2> QED BY <2>1, <2>2, <2>3 DEF AccountsConsistent
<1> QED BY <1>1, InvariantHolds, PTL

\* An account becomes active by its newest link only, and once disabled stays so.
THEOREM OnlyTheNewestLinkEverActivates == Spec => OnlyTheNewestLinkActivates
<1> DEFINE Activated(u) ==
      /\ status[u] # "active" /\ status'[u] = "active" =>
           /\ status[u] = "pending"
           /\ links[u][Len(links[u])] = "open"
           /\ links'[u] = [links[u] EXCEPT ![Len(links[u])] = "used"]
      /\ status[u] = "inactive" => status'[u] = "inactive"
<1>1. ASSUME Inv, [Next]_vars PROVE \A u \in Users : Activated(u)
  <2> SUFFICES ASSUME NEW u \in Users PROVE Activated(u)
    OBVIOUS
  <2>1. CASE status' = status
    BY <2>1
  <2>2. ASSUME NEW v \in Users, NEW asAdmin \in BOOLEAN, Invite(v, asAdmin)
        PROVE  Activated(u)
    BY <1>1, <2>2 DEF Invite, Inv, TypeInvariant
  <2>3. ASSUME NEW s \in Slots, DisableWrites(s) PROVE Activated(u)
    BY <1>1, <2>3 DEF DisableWrites, Inv, TypeInvariant
  <2>4. ASSUME NEW s \in Slots, ActivateWrites(s) PROVE Activated(u)
    <3>1. /\ tx[s] # None /\ tx[s].op = "activate" /\ tx[s].step = "write"
          /\ tx[s].user \in Users
      BY <1>1, <2>4, TransactionIsSome DEF ActivateWrites, At, Inv, TypeInvariant
    <3>2. /\ status[tx[s].user] = "pending" /\ links[tx[s].user][tx[s].link] = "open"
          /\ tx[s].link \in 1 .. Len(links[tx[s].user])
      BY <1>1, <3>1 DEF Inv, Reliant
    <3>3. tx[s].link = Len(links[tx[s].user])
      BY <1>1, <3>1, <3>2 DEF Inv, LinksFit
    <3>4. /\ status' = [status EXCEPT ![tx[s].user] = "active"]
          /\ links' = [links EXCEPT ![tx[s].user][tx[s].link] = "used"]
      BY <2>4 DEF ActivateWrites
    <3>5. u # tx[s].user => status'[u] = status[u]
      BY <1>1, <3>1, <3>4 DEF Inv, TypeInvariant
    <3>6. links'[tx[s].user] = [links[tx[s].user] EXCEPT ![tx[s].link] = "used"]
      BY <1>1, <3>1, <3>4 DEF Inv, TypeInvariant
    <3>7. CASE u = tx[s].user
      BY <3>2, <3>3, <3>6, <3>7
    <3>8. CASE u # tx[s].user
      BY <3>5, <3>8
    <3> QED BY <3>7, <3>8
  <2>5. ASSUME NEW s \in Slots, TransactionBegins(s) PROVE status' = status
    BY <2>5, Zenon DEF TransactionBegins, BeginResend, BeginActivate, BeginRemoveRole,
       BeginDisable, Begins
  <2>6. ASSUME NEW s \in Slots, TransactionStep(s) PROVE Activated(u)
    <3>1. CASE ResendLocks(s) \/ ResendWrites(s) \/ ActivateLocksLink(s) \/ ActivateLocksUser(s)
      BY <2>1, <3>1, Zenon DEF ResendLocks, ResendWrites, ActivateLocksLink, ActivateLocksUser,
         Refuses, Acquires
    <3>2. CASE DisableLocks(s) \/ CountAdmins(s) \/ RemoveRoleWrites(s)
      BY <2>1, <3>2, Zenon DEF DisableLocks, CountAdmins, RemoveRoleWrites, Refuses, Acquires
    <3> HIDE DEF Activated
    <3> QED BY <2>3, <2>4, <2>6, <3>1, <3>2, Zenon DEF TransactionStep
  <2>7. ASSUME NEW s \in Slots, DatabaseAborts(s) \/ Fails(s) PROVE status' = status
    BY <2>7, Zenon DEF DatabaseAborts, Fails, Refuses
  <2>8. ASSUME (\E v \in Users : AssignAdmin(v)) \/ UNCHANGED vars PROVE status' = status
    BY <2>8, Zenon DEF AssignAdmin, vars
  <2> HIDE DEF Activated
  <2> QED BY <1>1, <2>1, <2>2, <2>5, <2>6, <2>7, <2>8, Zenon DEF Next
<1> QED BY <1>1, InvariantHolds, PTL DEF Spec, OnlyTheNewestLinkActivates

-----------------------------------------------------------------------------
(* LoginSessions.                                                          *)

-----------------------------------------------------------------------------
(* The inductive invariant.                                                *)

\* A rotation has a token for itself, and that token is live: whoever else
\* revokes tokens waits for it.
TokensInv ==
  /\ \A t \in DOMAIN tokens : tokens[t].family <= Len(tokens)
  /\ \A t, u \in LiveTokens : tokens[t].family = tokens[u].family => t = u
  /\ \A t \in LiveTokens : tokens[t].epoch = account.epoch \/ tokens[t].late
  /\ \A s \in Clients : Doing(s, "rotate") => Live(requests[s].token)
  /\ \A s, r \in Clients :
       Doing(s, "rotate") /\ Doing(r, "rotate") /\ requests[s].token = requests[r].token => s = r

\* A reset has an open link for itself, and one request at a time has the account.
LinksInv ==
  /\ \A s \in Clients : Doing(s, "reset") => resetLinks[requests[s].link] = "open"
  /\ \A s, r \in Clients :
       Doing(s, "reset") /\ Doing(r, "reset") /\ requests[s].link = requests[r].link => s = r
  /\ \A s, r \in Clients : Revoking(s) /\ Revoking(r) => s = r

\* A counter counts failures since it last had reason to start again, a few of
\* them perhaps not, and a lock needs enough of them.  Neither holds of a row whose
\* lock is over.
Counts(row, failures) ==
  /\ row.until > now => row.count >= MaxFailures
  /\ ~history.met /\ (row.until = NoLock \/ row.until > now) => row.count <= failures

AttemptsInv ==
  /\ attempts # Nil => Counts(attempts, history.failures)
  /\ \A s \in Clients : Doing(s, "record") => Counts(requests[s].row, history.failures + 1)

LoginInv == LoginTypeInvariant /\ TokensInv /\ LinksInv /\ AttemptsInv

-----------------------------------------------------------------------------
(* Requests.                                                               *)

\* What a request of each operation consists of.
LEMMA RequestFields ==
  ASSUME NEW q \in Request
  PROVE  /\ q # Nil
         /\ q.op = "login" => q.wrong \in Nat /\ q.active \in BOOLEAN /\ q.epoch \in Nat
         /\ q.op = "record" => q.row \in Attempt
         /\ q.op = "rotate" => q.token \in DOMAIN tokens
         /\ q.op = "logoutAll" => q.found \in SUBSET DOMAIN tokens
         /\ q.op = "forgot" => q.found \in SUBSET DOMAIN resetLinks
         /\ q.op = "reset" => q.link \in DOMAIN resetLinks
BY DEF Request, Nil

\* A request stays one when tokens and links are added.
LEMMA RequestGrows ==
  ASSUME DOMAIN tokens \subseteq DOMAIN tokens', DOMAIN resetLinks \subseteq DOMAIN resetLinks'
  PROVE  Request \subseteq Request'
<1> SUFFICES ASSUME NEW q \in Request PROVE q \in Request'
  OBVIOUS
<1>1. CASE q \in [op : {"login"}, wrong : Nat, active : BOOLEAN, epoch : Nat,
                  step : {"compare", "issue"}] \cup [op : {"record"}, row : Attempt] \cup
                 [op : {"change", "disable"}, step : {"revoke"}]
  BY <1>1 DEF Request, Attempt
<1>2. CASE q \in [op : {"rotate"}, token : DOMAIN tokens]
  BY <1>2 DEF Request
<1>3. CASE q \in [op : {"logoutAll"}, found : SUBSET DOMAIN tokens]
  BY <1>3 DEF Request
<1>4. CASE q \in [op : {"forgot"}, found : SUBSET DOMAIN resetLinks]
  BY <1>4 DEF Request
<1>5. CASE q \in [op : {"reset"}, link : DOMAIN resetLinks, step : {"user", "revoke"}]
  BY <1>5 DEF Request
<1> QED BY <1>1, <1>2, <1>3, <1>4, <1>5 DEF Request

\* What a token consists of.
LEMMA TokenFields ==
  ASSUME LoginTypeInvariant
  PROVE  /\ tokens \in Seq(Token) /\ DOMAIN tokens = 1 .. Len(tokens) /\ Len(tokens) \in Nat
         /\ \A t \in DOMAIN tokens :
              tokens[t] \in Token /\ tokens[t].family \in Nat /\ tokens[t].epoch \in Nat
<1>1. tokens \in Seq(Token)
  BY DEF LoginTypeInvariant
<1>2. \A t \in DOMAIN tokens : tokens[t] \in Token
  BY <1>1
<1>3. \A token \in Token : token.family \in Nat /\ token.epoch \in Nat
  BY DEF Token
<1> QED BY <1>1, <1>2, <1>3

\* One request changes.
LEMMA RequestsChange ==
  ASSUME LoginTypeInvariant, NEW s \in Clients, NEW q,
         requests' = [requests EXCEPT ![s] = q], q = Nil \/ q \in Request,
         DOMAIN tokens \subseteq DOMAIN tokens', DOMAIN resetLinks \subseteq DOMAIN resetLinks'
  PROVE  /\ requests' \in [Clients -> {Nil} \cup Request']
         /\ requests'[s] = q
         /\ \A r \in Clients : r # s => requests'[r] = requests[r]
BY RequestGrows DEF LoginTypeInvariant

-----------------------------------------------------------------------------
(* What a step leaves alone.                                               *)

\* Tokens, accounts and other requests unchanged, and no new rotation.
LEMMA TokensUntouched ==
  ASSUME TokensInv, NEW s \in Clients, UNCHANGED <<tokens, account>>,
         \A r \in Clients : r # s => requests'[r] = requests[r],
         ~(requests'[s] # Nil /\ requests'[s].op = "rotate")
  PROVE  TokensInv'
BY DEF TokensInv, Doing, LiveTokens, Live

\* The same for links: neither a new reset nor one that gets the account.
LEMMA LinksUntouched ==
  ASSUME LinksInv, NEW s \in Clients, UNCHANGED resetLinks,
         \A r \in Clients : r # s => requests'[r] = requests[r],
         ~(requests'[s] # Nil /\ requests'[s].op \in {"reset", "change", "disable"})
  PROVE  LinksInv'
<1>1. \A r \in Clients : Doing(r, "reset")' => r # s /\ Doing(r, "reset")
  BY DEF Doing
<1>2. \A r \in Clients : Revoking(r)' => r # s /\ Revoking(r)
  BY DEF Revoking, AtStep, Doing
<1> QED BY <1>1, <1>2 DEF LinksInv

\* The same for the counter: no request begins to record.
LEMMA AttemptsUntouched ==
  ASSUME AttemptsInv, NEW s \in Clients, UNCHANGED <<attempts, now>>,
         history'.failures = history.failures, history'.met = history.met,
         \A r \in Clients : r # s => requests'[r] = requests[r],
         ~(requests'[s] # Nil /\ requests'[s].op = "record")
  PROVE  AttemptsInv'
BY DEF AttemptsInv, Counts, Doing

\* A request that begins, goes on or ends changes nothing else, and is none of
\* those that own something.
LEMMA HarmlessKeepsInv ==
  ASSUME LoginInv, NEW s \in Clients, NEW q, q = Nil \/ q \in Request,
         requests' = [requests EXCEPT ![s] = q],
         q # Nil => q.op \in {"login", "logoutAll", "forgot"},
         UNCHANGED <<account, attempts, tokens, resetLinks, now>>,
         history' \in [failures : Nat, wrong : Nat, met : BOOLEAN],
         history'.failures = history.failures, history'.met = history.met
  PROVE  LoginInv'
<1>1. /\ requests' \in [Clients -> {Nil} \cup Request'] /\ requests'[s] = q
      /\ \A r \in Clients : r # s => requests'[r] = requests[r]
  BY RequestsChange DEF LoginInv
<1>2. LoginTypeInvariant'
  BY <1>1 DEF LoginInv, LoginTypeInvariant
<1> QED BY <1>1, <1>2, TokensUntouched, LinksUntouched, AttemptsUntouched DEF LoginInv

-----------------------------------------------------------------------------
(* Login and the counter.                                                  *)

LEMMA BeginLoginKeepsInv ==
  ASSUME LoginInv, NEW s \in Clients, NEW wrong \in Nat, BeginLogin(s, wrong)
  PROVE  LoginInv'
<1> DEFINE q == [op |-> "login", wrong |-> wrong, active |-> account.active,
                 epoch |-> account.epoch, step |-> "compare"]
<1>1. q \in Request
  BY DEF LoginInv, LoginTypeInvariant, Request
<1>2. /\ history' \in [failures : Nat, wrong : Nat, met : BOOLEAN]
      /\ history'.failures = history.failures /\ history'.met = history.met
  BY DEF BeginLogin, LoginInv, LoginTypeInvariant
<1>3. /\ requests' = [requests EXCEPT ![s] = q]
      /\ UNCHANGED <<account, attempts, tokens, resetLinks, now>>
  BY DEF BeginLogin, Starts
<1>4. q.op = "login"
  OBVIOUS
<1> HIDE DEF q
<1> QED BY <1>1, <1>2, <1>3, <1>4, HarmlessKeepsInv

\* The count goes up by one, or starts again when a lock is over.
LEMMA RecordFailureCounts ==
  ASSUME LoginTypeInvariant, NEW row \in Attempt, Counts(row, history.failures)
  PROVE  /\ RecordFailure(row) \in Attempt
         /\ Counts(RecordFailure(row), history.failures + 1)
<1> USE LoginAssumption
<1>1. /\ now \in Nat /\ now > 0 /\ history.failures \in Nat /\ row.count \in Nat /\ row.until \in Nat
      /\ MaxFailures \in Nat /\ MaxFailures > 0 /\ LockTime \in Nat
  BY DEF LoginTypeInvariant, Attempt
<1> DEFINE over == row.until # NoLock /\ row.until <= now
           count == IF over THEN 1 ELSE row.count + 1
           until == IF count >= MaxFailures THEN now + LockTime
                    ELSE IF over THEN NoLock ELSE row.until
<1>2. RecordFailure(row) = [row EXCEPT !.count = count, !.until = until]
  BY DEF RecordFailure
<1>3. count \in Nat /\ until \in Nat
  BY <1>1 DEF NoLock
<1>4. /\ RecordFailure(row) \in Attempt
      /\ RecordFailure(row).count = count /\ RecordFailure(row).until = until
  BY <1>2, <1>3 DEF Attempt
<1>5. until > now => count >= MaxFailures
  BY <1>1 DEF Counts, NoLock
<1>6. ~history.met => count <= history.failures + 1
  BY <1>1 DEF Counts, NoLock
<1> QED BY <1>4, <1>5, <1>6 DEF Counts

LEMMA ReadAttemptsKeepsInv ==
  ASSUME LoginInv, NEW s \in Clients, ReadAttempts(s)
  PROVE  LoginInv'
<1> USE DEF LoginInv
<1> DEFINE new == [id |-> requests[s].wrong, count |-> 1, until |-> NoLock]
           row == IF attempts = Nil THEN new ELSE RecordFailure(attempts)
           q == [op |-> "record", row |-> row]
<1>1. requests[s] \in Request /\ requests[s].op = "login"
  BY DEF ReadAttempts, AtStep, Doing, LoginTypeInvariant
<1>2. row \in Attempt /\ Counts(row, history.failures + 1)
  <2>1. CASE attempts = Nil
    <3>1. new \in Attempt
      BY <1>1, RequestFields DEF Attempt, NoLock
    <3>2. Counts(new, history.failures + 1)
      BY DEF Counts, NoLock, LoginTypeInvariant
    <3> QED BY <2>1, <3>1, <3>2
  <2>2. CASE attempts # Nil
    BY <2>2, RecordFailureCounts DEF LoginTypeInvariant, AttemptsInv
  <2> QED BY <2>1, <2>2
<1>3. q \in Request /\ q.op = "record" /\ q.row = row /\ q # Nil
  BY <1>2, RequestFields DEF Request
<1>4. /\ requests' = [requests EXCEPT ![s] = q]
      /\ UNCHANGED <<account, attempts, tokens, resetLinks, now, history>>
  BY DEF ReadAttempts, Continues
<1> HIDE DEF q
<1>5. /\ requests' \in [Clients -> {Nil} \cup Request'] /\ requests'[s] = q
      /\ \A r \in Clients : r # s => requests'[r] = requests[r]
  BY <1>3, <1>4, RequestsChange
<1>6. LoginTypeInvariant'
  BY <1>4, <1>5 DEF LoginTypeInvariant
<1>7. TokensInv' /\ LinksInv'
  BY <1>3, <1>4, <1>5, TokensUntouched, LinksUntouched
<1>8. AttemptsInv'
  BY <1>2, <1>3, <1>4, <1>5 DEF AttemptsInv, Counts, Doing
<1> QED BY <1>6, <1>7, <1>8

LEMMA SaveAttemptKeepsInv ==
  ASSUME LoginInv, NEW s \in Clients, SaveAttempt(s)
  PROVE  LoginInv'
<1> USE DEF LoginInv
<1>1. requests[s] \in Request /\ requests[s].op = "record" /\ requests[s] # Nil
  BY DEF SaveAttempt, Doing, LoginTypeInvariant
<1>2. /\ requests' = [requests EXCEPT ![s] = Nil]
      /\ UNCHANGED <<account, tokens, resetLinks, now>>
      /\ history' = [history EXCEPT !.failures = @ + 1]
      /\ (attempts' = attempts /\ attempts # Nil) \/ attempts' = requests[s].row
  BY DEF SaveAttempt, RequestEnds
<1>3. /\ requests' \in [Clients -> {Nil} \cup Request'] /\ requests'[s] = Nil
      /\ \A r \in Clients : r # s => requests'[r] = requests[r]
  BY <1>2, RequestsChange
<1>4. /\ history' \in [failures : Nat, wrong : Nat, met : BOOLEAN] /\ history.failures \in Nat
      /\ history'.failures = history.failures + 1 /\ history'.met = history.met
  BY <1>2 DEF LoginTypeInvariant
<1>5. requests[s].row \in Attempt
  BY <1>1, RequestFields
<1>6. LoginTypeInvariant'
  BY <1>2, <1>3, <1>4, <1>5 DEF LoginTypeInvariant
<1>7. TokensInv' /\ LinksInv'
  BY <1>2, <1>3, TokensUntouched, LinksUntouched
<1>8. attempts' # Nil => Counts(attempts, history.failures)'
  <2>1. CASE attempts' = requests[s].row
    BY <1>1, <1>2, <1>4, <1>5, <2>1 DEF AttemptsInv, Counts, Doing
  <2>2. CASE attempts' = attempts /\ attempts # Nil
    BY <1>2, <1>4, <2>2 DEF AttemptsInv, Counts, LoginTypeInvariant, Attempt
  <2> QED BY <1>2, <2>1, <2>2
<1>9. ASSUME NEW r \in Clients, Doing(r, "record")'
       PROVE  Counts(requests[r].row, history.failures + 1)'
  <2>1. r # s /\ requests'[r] = requests[r] /\ Doing(r, "record")
    BY <1>3, <1>9 DEF Doing
  <2>2. requests[r].row \in Attempt
    BY <2>1, RequestFields DEF Doing, LoginTypeInvariant
  <2> QED BY <1>2, <1>4, <2>1, <2>2 DEF AttemptsInv, Counts, Attempt
<1> QED BY <1>6, <1>7, <1>8, <1>9 DEF AttemptsInv

\* The counter starts again, and no row that was read before it is trusted.
LEMMA StartsAgainKeepsAttempts ==
  ASSUME LoginTypeInvariant, history' = StartsAgain,
         \A r \in Clients : Doing(r, "record")' => Doing(r, "record")
  PROVE  /\ history' \in [failures : Nat, wrong : Nat, met : BOOLEAN]
         /\ ~history'.met => ~history.met /\ \A r \in Clients : ~Doing(r, "record")'
BY DEF StartsAgain, Recording, LoginTypeInvariant

LEMMA ClearAttemptsKeepsInv ==
  ASSUME LoginInv, NEW s \in Clients, ClearAttempts(s)
  PROVE  LoginInv'
<1> USE DEF LoginInv
<1>1. requests[s] \in Request /\ requests[s].op = "login" /\ requests[s] # Nil
  BY DEF ClearAttempts, AtStep, Doing, LoginTypeInvariant
<1> DEFINE issue == [requests[s] EXCEPT !.step = "issue"]
<1>2. issue \in Request /\ issue.op = "login"
  BY <1>1 DEF Request
<1>3. PICK q \in {Nil, issue} : requests' = [requests EXCEPT ![s] = q]
  BY DEF ClearAttempts, Continues, RequestEnds
<1>4. q = Nil \/ q \in Request
  BY <1>2, <1>3
<1>5. UNCHANGED <<account, tokens, resetLinks, now>> /\ attempts' = Nil /\ history' = StartsAgain
  BY DEF ClearAttempts
<1>6. q # Nil => q.op = "login"
  BY <1>2, <1>3
<1> HIDE DEF issue
<1>7. /\ requests' \in [Clients -> {Nil} \cup Request'] /\ requests'[s] = q
      /\ \A r \in Clients : r # s => requests'[r] = requests[r]
  BY <1>3, <1>4, <1>5, RequestsChange
<1>8. \A r \in Clients : Doing(r, "record")' => r # s /\ Doing(r, "record")
  BY <1>6, <1>7 DEF Doing
<1>9. history' \in [failures : Nat, wrong : Nat, met : BOOLEAN]
  BY <1>5, <1>8, StartsAgainKeepsAttempts
<1>10. LoginTypeInvariant'
  BY <1>5, <1>7, <1>9 DEF LoginTypeInvariant
<1>11. TokensInv' /\ LinksInv'
  BY <1>5, <1>6, <1>7, TokensUntouched, LinksUntouched
<1>12. ASSUME NEW r \in Clients, Doing(r, "record")'
       PROVE  Counts(requests[r].row, history.failures + 1)'
  <2>1. r # s /\ requests'[r] = requests[r] /\ Doing(r, "record")
    BY <1>7, <1>8, <1>12
  <2>2. history'.met
    BY <1>5, <1>8, <1>12, StartsAgainKeepsAttempts
  <2> QED BY <1>5, <2>1, <2>2 DEF AttemptsInv, Counts
<1> QED BY <1>5, <1>10, <1>11, <1>12 DEF AttemptsInv

\* A new token has a family of its own.
LEMMA IssueTokenKeepsInv ==
  ASSUME LoginInv, NEW s \in Clients, IssueToken(s)
  PROVE  LoginInv'
<1> USE DEF LoginInv
<1>1. requests[s] \in Request /\ requests[s].op = "login" /\ requests[s] # Nil
  BY DEF IssueToken, AtStep, Doing, LoginTypeInvariant
<1> DEFINE new == [family |-> Len(tokens) + 1, revoked |-> FALSE, epoch |-> requests[s].epoch,
                   late |-> requests[s].epoch # account.epoch]
<1>2. /\ tokens' = Append(tokens, new) /\ UNCHANGED <<account, attempts, resetLinks, now, history>>
      /\ requests' = [requests EXCEPT ![s] = Nil]
  BY DEF IssueToken, RequestEnds
<1>3. tokens \in Seq(Token) /\ Len(tokens) \in Nat
  BY DEF LoginTypeInvariant
<1>4. new \in Token
  BY <1>1, <1>3, RequestFields DEF Token
<1>5. new.family = Len(tokens) + 1 /\ (new.epoch = account.epoch \/ new.late) /\ ~new.revoked
  OBVIOUS
<1> HIDE DEF new
<1>6. /\ tokens' \in Seq(Token) /\ DOMAIN tokens = 1 .. Len(tokens)
      /\ DOMAIN tokens' = 1 .. Len(tokens) + 1 /\ Len(tokens') = Len(tokens) + 1
      /\ tokens'[Len(tokens) + 1] = new
      /\ \A t \in DOMAIN tokens : tokens'[t] = tokens[t]
  BY <1>2, <1>3, <1>4
<1>7. /\ requests' \in [Clients -> {Nil} \cup Request'] /\ requests'[s] = Nil
      /\ \A r \in Clients : r # s => requests'[r] = requests[r]
  <2>1. DOMAIN tokens \subseteq DOMAIN tokens' /\ DOMAIN resetLinks \subseteq DOMAIN resetLinks'
    BY <1>2, <1>3, <1>6
  <2> QED BY <1>2, <2>1, RequestsChange
<1>8. LoginTypeInvariant'
  BY <1>2, <1>6, <1>7 DEF LoginTypeInvariant
<1>9. LinksInv' /\ AttemptsInv'
  BY <1>2, <1>7, LinksUntouched, AttemptsUntouched
<1>10. \A r \in Clients : Doing(r, "rotate")' =>
         Doing(r, "rotate") /\ requests'[r] = requests[r] /\ requests[r].token \in DOMAIN tokens
  BY <1>7, RequestFields DEF Doing, LoginTypeInvariant
<1>11. \A t \in DOMAIN tokens' : tokens'[t].family <= Len(tokens')
  <2>1. \A t \in DOMAIN tokens : tokens[t].family \in Nat /\ tokens[t].family <= Len(tokens)
    BY TokenFields DEF TokensInv
  <2> QED BY <1>3, <1>5, <1>6, <2>1
<1>12. \A t, u \in LiveTokens' : tokens'[t].family = tokens'[u].family => t = u
  <2>1. \A t \in DOMAIN tokens : tokens[t].family \in Nat /\ tokens[t].family <= Len(tokens)
    BY TokenFields DEF TokensInv
  <2> QED BY <1>3, <1>5, <1>6, <2>1 DEF TokensInv, LiveTokens, Live
<1>13. \A t \in LiveTokens' : tokens'[t].epoch = account'.epoch \/ tokens'[t].late
  BY <1>2, <1>3, <1>5, <1>6 DEF TokensInv, LiveTokens, Live
<1>14. \A r \in Clients : Doing(r, "rotate")' => Live(requests[r].token)'
  BY <1>6, <1>10 DEF TokensInv, Live
<1>15. \A r, p \in Clients :
         Doing(r, "rotate")' /\ Doing(p, "rotate")' /\ requests'[r].token = requests'[p].token => r = p
  BY <1>10 DEF TokensInv
<1> QED BY <1>8, <1>9, <1>11, <1>12, <1>13, <1>14, <1>15 DEF TokensInv

-----------------------------------------------------------------------------
(* Rotation and logout.                                                    *)

LEMMA RotateLocksKeepsInv ==
  ASSUME LoginInv, NEW s \in Clients, NEW t \in DOMAIN tokens, RotateLocks(s, t)
  PROVE  LoginInv'
<1> USE DEF LoginInv
<1> DEFINE q == [op |-> "rotate", token |-> t]
<1>1. q \in Request /\ q # Nil /\ q.op = "rotate" /\ q.token = t
  BY RequestFields DEF Request
<1>2. /\ requests' = [requests EXCEPT ![s] = q] /\ Live(t) /\ ~TokenLocked(t)
      /\ UNCHANGED <<account, attempts, tokens, resetLinks, now, history>>
  BY DEF RotateLocks, Starts
<1> HIDE DEF q
<1>3. /\ requests' \in [Clients -> {Nil} \cup Request'] /\ requests'[s] = q
      /\ \A r \in Clients : r # s => requests'[r] = requests[r]
  BY <1>1, <1>2, RequestsChange
<1>4. LoginTypeInvariant'
  BY <1>2, <1>3 DEF LoginTypeInvariant
<1>5. LinksInv' /\ AttemptsInv'
  BY <1>1, <1>2, <1>3, LinksUntouched, AttemptsUntouched
<1>6. \A r \in Clients : r # s => Doing(r, "rotate")' = Doing(r, "rotate")
  BY <1>3 DEF Doing
<1>7. \A r \in Clients : r # s /\ Doing(r, "rotate") => requests[r].token # t
  BY <1>2 DEF TokenLocked
<1>8. \A r \in Clients : Doing(r, "rotate")' => Live(requests[r].token)'
  BY <1>1, <1>2, <1>3, <1>6 DEF TokensInv, Live
<1>9. \A r, p \in Clients :
         Doing(r, "rotate")' /\ Doing(p, "rotate")' /\ requests'[r].token = requests'[p].token => r = p
  BY <1>1, <1>3, <1>6, <1>7 DEF TokensInv
<1> QED BY <1>2, <1>4, <1>5, <1>8, <1>9 DEF TokensInv, LiveTokens, Live

\* Tokens are revoked that nobody rotates: the others keep what they have.
LEMMA RevokedKeepsTokens ==
  ASSUME LoginInv, NEW found, tokens' = Revoked(found),
         \A r \in Clients : Doing(r, "rotate")' => Doing(r, "rotate") /\ requests'[r] = requests[r],
         \A r \in Clients : Doing(r, "rotate")' => requests[r].token \notin found,
         \A t \in LiveTokens \ found : account'.epoch = account.epoch
  PROVE  TokensInv' /\ tokens' \in Seq(Token) /\ DOMAIN tokens' = DOMAIN tokens
<1> USE DEF LoginInv
<1>1. tokens \in Seq(Token) /\ DOMAIN tokens = 1 .. Len(tokens) /\ Len(tokens) \in Nat
  BY DEF LoginTypeInvariant
<1>2. /\ DOMAIN tokens' = DOMAIN tokens
      /\ \A t \in DOMAIN tokens :
           tokens'[t] = IF t \in found THEN [tokens[t] EXCEPT !.revoked = TRUE] ELSE tokens[t]
  BY DEF Revoked
<1>3. \A t \in DOMAIN tokens : tokens[t] \in Token /\ tokens'[t] \in Token
  <2>1. \A token \in Token : [token EXCEPT !.revoked = TRUE] \in Token
    BY DEF Token
  <2> QED BY <1>2, <2>1, TokenFields
<1>4. tokens' \in Seq(Token) /\ Len(tokens') = Len(tokens)
  <2>1. tokens' = [t \in 1 .. Len(tokens) |-> tokens'[t]]
    BY <1>1, <1>2 DEF Revoked
  <2>2. tokens' \in [1 .. Len(tokens) -> Token]
    BY <1>1, <1>3, <2>1
  <2> QED BY <1>1, <2>2
<1>5. \A t \in DOMAIN tokens :
        /\ tokens'[t].family = tokens[t].family /\ tokens'[t].epoch = tokens[t].epoch
        /\ tokens'[t].late = tokens[t].late
        /\ tokens'[t].revoked = (tokens[t].revoked \/ t \in found)
  BY <1>2, <1>3 DEF Token
<1>6. LiveTokens' = LiveTokens \ found
  BY <1>2, <1>5 DEF LiveTokens, Live
<1>7. /\ \A t \in DOMAIN tokens' : tokens'[t].family <= Len(tokens')
      /\ \A t, u \in LiveTokens' : tokens'[t].family = tokens'[u].family => t = u
      /\ \A t \in LiveTokens' : tokens'[t].epoch = account'.epoch \/ tokens'[t].late
  <2>1. LiveTokens' \subseteq DOMAIN tokens
    BY <1>6 DEF LiveTokens
  <2> QED BY <1>2, <1>4, <1>5, <1>6, <2>1 DEF TokensInv
<1>8. \A r \in Clients : Doing(r, "rotate") => requests[r].token \in DOMAIN tokens
  BY RequestFields DEF LoginTypeInvariant, Doing
<1>9. ASSUME NEW r \in Clients, Doing(r, "rotate")'
      PROVE  Live(requests[r].token)'
  <2>1. /\ Doing(r, "rotate") /\ requests'[r] = requests[r]
        /\ requests[r].token \in DOMAIN tokens /\ requests[r].token \notin found
    BY <1>8, <1>9
  <2>2. ~tokens[requests[r].token].revoked
    BY <2>1 DEF TokensInv, Live
  <2> QED BY <1>5, <2>1, <2>2 DEF Live
<1>10. \A r, p \in Clients :
         Doing(r, "rotate")' /\ Doing(p, "rotate")' /\ requests'[r].token = requests'[p].token => r = p
  BY DEF TokensInv
<1> QED BY <1>2, <1>4, <1>7, <1>9, <1>10 DEF TokensInv

\* The token goes, and the next of its family comes.
LEMMA RotateWritesKeepsInv ==
  ASSUME LoginInv, NEW s \in Clients, RotateWrites(s)
  PROVE  LoginInv'
<1> USE DEF LoginInv
<1> DEFINE t == requests[s].token
           old == [tokens EXCEPT ![t].revoked = TRUE]
           new == [tokens[t] EXCEPT !.revoked = FALSE]
           n == Len(tokens) + 1
<1>1. Doing(s, "rotate") /\ t \in DOMAIN tokens
  BY RequestFields DEF RotateWrites, Doing, LoginTypeInvariant
<1>2. /\ tokens' = Append(old, new) /\ UNCHANGED <<account, attempts, resetLinks, now, history>>
      /\ requests' = [requests EXCEPT ![s] = Nil]
  BY DEF RotateWrites, RequestEnds
<1>3. /\ tokens \in Seq(Token) /\ DOMAIN tokens = 1 .. Len(tokens) /\ Len(tokens) \in Nat
      /\ \A u \in DOMAIN tokens :
           tokens[u] \in Token /\ tokens[u].family \in Nat /\ tokens[u].family <= Len(tokens)
  BY TokenFields DEF TokensInv
<1>4. /\ \A token \in Token : [token EXCEPT !.revoked = TRUE] \in Token
      /\ new \in Token /\ ~new.revoked /\ new.family = tokens[t].family
      /\ new.epoch = tokens[t].epoch /\ new.late = tokens[t].late
  BY <1>1, <1>3 DEF Token
<1>5. old \in Seq(Token) /\ Len(old) = Len(tokens)
  BY <1>1, <1>3, <1>4
<1>6. \A u \in DOMAIN tokens :
        /\ old[u].family = tokens[u].family /\ old[u].epoch = tokens[u].epoch
        /\ old[u].late = tokens[u].late /\ old[u].revoked = (tokens[u].revoked \/ u = t)
  BY <1>1, <1>3 DEF Token
<1> HIDE DEF old, new
<1>7. /\ tokens' \in Seq(Token) /\ DOMAIN tokens' = 1 .. n /\ Len(tokens') = n
      /\ tokens'[n] = new /\ n \notin DOMAIN tokens
      /\ \A u \in DOMAIN tokens : tokens'[u] = old[u]
  BY <1>2, <1>3, <1>4, <1>5
<1>8. /\ requests' \in [Clients -> {Nil} \cup Request'] /\ requests'[s] = Nil
      /\ \A r \in Clients : r # s => requests'[r] = requests[r]
  <2>1. DOMAIN tokens \subseteq DOMAIN tokens' /\ DOMAIN resetLinks \subseteq DOMAIN resetLinks'
    BY <1>2, <1>3, <1>7
  <2> QED BY <1>2, <2>1, RequestsChange
<1>9. LoginTypeInvariant'
  BY <1>2, <1>7, <1>8 DEF LoginTypeInvariant
<1>10. LinksInv' /\ AttemptsInv'
  BY <1>2, <1>8, LinksUntouched, AttemptsUntouched
<1>11. LiveTokens' = (LiveTokens \ {t}) \cup {n}
  <2>1. LiveTokens' = {u \in 1 .. n : ~tokens'[u].revoked}
    BY <1>7 DEF LiveTokens, Live
  <2>2. \A u \in DOMAIN tokens : ~tokens'[u].revoked <=> ~tokens[u].revoked /\ u # t
    BY <1>6, <1>7
  <2>3. 1 .. n = DOMAIN tokens \cup {n}
    BY <1>3
  <2> QED BY <1>4, <1>7, <2>1, <2>2, <2>3 DEF LiveTokens, Live
<1>12. t \in LiveTokens
  BY <1>1 DEF TokensInv, LiveTokens
<1>13. \A u \in DOMAIN tokens' : tokens'[u].family <= Len(tokens')
  BY <1>1, <1>3, <1>4, <1>6, <1>7
<1>14. \A u, v \in LiveTokens' : tokens'[u].family = tokens'[v].family => u = v
  <2>1. \A u \in LiveTokens \ {t} : u \in DOMAIN tokens /\ tokens'[u].family = tokens[u].family
    BY <1>6, <1>7 DEF LiveTokens
  <2>2. \A u \in LiveTokens \ {t} : tokens[u].family # new.family
    BY <1>4, <1>12 DEF TokensInv
  <2>3. \A u, v \in LiveTokens \ {t} : tokens'[u].family = tokens'[v].family => u = v
    BY <2>1 DEF TokensInv
  <2> QED BY <1>7, <1>11, <2>1, <2>2, <2>3
<1>15. \A u \in LiveTokens' : tokens'[u].epoch = account'.epoch \/ tokens'[u].late
  <2>1. new.epoch = account.epoch \/ new.late
    BY <1>4, <1>12 DEF TokensInv
  <2>2. \A u \in LiveTokens \ {t} :
          tokens'[u].epoch = tokens[u].epoch /\ tokens'[u].late = tokens[u].late
    BY <1>6, <1>7 DEF LiveTokens
  <2> QED BY <1>2, <1>7, <1>11, <2>1, <2>2 DEF TokensInv
<1>16. \A r \in Clients : Doing(r, "rotate")' =>
         /\ r # s /\ Doing(r, "rotate") /\ requests'[r] = requests[r]
         /\ requests[r].token \in DOMAIN tokens /\ requests[r].token # t
  <2>1. \A r \in Clients : Doing(r, "rotate")' =>
          r # s /\ Doing(r, "rotate") /\ requests'[r] = requests[r]
    BY <1>8 DEF Doing
  <2>2. \A r \in Clients : Doing(r, "rotate") => requests[r].token \in DOMAIN tokens
    BY RequestFields DEF LoginTypeInvariant, Doing
  <2> QED BY <1>1, <2>1, <2>2 DEF TokensInv
<1>17. ASSUME NEW r \in Clients, Doing(r, "rotate")' PROVE Live(requests[r].token)'
  <2>1. ~tokens[requests[r].token].revoked
    BY <1>16, <1>17 DEF TokensInv, Live
  <2>2. ~tokens'[requests[r].token].revoked
    BY <1>6, <1>7, <1>16, <1>17, <2>1
  <2>3. requests'[r].token = requests[r].token
    BY <1>16, <1>17
  <2> QED BY <2>2, <2>3 DEF Live
<1>18. \A r, p \in Clients :
         Doing(r, "rotate")' /\ Doing(p, "rotate")' /\ requests'[r].token = requests'[p].token => r = p
  BY <1>16 DEF TokensInv
<1> QED BY <1>9, <1>10, <1>13, <1>14, <1>15, <1>17, <1>18 DEF TokensInv

LEMMA RevokeTokenKeepsInv ==
  ASSUME LoginInv, NEW t \in DOMAIN tokens, RevokeToken(t)
  PROVE  LoginInv'
<1> USE DEF LoginInv
<1>1. UNCHANGED <<account, attempts, resetLinks, requests, now, history>> /\ ~TokenLocked(t)
  BY DEF RevokeToken
<1>2. tokens' = Revoked({t})
  BY TokenFields DEF RevokeToken, Revoked
<1>3. \A r \in Clients : Doing(r, "rotate")' =>
        Doing(r, "rotate") /\ requests'[r] = requests[r] /\ requests[r].token \notin {t}
  BY <1>1 DEF Doing, TokenLocked
<1>4. TokensInv' /\ tokens' \in Seq(Token) /\ DOMAIN tokens' = DOMAIN tokens
  BY <1>1, <1>2, <1>3, RevokedKeepsTokens
<1>5. Request' = Request
  BY <1>1, <1>4 DEF Request, Attempt
<1>6. LoginTypeInvariant'
  BY <1>1, <1>4, <1>5 DEF LoginTypeInvariant
<1>7. LinksInv' /\ AttemptsInv'
  BY <1>1 DEF LinksInv, AttemptsInv, Counts, Doing, Revoking, AtStep
<1> QED BY <1>4, <1>6, <1>7

LEMMA FindTokensKeepsInv ==
  ASSUME LoginInv, NEW s \in Clients, FindTokens(s)
  PROVE  LoginInv'
<1> DEFINE q == [op |-> "logoutAll", found |-> LiveTokens]
<1>1. q \in Request /\ q.op = "logoutAll"
  BY DEF Request, LiveTokens
<1>2. /\ requests' = [requests EXCEPT ![s] = q]
      /\ UNCHANGED <<account, attempts, tokens, resetLinks, now, history>>
  BY DEF FindTokens, Starts
<1> HIDE DEF q
<1> QED BY <1>1, <1>2, HarmlessKeepsInv DEF LoginInv, LoginTypeInvariant

LEMMA RevokeAllForUserKeepsInv ==
  ASSUME LoginInv, NEW s \in Clients, RevokeAllForUser(s)
  PROVE  LoginInv'
<1> USE DEF LoginInv
<1> DEFINE found == requests[s].found
<1>1. /\ \A t \in found \cap LiveTokens : ~TokenLocked(t)
      /\ tokens' = Revoked(found) /\ requests' = [requests EXCEPT ![s] = Nil]
      /\ UNCHANGED <<account, attempts, resetLinks, now, history>>
  BY DEF RevokeAllForUser, RequestEnds
<1> HIDE DEF found
<1>2. DOMAIN tokens' = DOMAIN tokens
  BY <1>1 DEF Revoked
<1>3. /\ requests' \in [Clients -> {Nil} \cup Request'] /\ requests'[s] = Nil
      /\ \A r \in Clients : r # s => requests'[r] = requests[r]
  BY <1>1, <1>2, RequestsChange
<1>4. \A r \in Clients : Doing(r, "rotate")' => Doing(r, "rotate") /\ requests'[r] = requests[r]
  BY <1>3 DEF Doing
<1>5. \A r \in Clients : Doing(r, "rotate") => requests[r].token \notin found
  <2>1. \A r \in Clients : Doing(r, "rotate") => requests[r].token \in LiveTokens
    BY RequestFields DEF LoginTypeInvariant, Doing, TokensInv, LiveTokens
  <2> QED BY <1>1, <2>1 DEF TokenLocked
<1>6. TokensInv' /\ tokens' \in Seq(Token)
  BY <1>1, <1>4, <1>5, RevokedKeepsTokens
<1>7. LoginTypeInvariant'
  BY <1>1, <1>3, <1>6 DEF LoginTypeInvariant
<1>8. LinksInv' /\ AttemptsInv'
  BY <1>1, <1>3, LinksUntouched, AttemptsUntouched
<1> QED BY <1>6, <1>7, <1>8

-----------------------------------------------------------------------------
(* Links, new passwords and disabling.                                     *)

LEMMA BeginForgotPasswordKeepsInv ==
  ASSUME LoginInv, NEW s \in Clients, BeginForgotPassword(s)
  PROVE  LoginInv'
<1> DEFINE q == [op |-> "forgot", found |-> OpenLinks]
<1>1. q \in Request /\ q.op = "forgot"
  BY DEF Request, OpenLinks
<1>2. /\ requests' = [requests EXCEPT ![s] = q]
      /\ UNCHANGED <<account, attempts, tokens, resetLinks, now, history>>
  BY DEF BeginForgotPassword, Starts
<1> HIDE DEF q
<1> QED BY <1>1, <1>2, HarmlessKeepsInv DEF LoginInv, LoginTypeInvariant

\* The links found are used up, but for none of a reset under way.
LEMMA EndForgotPasswordKeepsInv ==
  ASSUME LoginInv, NEW s \in Clients, EndForgotPassword(s)
  PROVE  LoginInv'
<1> USE DEF LoginInv
<1> DEFINE found == requests[s].found
           old == [n \in DOMAIN resetLinks |-> IF n \in found THEN "used" ELSE resetLinks[n]]
<1>1. /\ \A n \in found \cap OpenLinks : ~LinkLocked(n)
      /\ resetLinks' = Append(old, "open") /\ requests' = [requests EXCEPT ![s] = Nil]
      /\ UNCHANGED <<account, attempts, tokens, now, history>>
  BY DEF EndForgotPassword, RequestEnds
<1>2. /\ resetLinks \in Seq({"open", "used"}) /\ Len(resetLinks) \in Nat
      /\ DOMAIN resetLinks = 1 .. Len(resetLinks)
      /\ \A n \in DOMAIN resetLinks : resetLinks[n] \in {"open", "used"}
  BY DEF LoginTypeInvariant
<1>3. old \in Seq({"open", "used"}) /\ Len(old) = Len(resetLinks)
  <2>1. old \in [1 .. Len(resetLinks) -> {"open", "used"}]
    BY <1>2
  <2> QED BY <1>2, <2>1
<1> HIDE DEF found
<1>4. /\ resetLinks' \in Seq({"open", "used"}) /\ DOMAIN resetLinks' = 1 .. Len(resetLinks) + 1
      /\ \A n \in DOMAIN resetLinks : resetLinks'[n] = IF n \in found THEN "used" ELSE resetLinks[n]
  BY <1>1, <1>2, <1>3
<1>5. /\ requests' \in [Clients -> {Nil} \cup Request'] /\ requests'[s] = Nil
      /\ \A r \in Clients : r # s => requests'[r] = requests[r]
  <2>1. DOMAIN tokens \subseteq DOMAIN tokens' /\ DOMAIN resetLinks \subseteq DOMAIN resetLinks'
    BY <1>1, <1>2, <1>4
  <2> QED BY <1>1, <2>1, RequestsChange
<1>6. LoginTypeInvariant'
  BY <1>1, <1>4, <1>5 DEF LoginTypeInvariant
<1>7. TokensInv' /\ AttemptsInv'
  BY <1>1, <1>5, TokensUntouched, AttemptsUntouched
<1>8. /\ \A r \in Clients : Doing(r, "reset")' =>
           Doing(r, "reset") /\ requests'[r] = requests[r] /\ requests[r].link \in DOMAIN resetLinks
      /\ \A r \in Clients : Revoking(r)' => Revoking(r)
  BY <1>5, RequestFields DEF Doing, Revoking, AtStep, LoginTypeInvariant
<1>9. ASSUME NEW r \in Clients, Doing(r, "reset")' PROVE resetLinks'[requests'[r].link] = "open"
  <2>1. resetLinks[requests[r].link] = "open" /\ requests[r].link \in OpenLinks
    BY <1>8, <1>9 DEF LinksInv, OpenLinks
  <2>2. requests[r].link \notin found
    BY <1>1, <1>8, <1>9, <2>1 DEF LinkLocked
  <2> QED BY <1>4, <1>8, <1>9, <2>1, <2>2
<1>10. \A r, p \in Clients :
         Doing(r, "reset")' /\ Doing(p, "reset")' /\ requests'[r].link = requests'[p].link => r = p
  BY <1>8 DEF LinksInv
<1> QED BY <1>6, <1>7, <1>8, <1>9, <1>10 DEF LinksInv

\* A request gets a link or the account that nobody else has.
LEMMA ResetLocksLinkKeepsInv ==
  ASSUME LoginInv, NEW s \in Clients, NEW n \in DOMAIN resetLinks, ResetLocksLink(s, n)
  PROVE  LoginInv'
<1> USE DEF LoginInv
<1> DEFINE q == [op |-> "reset", link |-> n, step |-> "user"]
<1>1. q \in Request /\ q # Nil /\ q.op = "reset" /\ q.link = n /\ q.step = "user"
  BY RequestFields DEF Request
<1>2. /\ requests' = [requests EXCEPT ![s] = q] /\ resetLinks[n] = "open" /\ ~LinkLocked(n)
      /\ UNCHANGED <<account, attempts, tokens, resetLinks, now, history>>
  BY DEF ResetLocksLink, Starts
<1> HIDE DEF q
<1>3. /\ requests' \in [Clients -> {Nil} \cup Request'] /\ requests'[s] = q
      /\ \A r \in Clients : r # s => requests'[r] = requests[r]
  BY <1>1, <1>2, RequestsChange
<1>4. LoginTypeInvariant'
  BY <1>2, <1>3 DEF LoginTypeInvariant
<1>5. TokensInv' /\ AttemptsInv'
  BY <1>1, <1>2, <1>3, TokensUntouched, AttemptsUntouched
<1>6. \A r \in Clients : r # s =>
        (Doing(r, "reset")' <=> Doing(r, "reset")) /\ (Doing(r, "reset") => requests[r].link # n)
  BY <1>2, <1>3 DEF Doing, LinkLocked
<1>7. \A r \in Clients : Revoking(r)' => Revoking(r)
  BY <1>1, <1>3 DEF Revoking, AtStep, Doing
<1>8. /\ \A r \in Clients : Doing(r, "reset")' => resetLinks'[requests'[r].link] = "open"
      /\ \A r, p \in Clients :
           Doing(r, "reset")' /\ Doing(p, "reset")' /\ requests'[r].link = requests'[p].link => r = p
  BY <1>1, <1>2, <1>3, <1>6 DEF LinksInv
<1> QED BY <1>4, <1>5, <1>7, <1>8 DEF LinksInv

LEMMA ResetLocksUserKeepsInv ==
  ASSUME LoginInv, NEW s \in Clients, ResetLocksUser(s)
  PROVE  LoginInv'
<1> USE DEF LoginInv
<1> DEFINE q == [requests[s] EXCEPT !.step = "revoke"]
<1>1. requests[s] \in Request /\ requests[s].op = "reset" /\ Doing(s, "reset")
  BY DEF ResetLocksUser, AtStep, Doing, LoginTypeInvariant
<1>2. requests[s] \in [op : {"reset"}, link : DOMAIN resetLinks, step : {"user", "revoke"}]
  BY <1>1 DEF Request
<1>3. /\ q \in [op : {"reset"}, link : DOMAIN resetLinks, step : {"user", "revoke"}]
      /\ q.op = "reset" /\ q.link = requests[s].link /\ q.step = "revoke"
  BY <1>2
<1>4. q \in Request /\ q # Nil
  BY <1>3, RequestFields DEF Request
<1>5. /\ requests' = [requests EXCEPT ![s] = q] /\ ~AccountLocked
      /\ UNCHANGED <<account, attempts, tokens, resetLinks, now, history>>
  BY DEF ResetLocksUser, Continues
<1> HIDE DEF q
<1>6. /\ requests' \in [Clients -> {Nil} \cup Request'] /\ requests'[s] = q
      /\ \A r \in Clients : r # s => requests'[r] = requests[r]
  BY <1>4, <1>5, RequestsChange
<1>7. LoginTypeInvariant'
  BY <1>5, <1>6 DEF LoginTypeInvariant
<1>8. TokensInv' /\ AttemptsInv'
  BY <1>3, <1>5, <1>6, TokensUntouched, AttemptsUntouched
<1>9. \A r \in Clients : Doing(r, "reset")' => Doing(r, "reset") /\ requests'[r].link = requests[r].link
  BY <1>1, <1>3, <1>6 DEF Doing
<1>10. \A r \in Clients : Revoking(r)' => r = s
  BY <1>5, <1>6 DEF Revoking, AtStep, AccountLocked, Doing
<1>11. LinksInv'
  BY <1>5, <1>9, <1>10 DEF LinksInv
<1> QED BY <1>7, <1>8, <1>11

LEMMA LockUserKeepsInv ==
  ASSUME LoginInv, NEW s \in Clients, NEW op \in {"change", "disable"}, LockUser(s, op)
  PROVE  LoginInv'
<1> USE DEF LoginInv
<1> DEFINE q == [op |-> op, step |-> "revoke"]
<1>1. q \in Request /\ q # Nil /\ q.op \in {"change", "disable"}
  BY RequestFields DEF Request
<1>2. /\ requests' = [requests EXCEPT ![s] = q] /\ ~AccountLocked
      /\ UNCHANGED <<account, attempts, tokens, resetLinks, now, history>>
  BY DEF LockUser, Starts
<1> HIDE DEF q
<1>3. /\ requests' \in [Clients -> {Nil} \cup Request'] /\ requests'[s] = q
      /\ \A r \in Clients : r # s => requests'[r] = requests[r]
  BY <1>1, <1>2, RequestsChange
<1>4. LoginTypeInvariant'
  BY <1>2, <1>3 DEF LoginTypeInvariant
<1>5. TokensInv' /\ AttemptsInv'
  BY <1>1, <1>2, <1>3, TokensUntouched, AttemptsUntouched
<1>6. \A r \in Clients : Doing(r, "reset")' => Doing(r, "reset") /\ requests'[r] = requests[r]
  BY <1>1, <1>3 DEF Doing
<1>7. \A r \in Clients : Revoking(r)' => r = s
  BY <1>2, <1>3 DEF Revoking, AtStep, AccountLocked, Doing
<1>8. LinksInv'
  BY <1>2, <1>6, <1>7 DEF LinksInv
<1> QED BY <1>4, <1>5, <1>8

\* What a new password, a reset or a disabling does when it commits: every live
\* token is revoked, none of which a rotation has, and the link it has is used.
LEMMA RevokeAndCommitKeepsInv ==
  ASSUME LoginInv, NEW s \in Clients, RevokeAndCommit(s)
  PROVE  LoginInv'
<1> USE DEF LoginInv
<1>1. /\ Revoking(s) /\ \A t \in LiveTokens : ~TokenLocked(t)
      /\ account' = [active |-> account.active /\ requests[s].op # "disable",
                     epoch |-> account.epoch + 1]
      /\ tokens' = Revoked(LiveTokens) /\ requests' = [requests EXCEPT ![s] = Nil]
      /\ resetLinks' = IF requests[s].op = "reset" THEN [resetLinks EXCEPT ![requests[s].link] = "used"]
                  ELSE resetLinks
      /\ UNCHANGED <<attempts, now, history>>
  BY DEF RevokeAndCommit, RequestEnds
<1>2. DOMAIN tokens' = DOMAIN tokens /\ DOMAIN resetLinks' = DOMAIN resetLinks
  BY <1>1 DEF Revoked
<1>3. /\ requests' \in [Clients -> {Nil} \cup Request'] /\ requests'[s] = Nil
      /\ \A r \in Clients : r # s => requests'[r] = requests[r]
  BY <1>1, <1>2, RequestsChange
<1>4. \A r \in Clients : Doing(r, "rotate")' => Doing(r, "rotate") /\ requests'[r] = requests[r]
  BY <1>3 DEF Doing
<1>5. \A r \in Clients : Doing(r, "rotate") => requests[r].token \notin LiveTokens
  BY <1>1 DEF TokenLocked
<1>6. TokensInv' /\ tokens' \in Seq(Token)
  <2> DEFINE found == LiveTokens
  <2>1. tokens' = Revoked(found)
    BY <1>1
  <2>2. LiveTokens \ found = {}
    OBVIOUS
  <2>3. \A r \in Clients : Doing(r, "rotate")' => requests[r].token \notin found
    BY <1>4, <1>5
  <2> HIDE DEF found
  <2> QED BY <1>4, <2>1, <2>2, <2>3, RevokedKeepsTokens
<1>7. account' \in [active : BOOLEAN, epoch : Nat]
  BY <1>1 DEF LoginTypeInvariant
<1>8. resetLinks' \in Seq({"open", "used"})
  BY <1>1 DEF LoginTypeInvariant
<1>9. LoginTypeInvariant'
  BY <1>1, <1>3, <1>6, <1>7, <1>8 DEF LoginTypeInvariant
<1>10. AttemptsInv'
  BY <1>1, <1>3, AttemptsUntouched
<1>11. /\ \A r \in Clients : Doing(r, "reset")' =>
            r # s /\ Doing(r, "reset") /\ requests'[r] = requests[r]
       /\ \A r \in Clients : Revoking(r)' => r # s /\ Revoking(r)
  BY <1>3 DEF Doing, Revoking, AtStep
<1>12. ASSUME NEW r \in Clients, Doing(r, "reset")' PROVE resetLinks'[requests'[r].link] = "open"
  <2>1. r # s /\ Doing(r, "reset") /\ resetLinks[requests[r].link] = "open"
    BY <1>11, <1>12 DEF LinksInv
  <2>2. CASE requests[s].op = "reset"
    <3>1. Doing(s, "reset")
      BY <1>1, <2>2 DEF Revoking, AtStep, Doing
    <3>2. requests[r].link # requests[s].link
      BY <2>1, <3>1 DEF LinksInv
    <3>3. resetLinks'[requests[r].link] = resetLinks[requests[r].link]
      BY <1>1, <2>2, <3>2 DEF LoginTypeInvariant
    <3> QED BY <1>11, <1>12, <2>1, <3>3
  <2>3. CASE requests[s].op # "reset"
    BY <1>1, <1>11, <1>12, <2>1, <2>3
  <2> QED BY <2>2, <2>3
<1>13. \A r, p \in Clients :
         Doing(r, "reset")' /\ Doing(p, "reset")' /\ requests'[r].link = requests'[p].link => r = p
  BY <1>11 DEF LinksInv
<1>14. \A r, p \in Clients : Revoking(r)' /\ Revoking(p)' => r = p
  BY <1>11 DEF LinksInv
<1> QED BY <1>6, <1>9, <1>10, <1>12, <1>13, <1>14 DEF LinksInv

-----------------------------------------------------------------------------
(* The rest of the steps.                                                  *)

LEMMA FailsKeepsInv ==
  ASSUME LoginInv, NEW s \in Clients, RequestFails(s)
  PROVE  LoginInv'
<1>1. /\ requests' = [requests EXCEPT ![s] = Nil]
      /\ UNCHANGED <<account, attempts, tokens, resetLinks, now, history>>
  BY DEF RequestFails, RequestEnds
<1> QED BY <1>1, HarmlessKeepsInv DEF LoginInv, LoginTypeInvariant

\* When the lock of the saved row ends the counter starts again; a row whose lock
\* is over is not trusted.
LEMMA TickKeepsInv ==
  ASSUME LoginInv, Tick
  PROVE  LoginInv'
<1> USE DEF LoginInv
<1>1. /\ now \in Nat /\ now < MaxTime /\ now' = now + 1 /\ MaxTime \in Nat
      /\ UNCHANGED <<account, attempts, tokens, resetLinks, requests>>
      /\ history' = IF attempts # Nil /\ attempts.until = now' THEN StartsAgain ELSE history
  BY LoginAssumption DEF Tick, LoginTypeInvariant
<1>2. Request' = Request
  BY <1>1 DEF Request, Attempt
<1>3. \A r \in Clients : Doing(r, "record")' <=> Doing(r, "record")
  BY <1>1 DEF Doing
<1>4. history' \in [failures : Nat, wrong : Nat, met : BOOLEAN]
  BY <1>1, <1>3, StartsAgainKeepsAttempts DEF LoginTypeInvariant
<1>5. LoginTypeInvariant'
  BY <1>1, <1>2, <1>4, LoginAssumption DEF LoginTypeInvariant
<1>6. TokensInv' /\ LinksInv'
  BY <1>1 DEF TokensInv, LinksInv, LiveTokens, Live, Doing, Revoking, AtStep
<1>7. attempts' # Nil => Counts(attempts, history.failures)'
  <2>1. CASE attempts # Nil /\ attempts.until = now'
    BY <1>1, <2>1 DEF Counts, NoLock
  <2>2. CASE attempts # Nil /\ attempts.until # now'
    <3>1. Counts(attempts, history.failures) /\ history' = history /\ attempts.until \in Nat
      BY <1>1, <2>2 DEF AttemptsInv, LoginTypeInvariant, Attempt
    <3> QED BY <1>1, <2>2, <3>1 DEF Counts
  <2> QED BY <1>1, <2>1, <2>2
<1>8. ASSUME NEW r \in Clients, Doing(r, "record")'
      PROVE  Counts(requests[r].row, history.failures + 1)'
  <2>1. Doing(r, "record") /\ requests[r] \in Request
    BY <1>3, <1>8 DEF Doing, LoginTypeInvariant
  <2>2. Counts(requests[r].row, history.failures + 1) /\ requests[r].row \in Attempt
    BY <2>1, RequestFields DEF AttemptsInv, Doing
  <2>3. requests[r].row.until \in Nat
    BY <2>2 DEF Attempt
  <2>4. CASE history' = history
    BY <1>1, <2>2, <2>3, <2>4 DEF Counts
  <2>5. CASE history' = StartsAgain
    <3>1. history'.met
      BY <1>3, <1>8, <2>5, StartsAgainKeepsAttempts
    <3> QED BY <1>1, <2>2, <2>3, <3>1 DEF Counts
  <2> QED BY <1>1, <2>4, <2>5
<1> QED BY <1>5, <1>6, <1>7, <1>8 DEF AttemptsInv

LEMMA LoginInitInv == LoginInit => LoginInv
<1> SUFFICES ASSUME LoginInit PROVE LoginInv
  OBVIOUS
<1>1. LoginTypeInvariant
  BY LoginAssumption DEF LoginInit, LoginTypeInvariant
<1>2. DOMAIN tokens = {} /\ \A s \in Clients : requests[s] = Nil
  BY DEF LoginInit
<1>3. TokensInv
  BY <1>2 DEF TokensInv, LiveTokens, Doing
<1>4. LinksInv
  BY <1>2 DEF LinksInv, Doing, Revoking, AtStep
<1>5. AttemptsInv
  BY <1>2 DEF AttemptsInv, LoginInit, Doing
<1> QED BY <1>1, <1>3, <1>4, <1>5 DEF LoginInv

LEMMA LoginNextKeepsInv == LoginInv /\ [LoginNext]_loginVars => LoginInv'
<1> SUFFICES ASSUME LoginInv, [LoginNext]_loginVars PROVE LoginInv'
  OBVIOUS
<1>1. ASSUME NEW s \in Clients, LoginStep(s) PROVE LoginInv'
  <2>1. history.wrong + 1 \in Nat /\ 0 \in Nat
    BY DEF LoginInv, LoginTypeInvariant
  <2> QED BY <1>1, <2>1, BeginLoginKeepsInv, ReadAttemptsKeepsInv, SaveAttemptKeepsInv,
         ClearAttemptsKeepsInv, IssueTokenKeepsInv DEF LoginStep
<1>2. ASSUME NEW s \in Clients, TokenStep(s) PROVE LoginInv'
  BY <1>2, RotateLocksKeepsInv, RotateWritesKeepsInv, FindTokensKeepsInv,
     RevokeAllForUserKeepsInv DEF TokenStep
<1>3. ASSUME NEW s \in Clients, PasswordStep(s) PROVE LoginInv'
  BY <1>3, BeginForgotPasswordKeepsInv, EndForgotPasswordKeepsInv, ResetLocksLinkKeepsInv,
     ResetLocksUserKeepsInv, LockUserKeepsInv, RevokeAndCommitKeepsInv DEF PasswordStep
<1>4. CASE UNCHANGED loginVars
  <2>1. UNCHANGED <<account, attempts, tokens, resetLinks, requests, now, history>>
    BY <1>4 DEF loginVars
  <2>2. Request' = Request
    BY <2>1 DEF Request, Attempt
  <2>3. LoginTypeInvariant' /\ TokensInv' /\ LinksInv'
    BY <2>1, <2>2 DEF LoginInv, LoginTypeInvariant, TokensInv, LinksInv, LiveTokens, Live, Doing,
                      Revoking, AtStep
  <2>4. AttemptsInv'
    BY <2>1 DEF LoginInv, AttemptsInv, Counts, Doing
  <2> QED BY <2>3, <2>4 DEF LoginInv
<1> QED BY <1>1, <1>2, <1>3, <1>4, FailsKeepsInv, RevokeTokenKeepsInv, TickKeepsInv DEF LoginNext

-----------------------------------------------------------------------------
(* The theorems.                                                           *)

\* The inductive invariant.
THEOREM LoginInvariantHolds == LoginSpec => []LoginInv
BY LoginInitInv, LoginNextKeepsInv, PTL DEF LoginSpec

\* One live token of a family, and none that a new password or a disabling left.
THEOREM TokensAlwaysConsistent == LoginSpec => []TokensConsistent
<1>1. LoginInv => TokensConsistent
  BY DEF LoginInv, TokensInv, TokensConsistent
<1> QED BY <1>1, LoginInvariantHolds, PTL

\* The counter locks the account only after as many failures as it should.
THEOREM LockIsAlwaysEarned == LoginSpec => []LockIsEarned
<1>1. ASSUME LoginInv PROVE LockIsEarned
  <2> SUFFICES ASSUME attempts # Nil, attempts.until > now, ~history.met
               PROVE  history.failures >= MaxFailures
    BY DEF LockIsEarned, Locked
  <2>1. Counts(attempts, history.failures) /\ attempts \in Attempt
    BY <1>1 DEF LoginInv, AttemptsInv, LoginTypeInvariant
  <2>2. attempts.count \in Nat /\ history.failures \in Nat
    BY <1>1, <2>1 DEF LoginInv, LoginTypeInvariant, Attempt
  <2> QED BY <2>1, <2>2, LoginAssumption DEF Counts
<1> QED BY <1>1, LoginInvariantHolds, PTL

\* However many links were sent and used at once, a reset uses one of its own.
THEOREM EachResetAlwaysUsesALink == LoginSpec => EachResetUsesALink
<1> DEFINE Uses(s) == AtStep(s, "reset", "revoke") /\ account' # account =>
                        /\ resetLinks[requests[s].link] = "open"
                        /\ resetLinks'[requests[s].link] = "used"
<1>1. ASSUME LoginInv, [LoginNext]_loginVars PROVE \A s \in Clients : Uses(s)
  <2> SUFFICES ASSUME NEW s \in Clients, AtStep(s, "reset", "revoke"), account' # account
               PROVE  resetLinks[requests[s].link] = "open" /\ resetLinks'[requests[s].link] = "used"
    OBVIOUS
  <2>1. PICK r \in Clients : RevokeAndCommit(r)
    BY <1>1 DEF LoginNext, LoginStep, TokenStep, PasswordStep, loginVars, BeginLogin, ReadAttempts,
       SaveAttempt, ClearAttempts, IssueToken, RotateLocks, RotateWrites, RevokeToken,
       FindTokens, RevokeAllForUser, BeginForgotPassword, EndForgotPassword,
       ResetLocksLink, ResetLocksUser, LockUser, RequestFails, Tick
  <2>2. Revoking(r) /\ Revoking(s)
    BY <2>1 DEF RevokeAndCommit, Revoking
  <2>3. r = s
    BY <1>1, <2>2 DEF LoginInv, LinksInv
  <2>4. requests[s].op = "reset" /\ requests[s].link \in DOMAIN resetLinks
    BY <1>1, RequestFields DEF AtStep, Doing, LoginInv, LoginTypeInvariant
  <2>5. resetLinks' = [resetLinks EXCEPT ![requests[s].link] = "used"]
    BY <2>1, <2>3, <2>4 DEF RevokeAndCommit
  <2>6. resetLinks[requests[s].link] = "open"
    BY <1>1 DEF LoginInv, LinksInv, AtStep
  <2> QED BY <2>4, <2>5, <2>6
<1> QED BY <1>1, LoginInvariantHolds, PTL DEF LoginSpec, EachResetUsesALink
=============================================================================
