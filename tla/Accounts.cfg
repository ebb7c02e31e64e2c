\* Two administrators and one more account, two transactions at once.
SPECIFICATION FairSpec
CONSTANTS
  Users = {u1, u2, u3}
  FirstAdmins = {u1, u2}
  Slots = {s1, s2}
  MaxLinks = 2
INVARIANTS LastAdminRemains AccountsConsistent
PROPERTIES OnlyTheNewestLinkActivates TransactionsEnd
