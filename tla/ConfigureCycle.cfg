SPECIFICATION FairSpec
CONSTANTS
  Passwords = {p1, p2}
  Keys = {k1}
  RandomPasswords = {r1}
  NewKeys = {g1}
  None = None
  Empty = Empty
  UseManagedIdentity = TRUE
  UserAuthIsAD = TRUE
  MaxChanges = 1
  MaxUpsets = 2
INVARIANTS TypeOK PasswordWorks KeysAgree AdministratorFirst
PROPERTY Recovers
