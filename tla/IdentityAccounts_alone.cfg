CONSTANTS
  Accounts = {a1, a2}
  Invitations = {}
  Calls = {c1, c2}
  Commands = {"BOOTSTRAP_SUPERADMIN", "CREATE_ACCOUNT", "COMPLETE_TEMPORARY_PASSWORD_CHANGE", "LOGIN", "SET_ACCOUNT_ROLE"}
  SelfService = TRUE
  None = None
SPECIFICATION Spec
SYMMETRY Symmetry
INVARIANT SuperadminRemains
