CONSTANTS
  Accounts = {a1, a2}
  Invitations = {i1}
  Calls = {c1, c2}
  Commands = {"BOOTSTRAP_SUPERADMIN", "RECOVER_SUPERADMIN", "LOGIN", "LOGOUT_CURRENT", "LOGOUT_ALL", "CREATE_INVITATION", "REVOKE_INVITATION", "REGISTER_WITH_INVITATION", "CREATE_ACCOUNT", "SET_ACCOUNT_ROLE", "SET_ACCOUNT_STATUS", "REQUEST_SELF_DELETION", "REQUEST_ACCOUNT_DELETION", "CANCEL_SELF_DELETION", "CHANGE_PASSWORD", "DELETE_ACCOUNT", "RESET_ACCOUNT_PASSWORD", "COMPLETE_TEMPORARY_PASSWORD_CHANGE"}
  SelfService = FALSE
  None = None
SPECIFICATION Spec
SYMMETRY Symmetry
INVARIANTS SuperadminRemains AuthorisedUntilCommit
PROPERTIES DeletionIsFinal InvitationUsedOnce
