SPECIFICATION AuthoritySpec
CONSTANTS
  SystemRoot <- MC_SystemRoot
  Home <- MC_Home
  Sensitive <- MC_Sensitive
  Workspaces <- MC_Workspaces
  UserNever <- MC_UserNever
  Protected <- MC_Protected
  Batches <- MC_Batches
  Cwds <- MC_Cwds
  Platforms = {"win32", "other"}
  Dialects = {"", "bash", "powershell"}
CHECK_DEADLOCK FALSE
INVARIANTS
  RunsInsideTheLock
  ReleasedIsAdmitted
  NoFreerTogether
