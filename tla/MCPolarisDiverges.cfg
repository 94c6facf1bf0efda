SPECIFICATION FairSpec
CONSTANTS
  Users = {1, 2, 3}
  Services = {8, 9}
  Roles = {"teehr-user", "offline_access"}
  ServiceRole <- MCServiceRole
  Mapped = {"teehr-user"}
  FirstUsers = {1, 2, 3}
  FirstRoles <- MCFirstRoles
  Acl = 2
  PageSize = 2
  Modes <- MCModes
  BackoffLimit = 6
PROPERTY BindingsMatchRoles
