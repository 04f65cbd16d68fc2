SPECIFICATION FairSpec
CONSTANTS
  x = x
  y = y
  mcp_servers = mcp_servers
  scheduler_cron = scheduler_cron
  safety_permissions = safety_permissions
  apikey = apikey
  Writers = {w1, w2}
  Lists = {mcp_servers, scheduler_cron}
  Unique = {mcp_servers}
  Dicts = {safety_permissions}
  Merging = {safety_permissions}
  Ignored = {scheduler_cron}
  Secrets = {apikey}
  Guarded = {safety_permissions}
  Names = {x, y}
  Sticky = {x}
  Asks <- SomeAsks
  AuditMax = 2
  MaxRequests = 3
  MaxFaults = 1
CHECK_DEADLOCK FALSE
INVARIANTS
  
  UniqueNames
  ApprovedOnce
  AuditTells
PROPERTIES
  OthersKept
  RequestEnds
