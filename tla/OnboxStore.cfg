CONSTANTS
  v1 = v1
  v2 = v2
  NONE = NONE
  ABSENT = ABSENT
  BLANK = ""
  URL = "url"
  MISC = "misc"
  NOBODY = NOBODY
  TORN = TORN
  SHORT = SHORT
  RESTIC = "backup_restic_password"
  TOKEN = "cloudflare_api_token"
  OAUTH = "tailscale_oauth_client_id"
  Internal <- InternalKeys
  UserHeld <- UserHeldKeys
  External <- ExternalKeys
  Values <- SecretValues
  Zones <- ZoneNames
  Blocks <- OneBlock
  Requests <- AllRequests
  Lockers = {l1, l2}
  Rekeyers = {r1}
  RekeyOverlaps = FALSE
SPECIFICATION Spec
INVARIANTS NeverTorn
PROPERTIES Serial MintedStand OutgoingTokenKept LockFreed
