------------------------------ MODULE StoreOps ------------------------------
(***************************************************************************)
(* What one request does to the on-box store /etc/catena/config.json: the  *)
(* pure half of helpers/onbox_config.py, from adopt to the minting, and    *)
(* the one assignment catena-restic-key.py makes.  A document is a record  *)
(* of the parts the code tells apart:                                      *)
(*   secrets  the flat secrets, NONE for a key that is missing or blank    *)
(*            (every reader of a secret treats the two alike);             *)
(*   tokens   secrets.cloudflare_api_tokens, the per-zone token map;       *)
(*   config   the non-secret settings, ABSENT for a missing key and BLANK  *)
(*            for a stored "", which the code does not treat alike;        *)
(*   blocks   every other top-level key, which other writers own.          *)
(***************************************************************************)
CONSTANTS
    Internal,      \* INTERNAL_SECRETS, the per-zone cookie secrets included
    UserHeld,      \* USER_HELD_SECRETS a converge mints
    External,      \* EXTERNAL_SECRETS held as flat keys
    TOKEN, OAUTH,  \* cloudflare_api_token, tailscale_oauth_client_id
    RESTIC,        \* backup_restic_password, the one MINTED_ON_REQUEST
    Values,        \* secret values
    Zones,         \* Cloudflare zones
    URL,           \* a control-server address
    MISC,          \* any further setting: neither a zone nor a provider
    Blocks,        \* contents of the blocks other writers own
    Requests,      \* the requests the writers make
    NONE, ABSENT, BLANK

ZONE     == "CLOUDFLARE_ZONE"
PROVIDER == "TAILNET_PROVIDER"
METHOD   == "ACCESS_METHOD"
CONTROL  == "TAILNET_CONTROL_URL"
SETTING  == "SETTING"    \* any setting the code gives no meaning of its own

TAILNET_PROVIDERS == {"none", "tailscale", "headscale"}
SecretKeys   == Internal \cup UserHeld \cup External \cup {RESTIC}
ConfigKeys   == {ZONE, PROVIDER, METHOD, CONTROL, SETTING}
ConfigValues == Zones \cup TAILNET_PROVIDERS
                      \cup {"public_ssh", "tailnet", URL, MISC, BLANK}
TokenMaps    == [Zones -> Values \cup {NONE}]
NoTokens     == [z \in Zones |-> NONE]

Docs == [secrets : [SecretKeys -> Values \cup {NONE}],
         tokens  : TokenMaps,
         config  : [ConfigKeys -> ConfigValues \cup {ABSENT}],
         blocks  : Blocks]

(* A request's maps name only some keys.                                   *)
Given(K, V) == UNION {[D -> V] : D \in SUBSET K}

(***************************************************************************)
(* A request: "onbox" runs onbox_config.main (the settings API's write is  *)
(* overwrite without settle or mint), "rekey" is catena-restic-key.        *)
(***************************************************************************)
OnboxRequests ==
    [kind : {"onbox"},
     adopt     : Given(SecretKeys, Values \cup {NONE}),
     secrets   : Given(SecretKeys, Values \cup {NONE}),
     tokens    : TokenMaps \cup {NONE},
     config    : Given(ConfigKeys, ConfigValues),
     overwrite : BOOLEAN,
     settle    : BOOLEAN,
     mint      : {"all", "user_held", "none"}]
RekeyRequests == [kind : {"rekey"}, password : Values]

ASSUME ConstantsAssumption ==
    /\ {TOKEN, OAUTH} \subseteq External
    /\ RESTIC \notin Internal \cup UserHeld \cup External
    /\ External \cap (Internal \cup UserHeld) = {}
    /\ NONE \notin Values
    /\ ABSENT \notin ConfigValues

ASSUME RequestsAssumption ==
    \A r \in Requests : r \in OnboxRequests \/ r \in RekeyRequests

(* The callers of onbox_config.main: the two playbooks that adopt          *)
(* (load_onbox_config.yml 83, show-keyset.yml 69) do so fill-only, and     *)
(* what overwrites (the settings API, seed_onbox_config.yml 80) adopts     *)
(* nothing.                                                                *)
FillOnlyAdopts == \A r \in Requests :
    r.kind = "onbox" /\ r.overwrite => DOMAIN r.adopt = {}

(* A request that names the domain names a zone, or nothing, and does not  *)
(* bring the map of the zones' tokens with it.                             *)
ZoneNamed == \A r \in Requests :
    r.kind = "onbox" /\ ZONE \in DOMAIN r.config
        => r.config[ZONE] \in Zones \cup {BLANK} /\ r.tokens = NONE

-----------------------------------------------------------------------------

(* Blank inputs are passed over; a stored value stands unless the request  *)
(* overwrites.                                                             *)
Fill(m, in, overwrite) ==
    [k \in DOMAIN m |->
        IF k \in DOMAIN in /\ in[k] # NONE /\ (overwrite \/ m[k] = NONE)
        THEN in[k] ELSE m[k]]

Adopt(d, r) == [d EXCEPT !.secrets = Fill(d.secrets, r.adopt, r.overwrite)]

Stated(v) == v \notin {ABSENT, BLANK}

PreserveOutgoingZoneToken(d, config) ==
    LET old == d.config[ZONE]
        outgoing == d.secrets[TOKEN]
    IN  IF /\ ZONE \in DOMAIN config
           /\ Stated(config[ZONE]) /\ Stated(old) /\ config[ZONE] # old
           /\ outgoing # NONE
        THEN [d EXCEPT !.tokens[old] = outgoing]
        ELSE d

(* MUTANT: the outgoing token is looked for once the new one is in place.  *)
ApplyInputsPreserveLast(d, r) ==
    LET new == [d EXCEPT !.secrets = Fill(d.secrets, r.secrets, r.overwrite)]
    IN  [PreserveOutgoingZoneToken(new, r.config) EXCEPT
            !.config = [k \in ConfigKeys |->
                            IF /\ k \in DOMAIN r.config
                               /\ r.overwrite \/ d.config[k] = ABSENT
                            THEN r.config[k] ELSE d.config[k]]]

(* The config half asks whether the KEY is present, not whether it is      *)
(* blank, and writes a blank like any other value.                         *)
ApplyInputs(d, r) ==
    LET kept == PreserveOutgoingZoneToken(d, r.config)
    IN  [kept EXCEPT
            !.secrets = Fill(d.secrets, r.secrets, r.overwrite),
            !.tokens  = IF r.tokens # NONE
                           /\ (r.overwrite \/ kept.tokens = NoTokens)
                        THEN r.tokens ELSE kept.tokens,
            !.config  = [k \in ConfigKeys |->
                            IF /\ k \in DOMAIN r.config
                               /\ r.overwrite \/ d.config[k] = ABSENT
                            THEN r.config[k] ELSE d.config[k]]]

Provider(d) ==
    LET method == d.config[METHOD]
        stored == d.config[PROVIDER]
    IN  CASE method = "public_ssh" -> "none"
          [] method # "public_ssh" /\ stored \in TAILNET_PROVIDERS -> stored
          [] OTHER -> IF Stated(d.config[CONTROL]) THEN "headscale"
                      ELSE IF method = "tailnet" \/ d.secrets[OAUTH] # NONE
                           THEN "tailscale" ELSE "none"

SettleTailnetProvider(d) ==
    [d EXCEPT !.config = [@ EXCEPT ![METHOD] = ABSENT,
                                   ![PROVIDER] = Provider(d)]]

(* MUTANT: a mint replaces what the store holds.                           *)
EnsureAnew(d, keys, v) ==
    [d EXCEPT !.secrets = [k \in SecretKeys |->
        IF k \in keys THEN v ELSE d.secrets[k]]]

(* v is what the minters return; the code draws one value per key.         *)
Ensure(d, keys, v) ==
    [d EXCEPT !.secrets = [k \in SecretKeys |->
        IF k \in keys /\ d.secrets[k] = NONE THEN v ELSE d.secrets[k]]]

MintedBy(mint) == CASE mint = "all" -> Internal \cup UserHeld
                    [] mint = "user_held" -> UserHeld
                    [] mint = "none" -> {}

(* apply_inputs raises on a secret the client may not supply.              *)
Refused(r) == r.kind = "onbox" /\ ~(DOMAIN r.secrets \subseteq External)

(* The document a request makes of d.                                      *)
Update(d, r, v) ==
    IF r.kind = "rekey"
    THEN [d EXCEPT !.secrets[RESTIC] = r.password]
    ELSE LET filled  == ApplyInputs(Adopt(d, r), r)
             settled == IF r.settle THEN SettleTailnetProvider(filled)
                                    ELSE filled
         IN  Ensure(settled, MintedBy(r.mint), v)

(* A fresh box has no store: load() answers with empty sections.           *)
EmptyDoc(b) == [secrets |-> [k \in SecretKeys |-> NONE],
                tokens  |-> NoTokens,
                config  |-> [k \in ConfigKeys |-> ABSENT],
                blocks  |-> b]

(* A store an earlier release wrote states the posture as ACCESS_METHOD.   *)
FirstDocs == {[EmptyDoc(b) EXCEPT !.config[METHOD] = m] :
                b \in Blocks, m \in {ABSENT, "public_ssh", "tailnet"}}

(* Engines of the catena-admin payload write the same file: they own the   *)
(* other blocks (schedules, image pins) and drop a retired zone's token.   *)
EngineUpdates(d) ==
    {[d EXCEPT !.blocks = b] : b \in Blocks}
        \cup {[d EXCEPT !.tokens[z] = NONE] : z \in Zones}
=============================================================================
