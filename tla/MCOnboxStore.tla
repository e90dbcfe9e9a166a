---------------------------- MODULE MCOnboxStore ----------------------------
(* Instances of OnboxStore: the requests the panel and the playbooks make. *)
EXTENDS OnboxStore, TLC

CONSTANTS v1, v2    \* secret values

Base == [kind |-> "onbox", adopt |-> << >>, secrets |-> << >>,
         tokens |-> NONE, config |-> << >>,
         overwrite |-> FALSE, settle |-> TRUE, mint |-> "none"]

(* The settings page moves the host to zone z with its token v.            *)
Move(z, v) == [Base EXCEPT !.secrets = TOKEN :> v, !.config = ZONE :> z,
                           !.overwrite = TRUE, !.settle = FALSE]
Typo       == [Base EXCEPT !.secrets = "session_key" :> v1,
                           !.overwrite = TRUE, !.settle = FALSE]
(* load_onbox_config.yml.                                                 *)
Converge   == [Base EXCEPT !.adopt = "admin_password" :> v1, !.mint = "all"]
Rekey      == [kind |-> "rekey", password |-> v2]

AllRequests  == {Move("a", v1), Move("b", v2), Typo, Converge, Rekey}

SecretValues == {v1, v2}
ZoneNames    == {"a", "b"}
OneBlock     == {"pins"}
InternalKeys == {"session_key"}
UserHeldKeys == {"admin_password"}
ExternalKeys == {"cloudflare_api_token", "tailscale_oauth_client_id"}

(* The instance is one the proofs speak of.                                *)
ASSUME MCCallers == FillOnlyAdopts /\ ZoneNamed
=============================================================================
