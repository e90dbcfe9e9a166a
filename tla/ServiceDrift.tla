---------------------------- MODULE ServiceDrift ----------------------------
(***************************************************************************)
(* How a converge brings the panel's swarm service to what it declares:    *)
(* the flags of `docker service update` computed from the live spec        *)
(* (filter_plugins/swarm_service_drift.py, catena_admin_service.py), the   *)
(* update itself, and the second look the role takes, which fails the      *)
(* converge if anything still differs (roles/catena-admin/tasks/deploy.yml)*)
(*                                                                         *)
(* A live spec is [image, fields, health, constraints, env, secrets,       *)
(* networks]: fields and health are functions to what `docker service      *)
(* inspect` reports (bytes, nanoseconds), 0 or "" for what was never set;  *)
(* env goes from keys to values, secrets from names to targets, networks   *)
(* is a set of ids.  An image is [tag, digest].  What is declared has the  *)
(* same parts, where fields and health hold only the declared keys, as     *)
(* they are written, and image and constraints may be NONE.                *)
(***************************************************************************)
CONSTANTS
    NONE,
    Fields,        \* memory, stop-grace and update policy fields
    HealthFields,  \* "cmd", "interval", "retries", "start_period"
    Reported(_)    \* what inspect reports for a written value: _as_bytes, _as_nanos

(* _same_image: a pin without a digest asks for the tag, one with a digest *)
(* for those bytes.                                                        *)
SameImage(live, want) == IF want.digest # NONE THEN live = want ELSE live.tag = want.tag

(* swarm_service_drift.  The healthcheck is sent whole or not at all, and  *)
(* not without its command.                                                *)
Hardening(live, want) ==
    [image |-> want.image # NONE /\ ~SameImage(live.image, want.image),
     fields |-> {f \in DOMAIN want.fields : live.fields[f] # Reported(want.fields[f])},
     rm |-> IF want.constraints = NONE THEN {} ELSE live.constraints \ want.constraints,
     add |-> IF want.constraints = NONE THEN {} ELSE want.constraints \ live.constraints,
     health |-> IF "cmd" \in DOMAIN want.health
                   /\ \E f \in DOMAIN want.health : live.health[f] # Reported(want.health[f])
                THEN DOMAIN want.health ELSE {}]

NoHardening == [image |-> FALSE, fields |-> {}, rm |-> {}, add |-> {}, health |-> {}]

(* catena_admin_env_drift.                                                 *)
EnvAdd(live, env) == {k \in DOMAIN env : k \notin DOMAIN live \/ live[k] # env[k]}
EnvRm(live, env) == DOMAIN live \ DOMAIN env

(* catena_admin_secret_drift: by name alone.                               *)
SecretAdd(live, want) == DOMAIN want \ DOMAIN live
SecretRm(live, want) == DOMAIN live \ DOMAIN want

(* catena_admin_network_drift, over ids: every one of them was found.      *)
NetworkAdd(live, ids) == ids \ live
NetworkRm(live, ids) == live \ ids

(* _ca_drift is empty.                                                     *)
Settled(live, want) ==
    /\ Hardening(live, want) = NoHardening
    /\ EnvAdd(live.env, want.env) = {} /\ EnvRm(live.env, want.env) = {}
    /\ SecretAdd(live.secrets, want.secrets) = {} /\ SecretRm(live.secrets, want.secrets) = {}
    /\ NetworkAdd(live.networks, want.networks) = {} /\ NetworkRm(live.networks, want.networks) = {}

(* docker service update with those flags.  docker resolves a tag's digest *)
(* when it can; other healthcheck fields may go back to the image's.       *)
Updated(live, want, resolved, fallback) ==
    LET flags == Hardening(live, want)
        kept == DOMAIN live.secrets \ SecretRm(live.secrets, want.secrets)
    IN  [image |-> IF ~flags.image THEN live.image
                   ELSE IF want.image.digest # NONE THEN want.image
                   ELSE [tag |-> want.image.tag, digest |-> resolved],
         fields |-> [f \in Fields |-> IF f \in flags.fields THEN Reported(want.fields[f])
                                      ELSE live.fields[f]],
         health |-> [f \in HealthFields |->
                        IF f \in flags.health THEN Reported(want.health[f])
                        ELSE IF flags.health # {} THEN fallback[f] ELSE live.health[f]],
         constraints |-> (live.constraints \ flags.rm) \cup flags.add,
         env |-> [k \in (DOMAIN live.env \ EnvRm(live.env, want.env)) \cup EnvAdd(live.env, want.env) |->
                     IF k \in EnvAdd(live.env, want.env) THEN want.env[k] ELSE live.env[k]],
         secrets |-> [n \in kept \cup SecretAdd(live.secrets, want.secrets) |->
                         IF n \in kept THEN live.secrets[n] ELSE want.secrets[n]],
         networks |-> (live.networks \ NetworkRm(live.networks, want.networks))
                      \cup NetworkAdd(live.networks, want.networks)]

(* swarm_service_create_args and catena_admin_service_argv: what a fresh   *)
(* service has, unset fields at docker's zero.                             *)
Created(want, resolved, zero) ==
    [image |-> IF want.image.digest # NONE THEN want.image
               ELSE [tag |-> want.image.tag, digest |-> resolved],
     fields |-> [f \in Fields |-> IF f \in DOMAIN want.fields THEN Reported(want.fields[f]) ELSE zero],
     health |-> [f \in HealthFields |->
                    IF "cmd" \in DOMAIN want.health /\ f \in DOMAIN want.health
                    THEN Reported(want.health[f]) ELSE zero],
     constraints |-> IF want.constraints = NONE THEN {} ELSE want.constraints,
     env |-> want.env, secrets |-> want.secrets, networks |-> want.networks]

(* secrets_unmounted: the secrets of these bases no service mounts.        *)
Unmounted(names, services, bases, baseOf) ==
    {n \in names : baseOf[n] \in bases /\ \A s \in services : n \notin DOMAIN s.secrets}

-----------------------------------------------------------------------------
(* A declaration over the fields there are.                                *)
Declared(want) ==
    /\ DOMAIN want.fields \subseteq Fields /\ DOMAIN want.health \subseteq HealthFields
=============================================================================
