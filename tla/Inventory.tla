----------------------------- MODULE Inventory ------------------------------
(***************************************************************************)
(* An inventory's .env as seed.py fills, checks, writes and reads it.  A   *)
(* .env is a function from keys to values; a key it lacks is not in its    *)
(* domain.  The knob registry is what Default, Exampled and Options say of *)
(* the template's keys.                                                    *)
(***************************************************************************)
EXTENDS TLC

CONSTANTS
    Keys,          \* the template's keys
    Values,        \* what a value can be, BLANK included
    BLANK,
    Placeholders,  \* REPLACE, you@example.com
    Default,       \* the template's default for a key, BLANK for none
    Exampled,      \* keys without a default that need an answer
    Options,       \* the values a key is limited to, {} for any
    Held,          \* names the server holds and an input file may not carry
    Reread         \* what is read back from the line a value is written as

ASSUME InventoryAssumption ==
    /\ BLANK \in Values /\ BLANK \notin Placeholders /\ Placeholders \subseteq Values
    /\ Default \in [Keys -> Values] /\ Exampled \subseteq Keys
    /\ Options \in [Keys -> SUBSET Values]
    /\ Reread \in [Values -> Values] /\ Keys \cap Held = {}

DIE == "die"

IsFilled(v) == v # BLANK /\ v \notin Placeholders
Allowed(k, v) == Options[k] # {} => v \in Options[k]

(* prompt: asks until the answer is an allowed one that is no placeholder; *)
(* Enter takes the default, or a blank where the default is blank.         *)
Prompted(k) == {v \in Values : \/ IsFilled(v) /\ Allowed(k, v)
                               \/ v = BLANK /\ Default[k] = BLANK}

(* What fill can return for key k: the value provided, else one asked for, *)
(* else with nobody to ask the default.                                    *)
Fill(k, provided, ask) ==
    LET given == k \in DOMAIN provided
    IN  IF given /\ IsFilled(provided[k]) /\ Allowed(k, provided[k]) THEN {provided[k]}
        ELSE IF given /\ provided[k] = BLANK /\ Default[k] = BLANK THEN {BLANK}
        ELSE IF ask THEN Prompted(k)
        ELSE IF IsFilled(Default[k]) \/ Default[k] = BLANK THEN {Default[k]}
        ELSE {DIE}

(* _collect_env_values: every key, in any way fill can answer it.          *)
Collected(provided, ask) ==
    {f \in [Keys -> UNION {Fill(k, provided, ask) : k \in Keys}] :
        \A k \in Keys : f[k] \in Fill(k, provided, ask)}

(* validate_install_structural: the keys whose value stops the seed.       *)
Problems(values) == {k \in Keys :
    /\ IsFilled(values[k]) \/ Default[k] # BLANK \/ k \in Exampled
    /\ ~IsFilled(values[k]) \/ ~Allowed(k, values[k])}

(* emit_env: the template's keys, with what the file holds before the      *)
(* input when keepExisting, and the file's other keys as found; and what   *)
(* parse_env_pairs reads back of it: emit_env escapes a quote and a        *)
(* backslash, and parse_env_pairs takes no escape away.                    *)
Emit(disk, values, keepExisting) ==
    [k \in Keys \cup DOMAIN disk |->
        Reread[IF k \in DOMAIN disk /\ (keepExisting \/ k \notin Keys)
               THEN disk[k] ELSE values[k]]]

(* The lines of first, and those of rest it lacks.                         *)
Atop(first, rest) == [k \in DOMAIN first \cup DOMAIN rest |->
                         IF k \in DOMAIN first THEN first[k] ELSE rest[k]]

(* write_env, of the page and of init: every key at its default unless     *)
(* answered.                                                               *)
WriteEnv(disk, answers) == Emit(disk, Atop(answers, Default), FALSE)

NotInstallInputs(input) == DOMAIN input \cap Held
=============================================================================
