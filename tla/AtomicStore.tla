---------------------------- MODULE AtomicStore -----------------------------
(***************************************************************************)
(* What the store lock promises (onbox_config.py, DEFAULT_STORE_LOCK): a   *)
(* writer's read-modify-write is one step on the document as it stood, so  *)
(* "two writes of different keys both stand".  No document in between, no  *)
(* write computed from an older one, nothing written by a run that failed. *)
(* What it does not promise: a write may lose the store for good.          *)
(***************************************************************************)
CONSTANTS
    Requests,         \* what the writers may ask for
    Values,           \* what a mint may return
    FirstDocs,        \* the store of a fresh box, or of an earlier release
    Refused(_),       \* the requests that end with nothing written
    Update(_, _, _),  \* the document a request makes of the one it finds
    EngineUpdates(_), \* the documents the payload's engines make of it
    LOST              \* a store no writer can read, nor writes over

VARIABLE store

AtomicInit == store \in FirstDocs

AtomicUpdate == \E r \in Requests, v \in Values :
    ~Refused(r) /\ store' = Update(store, r, v)

AtomicEngine == store' \in EngineUpdates(store)

AtomicLoss == store' = LOST

AtomicNext == store # LOST /\ (AtomicUpdate \/ AtomicEngine \/ AtomicLoss)

AtomicSpec == AtomicInit /\ [][AtomicNext]_store
=============================================================================
