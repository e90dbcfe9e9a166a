----------------------------- MODULE OnboxStore -----------------------------
(***************************************************************************)
(* The writers of /etc/catena/config.json, step by step: onbox_config.main *)
(* (the settings API's write and the converge's loader) under the store    *)
(* lock, catena-restic-key.py without it, and the payload's engines, which *)
(* hold the lock from their read to their write.  A write is load, merge   *)
(* into the file as it then is, truncate the temporary sibling, fill it,   *)
(* rename it over the store; a process may be killed between any two.      *)
(*                                                                         *)
(* The sibling's name is the same for every writer, so a descriptor is     *)
(* modelled by the name its file has now: "tmp" until some writer renames  *)
(* the sibling away, then "store", then nothing.                           *)
(***************************************************************************)
EXTENDS StoreOps

CONSTANTS
    Lockers,    \* processes running onbox_config.main
    Rekeyers,   \* processes running catena-restic-key.py
    RekeyOverlaps,  \* whether one may run beside another writer
    NOBODY,
    TORN,       \* a file truncated and not yet filled
    SHORT       \* a file one short os.write filled: no JSON object either

ASSUME ProcessesAssumption ==
    /\ Lockers \cap Rekeyers = {} /\ RekeyOverlaps \in BOOLEAN
    /\ NOBODY \notin Lockers \cup Rekeyers
    /\ TORN \notin Docs \cup {SHORT} /\ SHORT \notin Docs
    /\ ABSENT \notin Docs \cup {TORN, SHORT}

VARIABLES
    doc,    \* the store: a document, TORN or SHORT
    tmp,    \* config.json.tmp: a document, TORN, SHORT, or ABSENT
    lock,   \* who holds /run/catena-store.lock
    pc,
    req,    \* the request each process serves, or NONE
    mine,   \* the document each process computed, or NONE
    fd      \* what the file each process has open is named now

vars == <<doc, tmp, lock, pc, req, mine, fd>>

Procs == Lockers \cup Rekeyers

Malformed == {TORN, SHORT}

PCs == {"idle", "waiting", "locked", "loaded", "merged", "open", "written",
        "renamed"}

Init ==
    /\ doc \in FirstDocs
    /\ tmp = ABSENT
    /\ lock = NOBODY
    /\ pc = [p \in Procs |-> "idle"]
    /\ req = [p \in Procs |-> NONE]
    /\ mine = [p \in Procs |-> NONE]
    /\ fd = [p \in Procs |-> "none"]

Goto(p, label) == pc' = [pc EXCEPT ![p] = label]

(* MUTANT: a finished process leaves the lock held.                        *)
EndLocked(p) ==
    /\ Goto(p, "idle")
    /\ UNCHANGED lock
    /\ req' = [req EXCEPT ![p] = NONE]
    /\ mine' = [mine EXCEPT ![p] = NONE]
    /\ fd' = [fd EXCEPT ![p] = "none"]

Release(p) == lock' = IF lock = p THEN NOBODY ELSE lock

(* The process ends: its descriptors close, and with them its flock.       *)
End(p) ==
    /\ Goto(p, "idle")
    /\ Release(p)
    /\ req' = [req EXCEPT ![p] = NONE]
    /\ mine' = [mine EXCEPT ![p] = NONE]
    /\ fd' = [fd EXCEPT ![p] = "none"]

-----------------------------------------------------------------------------

(* No catena-restic-key.py runs, or it may run beside the others.          *)
Apart == RekeyOverlaps \/ \A q \in Rekeyers : pc[q] = "idle"

(* store_lock: open the lock file and ask for it without blocking.         *)
Ask(p, r) ==
    /\ p \in Lockers
    /\ pc[p] = "idle"
    /\ r.kind = "onbox"
    /\ Apart
    /\ req' = [req EXCEPT ![p] = r]
    /\ Goto(p, "waiting")
    /\ UNCHANGED <<doc, tmp, lock, mine, fd>>

(* MUTANT: the lock is asked for and not waited for.                       *)
AcquireShared(p) ==
    /\ pc[p] = "waiting"
    /\ lock' = p
    /\ Goto(p, "locked")
    /\ UNCHANGED <<doc, tmp, req, mine, fd>>

Acquire(p) ==
    /\ pc[p] = "waiting"
    /\ lock = NOBODY
    /\ lock' = p
    /\ Goto(p, "locked")
    /\ UNCHANGED <<doc, tmp, req, mine, fd>>

(* STORE_LOCK_WAIT_S has passed with the lock in other hands: exit 75.     *)
GiveUp(p) ==
    /\ pc[p] = "waiting"
    /\ lock # NOBODY
    /\ End(p)
    /\ UNCHANGED <<doc, tmp>>

(* catena-restic-key.main starts, and takes no lock.                       *)
AskRekey(p, r) ==
    /\ p \in Rekeyers
    /\ pc[p] = "idle"
    /\ r.kind = "rekey"
    /\ RekeyOverlaps \/ \A q \in Procs : pc[q] = "idle"
    /\ req' = [req EXCEPT ![p] = r]
    /\ Goto(p, "locked")
    /\ UNCHANGED <<doc, tmp, lock, mine, fd>>

(* load, then the request applied to the copy in memory.                   *)
Load(p, v) ==
    /\ pc[p] = "locked"
    /\ doc \notin Malformed
    /\ ~Refused(req[p])
    /\ mine' = [mine EXCEPT ![p] = Update(doc, req[p], v)]
    /\ Goto(p, "loaded")
    /\ UNCHANGED <<doc, tmp, lock, req, fd>>

(* A malformed store, or a secret the client may not supply, raises.       *)
Raise(p) ==
    /\ \/ pc[p] = "locked" /\ (doc \in Malformed \/ Refused(req[p]))
       \/ pc[p] = "loaded" /\ doc \in Malformed
    /\ End(p)
    /\ UNCHANGED <<doc, tmp>>

(* dump reads the file again and puts secrets and config into it.          *)
Merge(p) ==
    /\ pc[p] = "loaded"
    /\ doc \notin Malformed
    /\ mine' = [mine EXCEPT ![p].blocks = doc.blocks]
    /\ Goto(p, "merged")
    /\ UNCHANGED <<doc, tmp, lock, req, fd>>

(* MUTANT: the store is written in place.                                  *)
OpenStore(p) ==
    /\ pc[p] = "merged"
    /\ doc' = TORN
    /\ tmp' = TORN
    /\ fd' = [fd EXCEPT ![p] = "tmp"]
    /\ Goto(p, "open")
    /\ UNCHANGED <<lock, req, mine>>

(* O_CREAT | O_TRUNC on the sibling.                                       *)
OpenTmp(p) ==
    /\ pc[p] = "merged"
    /\ tmp' = TORN
    /\ fd' = [fd EXCEPT ![p] = "tmp"]
    /\ Goto(p, "open")
    /\ UNCHANGED <<doc, lock, req, mine>>

(* os.write reaches whatever the open file is named by now.  On a nearly   *)
(* full disk it may write the beginning only and say so in the count it    *)
(* returns, which dump does not look at.                                   *)
WriteTmp(p) ==
    /\ pc[p] = "open"
    /\ \E written \in {mine[p], SHORT} :
         /\ tmp' = IF fd[p] = "tmp" THEN written ELSE tmp
         /\ doc' = IF fd[p] = "store" THEN written ELSE doc
    /\ fd' = [fd EXCEPT ![p] = "none"]
    /\ Goto(p, "written")
    /\ UNCHANGED <<lock, req, mine>>

(* os.replace: the sibling becomes the store, for every descriptor too.    *)
Rename(p) ==
    /\ pc[p] = "written"
    /\ tmp # ABSENT
    /\ doc' = tmp
    /\ tmp' = ABSENT
    /\ fd' = [q \in Procs |-> CASE fd[q] = "tmp" -> "store"
                                [] fd[q] # "tmp" -> "none"]
    /\ Goto(p, "renamed")
    /\ UNCHANGED <<lock, req, mine>>

(* os.open, os.write (no room at all) or os.replace (the sibling renamed   *)
(* away by a writer without the lock) raises; the sibling stays as it is.  *)
SaveFails(p) ==
    /\ pc[p] \in {"merged", "open", "written"}
    /\ End(p)
    /\ UNCHANGED <<doc, tmp>>

(* The lock is dropped and the answer printed.                             *)
Finish(p) ==
    /\ pc[p] = "renamed"
    /\ End(p)
    /\ UNCHANGED <<doc, tmp>>

Kill(p) ==
    /\ pc[p] # "idle"
    /\ End(p)
    /\ UNCHANGED <<doc, tmp>>

(* An engine's configstore.Update, lock held throughout.                   *)
EngineUpdate ==
    /\ lock = NOBODY
    /\ Apart
    /\ doc \notin Malformed
    /\ doc' \in EngineUpdates(doc)
    /\ UNCHANGED <<tmp, lock, pc, req, mine, fd>>

Step(p) ==
    \/ Acquire(p) \/ GiveUp(p)
    \/ \E v \in Values : Load(p, v)
    \/ Raise(p) \/ Merge(p) \/ OpenTmp(p) \/ WriteTmp(p)
    \/ Rename(p) \/ SaveFails(p) \/ Finish(p)

Next ==
    \/ \E p \in Procs, r \in Requests : Ask(p, r) \/ AskRekey(p, r)
    \/ \E p \in Procs : Step(p)
    \/ \E p \in Procs : Kill(p)
    \/ EngineUpdate

(* A process that runs keeps running: the scheduler serves it, and it      *)
(* waits for nothing but the lock, with a deadline.                        *)
Spec == Init /\ [][Next]_vars /\ \A p \in Procs : WF_vars(Step(p))

-----------------------------------------------------------------------------

Held == PCs \ {"idle", "waiting"}

(* Type invariant, and who may be inside the locked section: a locker is   *)
(* in its read-modify-write exactly while it holds the flock (store_lock). *)
TypeOK ==
    /\ doc \in Docs \cup Malformed
    /\ tmp \in Docs \cup Malformed \cup {ABSENT}
    /\ lock \in Lockers \cup {NOBODY}
    /\ pc \in [Procs -> PCs]
    /\ req \in [Procs -> Requests \cup {NONE}]
    /\ mine \in [Procs -> Docs \cup {NONE}]
    /\ fd \in [Procs -> {"none", "tmp", "store"}]
    /\ \A p \in Lockers : pc[p] \in Held <=> lock = p

(* dump writes a sibling and renames it (559-592): whoever is killed, or   *)
(* raises, and at whichever step, a reader of the store, who takes no      *)
(* lock, never finds it emptied for a write under way.  The one content    *)
(* that is not a document is SHORT, which a short os.write (587) leaves in *)
(* the sibling and the rename then puts in place.                          *)
NeverTorn == doc # TORN

(* The lock's promise (65-68): every change of the store is one request,   *)
(* applied to the document it replaces, or the short write that loses it;  *)
(* after that one no writer touches the store, which load refuses to read. *)
Atomic == INSTANCE AtomicStore WITH store <- doc, LOST <- SHORT
Serial == Atomic!AtomicSpec

(* "Reconcile-not-overwrite" (595-636): once minted or adopted, an         *)
(* internal or user-held secret is never changed or lost, by a settings    *)
(* write, a converge or an engine, short writes apart; and over a store    *)
(* one of these cut short nothing is minted (load: "must never silently    *)
(* start minting fresh secrets over a corrupt store").                     *)
MintedStand ==
    [][/\ doc # SHORT
       /\ \A k \in Internal \cup UserHeld :
            doc' # SHORT /\ doc.secrets[k] # NONE
              => doc'.secrets[k] = doc.secrets[k]]_doc

(* preserve_outgoing_zone_token (695-736): the step that moves the host    *)
(* from one domain to another leaves the token of the domain it left in    *)
(* the per-zone map, the new domain's token arriving in the same request.  *)
OutgoingTokenKept ==
    [][doc \notin Malformed /\ doc' \notin Malformed =>
         LET old == doc.config[ZONE]
             new == doc'.config[ZONE]
             token == doc.secrets[TOKEN]
         IN  Stated(old) /\ Stated(new) /\ old # new /\ token # NONE
               => doc'.tokens[old] = token]_doc

(* The flock ends with the process, killed or not (503), so no writer, and *)
(* no death of one, keeps the store from the others for good.              *)
LockFreed == \A p \in Lockers : lock = p ~> lock # p
=============================================================================
