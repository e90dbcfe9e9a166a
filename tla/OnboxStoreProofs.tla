-------------------------- MODULE OnboxStoreProofs --------------------------
(***************************************************************************)
(* Proofs about OnboxStore for any processes, requests, keys and values,   *)
(* when catena-restic-key.py, which takes no lock, runs beside no other    *)
(* writer (RekeyOverlaps = FALSE): the store is a whole document unless a  *)
(* short write was renamed over it, the step-by-step writers implement     *)
(* AtomicStore, and so no minted secret and no outgoing token is lost      *)
(* otherwise.                                                              *)
(***************************************************************************)
EXTENDS OnboxStore, TLAPS

(* A request leaves the blocks of other writers alone, and makes a         *)
(* document of a document (onbox_config.py 595-781).                       *)
LEMMA FillType ==
    ASSUME NEW m \in [SecretKeys -> Values \cup {NONE}],
           NEW in \in Given(SecretKeys, Values \cup {NONE}),
           NEW o \in BOOLEAN
    PROVE  Fill(m, in, o) \in [SecretKeys -> Values \cup {NONE}]
<1>1. PICK D \in SUBSET SecretKeys : in \in [D -> Values \cup {NONE}]
  BY DEF Given
<1>2. QED
  BY <1>1 DEF Fill

(* Adopting returns a record and leaves the blocks.                        *)
LEMMA AdoptType ==
    ASSUME NEW d \in Docs, NEW r \in OnboxRequests
    PROVE  Adopt(d, r) \in Docs /\ Adopt(d, r).blocks = d.blocks
<1>1. Fill(d.secrets, r.adopt, r.overwrite) \in [SecretKeys -> Values \cup {NONE}]
  BY FillType DEF Docs, OnboxRequests
<1>2. QED
  BY <1>1 DEF Adopt, Docs

(* Preserving the outgoing token returns a record and leaves the blocks.   *)
LEMMA PreserveType ==
    ASSUME NEW d \in Docs, NEW config \in Given(ConfigKeys, ConfigValues)
    PROVE  LET p == PreserveOutgoingZoneToken(d, config)
           IN  p \in Docs /\ p.blocks = d.blocks
<1> DEFINE old == d.config[ZONE]
           outgoing == d.secrets[TOKEN]
           new == [d EXCEPT !.tokens[old] = outgoing]
<1>1. outgoing \in Values \cup {NONE}
  BY ConstantsAssumption DEF Docs, SecretKeys
<1>2. d.tokens \in TokenMaps /\ [d.tokens EXCEPT ![old] = outgoing] \in TokenMaps
  BY <1>1 DEF Docs, TokenMaps
<1>3. new = [d EXCEPT !.tokens = [d.tokens EXCEPT ![old] = outgoing]]
  OBVIOUS
<1>4. new \in Docs /\ new.blocks = d.blocks
  BY <1>2, <1>3 DEF Docs
<1>5. QED
  BY <1>4 DEF PreserveOutgoingZoneToken

(* Applying the inputs returns a record and leaves the blocks.             *)
LEMMA ApplyInputsType ==
    ASSUME NEW d \in Docs, NEW r \in OnboxRequests
    PROVE  ApplyInputs(d, r) \in Docs /\ ApplyInputs(d, r).blocks = d.blocks
<1> DEFINE kept == PreserveOutgoingZoneToken(d, r.config)
           s == Fill(d.secrets, r.secrets, r.overwrite)
           t == IF r.tokens # NONE /\ (r.overwrite \/ kept.tokens = NoTokens)
                THEN r.tokens ELSE kept.tokens
           c == [k \in ConfigKeys |->
                   IF /\ k \in DOMAIN r.config
                      /\ r.overwrite \/ d.config[k] = ABSENT
                   THEN r.config[k] ELSE d.config[k]]
<1>1. kept \in Docs /\ kept.blocks = d.blocks
  BY PreserveType DEF OnboxRequests
<1>2. s \in [SecretKeys -> Values \cup {NONE}]
  BY FillType DEF Docs, OnboxRequests
<1>3. t \in TokenMaps
  BY <1>1 DEF Docs, OnboxRequests
<1>4. PICK D \in SUBSET ConfigKeys : r.config \in [D -> ConfigValues]
  BY DEF OnboxRequests, Given
<1>5. c \in [ConfigKeys -> ConfigValues \cup {ABSENT}]
  BY <1>4 DEF Docs
<1>6. ApplyInputs(d, r) = [kept EXCEPT !.secrets = s, !.tokens = t, !.config = c]
  BY DEF ApplyInputs
<1>7. [kept EXCEPT !.secrets = s, !.tokens = t, !.config = c] \in Docs
  BY <1>1, <1>2, <1>3, <1>5 DEF Docs
<1>8. [kept EXCEPT !.secrets = s, !.tokens = t, !.config = c].blocks = kept.blocks
  BY <1>1 DEF Docs
<1>9. QED
  BY <1>1, <1>6, <1>7, <1>8

(* Settling the provider returns a record and leaves the blocks.           *)
LEMMA SettleType ==
    ASSUME NEW d \in Docs
    PROVE  /\ SettleTailnetProvider(d) \in Docs
           /\ SettleTailnetProvider(d).blocks = d.blocks
<1>1. Provider(d) \in ConfigValues
  BY DEF Provider, ConfigValues, TAILNET_PROVIDERS
<1>2. [d.config EXCEPT ![METHOD] = ABSENT, ![PROVIDER] = Provider(d)]
         \in [ConfigKeys -> ConfigValues \cup {ABSENT}]
  BY <1>1 DEF Docs
<1>3. QED
  BY <1>2 DEF SettleTailnetProvider, Docs

(* Ensuring the secrets returns a record and leaves the blocks.            *)
LEMMA EnsureType ==
    ASSUME NEW d \in Docs, NEW keys, NEW v \in Values
    PROVE  Ensure(d, keys, v) \in Docs /\ Ensure(d, keys, v).blocks = d.blocks
BY DEF Ensure, Docs

(* What a process writes is a record, with the blocks it read.             *)
LEMMA UpdateType ==
    ASSUME NEW d \in Docs, NEW r \in Requests, NEW v \in Values
    PROVE  Update(d, r, v) \in Docs /\ Update(d, r, v).blocks = d.blocks
<1>1. CASE r \in RekeyRequests
  <2>1. r.kind = "rekey" /\ r.password \in Values
    BY <1>1 DEF RekeyRequests
  <2>2. [d.secrets EXCEPT ![RESTIC] = r.password] \in [SecretKeys -> Values \cup {NONE}]
    BY <2>1 DEF Docs
  <2>3. QED
    BY <2>1, <2>2 DEF Update, Docs
<1>2. CASE r \in OnboxRequests
  <2> DEFINE filled == ApplyInputs(Adopt(d, r), r)
             settled == IF r.settle THEN SettleTailnetProvider(filled) ELSE filled
  <2>1. r.kind = "onbox"
    BY <1>2 DEF OnboxRequests
  <2>2. Adopt(d, r) \in Docs /\ Adopt(d, r).blocks = d.blocks
    BY <1>2, AdoptType
  <2>3. filled \in Docs /\ filled.blocks = d.blocks
    BY <1>2, <2>2, ApplyInputsType
  <2>4. settled \in Docs /\ settled.blocks = d.blocks
    BY <2>3, SettleType
  <2>5. /\ Ensure(settled, MintedBy(r.mint), v) \in Docs
        /\ Ensure(settled, MintedBy(r.mint), v).blocks = d.blocks
    BY <2>4, EnsureType
  <2>6. QED
    BY <2>1, <2>5 DEF Update
<1>3. QED
  BY <1>1, <1>2, RequestsAssumption

-----------------------------------------------------------------------------

(* What a writer past its load has in memory is its request applied to the *)
(* store as it still stands.                                               *)
Current(p) ==
    /\ doc \in Docs
    /\ ~Refused(req[p])
    /\ \E v \in Values : mine[p] = Update(doc, req[p], v)

Working == {"loaded", "merged", "open", "written"}

(* The inductive invariant.                                                *)
WholeDoc  == doc \in Docs \cup {SHORT}
HasReq    == \A p \in Procs : pc[p] # "idle" => req[p] \in Requests
InMemory  == \A p \in Procs : pc[p] \in Working => Current(p)
OpenFiles == \A p \in Procs : fd[p] = IF pc[p] = "open" THEN "tmp" ELSE "none"
Filled    == \A p \in Procs : pc[p] = "written" => tmp \in {mine[p], SHORT}
Alone     == \A q \in Rekeyers : pc[q] # "idle" =>
                pc[q] # "waiting" /\ \A p \in Procs \ {q} : pc[p] = "idle"
IInv == TypeOK /\ Alone /\ WholeDoc /\ HasReq /\ InMemory /\ OpenFiles /\ Filled

(* At most one process is past its Acquire.                                *)
LEMMA OneHolder ==
    ASSUME TypeOK, Alone, NEW p \in Procs, NEW q \in Procs,
           pc[p] \in Held, pc[q] \in Held
    PROVE  p = q
BY DEF TypeOK, Alone, Procs, Held, PCs

(* The constants' facts every step uses.                                   *)
LEMMA Constants ==
    /\ TORN \notin Docs /\ SHORT \notin Docs /\ TORN # SHORT
    /\ ABSENT \notin Docs /\ ABSENT # TORN /\ ABSENT # SHORT
    /\ NONE \notin Values /\ NOBODY \notin Procs
BY ProcessesAssumption, ConstantsAssumption DEF Procs

(* The invariant holds of the first store.                                 *)
LEMMA InitIInv ==
    ASSUME RekeyOverlaps = FALSE, Init PROVE IInv
<1>1. doc \in Docs
  <2>1. PICK b \in Blocks, m \in {ABSENT, "public_ssh", "tailnet"} :
           doc = [EmptyDoc(b) EXCEPT !.config[METHOD] = m]
    BY DEF Init, FirstDocs
  <2>2. EmptyDoc(b) \in Docs
    BY DEF EmptyDoc, Docs, TokenMaps, NoTokens
  <2>3. [EmptyDoc(b).config EXCEPT ![METHOD] = m]
           \in [ConfigKeys -> ConfigValues \cup {ABSENT}]
    BY <2>2 DEF Docs, ConfigValues
  <2>4. doc = [EmptyDoc(b) EXCEPT !.config = [EmptyDoc(b).config EXCEPT ![METHOD] = m]]
    BY <2>1
  <2>5. QED
    BY <2>2, <2>3, <2>4 DEF Docs
<1>2. QED
  BY <1>1, Constants DEF Init, IInv, TypeOK, Alone, WholeDoc, HasReq, InMemory,
     OpenFiles, Filled, Working, PCs, Held, Procs

(* An engine's update of a document is a document.                         *)
LEMMA EngineType ==
    ASSUME NEW d \in Docs, NEW e \in EngineUpdates(d)
    PROVE  e \in Docs
<1>1. CASE \E b \in Blocks : e = [d EXCEPT !.blocks = b]
  BY <1>1 DEF Docs
<1>2. ASSUME NEW z \in Zones, e = [d EXCEPT !.tokens[z] = NONE]
      PROVE  e \in Docs
  <2>1. [d.tokens EXCEPT ![z] = NONE] \in TokenMaps
    BY DEF Docs, TokenMaps
  <2>2. e = [d EXCEPT !.tokens = [d.tokens EXCEPT ![z] = NONE]]
    BY <1>2
  <2>3. QED
    BY <2>1, <2>2 DEF Docs
<1>3. QED
  BY <1>1, <1>2 DEF EngineUpdates

(* Whoever ends, however it ends, leaves the others as they were.          *)
LEMMA EndStep ==
    ASSUME RekeyOverlaps = FALSE, IInv, NEW p \in Procs, End(p), UNCHANGED <<doc, tmp>>
    PROVE  IInv'
<1> USE DEF IInv, TypeOK, Alone, End, Goto, Release
<1>1. TypeOK' /\ Alone'
  BY Constants DEF PCs, Held, Procs
<1>2. WholeDoc' /\ HasReq' /\ OpenFiles' /\ Filled'
  BY DEF WholeDoc, HasReq, OpenFiles, Filled
<1>3. InMemory'
  <2> SUFFICES ASSUME NEW q \in Procs, pc'[q] \in Working
               PROVE  Current(q)'
    BY DEF InMemory
  <2>1. q # p /\ pc[q] \in Working /\ Current(q)
    BY DEF Working, InMemory
  <2>2. QED
    BY <2>1 DEF Current
<1>4. QED
  BY <1>1, <1>2, <1>3

(* A step that moves p alone, past its load, and leaves the store be.      *)
LEMMA InMemoryStep ==
    ASSUME InMemory, NEW p \in Procs, UNCHANGED doc,
           \A q \in Procs \ {p} : /\ pc'[q] = pc[q] /\ req'[q] = req[q]
                                  /\ mine'[q] = mine[q],
           pc'[p] \in Working => Current(p)'
    PROVE  InMemory'
<1> SUFFICES ASSUME NEW q \in Procs, pc'[q] \in Working
             PROVE  Current(q)'
  BY DEF InMemory
<1>1. CASE q = p
  BY <1>1
<1>2. CASE q # p
  <2>1. Current(q)
    BY <1>2 DEF InMemory
  <2>2. QED
    BY <2>1, <1>2 DEF Current
<1>3. QED
  BY <1>1, <1>2

(* The invariant is inductive.                                             *)
LEMMA StepIInv ==
    ASSUME RekeyOverlaps = FALSE, IInv, [Next]_vars
    PROVE  IInv'
<1> USE Constants
<1>1. ASSUME NEW p \in Procs, NEW r \in Requests, Ask(p, r)
      PROVE  IInv'
  <2>1. TypeOK' /\ Alone' /\ WholeDoc' /\ HasReq' /\ OpenFiles' /\ Filled'
    <3>1. TypeOK' /\ WholeDoc' /\ HasReq' /\ OpenFiles' /\ Filled'
      BY <1>1 DEF Ask, Goto, IInv, TypeOK, WholeDoc, HasReq, OpenFiles, Filled,
         PCs, Held, Procs
    <3>2. Alone'
      BY <1>1, ProcessesAssumption DEF Ask, Apart, Goto, IInv, TypeOK, Alone, Procs
    <3>3. QED
      BY <3>1, <3>2
  <2>2. InMemory'
    BY <1>1, InMemoryStep DEF Ask, Goto, IInv, TypeOK, Working, PCs
  <2>3. QED
    BY <2>1, <2>2 DEF IInv
<1>2. ASSUME NEW p \in Procs, NEW r \in Requests, AskRekey(p, r)
      PROVE  IInv'
  <2>1. TypeOK' /\ Alone' /\ WholeDoc' /\ HasReq' /\ OpenFiles' /\ Filled'
    <3>1. \A q \in Procs : pc[q] = "idle" /\ p \notin Lockers
      BY <1>2, ProcessesAssumption DEF AskRekey
    <3>2. TypeOK'
      BY <1>2, <3>1 DEF AskRekey, Goto, IInv, TypeOK, PCs, Held, Procs
    <3>3. Alone'
      BY <1>2, <3>1 DEF AskRekey, Goto, IInv, TypeOK, Alone, Procs
    <3>4. WholeDoc' /\ HasReq' /\ OpenFiles' /\ Filled'
      BY <1>2 DEF AskRekey, Goto, IInv, TypeOK, WholeDoc, HasReq, OpenFiles, Filled
    <3>5. QED
      BY <3>2, <3>3, <3>4
  <2>2. InMemory'
    BY <1>2, InMemoryStep DEF AskRekey, Goto, IInv, TypeOK, Working, PCs
  <2>3. QED
    BY <2>1, <2>2 DEF IInv
<1>3. ASSUME NEW p \in Procs, Acquire(p)
      PROVE  IInv'
  <2>1. TypeOK' /\ Alone'
    BY <1>3 DEF Acquire, Goto, IInv, TypeOK, Alone, PCs, Held, Procs
  <2>2. WholeDoc' /\ HasReq' /\ OpenFiles' /\ Filled'
    BY <1>3 DEF Acquire, Goto, IInv, TypeOK, WholeDoc, HasReq, OpenFiles, Filled
  <2>3. InMemory'
    BY <1>3, InMemoryStep DEF Acquire, Goto, IInv, TypeOK, Working, PCs
  <2>4. QED
    BY <2>1, <2>2, <2>3 DEF IInv
<1>4. ASSUME NEW p \in Procs,
             GiveUp(p) \/ Raise(p) \/ SaveFails(p) \/ Finish(p) \/ Kill(p)
      PROVE  IInv'
  BY <1>4, EndStep DEF GiveUp, Raise, SaveFails, Finish, Kill
<1>5. ASSUME NEW p \in Procs, NEW v \in Values, Load(p, v)
      PROVE  IInv'
  <2>1. req[p] \in Requests /\ doc \in Docs
    BY <1>5 DEF IInv, HasReq, WholeDoc, Load, Malformed
  <2>2. Update(doc, req[p], v) \in Docs
    BY <2>1, UpdateType
  <2>3. TypeOK' /\ Alone'
    BY <1>5, <2>2 DEF Load, Goto, IInv, TypeOK, Alone, PCs, Held, Procs
  <2>4. WholeDoc' /\ HasReq' /\ OpenFiles' /\ Filled'
    BY <1>5 DEF Load, Goto, IInv, TypeOK, WholeDoc, HasReq, OpenFiles, Filled
  <2>5. Current(p)'
    BY <1>5, <2>1 DEF Load, IInv, TypeOK, Current
  <2>6. InMemory'
    BY <1>5, <2>5, InMemoryStep DEF Load, Goto, IInv, TypeOK
  <2>7. QED
    BY <2>3, <2>4, <2>6 DEF IInv
<1>6. ASSUME NEW p \in Procs, Merge(p)
      PROVE  IInv'
  <2>1. req[p] \in Requests /\ doc \in Docs
    BY <1>6 DEF IInv, HasReq, WholeDoc, Merge, Malformed
  <2>2. PICK v \in Values : mine[p] = Update(doc, req[p], v)
    BY <1>6 DEF IInv, InMemory, Working, Current, Merge
  <2>3. mine[p] \in Docs /\ mine[p].blocks = doc.blocks
    BY <2>1, <2>2, UpdateType
  <2>4. [mine[p] EXCEPT !.blocks = doc.blocks] = mine[p]
    BY <2>3 DEF Docs
  <2>5. mine' = [mine EXCEPT ![p] = mine[p]]
    BY <1>6, <2>4 DEF Merge
  <2>6. mine' = mine
    BY <2>5 DEF IInv, TypeOK
  <2>7. TypeOK' /\ Alone'
    BY <1>6, <2>6 DEF Merge, Goto, IInv, TypeOK, Alone, PCs, Held, Procs
  <2>8. WholeDoc' /\ HasReq' /\ OpenFiles' /\ Filled'
    BY <1>6, <2>6 DEF Merge, Goto, IInv, TypeOK, WholeDoc, HasReq, OpenFiles, Filled
  <2>9. Current(p)'
    BY <1>6, <2>2, <2>6 DEF Merge, IInv, InMemory, Working, Current
  <2>10. InMemory'
    BY <1>6, <2>6, <2>9, InMemoryStep DEF Merge, Goto, IInv, TypeOK
  <2>11. QED
    BY <2>7, <2>8, <2>10 DEF IInv
<1>7. ASSUME NEW p \in Procs, OpenTmp(p)
      PROVE  IInv'
  <2>1. TypeOK' /\ Alone'
    BY <1>7 DEF Malformed, OpenTmp, Goto, IInv, TypeOK, Alone, PCs, Held, Procs
  <2>2. WholeDoc' /\ HasReq' /\ OpenFiles'
    BY <1>7 DEF OpenTmp, Goto, IInv, TypeOK, WholeDoc, HasReq, OpenFiles
  <2>3. Filled'
    <3> SUFFICES ASSUME NEW q \in Procs, pc'[q] = "written" PROVE FALSE
      BY DEF Filled
    <3>1. q # p /\ pc[q] = "written" /\ pc[p] = "merged"
      BY <1>7 DEF OpenTmp, Goto, IInv, TypeOK
    <3>2. QED
      BY <3>1, OneHolder DEF IInv, Held, PCs
  <2>4. Current(p)'
    BY <1>7 DEF OpenTmp, IInv, InMemory, Working, Current
  <2>5. InMemory'
    BY <1>7, <2>4, InMemoryStep DEF OpenTmp, Goto, IInv, TypeOK
  <2>6. QED
    BY <2>1, <2>2, <2>3, <2>5 DEF IInv
<1>8. ASSUME NEW p \in Procs, WriteTmp(p)
      PROVE  IInv'
  <2>1. fd[p] = "tmp" /\ tmp' \in {mine[p], SHORT} /\ doc' = doc
    BY <1>8 DEF WriteTmp, IInv, OpenFiles
  <2>2. mine[p] \in Docs
    <3>1. req[p] \in Requests /\ doc \in Docs
      BY <1>8 DEF IInv, HasReq, InMemory, Working, Current, WriteTmp
    <3>2. PICK v \in Values : mine[p] = Update(doc, req[p], v)
      BY <1>8 DEF IInv, InMemory, Working, Current, WriteTmp
    <3>3. QED
      BY <3>1, <3>2, UpdateType
  <2>3. TypeOK' /\ Alone'
    BY <1>8, <2>1, <2>2 DEF Malformed, WriteTmp, Goto, IInv, TypeOK, Alone, PCs, Held, Procs
  <2>4. WholeDoc' /\ HasReq' /\ OpenFiles'
    BY <1>8, <2>1 DEF WriteTmp, Goto, IInv, TypeOK, WholeDoc, HasReq, OpenFiles
  <2>5. Filled'
    <3> SUFFICES ASSUME NEW q \in Procs, pc'[q] = "written"
                 PROVE  tmp' \in {mine'[q], SHORT}
      BY DEF Filled
    <3>1. CASE q = p
      BY <1>8, <2>1, <3>1 DEF WriteTmp
    <3>2. CASE q # p
      <4>1. pc[q] = "written" /\ pc[p] = "open"
        BY <1>8, <3>2 DEF WriteTmp, Goto, IInv, TypeOK
      <4>2. QED
        BY <3>2, <4>1, OneHolder DEF IInv, Held, PCs
    <3>3. QED
      BY <3>1, <3>2
  <2>6. Current(p)'
    BY <1>8, <2>1 DEF WriteTmp, IInv, InMemory, Working, Current
  <2>7. InMemory'
    BY <1>8, <2>1, <2>6, InMemoryStep DEF WriteTmp, Goto, IInv, TypeOK
  <2>8. QED
    BY <2>3, <2>4, <2>5, <2>7 DEF IInv
<1>9. ASSUME NEW p \in Procs, Rename(p)
      PROVE  IInv'
  <2>1. tmp \in {mine[p], SHORT} /\ mine[p] \in Docs
    <3>1. req[p] \in Requests /\ doc \in Docs
      BY <1>9 DEF IInv, HasReq, InMemory, Working, Current, Rename
    <3>2. PICK v \in Values : mine[p] = Update(doc, req[p], v)
      BY <1>9 DEF IInv, InMemory, Working, Current, Rename
    <3>3. QED
      BY <1>9, <3>1, <3>2, UpdateType DEF IInv, Filled, Rename
  <2>2. \A q \in Procs : pc[q] # "open"
    BY <1>9, OneHolder DEF IInv, Held, PCs, Rename
  <2>3. fd' = [q \in Procs |-> "none"]
    BY <1>9, <2>2 DEF Rename, IInv, OpenFiles
  <2>4. TypeOK' /\ Alone'
    BY <1>9, <2>1, <2>3 DEF Malformed, Rename, Goto, IInv, TypeOK, Alone, PCs, Held, Procs
  <2>5. WholeDoc' /\ HasReq' /\ OpenFiles'
    BY <1>9, <2>1, <2>2, <2>3 DEF Rename, Goto, IInv, TypeOK, WholeDoc, HasReq, OpenFiles
  <2>6. \A q \in Procs : pc'[q] \notin Working
    BY <1>9, OneHolder DEF Rename, Goto, IInv, TypeOK, Working, Held, PCs
  <2>7. Filled' /\ InMemory'
    BY <2>6 DEF Filled, InMemory, Working
  <2>8. QED
    BY <2>4, <2>5, <2>7 DEF IInv
<1>10. ASSUME EngineUpdate
       PROVE  IInv'
  <2>1. doc' \in Docs
    BY <1>10, EngineType DEF EngineUpdate, IInv, WholeDoc, Malformed
  <2>2. TypeOK' /\ Alone' /\ WholeDoc' /\ HasReq' /\ OpenFiles' /\ Filled'
    BY <1>10, <2>1 DEF EngineUpdate, IInv, TypeOK, Alone, WholeDoc, HasReq, OpenFiles, Filled
  <2>3. \A q \in Procs : pc[q] \notin Held
    <3>1. \A q \in Lockers : pc[q] \notin Held
      BY <1>10 DEF EngineUpdate, IInv, TypeOK, Procs
    <3>2. \A q \in Rekeyers : pc[q] \notin Held
      BY <1>10 DEF EngineUpdate, Apart, Held
    <3>3. QED
      BY <3>1, <3>2 DEF Procs
  <2>4. InMemory'
    BY <1>10, <2>3 DEF EngineUpdate, InMemory, Working, Held, PCs
  <2>5. QED
    BY <2>2, <2>4 DEF IInv
<1>11. ASSUME UNCHANGED vars
       PROVE  IInv'
  BY <1>11 DEF vars, IInv, TypeOK, Alone, WholeDoc, HasReq, InMemory, OpenFiles,
     Filled, Current
<1>12. QED
  BY <1>1, <1>2, <1>3, <1>4, <1>5, <1>6, <1>7, <1>8, <1>9, <1>10, <1>11
     DEF Next, Step

(* Types, the lock's holder, and what each writer has in memory, in every  *)
(* state of the writers of onbox_config.py and catena-restic-key.py.       *)
THEOREM StoreInvariant ==
    ASSUME RekeyOverlaps = FALSE PROVE Spec => []IInv
<1>1. Init => IInv
  BY InitIInv
<1>2. IInv /\ [Next]_vars => IInv'
  BY StepIInv
<1>3. QED
  BY <1>1, <1>2, PTL DEF Spec

(* onbox_config.dump: no death and no failure of a writer, at any step,    *)
(* leaves a reader a store that is not a whole document, but a short       *)
(* os.write that dump then renames into place.                             *)
THEOREM StoreNeverTorn ==
    ASSUME RekeyOverlaps = FALSE
    PROVE  Spec => [](NeverTorn /\ doc \in Docs \cup {SHORT})
<1>1. IInv => NeverTorn /\ doc \in Docs \cup {SHORT}
  BY Constants DEF IInv, WholeDoc, NeverTorn
<1>2. QED
  BY <1>1, StoreInvariant, PTL

(* Every change of the store, as AtomicStore has it.                       *)
LEMMA StoreChanges ==
    ASSUME RekeyOverlaps = FALSE, IInv, [Next]_vars, doc' # doc
    PROVE  Atomic!AtomicNext
<1>1. CASE EngineUpdate
  BY <1>1 DEF EngineUpdate, Malformed, Atomic!AtomicNext, Atomic!AtomicEngine
<1>2. ASSUME NEW p \in Procs, Rename(p)
      PROVE  Atomic!AtomicNext
  <2>1. doc' \in {mine[p], SHORT} /\ req[p] \in Requests /\ Current(p)
    BY <1>2 DEF Rename, IInv, Filled, InMemory, HasReq, Working
  <2>2. QED
    BY <2>1, Constants DEF Current, Atomic!AtomicNext, Atomic!AtomicUpdate,
       Atomic!AtomicLoss
<1>3. ASSUME NEW p \in Procs, WriteTmp(p)
      PROVE  doc' = doc
  BY <1>3 DEF WriteTmp, IInv, OpenFiles
<1>4. QED
  BY <1>1, <1>2, <1>3 DEF Next, Step, vars, Ask, AskRekey, Acquire, GiveUp,
     Load, Raise, Merge, OpenTmp, SaveFails, Finish, Kill

(* The lock's promise: the writers implement AtomicStore.                  *)
THEOREM WritersAreSerial ==
    ASSUME RekeyOverlaps = FALSE PROVE Spec => Serial
<1>1. Init => Atomic!AtomicInit
  BY DEF Init, Atomic!AtomicInit
<1>2. IInv /\ [Next]_vars => [Atomic!AtomicNext]_doc
  BY StoreChanges
<1>3. QED
  BY <1>1, <1>2, StoreInvariant, PTL DEF Spec, Serial, Atomic!AtomicSpec

-----------------------------------------------------------------------------

(* Filling a secret that is there, without overwriting, leaves it.         *)
LEMMA FillKeeps ==
    ASSUME NEW m, NEW in, NEW o, NEW k \in DOMAIN m, m[k] # NONE,
           ~o \/ k \notin DOMAIN in
    PROVE  Fill(m, in, o)[k] = m[k]
BY DEF Fill

(* What one request does to the parts the two properties speak of.         *)
LEMMA UpdateParts ==
    ASSUME NEW d \in Docs, NEW r \in OnboxRequests, NEW v \in Values
    PROVE  LET a == Fill(d.secrets, r.adopt, r.overwrite)
               s == Fill(a, r.secrets, r.overwrite)
               kept == PreserveOutgoingZoneToken(Adopt(d, r), r.config)
               u == Update(d, r, v)
           IN  /\ \A k \in SecretKeys : s[k] # NONE => u.secrets[k] = s[k]
               /\ u.tokens = IF r.tokens # NONE
                                /\ (r.overwrite \/ kept.tokens = NoTokens)
                             THEN r.tokens ELSE kept.tokens
               /\ u.config[ZONE] = IF /\ ZONE \in DOMAIN r.config
                                      /\ r.overwrite \/ d.config[ZONE] = ABSENT
                                   THEN r.config[ZONE] ELSE d.config[ZONE]
<1> DEFINE ad == Adopt(d, r)
           kept == PreserveOutgoingZoneToken(ad, r.config)
           filled == ApplyInputs(ad, r)
           settled == IF r.settle THEN SettleTailnetProvider(filled) ELSE filled
           s == Fill(ad.secrets, r.secrets, r.overwrite)
           t == IF r.tokens # NONE /\ (r.overwrite \/ kept.tokens = NoTokens)
                THEN r.tokens ELSE kept.tokens
           c == [k \in ConfigKeys |->
                   IF /\ k \in DOMAIN r.config
                      /\ r.overwrite \/ ad.config[k] = ABSENT
                   THEN r.config[k] ELSE ad.config[k]]
<1>1. /\ ad \in Docs /\ ad.config = d.config /\ ad.tokens = d.tokens
      /\ ad.secrets = Fill(d.secrets, r.adopt, r.overwrite)
  BY AdoptType DEF Adopt, Docs
<1>2. kept \in Docs
  BY <1>1, PreserveType DEF OnboxRequests
<1>3. filled \in Docs /\ filled.secrets = s /\ filled.tokens = t /\ filled.config = c
  <2>1. filled = [kept EXCEPT !.secrets = s, !.tokens = t, !.config = c]
    BY DEF ApplyInputs
  <2>2. filled \in Docs
    BY <1>1, ApplyInputsType
  <2>3. QED
    BY <1>2, <2>1, <2>2 DEF Docs
<1>4. /\ settled \in Docs /\ settled.secrets = filled.secrets
      /\ settled.tokens = filled.tokens
      /\ settled.config[ZONE] = filled.config[ZONE]
  <2>1. CASE r.settle
    <3>1. /\ SettleTailnetProvider(filled).secrets = filled.secrets
          /\ SettleTailnetProvider(filled).tokens = filled.tokens
      BY <1>3 DEF SettleTailnetProvider, Docs
    <3>2. SettleTailnetProvider(filled).config =
            [filled.config EXCEPT ![METHOD] = ABSENT, ![PROVIDER] = Provider(filled)]
      BY <1>3 DEF SettleTailnetProvider, Docs
    <3>3. SettleTailnetProvider(filled).config[ZONE] = filled.config[ZONE]
      BY <1>3, <3>2 DEF Docs, ConfigKeys, ZONE, METHOD, PROVIDER
    <3>4. QED
      BY <1>3, <2>1, <3>1, <3>3, SettleType
  <2>2. CASE ~r.settle
    BY <1>3, <2>2
  <2>3. QED
    BY <2>1, <2>2
<1>5. Update(d, r, v) = Ensure(settled, MintedBy(r.mint), v)
  BY DEF Update, OnboxRequests
<1>6. /\ \A k \in SecretKeys : settled.secrets[k] # NONE
             => Update(d, r, v).secrets[k] = settled.secrets[k]
      /\ Update(d, r, v).tokens = settled.tokens
      /\ Update(d, r, v).config = settled.config
  BY <1>4, <1>5 DEF Ensure, Docs
<1>7. c[ZONE] = IF ZONE \in DOMAIN r.config /\ (r.overwrite \/ d.config[ZONE] = ABSENT)
                THEN r.config[ZONE] ELSE d.config[ZONE]
  BY <1>1 DEF ConfigKeys
<1>8. QED
  BY <1>1, <1>3, <1>4, <1>6, <1>7

(* A request that is served, and does not overwrite what it adopts, leaves *)
(* every minted or adopted secret of the converge.                         *)
LEMMA UpdateKeepsMinted ==
    ASSUME FillOnlyAdopts, NEW d \in Docs, NEW r \in Requests, ~Refused(r),
           NEW v \in Values, NEW k \in Internal \cup UserHeld,
           d.secrets[k] # NONE
    PROVE  Update(d, r, v).secrets[k] = d.secrets[k]
<1>1. CASE r \in RekeyRequests
  <2>1. k # RESTIC /\ k \in SecretKeys /\ r.kind = "rekey"
    BY <1>1, ConstantsAssumption DEF SecretKeys, RekeyRequests
  <2>2. QED
    BY <2>1 DEF Update, Docs
<1>2. CASE r \in OnboxRequests
  <2> DEFINE a == Fill(d.secrets, r.adopt, r.overwrite)
             s == Fill(a, r.secrets, r.overwrite)
  <2>1. k \in SecretKeys /\ k \notin External
    BY ConstantsAssumption DEF SecretKeys
  <2>2. DOMAIN d.secrets = SecretKeys /\ DOMAIN a = SecretKeys
    BY DEF Docs, Fill
  <2>3. ~r.overwrite \/ k \notin DOMAIN r.adopt
    BY <1>2 DEF FillOnlyAdopts, OnboxRequests
  <2>4. a[k] = d.secrets[k]
    BY <2>1, <2>2, <2>3, FillKeeps
  <2>5. k \notin DOMAIN r.secrets
    BY <1>2, <2>1 DEF Refused, OnboxRequests
  <2>6. s[k] = d.secrets[k]
    BY <2>1, <2>2, <2>4, <2>5, FillKeeps
  <2>7. QED
    BY <1>2, <2>1, <2>6, UpdateParts
<1>3. QED
  BY <1>1, <1>2, RequestsAssumption

(* "Reconcile-not-overwrite": no order of converges, settings writes and   *)
(* engines, and no death of one, changes or loses a minted secret.         *)
THEOREM MintedSecretsStand ==
    ASSUME RekeyOverlaps = FALSE, FillOnlyAdopts PROVE Spec => MintedStand
<1>1. ASSUME IInv, [Next]_vars, doc' # doc
      PROVE  doc \in Docs /\ Atomic!AtomicNext
  BY <1>1, StoreChanges DEF IInv, WholeDoc, Atomic!AtomicNext
<1>2. ASSUME IInv, [Next]_vars, doc' # doc, NEW k \in Internal \cup UserHeld,
             doc' # SHORT, doc.secrets[k] # NONE
      PROVE  doc'.secrets[k] = doc.secrets[k]
  <2>1. doc \in Docs /\ Atomic!AtomicNext
    BY <1>1, <1>2
  <2>2. CASE Atomic!AtomicUpdate
    BY <1>2, <2>1, <2>2, UpdateKeepsMinted DEF Atomic!AtomicUpdate
  <2>3. CASE Atomic!AtomicEngine
    BY <2>1, <2>3 DEF Atomic!AtomicEngine, EngineUpdates, Docs
  <2>4. QED
    BY <1>2, <2>1, <2>2, <2>3 DEF Atomic!AtomicNext, Atomic!AtomicLoss
<1>3. IInv /\ [Next]_vars
        => [/\ doc # SHORT
            /\ \A k \in Internal \cup UserHeld :
                 doc' # SHORT /\ doc.secrets[k] # NONE
                   => doc'.secrets[k] = doc.secrets[k]]_doc
  BY <1>1, <1>2, Constants
<1>4. QED
  BY <1>3, StoreInvariant, PTL DEF Spec, MintedStand

-----------------------------------------------------------------------------

(* The domain the store holds is a zone, blank or missing.                 *)
HasZone == doc \in Docs => doc.config[ZONE] \in Zones \cup {BLANK, ABSENT}

(* A request that moves the host to another domain keeps the outgoing      *)
(* token under the domain it left.                                         *)
LEMMA MoveKeepsToken ==
    ASSUME FillOnlyAdopts, ZoneNamed, NEW d \in Docs, NEW r \in Requests,
           NEW v \in Values, d.config[ZONE] \in Zones \cup {BLANK, ABSENT}
    PROVE  LET old == d.config[ZONE]
               u == Update(d, r, v)
           IN  /\ u.config[ZONE] \in Zones \cup {BLANK, ABSENT}
               /\ Stated(old) /\ Stated(u.config[ZONE]) /\ old # u.config[ZONE]
                    /\ d.secrets[TOKEN] # NONE
                  => u.tokens[old] = d.secrets[TOKEN]
<1> DEFINE old == d.config[ZONE]
           u == Update(d, r, v)
<1>1. CASE r \in RekeyRequests
  <2>1. u.config = d.config
    BY <1>1 DEF Update, RekeyRequests, Docs
  <2>2. QED
    BY <2>1
<1>2. CASE r \in OnboxRequests
  <2> DEFINE kept == PreserveOutgoingZoneToken(Adopt(d, r), r.config)
  <2>1. /\ u.tokens = IF r.tokens # NONE /\ (r.overwrite \/ kept.tokens = NoTokens)
                      THEN r.tokens ELSE kept.tokens
        /\ u.config[ZONE] = IF /\ ZONE \in DOMAIN r.config
                               /\ r.overwrite \/ old = ABSENT
                            THEN r.config[ZONE] ELSE old
    BY <1>2, UpdateParts
  <2>2. ZONE \in DOMAIN r.config => r.config[ZONE] \in Zones \cup {BLANK} /\ r.tokens = NONE
    BY <1>2 DEF ZoneNamed, OnboxRequests
  <2>3. u.config[ZONE] \in Zones \cup {BLANK, ABSENT}
    BY <2>1, <2>2
  <2>4. ASSUME Stated(old), Stated(u.config[ZONE]), old # u.config[ZONE],
               d.secrets[TOKEN] # NONE
        PROVE  u.tokens[old] = d.secrets[TOKEN]
    <3>1. /\ ZONE \in DOMAIN r.config /\ r.overwrite
          /\ r.config[ZONE] = u.config[ZONE] /\ r.tokens = NONE
      BY <2>1, <2>2, <2>4 DEF Stated
    <3>2. old \in Zones
      BY <2>4 DEF Stated
    <3>3. DOMAIN r.adopt = {}
      BY <1>2, <3>1 DEF FillOnlyAdopts, OnboxRequests
    <3>4. /\ Adopt(d, r) \in Docs /\ Adopt(d, r).config = d.config
          /\ Adopt(d, r).secrets = Fill(d.secrets, r.adopt, r.overwrite)
      BY <1>2, AdoptType DEF Adopt, Docs
    <3>5. TOKEN \in SecretKeys
      BY ConstantsAssumption DEF SecretKeys
    <3>6. Adopt(d, r).secrets[TOKEN] = d.secrets[TOKEN]
      BY <2>4, <3>3, <3>4, <3>5, FillKeeps DEF Docs
    <3>7. kept = [Adopt(d, r) EXCEPT !.tokens[old] = d.secrets[TOKEN]]
      BY <2>4, <3>1, <3>4, <3>6 DEF PreserveOutgoingZoneToken
    <3>8. kept.tokens[old] = d.secrets[TOKEN]
      BY <3>2, <3>4, <3>7 DEF Docs, TokenMaps
    <3>9. QED
      BY <2>1, <3>1, <3>8
  <2>5. QED
    BY <2>3, <2>4
<1>3. QED
  BY <1>1, <1>2, RequestsAssumption

(* preserve_outgoing_zone_token: whoever writes beside it, the write that  *)
(* moves the host to another domain leaves the old one's token in the map. *)
THEOREM TokensAreKept ==
    ASSUME RekeyOverlaps = FALSE, FillOnlyAdopts, ZoneNamed
    PROVE  Spec => OutgoingTokenKept
<1> DEFINE Kept == doc \notin Malformed /\ doc' \notin Malformed =>
                     LET old == doc.config[ZONE]
                         new == doc'.config[ZONE]
                         token == doc.secrets[TOKEN]
                     IN  Stated(old) /\ Stated(new) /\ old # new /\ token # NONE
                           => doc'.tokens[old] = token
<1>1. Init => HasZone
  <2> SUFFICES ASSUME Init PROVE HasZone
    OBVIOUS
  <2>1. PICK b \in Blocks, m \in {ABSENT, "public_ssh", "tailnet"} :
           doc = [EmptyDoc(b) EXCEPT !.config[METHOD] = m]
    BY DEF Init, FirstDocs
  <2>2. doc.config[ZONE] = ABSENT
    BY <2>1 DEF EmptyDoc, ConfigKeys, ZONE, METHOD
  <2>3. QED
    BY <2>2 DEF HasZone
<1>2. ASSUME IInv, HasZone, [Next]_vars, doc' # doc
      PROVE  HasZone' /\ Kept
  <2>1. doc \in Docs /\ Atomic!AtomicNext
    BY <1>2, StoreChanges DEF IInv, WholeDoc, Atomic!AtomicNext
  <2>2. CASE Atomic!AtomicUpdate
    <3>1. PICK r \in Requests, v \in Values : doc' = Update(doc, r, v)
      BY <2>2 DEF Atomic!AtomicUpdate
    <3>2. QED
      BY <1>2, <2>1, <3>1, MoveKeepsToken DEF HasZone
  <2>3. CASE Atomic!AtomicEngine
    <3>1. doc'.config = doc.config
      BY <2>1, <2>3 DEF Atomic!AtomicEngine, EngineUpdates, Docs
    <3>2. QED
      BY <1>2, <2>1, <3>1 DEF HasZone
  <2>4. CASE Atomic!AtomicLoss
    BY <2>4, Constants DEF Atomic!AtomicLoss, HasZone, Malformed
  <2>5. QED
    BY <2>1, <2>2, <2>3, <2>4 DEF Atomic!AtomicNext
<1>3. IInv /\ HasZone /\ [Next]_vars => HasZone' /\ [Kept]_doc
  BY <1>2 DEF HasZone
<1>4. QED
  BY <1>1, <1>3, StoreInvariant, PTL DEF Spec, OutgoingTokenKept
=============================================================================
