----------------------------- MODULE CollabStores ----------------------------
(* packages/collab: the stores of a component over a shared document         *)
(* (createYjsStore, createYjsText, createYjsMap) and over an awareness       *)
(* (createPresenceStore).  A store takes a snapshot when it is created and   *)
(* listens from its $effect on, which runs when the component has mounted;   *)
(* the document may change in between, and after the component has gone.     *)
(*                                                                           *)
(* yjs is external: it calls its observers when the outermost transaction    *)
(* ends.  So is the awareness, which has no transactions and calls them when *)
(* a state has really changed.  Peers are whatever writes `content`.         *)
EXTENDS Naturals, FiniteSets, Sequences

CONSTANTS
    Items,          \* elements of an array, characters of a text, values of a map
    Slots,          \* keys of a map, fields of a presence state
    People,         \* the clients of the awareness
    Me,             \* one of them
    Nothing,        \* no value, no presence state; it is not in Items
    MaxLength       \* bound: length of an array or text

VARIABLES
    kind,           \* "array", "text", "map" or "presence"
    excludeLocal,   \* option of createPresenceStore()
    content,        \* the document or the awareness
    inTransaction,  \* transactYjs() is running
    unsaid,         \* it has written
    stage,          \* "created", "mounted" or "gone"
    snapshot,
    missed          \* history: a change that nobody listened to

vars == <<kind, excludeLocal, content, inTransaction, unsaid, stage, snapshot, missed>>

Sequential == kind \in {"array", "text"}
States == [Slots -> Items \cup {Nothing}]
Contents ==
    CASE kind \in {"array", "text"} -> UNION {[1..n -> Items] : n \in 0..MaxLength}
      [] kind = "map" -> [Slots -> Items \cup {Nothing}]
      [] OTHER -> [People -> States \cup {Nothing}]

(* snapshotYjsMap() has the keys that are set.                               *)
SnapshotYjsMap(c) == {<<k, c[k]>> : k \in {s \in Slots : c[s] # Nothing}}

(* snapshotOthers(), the first of the two cells of the presence store.       *)
SnapshotOthers(c) ==
    {<<p, c[p]>> : p \in {q \in People : c[q] # Nothing /\ (excludeLocal => q # Me)}}

Snapshot(c) ==
    CASE kind = "map" -> SnapshotYjsMap(c)
      [] kind = "presence" -> <<SnapshotOthers(c), c[Me]>>
      [] OTHER -> c

Init ==
    /\ kind \in {"array", "text", "map", "presence"}
    /\ excludeLocal \in BOOLEAN
    /\ content \in Contents
    /\ inTransaction = FALSE /\ unsaid = FALSE
    /\ stage = "created"
    /\ snapshot = Snapshot(content)
    /\ missed = FALSE

-------------------------------------------------------------------------------
(* The observers of the document, among them the store's while it is there.  *)
Notify(c) ==
    /\ snapshot' = IF stage = "mounted" THEN Snapshot(c) ELSE snapshot
    /\ missed' = (stage # "mounted")

(* A write: inside a transaction the observers hear of it at the end.        *)
Write(c) ==
    /\ content' = c
    /\ IF inTransaction THEN unsaid' = TRUE /\ UNCHANGED <<snapshot, missed>>
       ELSE IF kind = "presence" /\ c = content THEN UNCHANGED <<unsaid, snapshot, missed>>
       ELSE Notify(c) /\ UNCHANGED unsaid
    /\ UNCHANGED <<kind, excludeLocal, inTransaction, stage>>

(* transactYjs(): the function runs to its end, then the observers.          *)
Transact ==
    /\ kind # "presence" /\ ~inTransaction
    /\ inTransaction' = TRUE
    /\ UNCHANGED <<kind, excludeLocal, content, unsaid, stage, snapshot, missed>>

Commit ==
    /\ inTransaction
    /\ inTransaction' = FALSE /\ unsaid' = FALSE
    /\ IF unsaid THEN Notify(content) ELSE UNCHANGED <<snapshot, missed>>
    /\ UNCHANGED <<kind, excludeLocal, content, stage>>

(* A peer's update, or other code of this client.                            *)
Peer ==
    /\ ~inTransaction
    /\ IF kind = "presence"
       THEN \E p \in People, s \in States \cup {Nothing} : Write([content EXCEPT ![p] = s])
       ELSE \E c \in Contents : Write(c)

-------------------------------------------------------------------------------
(* The component: the effect of the presence store refreshes, the others'    *)
(* only subscribe.                                                           *)
Unrefreshed == snapshot                     \* mistake: it only subscribes as well
Refreshed == IF kind = "presence" THEN Snapshot(content) ELSE snapshot

Mount ==
    /\ stage = "created" /\ ~inTransaction
    /\ stage' = "mounted"
    /\ snapshot' = Refreshed
    /\ missed' = (missed /\ kind # "presence")
    /\ UNCHANGED <<kind, excludeLocal, content, inTransaction, unsaid>>

Unmount ==
    /\ stage = "mounted" /\ ~inTransaction
    /\ stage' = "gone"
    /\ UNCHANGED <<kind, excludeLocal, content, inTransaction, unsaid, snapshot, missed>>

-------------------------------------------------------------------------------
(* The stores' writes.  They go by the index the caller has, which is one of *)
(* the snapshot; yjs refuses an index past the end of the document.          *)
Room(values) == Len(content) + Len(values) <= MaxLength
Values == {<<>>} \cup {<<i>> : i \in Items}
Indices == 0..Len(snapshot)

(* push() of an array, append() of a text.                                   *)
Push ==
    /\ Sequential
    /\ \E values \in Values \ {<<>>} : Room(values) /\ Write(content \o values)

(* insert(); nothing is written for no values.                               *)
Insert ==
    /\ Sequential
    /\ \E index \in Indices, values \in Values :
          /\ values # <<>> /\ Room(values)
          /\ index <= Len(content)
          /\ Write(SubSeq(content, 1, index) \o values \o SubSeq(content, index + 1, Len(content)))

(* delete(); nothing is written for no length.                               *)
Delete ==
    /\ Sequential
    /\ \E index \in Indices, length \in 1..MaxLength :
          /\ index + length <= Len(content)
          /\ Write(SubSeq(content, 1, index) \o SubSeq(content, index + length + 1, Len(content)))

(* set(), delete() and clear() of a map; a key that is absent is no write.   *)
SetKey(k) == kind = "map" /\ \E v \in Items : Write([content EXCEPT ![k] = v])
DeleteKey(k) ==
    /\ kind = "map"
    /\ content[k] # Nothing
    /\ Write([content EXCEPT ![k] = Nothing])
Clear ==
    /\ kind = "map"
    /\ \E k \in Slots : content[k] # Nothing
    /\ Write([k \in Slots |-> Nothing])

(* setLocal(), which a null empties, and patchLocal(), which merges some     *)
(* fields into the state the awareness has by then.                          *)
SetLocal == kind = "presence" /\ \E s \in States \cup {Nothing} : Write([content EXCEPT ![Me] = s])

Field(state, f) == IF state = Nothing THEN Nothing ELSE state[f]
Patches == UNION {[fields -> Items] : fields \in SUBSET Slots}
Patched(state, patch) ==
    [f \in Slots |-> IF f \in DOMAIN patch THEN patch[f] ELSE Field(state, f)]

OwnCell == snapshot[2]           \* mistake: merged into the cell that the component shows
LocalState == content[Me]

PatchLocal(patch) == kind = "presence" /\ Write([content EXCEPT ![Me] = Patched(LocalState, patch)])

Next ==
    \/ Peer \/ Transact \/ Commit
    \/ Mount \/ Unmount
    \/ Push \/ Insert \/ Delete
    \/ \E k \in Slots : SetKey(k) \/ DeleteKey(k)
    \/ Clear
    \/ SetLocal
    \/ \E patch \in Patches : PatchLocal(patch)

Spec == Init /\ [][Next]_vars

-------------------------------------------------------------------------------
TypeOK ==
    /\ content \in Contents
    /\ stage \in {"created", "mounted", "gone"}
    /\ unsaid => inTransaction

(* What a mounted component shows is the document, outside a transaction, or *)
(* as it was when the store was created if a change came before the effect   *)
(* and none has come since; presence has no such gap.  A component that has  *)
(* gone is left alone.  However far what it shows is behind, the write of a  *)
(* key leaves every other key of the map, and a patch leaves every field it  *)
(* does not name, and everybody else, as they are by then in the document    *)
(* or the awareness.                                                         *)
ShowsDocument ==
    /\ [](stage = "mounted" /\ ~inTransaction /\ ~missed => snapshot = Snapshot(content))
    /\ [](stage = "mounted" /\ kind = "presence" => ~missed)
    /\ [][stage = "gone" => UNCHANGED snapshot]_vars
    /\ [][\A k \in Slots : SetKey(k) \/ DeleteKey(k) =>
             \A other \in Slots \ {k} : content'[other] = content[other]]_vars
    /\ [][\A patch \in Patches : PatchLocal(patch) =>
             /\ \A p \in People \ {Me} : content'[p] = content[p]
             /\ \A f \in Slots \ DOMAIN patch : Field(content'[Me], f) = Field(content[Me], f)]_vars
==============================================================================
