--------------------------- MODULE OffsetManager ----------------------------
(***************************************************************************)
(* The committed offsets of the consumer groups                            *)
(* (internal/consumer/manager.go): a map in memory and the goroutine that  *)
(* writes it to a file some time after it changed.  The debounce timer may *)
(* expire whenever the flusher waits in its select.                        *)
(***************************************************************************)
EXTENDS Integers

CONSTANTS Groups,         \* consumer groups
          Partitions,     \* partitions of the topic
          None,           \* no offset was committed under a key
          MaxSaveErrors   \* bound: saves that fail

VARIABLES offsets,      \* [Keys -> offset or None]
          file,         \* what the offsets file holds
          flushSignal,  \* the one-place channel
          dirty,        \* flushLoop's flag
          flusher,      \* "wait", "save" or "done"
          snap,         \* the snapshot save is writing
          saveErrors

managerVars == <<offsets, file, flushSignal, dirty, flusher, snap, saveErrors>>

Parts == 0 .. Partitions - 1

(* key(topic, group, partition), for one topic *)
Keys == Groups \X Parts

NoOffsets == [k \in Keys |-> None]

ManagerInit ==
    /\ offsets = NoOffsets /\ file = NoOffsets /\ snap = NoOffsets
    /\ flushSignal = FALSE /\ dirty = FALSE /\ flusher = "wait"
    /\ saveErrors = 0

(* CommitPartition, the store under the lock; signalDirty follows. *)
CommitPartition(k, offset) ==
    /\ offsets' = [offsets EXCEPT ![k] = offset]
    /\ UNCHANGED <<file, flushSignal, dirty, flusher, snap, saveErrors>>

signalDirty ==
    /\ flushSignal' = TRUE
    /\ UNCHANGED <<offsets, file, dirty, flusher, snap, saveErrors>>

TakeSignal ==
    /\ flusher = "wait" /\ flushSignal
    /\ flushSignal' = FALSE /\ dirty' = TRUE
    /\ UNCHANGED <<offsets, file, flusher, snap, saveErrors>>

(* The timer expired with dirty set: save copies the map. *)
StartSave ==
    /\ flusher = "wait" /\ dirty
    /\ snap' = offsets /\ flusher' = "save"
    /\ UNCHANGED <<offsets, file, flushSignal, dirty, saveErrors>>

Saved ==
    /\ flusher = "save"
    /\ file' = snap /\ dirty' = FALSE /\ flusher' = "wait"
    /\ UNCHANGED <<offsets, flushSignal, snap, saveErrors>>

(* Mutant: the flag is cleared before the outcome of save is known. *)
SaveFailsClean ==
    /\ flusher = "save" /\ saveErrors < MaxSaveErrors
    /\ saveErrors' = saveErrors + 1
    /\ flusher' = "wait" /\ dirty' = FALSE
    /\ UNCHANGED <<offsets, file, flushSignal, snap>>

SaveFails ==
    /\ flusher = "save" /\ saveErrors < MaxSaveErrors
    /\ saveErrors' = saveErrors + 1 /\ flusher' = "wait"
    /\ UNCHANGED <<offsets, file, flushSignal, dirty, snap>>

FlushLoop == TakeSignal \/ StartSave \/ Saved \/ SaveFails

(* Mutant: Close relies on what the flusher wrote. *)
CloseUnsaved ==
    /\ flusher = "wait" /\ flusher' = "done"
    /\ UNCHANGED <<offsets, file, flushSignal, dirty, snap, saveErrors>>

(* Close: the flusher leaves its loop, and the map is saved once more. *)
Close ==
    /\ flusher = "wait" /\ flusher' = "done"
    /\ \/ file' = offsets /\ UNCHANGED saveErrors
       \/ /\ saveErrors < MaxSaveErrors
          /\ saveErrors' = saveErrors + 1 /\ UNCHANGED file
    /\ UNCHANGED <<offsets, flushSignal, dirty, snap>>

(* The process ends; NewManagerWithPath of the next one loads the file. *)
Reload ==
    /\ offsets' = file /\ snap' = file
    /\ flushSignal' = FALSE /\ dirty' = FALSE /\ flusher' = "wait"
    /\ UNCHANGED <<file, saveErrors>>

-----------------------------------------------------------------------------
Offsets == [Keys -> Nat \cup {None}]

ManagerOK ==
    /\ offsets \in Offsets /\ file \in Offsets /\ snap \in Offsets
    /\ flushSignal \in BOOLEAN /\ dirty \in BOOLEAN
    /\ flusher \in {"wait", "save", "done"} /\ saveErrors \in Nat
=============================================================================
