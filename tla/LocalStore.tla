----------------------------- MODULE LocalStore -----------------------------
(***************************************************************************)
(* router_control/local_store.py: worker threads that hash a model's       *)
(* manifest and the blobs it names, while other programs write the files.  *)
(*                                                                         *)
(* verify_store_bytes runs in a thread of asyncio.to_thread.  Its caller   *)
(* may stop waiting: a thread still queued never starts, one that runs     *)
(* sees the stop event before its next chunk.  A file has two chunks, each *)
(* of which is or is not what the pinned digest covers; a write of one  *)
(* chunk gives the file a new version, which stands for the fields of the  *)
(* fingerprint.                                                            *)
(***************************************************************************)
EXTENDS Naturals, Sequences, FiniteSets

CONSTANTS
  Callers,   \* requests, each of which has at most one scan
  NoCaller,  \* none
  Stores,    \* what the store may hold at first: [disk, pinned]
  MaxWrites  \* bound on the writes to a file

VARIABLES
  slot,   \* who holds _scan_capacity, or NoCaller
  disk,   \* the files: present, chunks that are the pinned ones, version
  pinned, \* what the manifest with the pinned digest says
  scan    \* each caller's scan

storeVars == <<slot, disk, pinned, scan>>

Files == <<"manifest", "weights">>  \* in the order they are read
Chunks == {1, 2}

ASSUME StoreAssumption ==
  \A store \in Stores :
    store.disk \in [DOMAIN Files -> [present : BOOLEAN, right : SUBSET Chunks, version : Nat]]

\* The file whose digest the pin (for a blob: the manifest) names.
Whole(d, f) == d[f].present /\ d[f].right = Chunks

NoScan ==
  [at |-> "none", file |-> 1, chunk |-> 1, right |-> {}, version |-> 0,
   stop |-> FALSE, intact |-> {}, verdict |-> "none"]

StoreInit ==
  /\ slot = NoCaller
  /\ \E store \in Stores : disk = store.disk /\ pinned = store.pinned
  /\ scan = [c \in Callers |-> NoScan]

\* An attempt hands the scan to the executor, with a stop event of its own.
Submit(c) ==
  /\ scan' = [scan EXCEPT ![c] = [NoScan EXCEPT !.at = "queued"]]
  /\ UNCHANGED <<slot, disk, pinned>>

\* The caller no longer waits (its timeout, or a cancellation).
GiveUp(c) ==
  /\ scan' = [scan EXCEPT ![c] = IF @.at = "queued" THEN [NoScan EXCEPT !.stop = TRUE]
                                                    ELSE [@ EXCEPT !.stop = TRUE]]
  /\ UNCHANGED <<slot, disk, pinned>>

\* The thread's verdict, the scan over.
Over(c, verdict) ==
  scan' = [scan EXCEPT ![c] = [NoScan EXCEPT !.at = "over", !.verdict = verdict,
                                             !.stop = scan[c].stop, !.intact = scan[c].intact]]

\* The caller takes it.
Deliver(c) ==
  /\ scan[c].at = "over"
  /\ scan' = [scan EXCEPT ![c] = [NoScan EXCEPT !.intact = scan[c].intact]]
  /\ UNCHANGED <<slot, disk, pinned>>

\* Wrong: a thread that was told to stop leaves without a release.
FinishHolding(c, verdict) ==
  /\ Over(c, verdict)
  /\ slot' = IF scan[c].stop THEN slot ELSE NoCaller
  /\ UNCHANGED <<disk, pinned>>

\* The thread ends and releases the semaphore (finally).
Finish(c, verdict) == Over(c, verdict) /\ slot' = NoCaller /\ UNCHANGED <<disk, pinned>>

\* The thread starts: it takes the semaphore or leaves at once.
Start(c) ==
  /\ scan[c].at = "queued"
  /\ IF slot # NoCaller
     THEN Over(c, "LOCAL_STORE_CHECK_BUSY") /\ UNCHANGED slot
     ELSE /\ slot' = c
          /\ scan' = [scan EXCEPT ![c] =
               [@ EXCEPT !.at = "open", !.intact = {f \in DOMAIN Files : Whole(disk, f)}]]
  /\ UNCHANGED <<disk, pinned>>

\* Path, type and size checks, and the fingerprint before the first read.  Only
\* the pinned bytes are sure to have the size expected.
Open(c) ==
  /\ scan[c].at = "open"
  /\ LET file == disk[scan[c].file] IN
     \/ ~file.present /\ Finish(c, "LOCAL_STORE_FILE_UNAVAILABLE")
     \/ /\ file.present /\ file.right # Chunks
        /\ Finish(c, "LOCAL_STORE_SIZE_MISMATCH")
     \/ /\ file.present
        /\ scan' = [scan EXCEPT ![c] = [@ EXCEPT !.at = "read", !.chunk = 1, !.right = {},
                                                 !.version = file.version]]
        /\ UNCHANGED <<slot, disk, pinned>>

\* One turn of the read loop, before the end of the file.
ReadChunk(c) ==
  /\ scan[c].at = "read" /\ scan[c].chunk \in Chunks
  /\ \/ Finish(c, "LOCAL_STORE_CHECK_TIMEOUT")  \* the deadline, or a stop
     \/ /\ ~scan[c].stop
        /\ scan' = [scan EXCEPT ![c] =
             [scan[c] EXCEPT !.chunk = @ + 1,
                             !.right = @ \cup (disk[scan[c].file].right \cap {scan[c].chunk})]]
        /\ UNCHANGED <<slot, disk, pinned>>

\* What is wrong with the bytes read, "" for nothing.
Mismatch(s) ==
  IF s.right # Chunks
  THEN IF s.file = 1 THEN "LOCAL_STORE_MANIFEST_MISMATCH" ELSE "LOCAL_STORE_BLOB_MISMATCH"
  ELSE CASE s.file = 1 /\ pinned = "malformed"     -> "LOCAL_STORE_MANIFEST_INVALID"
         [] s.file = 1 /\ pinned = "other weights" -> "LOCAL_STORE_WEIGHT_PIN_MISMATCH"
         [] OTHER -> ""

\* Wrong: compares no fingerprints.
FaultUnguarded(s) == Mismatch(s)

\* What is wrong with the file just read.
Fault(s) ==
  IF disk[s.file].version # s.version THEN "LOCAL_STORE_CHANGED_DURING_READ" ELSE Mismatch(s)

\* The end of the file: the fingerprint again, the digest, and on to the next
\* file or the verdict.  The stop event counts at this turn of the loop too.
EndOfFile(c) ==
  /\ scan[c].at = "read" /\ scan[c].chunk \notin Chunks
  /\ \/ Finish(c, "LOCAL_STORE_CHECK_TIMEOUT")
     \/ /\ ~scan[c].stop /\ Fault(scan[c]) # ""
        /\ Finish(c, Fault(scan[c]))
     \/ /\ ~scan[c].stop /\ Fault(scan[c]) = ""
        /\ IF scan[c].file = Len(Files)
           THEN Finish(c, "LOCAL_STORE_BYTES_PRE_REQUEST_MATCH")
           ELSE /\ scan' = [scan EXCEPT ![c] = [scan[c] EXCEPT !.at = "open", !.file = @ + 1]]
                /\ UNCHANGED <<slot, disk, pinned>>

ScanStep(c) == Start(c) \/ Open(c) \/ ReadChunk(c) \/ EndOfFile(c)

\* Another program writes one chunk of a file, and makes the file if need be.
Write ==
  \E f \in DOMAIN Files, k \in Chunks :
    /\ disk[f].version < MaxWrites
    /\ disk' = [disk EXCEPT ![f] =
         [present |-> TRUE, version |-> @.version + 1,
          right |-> IF k \in @.right THEN @.right \ {k} ELSE @.right \cup {k}]]
    /\ scan' = [c \in Callers |->
         IF scan[c].at \in {"open", "read"} /\ Whole(disk', f)
         THEN [scan[c] EXCEPT !.intact = @ \cup {f}] ELSE scan[c]]
    /\ UNCHANGED <<slot, pinned>>

-----------------------------------------------------------------------------
\* The capacity comes back, also when the caller has gone (finally).
CapacityReturns == \A c \in Callers : slot = c ~> slot # c
=============================================================================
