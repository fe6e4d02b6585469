------------------------ MODULE ControlGateway_proofs ------------------------
(***************************************************************************)
(* Proofs about ControlGateway and the LocalStore it scans, for any number *)
(* of requests, any providers and environments, any store and any writes.  *)
(***************************************************************************)
EXTENDS ControlGateway, TLAPS

-----------------------------------------------------------------------------
(* The scan: what a verdict of the thread is worth. *)

Positions == {"none", "queued", "open", "read", "over"}

Verdicts ==
  {"none", "LOCAL_STORE_CHECK_BUSY", "LOCAL_STORE_FILE_UNAVAILABLE", "LOCAL_STORE_SIZE_MISMATCH",
   "LOCAL_STORE_CHECK_TIMEOUT", "LOCAL_STORE_MANIFEST_MISMATCH", "LOCAL_STORE_BLOB_MISMATCH",
   "LOCAL_STORE_MANIFEST_INVALID", "LOCAL_STORE_WEIGHT_PIN_MISMATCH",
   "LOCAL_STORE_CHANGED_DURING_READ", "LOCAL_STORE_BYTES_PRE_REQUEST_MATCH"}

Scans ==
  [at : Positions, file : DOMAIN Files, chunk : 1..3, right : SUBSET Chunks, version : Nat,
   stop : BOOLEAN, intact : SUBSET DOMAIN Files, verdict : Verdicts]

Disks == [DOMAIN Files -> [present : BOOLEAN, right : SUBSET Chunks, version : Nat]]

\* A scan under way has seen every file that is whole now and all it has passed.
\* What it has read of a file with the version it opened is what the file holds.
Honest(s) ==
  /\ s.at = "queued" => s.file = 1
  /\ s.at \in {"open", "read"} =>
       \A f \in DOMAIN Files : Whole(disk, f) \/ f < s.file => f \in s.intact
  /\ s.at = "read" =>
       /\ s.version <= disk[s.file].version
       /\ s.version = disk[s.file].version =>
            /\ disk[s.file].present
            /\ s.right = disk[s.file].right \cap {k \in Chunks : k < s.chunk}
  /\ s.verdict = "LOCAL_STORE_BYTES_PRE_REQUEST_MATCH" => s.at = "over" /\ s.intact = DOMAIN Files

Stored ==
  /\ disk \in Disks /\ scan \in [Callers -> Scans]
  /\ \A c \in Callers : Honest(scan[c])

LEMMA TwoFiles == DOMAIN Files = {1, 2} /\ Len(Files) = 2
  BY DEF Files

\* No scan.
LEMMA NoScanHonest == NoScan \in Scans /\ Honest(NoScan)
<1>1. /\ NoScan.at = "none" /\ NoScan.file = 1 /\ NoScan.verdict = "none" /\ NoScan.intact = {}
      /\ NoScan.chunk = 1 /\ NoScan.right = {}
  BY DEF NoScan
<1>2. 1 \in DOMAIN Files /\ {} \in SUBSET DOMAIN Files /\ {} \in SUBSET Chunks
  BY TwoFiles
<1>3. NoScan \in Scans
  BY <1>2 DEF NoScan, Scans, Positions, Verdicts
<1>4. Honest(NoScan)
  BY <1>1 DEF Honest
<1> QED
  BY <1>3, <1>4

\* One scan has changed, and nothing else in the store.
LEMMA OneScan ==
  ASSUME Stored, NEW c \in Callers, NEW s \in Scans, Honest(s),
         scan' = [scan EXCEPT ![c] = s], disk' = disk
  PROVE  Stored' /\ scan'[c] = s /\ \A d \in Callers \ {c} : scan'[d] = scan[d]
<1>1. scan' \in [Callers -> Scans] /\ scan'[c] = s /\ \A d \in Callers \ {c} : scan'[d] = scan[d]
  BY DEF Stored
<1>2. \A d \in Callers : Honest(scan'[d])
  BY <1>1 DEF Stored
<1>3. \A d \in Callers : Honest(scan[d])'
  BY <1>2 DEF Honest, Whole
<1> QED
  BY <1>1, <1>3 DEF Stored

\* The thread ends: only the verdict of an intact store is a match.
LEMMA ScanOver ==
  ASSUME Stored, NEW c \in Callers, NEW verdict \in Verdicts, Over(c, verdict), disk' = disk,
         verdict = "LOCAL_STORE_BYTES_PRE_REQUEST_MATCH" => scan[c].intact = DOMAIN Files
  PROVE  Stored' /\ \A d \in Callers \ {c} : scan'[d] = scan[d]
<1> DEFINE s == [NoScan EXCEPT !.at = "over", !.verdict = verdict, !.stop = scan[c].stop,
                               !.intact = scan[c].intact]
<1>1. scan[c] \in Scans
  BY DEF Stored
<1>2. s \in Scans /\ s.at = "over" /\ s.verdict = verdict /\ s.intact = scan[c].intact
  BY <1>1, NoScanHonest DEF NoScan, Scans, Positions
<1>3. Honest(s)
  BY <1>2 DEF Honest
<1>4. scan' = [scan EXCEPT ![c] = s]
  BY DEF Over
<1> HIDE DEF s
<1> QED
  BY <1>2, <1>3, <1>4, OneScan

LEMMA Started ==
  ASSUME Stored, NEW c \in Callers, Start(c)
  PROVE  Stored' /\ \A d \in Callers \ {c} : scan'[d] = scan[d]
<1>1. scan[c] \in Scans /\ Honest(scan[c]) /\ scan[c].at = "queued" /\ disk' = disk
  BY DEF Stored, Start
<1>2. CASE slot # NoCaller
  BY <1>1, <1>2, ScanOver DEF Start, Verdicts
<1>3. CASE slot = NoCaller
  <2> DEFINE s == [scan[c] EXCEPT !.at = "open", !.intact = {f \in DOMAIN Files : Whole(disk, f)}]
  <2>1. s \in Scans /\ s.at = "open" /\ s.file = 1 /\ s.verdict = scan[c].verdict
        /\ s.intact = {f \in DOMAIN Files : Whole(disk, f)}
    BY <1>1 DEF Scans, Positions, Honest
  <2>2. Honest(s)
    BY <1>1, <2>1, TwoFiles DEF Honest
  <2>3. scan' = [scan EXCEPT ![c] = s]
    BY <1>3 DEF Start
  <2> HIDE DEF s
  <2> QED
    BY <1>1, <2>1, <2>2, <2>3, OneScan
<1> QED
  BY <1>2, <1>3

LEMMA Opened ==
  ASSUME Stored, NEW c \in Callers, Open(c)
  PROVE  Stored' /\ \A d \in Callers \ {c} : scan'[d] = scan[d]
<1>1. PICK k \in Scans : k = scan[c] /\ Honest(k) /\ k.at = "open" /\ disk' = disk
  BY DEF Stored, Open, Finish
<1>2. CASE \E verdict \in {"LOCAL_STORE_FILE_UNAVAILABLE", "LOCAL_STORE_SIZE_MISMATCH"} :
             Finish(c, verdict)
  <2>1. PICK verdict \in {"LOCAL_STORE_FILE_UNAVAILABLE", "LOCAL_STORE_SIZE_MISMATCH"} :
          Finish(c, verdict)
    BY <1>2
  <2>2. verdict \in Verdicts /\ verdict # "LOCAL_STORE_BYTES_PRE_REQUEST_MATCH"
    BY DEF Verdicts
  <2> QED
    BY <2>1, <2>2, ScanOver DEF Finish
<1>3. CASE /\ disk[k.file].present
           /\ scan' = [scan EXCEPT ![c] = [k EXCEPT !.at = "read", !.chunk = 1, !.right = {},
                                                    !.version = disk[k.file].version]]
  <2> DEFINE s == [k EXCEPT !.at = "read", !.chunk = 1, !.right = {},
                            !.version = disk[k.file].version]
  <2>1. /\ k.file \in DOMAIN Files /\ disk[k.file].version \in Nat /\ 1 \in 1..3
        /\ {} \in SUBSET Chunks
    BY DEF Scans, Stored, Disks
  <2>2. /\ s \in Scans /\ s.at = "read" /\ s.file = k.file /\ s.chunk = 1 /\ s.right = {}
        /\ s.version = disk[k.file].version /\ s.verdict = k.verdict /\ s.intact = k.intact
    BY <2>1 DEF Scans, Positions
  <2>3. {} = disk[k.file].right \cap {i \in Chunks : i < 1}
    BY DEF Chunks
  <2> HIDE DEF s
  <2>4. Honest(s)
    BY <1>1, <1>3, <2>1, <2>2, <2>3 DEF Honest
  <2>5. scan' = [scan EXCEPT ![c] = s]
    BY <1>3 DEF s
  <2> QED
    BY <1>1, <2>2, <2>4, <2>5, OneScan
<1> QED
  BY <1>1, <1>2, <1>3 DEF Open

LEMMA ChunkRead ==
  ASSUME Stored, NEW c \in Callers, ReadChunk(c)
  PROVE  Stored' /\ \A d \in Callers \ {c} : scan'[d] = scan[d]
<1>1. PICK k \in Scans : /\ k = scan[c] /\ Honest(k) /\ k.at = "read" /\ k.chunk \in Chunks
                         /\ disk' = disk
  BY DEF Stored, ReadChunk, Finish
<1>2. CASE Finish(c, "LOCAL_STORE_CHECK_TIMEOUT")
  BY <1>2, ScanOver DEF Finish, Verdicts
<1>3. CASE ~Finish(c, "LOCAL_STORE_CHECK_TIMEOUT")
  <2> DEFINE right == k.right \cup (disk[k.file].right \cap {k.chunk})
             s == [k EXCEPT !.chunk = k.chunk + 1, !.right = right]
  <2>1. k.file \in DOMAIN Files /\ disk[k.file].right \subseteq Chunks /\ k.right \subseteq Chunks
    BY DEF Scans, Stored, Disks
  <2>2. k.chunk + 1 \in 1..3
    BY <1>1 DEF Chunks
  <2>3. /\ s \in Scans /\ s.at = "read" /\ s.file = k.file /\ s.chunk = k.chunk + 1
        /\ s.right = right /\ s.version = k.version /\ s.verdict = k.verdict
        /\ s.intact = k.intact
    BY <1>1, <2>1, <2>2 DEF Scans
  <2>4. {i \in Chunks : i < k.chunk + 1} = {i \in Chunks : i < k.chunk} \cup {k.chunk}
    BY <1>1 DEF Chunks
  <2>5. k.right = disk[k.file].right \cap {i \in Chunks : i < k.chunk} =>
          right = disk[k.file].right \cap {i \in Chunks : i < k.chunk + 1}
    BY <2>4
  <2>6. scan' = [scan EXCEPT ![c] = s]
    <3>1. scan' = [scan EXCEPT ![c] =
            [scan[c] EXCEPT !.chunk = scan[c].chunk + 1,
               !.right = scan[c].right \cup (disk[scan[c].file].right \cap {scan[c].chunk})]]
      BY <1>3 DEF ReadChunk, Stored
    <3> QED
      BY <1>1, <3>1
  <2> HIDE DEF s, right
  <2>7. Honest(s)
    BY <1>1, <2>3, <2>5 DEF Honest
  <2> QED
    BY <1>1, <2>3, <2>6, <2>7, OneScan
<1> QED
  BY <1>2, <1>3

\* At the end of a file without a fault its bytes are on disk as they were read,
\* and they are the pinned ones.
LEMMA FileEnded ==
  ASSUME Stored, NEW c \in Callers, EndOfFile(c)
  PROVE  Stored' /\ \A d \in Callers \ {c} : scan'[d] = scan[d]
<1>1. PICK k \in Scans : /\ k = scan[c] /\ Honest(k) /\ k.at = "read" /\ k.chunk \notin Chunks
                         /\ disk' = disk
  BY DEF Stored, EndOfFile, Finish
<1>2. CASE Finish(c, "LOCAL_STORE_CHECK_TIMEOUT")
  BY <1>2, ScanOver DEF Finish, Verdicts
<1>3. CASE Fault(k) # "" /\ Finish(c, Fault(k))
  BY <1>3, ScanOver DEF Finish, Verdicts, Fault, Mismatch
<1>4. ASSUME Fault(k) = ""
      PROVE  \A f \in DOMAIN Files : f < k.file + 1 => f \in k.intact
  <2>1. k.version = disk[k.file].version /\ k.right = Chunks
    BY <1>4 DEF Fault, Mismatch
  <2>2. k.chunk = 3 /\ k.file \in {1, 2} /\ disk[k.file].right \subseteq Chunks
    BY <1>1, TwoFiles DEF Scans, Chunks, Stored, Disks
  <2>3. Whole(disk, k.file)
    BY <1>1, <2>1, <2>2 DEF Honest, Whole
  <2>4. k.file \in k.intact /\ \A f \in DOMAIN Files : f < k.file => f \in k.intact
    BY <1>1, <2>2, <2>3, TwoFiles DEF Honest
  <2> QED
    BY <2>2, <2>4, TwoFiles
<1>5. CASE /\ Fault(k) = "" /\ k.file = Len(Files)
           /\ Finish(c, "LOCAL_STORE_BYTES_PRE_REQUEST_MATCH")
  <2>1. k.intact = DOMAIN Files
    <3>1. k.intact \subseteq DOMAIN Files /\ k.file = 2
      BY <1>5, TwoFiles DEF Scans
    <3>2. \A f \in {1, 2} : f < 2 + 1 => f \in k.intact
      BY <1>4, <1>5, <3>1, TwoFiles
    <3> QED
      BY <3>1, <3>2, TwoFiles
  <2> QED
    BY <1>1, <1>5, <2>1, ScanOver DEF Finish, Verdicts
<1>6. CASE /\ Fault(k) = "" /\ k.file # Len(Files)
           /\ scan' = [scan EXCEPT ![c] = [k EXCEPT !.at = "open", !.file = k.file + 1]]
  <2> DEFINE s == [k EXCEPT !.at = "open", !.file = k.file + 1]
  <2>1. k.file + 1 \in DOMAIN Files
    <3>1. k.file \in {1, 2}
      BY TwoFiles DEF Scans
    <3>2. k.file # 2
      BY <1>6, TwoFiles
    <3> QED
      BY <3>1, <3>2, TwoFiles
  <2>2. /\ s \in Scans /\ s.at = "open" /\ s.file = k.file + 1 /\ s.verdict = k.verdict
        /\ s.intact = k.intact
    BY <2>1 DEF Scans, Positions
  <2>3. Honest(s)
    BY <1>1, <1>4, <1>6, <2>2 DEF Honest
  <2>4. scan' = [scan EXCEPT ![c] = s]
    BY <1>6
  <2> HIDE DEF s
  <2> QED
    BY <1>1, <2>2, <2>3, <2>4, OneScan
<1> QED
  BY <1>1, <1>2, <1>3, <1>5, <1>6 DEF EndOfFile

\* A write gives the file a version no scan has opened, and whoever scans sees
\* the file if that makes it whole.
LEMMA Written ==
  ASSUME Stored, Write
  PROVE  Stored' /\ \A c \in Callers : scan[c].at = "none" => scan'[c] = scan[c]
<1>1. PICK f \in DOMAIN Files, right \in SUBSET Chunks :
        /\ disk' = [disk EXCEPT ![f] = [present |-> TRUE, version |-> disk[f].version + 1,
                                        right |-> right]]
        /\ scan' = [c \in Callers |->
             IF scan[c].at \in {"open", "read"} /\ Whole(disk', f)
             THEN [scan[c] EXCEPT !.intact = @ \cup {f}] ELSE scan[c]]
  <2>1. PICK f \in DOMAIN Files, k \in Chunks :
          /\ disk' = [disk EXCEPT ![f] =
               [present |-> TRUE, version |-> disk[f].version + 1,
                right |-> IF k \in disk[f].right THEN disk[f].right \ {k}
                          ELSE disk[f].right \cup {k}]]
          /\ scan' = [c \in Callers |->
               IF scan[c].at \in {"open", "read"} /\ Whole(disk', f)
               THEN [scan[c] EXCEPT !.intact = @ \cup {f}] ELSE scan[c]]
    BY DEF Write, Stored, Disks
  <2>2. PICK right \in SUBSET Chunks :
          right = IF k \in disk[f].right THEN disk[f].right \ {k} ELSE disk[f].right \cup {k}
    <3>1. disk[f].right \in SUBSET Chunks
      BY DEF Stored, Disks
    <3> QED
      BY <3>1
  <2> QED
    BY <2>1, <2>2
<1>2. disk \in Disks /\ disk[f].version \in Nat /\ scan \in [Callers -> Scans]
  BY DEF Stored, Disks
<1>3. disk' \in Disks
  BY <1>1, <1>2 DEF Disks
<1>4. /\ disk'[f].version = disk[f].version + 1
      /\ \A g \in DOMAIN Files \ {f} : disk'[g] = disk[g]
  BY <1>1, <1>2 DEF Disks
<1>5. ASSUME NEW c \in Callers
      PROVE  scan'[c] \in Scans /\ Honest(scan[c])' /\ (scan[c].at = "none" => scan'[c] = scan[c])
  <2>1. PICK k \in Scans : k = scan[c] /\ Honest(k)
    BY DEF Stored
  <2>2. PICK intact \in SUBSET DOMAIN Files :
          intact = IF k.at \in {"open", "read"} /\ Whole(disk', f) THEN k.intact \cup {f}
                   ELSE k.intact
    BY DEF Scans
  <2>3. PICK s \in Scans :
          /\ s = scan'[c] /\ s.at = k.at /\ s.file = k.file /\ s.chunk = k.chunk
          /\ s.right = k.right /\ s.version = k.version /\ s.verdict = k.verdict
          /\ s.intact = intact /\ (k.at = "none" => s = k)
    <3>1. scan'[c] = IF k.at \in {"open", "read"} /\ Whole(disk', f)
                     THEN [k EXCEPT !.intact = k.intact \cup {f}] ELSE k
      BY <1>1, <2>1
    <3>2. CASE k.at \in {"open", "read"} /\ Whole(disk', f)
      <4>1. scan'[c] = [k EXCEPT !.intact = intact]
        BY <2>2, <3>1, <3>2
      <4> QED
        BY <3>2, <4>1 DEF Scans
    <3>3. CASE ~(k.at \in {"open", "read"} /\ Whole(disk', f))
      BY <2>2, <3>1, <3>3
    <3> QED
      BY <3>2, <3>3
  <2>4. s.file \in DOMAIN Files /\ s.version \in Nat /\ k.file \in DOMAIN Files
    BY DEF Scans
  <2>5. s.at \in {"open", "read"} =>
          \A g \in DOMAIN Files : Whole(disk', g) \/ g < s.file => g \in s.intact
    <3> SUFFICES ASSUME s.at \in {"open", "read"}, NEW g \in DOMAIN Files,
                        Whole(disk', g) \/ g < s.file
                 PROVE  g \in s.intact
      OBVIOUS
    <3>1. g # f => (Whole(disk', g) <=> Whole(disk, g))
      BY <1>4 DEF Whole
    <3> QED
      BY <2>1, <2>2, <2>3, <3>1 DEF Honest
  <2>6. s.at = "read" =>
          /\ s.version <= disk'[s.file].version
          /\ s.version = disk'[s.file].version =>
               /\ disk'[s.file].present
               /\ s.right = disk'[s.file].right \cap {i \in Chunks : i < s.chunk}
    <3> SUFFICES ASSUME s.at = "read"
                 PROVE  /\ s.version <= disk'[s.file].version
                        /\ s.version = disk'[s.file].version =>
                             /\ disk'[s.file].present
                             /\ s.right = disk'[s.file].right \cap {i \in Chunks : i < s.chunk}
      OBVIOUS
    <3>1. CASE s.file = f
      BY <1>2, <1>4, <2>1, <2>3, <2>4, <3>1 DEF Honest
    <3>2. CASE s.file # f
      <4>1. disk'[s.file] = disk[s.file]
        BY <1>4, <2>4, <3>2
      <4> QED
        BY <2>1, <2>3, <4>1 DEF Honest
    <3> QED
      BY <3>1, <3>2
  <2>7. s.verdict = "LOCAL_STORE_BYTES_PRE_REQUEST_MATCH" =>
          s.at = "over" /\ s.intact = DOMAIN Files
    BY <2>1, <2>2, <2>3 DEF Honest
  <2>8. s.at = "queued" => s.file = 1
    BY <2>1, <2>3 DEF Honest
  <2> QED
    BY <2>1, <2>3, <2>5, <2>6, <2>7, <2>8 DEF Honest
<1>6. scan' \in [Callers -> Scans]
  BY <1>1, <1>5
<1> QED
  BY <1>3, <1>5, <1>6 DEF Stored

\* What the caller does to its own scan.
LEMMA Asked ==
  ASSUME Stored, NEW c \in Callers, Submit(c) \/ GiveUp(c) \/ Deliver(c)
  PROVE  Stored' /\ \A d \in Callers \ {c} : scan'[d] = scan[d]
<1>1. PICK k \in Scans : k = scan[c] /\ Honest(k)
  BY DEF Stored
<1>2. PICK s \in Scans : scan' = [scan EXCEPT ![c] = s] /\ Honest(s)
  <2>1. CASE Submit(c)
    <3> DEFINE s == [NoScan EXCEPT !.at = "queued"]
    <3>1. s \in Scans /\ s.at = "queued" /\ s.file = 1 /\ s.verdict = "none"
      BY NoScanHonest DEF NoScan, Scans, Positions
    <3>2. Honest(s)
      BY <3>1 DEF Honest
    <3> QED
      BY <2>1, <3>1, <3>2 DEF Submit
  <2>2. CASE Deliver(c)
    <3> DEFINE s == [NoScan EXCEPT !.intact = k.intact]
    <3>1. s \in Scans /\ s.at = "none" /\ s.verdict = "none"
      BY NoScanHonest DEF NoScan, Scans
    <3>2. Honest(s)
      BY <3>1 DEF Honest
    <3> QED
      BY <1>1, <2>2, <3>1, <3>2 DEF Deliver
  <2>3. CASE GiveUp(c) /\ k.at = "queued"
    <3> DEFINE s == [NoScan EXCEPT !.stop = TRUE]
    <3>1. s \in Scans /\ s.at = "none" /\ s.verdict = "none"
      BY NoScanHonest DEF NoScan, Scans
    <3>2. Honest(s)
      BY <3>1 DEF Honest
    <3> QED
      BY <1>1, <2>3, <3>1, <3>2 DEF GiveUp, Stored
  <2>4. CASE GiveUp(c) /\ k.at # "queued"
    <3> DEFINE s == [k EXCEPT !.stop = TRUE]
    <3>1. /\ s \in Scans /\ s.at = k.at /\ s.file = k.file /\ s.chunk = k.chunk
          /\ s.right = k.right /\ s.version = k.version /\ s.verdict = k.verdict
          /\ s.intact = k.intact
      BY DEF Scans
    <3>2. Honest(s)
      BY <1>1, <3>1 DEF Honest
    <3> QED
      BY <1>1, <2>4, <3>1, <3>2 DEF GiveUp, Stored
  <2> QED
    BY <2>1, <2>2, <2>3, <2>4
<1>3. disk' = disk
  BY DEF Submit, GiveUp, Deliver
<1> QED
  BY <1>2, <1>3, OneScan

\* Everything that happens to the store.
LEMMA StoreStep ==
  ASSUME Stored, \/ Write \/ UNCHANGED storeVars
                 \/ \E c \in Callers : ScanStep(c) \/ Submit(c) \/ GiveUp(c) \/ Deliver(c)
  PROVE  Stored'
<1>1. CASE UNCHANGED storeVars
  BY <1>1 DEF storeVars, Stored, Honest, Whole
<1> QED
  BY <1>1, Written, Asked, Started, Opened, ChunkRead, FileEnded DEF ScanStep

-----------------------------------------------------------------------------
(* The requests. *)

Trying == {"tags", "ps", "scan", "post", "reply", "tags after", "ps after", "seal"}
Stations == Trying \cup {"new", "route", "failed", "answered"}
Ids == Providers \cup {AnyProvider}
Outcomes ==
  {"ROUTE_DEADLINE_EXCEEDED", "SKIPPED_CREDENTIAL_UNAVAILABLE", "REFUSED", "FAILED", "UNKNOWN",
   "SUCCESS"}
Closed ==
  {"503 INVALID_ROUTER_CONFIGURATION", "503 EGRESS_DISABLED", "503 CALLER_AUTH_NOT_CONFIGURED"}
Retried == {"504 ATTEMPT_OUTCOME_UNKNOWN", "503 LOCAL_ROUTE_UNAVAILABLE"}
Answers ==
  Closed \cup Retried \cup
  {"none", "200", "401 INVALID_ROUTER_CREDENTIAL", "503 NO_ELIGIBLE_PROVIDER",
   "502 ALL_ELIGIBLE_PROVIDERS_FAILED", "503 LOCAL_MODEL_IDENTITY_UNAVAILABLE"}

Handlers ==
  [pc : Stations, left : SUBSET Providers, now : Ids, tags : {"none", "match", "other"},
   clock : Nat, due : Nat, rows : Seq(Ids \X Outcomes), answer : Answers,
   posted : SUBSET Ids, cut : SUBSET Ids]

\* Past admission the switches are on, and at a candidate its credential is there.
Admitted(r, k) ==
  /\ k.pc \notin {"new", "answered"} =>
       State # "INVALID_FAIL_CLOSED" /\ Egress /\ env.token /\ k.left \subseteq Eligible(want[r])
  /\ k.pc \in Trying \/ k.posted # {} => Ready
  /\ Ready => k.answer \notin Closed

\* An unknown outcome leaves the loop.
Ended(k) ==
  /\ \A i \in DOMAIN k.rows :
       k.rows[i][2] = "UNKNOWN" => i = Len(k.rows) /\ k.pc \in {"failed", "answered"}
  /\ k.cut # {} =>
       /\ k.now \in k.cut
       /\ IF k.pc = "answered" THEN k.answer \in Retried ELSE k.pc = "failed" /\ Unknown(k)

\* The prompt follows a match.
Sealed(k, s) ==
  k.pc \in {"post", "reply"} /\ Pinned(k.now) => s.at = "none" /\ s.intact = DOMAIN Files

IInv ==
  /\ Stored
  /\ env \in Environments /\ chat \in [Callers -> Handlers]
  /\ \A r \in Callers :
       Admitted(r, chat[r]) /\ Ended(chat[r]) /\ Sealed(chat[r], scan[r])

\* Nothing derived from the environment ever changes.
LEMMA SameInputs ==
  ASSUME UNCHANGED inputs
  PROVE  /\ State' = State /\ Egress' = Egress /\ Ready' = Ready /\ env' = env /\ want' = want
         /\ \A p : Pinned(p)' = Pinned(p)
         /\ \A w : Eligible(w)' = Eligible(w)
<1>1. env' = env /\ want' = want
  BY DEF inputs
<1>2. State' = State
  BY <1>1 DEF State, Valid
<1>3. \A p : Local(p)' = Local(p)
  BY <1>1 DEF Local, Record
<1>4. \A p : Pinned(p)' = Pinned(p)
  BY <1>1, <1>3 DEF Pinned, Record
<1>5. Registry' = Registry /\ Egress' = Egress
  BY <1>1, <1>2 DEF Registry, Egress
<1>6. \A w : Eligible(w)' = Eligible(w)
  BY <1>1, <1>5 DEF Eligible, Record
<1>7. \A p : Credential(p)' = Credential(p)
  BY <1>1, <1>3 DEF Credential
<1>8. Ready' = Ready
  BY <1>1, <1>2, <1>5, <1>7 DEF Ready, Record
<1> QED
  BY <1>1, <1>2, <1>4, <1>5, <1>6, <1>8

\* r's handler is in state n now, and only r's scan may have changed.
LEMMA Becoming ==
  ASSUME IInv, NEW r \in Callers, NEW n \in Handlers, Becomes(r, n), Admitted(r, n), Ended(n),
         Stored', Sealed(n, scan'[r]), \A d \in Callers \ {r} : scan'[d] = scan[d]
  PROVE  IInv'
<1>1. env \in Environments /\ chat \in [Callers -> Handlers]
  BY DEF IInv
<1>2. chat' \in [Callers -> Handlers] /\ chat'[r] = n /\ UNCHANGED inputs
      /\ \A d \in Callers \ {r} : chat'[d] = chat[d]
  BY <1>1 DEF Becomes
<1>3. env' \in Environments
  BY <1>1, <1>2, SameInputs
<1>4. ASSUME NEW d \in Callers
      PROVE  Admitted(d, chat[d])' /\ Ended(chat[d])' /\ Sealed(chat[d], scan[d])'
  <2>1. Admitted(d, chat'[d]) /\ Ended(chat'[d]) /\ Sealed(chat'[d], scan'[d])
    <3>1. CASE d = r
      BY <1>2, <3>1
    <3>2. CASE d # r
      BY <1>2, <3>2 DEF IInv
    <3> QED
      BY <3>1, <3>2
  <2>2. Admitted(d, chat[d])'
    BY <1>2, <2>1, SameInputs DEF Admitted
  <2>3. Ended(chat[d])'
    BY <2>1 DEF Ended, Unknown
  <2>4. Sealed(chat[d], scan[d])'
    BY <1>2, <2>1, SameInputs DEF Sealed
  <2> QED
    BY <2>2, <2>3, <2>4
<1> QED
  BY <1>2, <1>3, <1>4 DEF IInv

\* One more row of the trail.
LEMMA RowAdded ==
  ASSUME NEW k \in Handlers, NEW state \in Outcomes
  PROVE  \E rows \in Seq(Ids \X Outcomes) :
           /\ AddRow(k, state) = [k EXCEPT !.rows = rows]
           /\ Len(rows) = Len(k.rows) + 1 /\ Len(k.rows) \in Nat
           /\ DOMAIN rows = 1..Len(k.rows) + 1 /\ DOMAIN k.rows = 1..Len(k.rows)
           /\ rows[Len(k.rows) + 1][2] = state
           /\ \A i \in 1..Len(k.rows) : rows[i] = k.rows[i]
<1> DEFINE row == <<k.now, state>>
           rows == Append(k.rows, row)
<1>1. k.rows \in Seq(Ids \X Outcomes) /\ k.now \in Ids
  BY DEF Handlers
<1>2. row \in Ids \X Outcomes /\ row[2] = state
  BY <1>1
<1>3. AddRow(k, state) = [k EXCEPT !.rows = rows]
  BY DEF AddRow
<1> HIDE DEF row
<1>4. /\ rows \in Seq(Ids \X Outcomes) /\ Len(rows) = Len(k.rows) + 1 /\ Len(k.rows) \in Nat
      /\ DOMAIN rows = 1..Len(k.rows) + 1 /\ DOMAIN k.rows = 1..Len(k.rows)
      /\ rows[Len(k.rows) + 1] = row /\ \A i \in 1..Len(k.rows) : rows[i] = k.rows[i]
  BY <1>1, <1>2
<1> HIDE DEF rows
<1> QED
  BY <1>2, <1>3, <1>4

\* A request that goes on at its candidate, or from it, without a new row.
LEMMA Onward ==
  ASSUME NEW r \in Callers, NEW k \in Handlers, Admitted(r, k), Ended(k),
         k.pc \in Trying, NEW n \in Handlers, n.pc \in Trying, n.left = k.left, n.now = k.now,
         n.rows = k.rows, n.answer = k.answer, n.cut = k.cut
  PROVE  Admitted(r, n) /\ Ended(n)
<1>1. k.pc \notin {"new", "failed", "answered"}
  BY DEF Trying
<1>2. k.cut = {} /\ \A i \in DOMAIN k.rows : k.rows[i][2] # "UNKNOWN"
  BY <1>1 DEF Ended
<1>3. n.cut = {} /\ \A i \in DOMAIN n.rows : n.rows[i][2] # "UNKNOWN"
  BY <1>2
<1>4. Ended(n)
  BY <1>3 DEF Ended
<1>5. Ready /\ State # "INVALID_FAIL_CLOSED" /\ Egress /\ env.token /\ n.left \subseteq Eligible(want[r])
      /\ n.answer \notin Closed
  BY <1>1 DEF Admitted
<1>6. Admitted(r, n)
  BY <1>5 DEF Admitted
<1> QED
  BY <1>4, <1>6

\* An attempt ends with a row that is not UNKNOWN.
LEMMA RowEnds ==
  ASSUME NEW r \in Callers, NEW k \in Handlers, Admitted(r, k), Ended(k),
         k.pc \in Trying, NEW state \in Outcomes \ {"UNKNOWN"},
         NEW pc \in {"route", "failed"}
  PROVE  /\ To(AddRow(k, state), pc) \in Handlers
         /\ Admitted(r, To(AddRow(k, state), pc)) /\ Ended(To(AddRow(k, state), pc))
         /\ To(AddRow(k, state), pc).pc = pc
<1>1. PICK rows \in Seq(Ids \X Outcomes) :
        /\ AddRow(k, state) = [k EXCEPT !.rows = rows]
        /\ Len(rows) = Len(k.rows) + 1 /\ Len(k.rows) \in Nat
        /\ DOMAIN rows = 1..Len(k.rows) + 1 /\ DOMAIN k.rows = 1..Len(k.rows)
        /\ rows[Len(k.rows) + 1][2] = state
        /\ \A i \in 1..Len(k.rows) : rows[i] = k.rows[i]
  BY RowAdded
<1>2. PICK n \in Handlers :
        /\ n = To(AddRow(k, state), pc) /\ n.pc = pc /\ n.rows = rows /\ n.left = k.left
        /\ n.now = k.now /\ n.answer = k.answer /\ n.cut = k.cut /\ n.posted = k.posted
  <2>1. To(AddRow(k, state), pc) = [k EXCEPT !.rows = rows, !.pc = pc]
    BY <1>1 DEF To, Handlers
  <2>2. [k EXCEPT !.rows = rows, !.pc = pc] \in Handlers
    BY DEF Handlers, Stations
  <2> QED
    BY <2>1, <2>2 DEF Handlers
<1>3. k.cut = {} /\ \A i \in DOMAIN k.rows : k.rows[i][2] # "UNKNOWN"
  BY DEF Ended, Trying
<1>4. \A i \in DOMAIN rows : rows[i][2] # "UNKNOWN"
  BY <1>1, <1>3
<1>5. Ended(n)
  BY <1>2, <1>3, <1>4 DEF Ended
<1>6. Admitted(r, n)
  BY <1>2 DEF Admitted, Trying
<1> QED
  BY <1>2, <1>5, <1>6

\* A response after an attempt that was not cut off.
LEMMA RowAnswers ==
  ASSUME NEW r \in Callers, NEW k \in Handlers, Admitted(r, k), Ended(k),
         k.pc \in Trying, NEW state \in Outcomes \ {"UNKNOWN"}, NEW code \in Answers \ Closed
  PROVE  LET n == Answered(AddRow(k, state), code) IN
         n \in Handlers /\ Admitted(r, n) /\ Ended(n) /\ n.pc = "answered"
<1>1. PICK rows \in Seq(Ids \X Outcomes) :
        /\ AddRow(k, state) = [k EXCEPT !.rows = rows]
        /\ Len(rows) = Len(k.rows) + 1 /\ Len(k.rows) \in Nat
        /\ DOMAIN rows = 1..Len(k.rows) + 1 /\ DOMAIN k.rows = 1..Len(k.rows)
        /\ rows[Len(k.rows) + 1][2] = state
        /\ \A i \in 1..Len(k.rows) : rows[i] = k.rows[i]
  BY RowAdded
<1>2. PICK n \in Handlers :
        /\ n = Answered(AddRow(k, state), code) /\ n.pc = "answered" /\ n.rows = rows
        /\ n.answer = code /\ n.cut = k.cut /\ n.posted = k.posted
  <2>1. Answered(AddRow(k, state), code) =
          [k EXCEPT !.rows = rows, !.pc = "answered", !.answer = code, !.left = {},
                    !.tags = "none", !.clock = 0, !.due = 0]
    BY <1>1 DEF Answered, Handlers
  <2>2. [k EXCEPT !.rows = rows, !.pc = "answered", !.answer = code, !.left = {},
                  !.tags = "none", !.clock = 0, !.due = 0] \in Handlers
    BY DEF Handlers, Stations
  <2> QED
    BY <2>1, <2>2 DEF Handlers
<1>3. k.cut = {} /\ \A i \in DOMAIN k.rows : k.rows[i][2] # "UNKNOWN"
  BY DEF Ended, Trying
<1>4. \A i \in DOMAIN rows : rows[i][2] # "UNKNOWN"
  BY <1>1, <1>3
<1>5. Ended(n)
  BY <1>2, <1>3, <1>4 DEF Ended
<1>6. Admitted(r, n)
  BY <1>2 DEF Admitted, Trying
<1> QED
  BY <1>2, <1>5, <1>6

LEMMA Refusing ==
  ASSUME NEW r \in Callers, NEW k \in Handlers, Admitted(r, k), Ended(k), k.pc \in Trying
  PROVE  Refused(k) \in Handlers /\ Admitted(r, Refused(k)) /\ Ended(Refused(k))
         /\ Refused(k).pc = "answered"
<1>1. "REFUSED" \in Outcomes \ {"UNKNOWN"}
      /\ "503 LOCAL_MODEL_IDENTITY_UNAVAILABLE" \in Answers \ Closed
  BY DEF Outcomes, Answers, Closed
<1> QED
  BY <1>1, RowAnswers DEF Refused

\* A timeout: the row is the last one, and the answer it may have cut off is
\* the one of its candidate.
LEMMA CuttingOff ==
  ASSUME NEW r \in Callers, NEW k \in Handlers, Admitted(r, k), Ended(k), k.pc \in Trying
  PROVE  \E c \in Handlers :
           /\ c = AddRow(CutOff(k), "UNKNOWN") /\ c.now = k.now
           /\ To(c, "failed") \in Handlers /\ To(c, "failed").pc = "failed"
           /\ Admitted(r, To(c, "failed")) /\ Ended(To(c, "failed"))
           /\ Answered(c, "503 LOCAL_ROUTE_UNAVAILABLE") \in Handlers
           /\ Answered(c, "503 LOCAL_ROUTE_UNAVAILABLE").pc = "answered"
           /\ Admitted(r, Answered(c, "503 LOCAL_ROUTE_UNAVAILABLE"))
           /\ Ended(Answered(c, "503 LOCAL_ROUTE_UNAVAILABLE"))
<1>1. k.cut = {} /\ \A i \in DOMAIN k.rows : k.rows[i][2] # "UNKNOWN"
  BY DEF Ended, Trying
<1>2. PICK cut \in SUBSET Ids :
        /\ cut = IF k.pc \in {"reply", "tags after", "ps after"} THEN {k.now} ELSE k.cut
        /\ cut # {} => k.now \in cut
  BY <1>1 DEF Handlers
<1>3. PICK j \in Handlers :
        /\ j = CutOff(k) /\ j.now = k.now /\ j.rows = k.rows /\ j.cut = cut
        /\ j.left = k.left /\ j.answer = k.answer /\ j.posted = k.posted
  <2>1. CutOff(k) = [k EXCEPT !.cut = cut]
    BY <1>2 DEF CutOff, Handlers
  <2>2. [k EXCEPT !.cut = cut] \in Handlers
    BY DEF Handlers
  <2> QED
    BY <2>1, <2>2 DEF Handlers
<1>4. "UNKNOWN" \in Outcomes
  BY DEF Outcomes
<1>5. PICK rows \in Seq(Ids \X Outcomes) :
        /\ AddRow(j, "UNKNOWN") = [j EXCEPT !.rows = rows]
        /\ Len(rows) = Len(k.rows) + 1 /\ Len(k.rows) \in Nat
        /\ DOMAIN rows = 1..Len(k.rows) + 1 /\ DOMAIN k.rows = 1..Len(k.rows)
        /\ rows[Len(k.rows) + 1][2] = "UNKNOWN"
        /\ \A i \in 1..Len(k.rows) : rows[i] = k.rows[i]
  <2>1. PICK rows \in Seq(Ids \X Outcomes) :
          /\ AddRow(j, "UNKNOWN") = [j EXCEPT !.rows = rows]
          /\ Len(rows) = Len(j.rows) + 1 /\ Len(j.rows) \in Nat
          /\ DOMAIN rows = 1..Len(j.rows) + 1 /\ DOMAIN j.rows = 1..Len(j.rows)
          /\ rows[Len(j.rows) + 1][2] = "UNKNOWN"
          /\ \A i \in 1..Len(j.rows) : rows[i] = j.rows[i]
    BY <1>4, RowAdded
  <2> QED
    BY <1>3, <2>1
<1>6. /\ \A i \in DOMAIN rows : rows[i][2] = "UNKNOWN" => i = Len(rows)
      /\ \E i \in DOMAIN rows : rows[i][2] = "UNKNOWN"
  <2>1. ASSUME NEW i \in DOMAIN rows, rows[i][2] = "UNKNOWN"
        PROVE  i = Len(rows)
    <3>1. i \notin 1..Len(k.rows)
      BY <1>1, <1>5, <2>1
    <3> QED
      BY <1>5, <3>1
  <2>2. Len(k.rows) + 1 \in DOMAIN rows
    BY <1>5
  <2> QED
    BY <1>5, <2>1, <2>2
<1>7. PICK c \in Handlers :
        /\ c = AddRow(CutOff(k), "UNKNOWN") /\ c.now = k.now /\ c.rows = rows /\ c.cut = cut
        /\ c.left = k.left /\ c.answer = k.answer /\ c.posted = k.posted
  <2>1. AddRow(CutOff(k), "UNKNOWN") = [j EXCEPT !.rows = rows]
    BY <1>3, <1>5
  <2>2. [j EXCEPT !.rows = rows] \in Handlers
    BY DEF Handlers
  <2> QED
    BY <1>3, <2>1, <2>2 DEF Handlers
<1>8. PICK n \in Handlers :
        /\ n = To(c, "failed") /\ n.pc = "failed" /\ n.rows = rows /\ n.cut = cut
        /\ n.now = k.now /\ n.left = k.left /\ n.answer = k.answer /\ n.posted = k.posted
  <2>1. To(c, "failed") = [c EXCEPT !.pc = "failed"]
    BY DEF To
  <2>2. [c EXCEPT !.pc = "failed"] \in Handlers
    BY DEF Handlers, Stations
  <2> QED
    BY <1>7, <2>1, <2>2 DEF Handlers
<1>9. Ended(n)
  BY <1>2, <1>6, <1>8 DEF Ended, Unknown
<1>10. Admitted(r, n)
  BY <1>8 DEF Admitted, Trying
<1>11. "503 LOCAL_ROUTE_UNAVAILABLE" \in Answers \ Closed
       /\ "503 LOCAL_ROUTE_UNAVAILABLE" \in Retried
  BY DEF Answers, Closed, Retried
<1>12. PICK m \in Handlers :
         /\ m = Answered(c, "503 LOCAL_ROUTE_UNAVAILABLE") /\ m.pc = "answered" /\ m.rows = rows
         /\ m.cut = cut /\ m.now = k.now /\ m.answer = "503 LOCAL_ROUTE_UNAVAILABLE"
         /\ m.posted = k.posted
  <2>1. PICK code \in Answers : code = "503 LOCAL_ROUTE_UNAVAILABLE"
    BY <1>11
  <2>2. Answered(c, code) =
          [c EXCEPT !.pc = "answered", !.answer = code, !.left = {}, !.tags = "none",
                    !.clock = 0, !.due = 0]
    BY DEF Answered
  <2>3. [c EXCEPT !.pc = "answered", !.answer = code, !.left = {}, !.tags = "none",
                  !.clock = 0, !.due = 0] \in Handlers
    BY DEF Handlers, Stations
  <2> QED
    BY <1>7, <2>1, <2>2, <2>3 DEF Handlers
<1>13. Ended(m)
  BY <1>2, <1>6, <1>11, <1>12 DEF Ended
<1>14. Admitted(r, m)
  BY <1>11, <1>12 DEF Admitted, Trying
<1> QED
  BY <1>7, <1>8, <1>9, <1>10, <1>12, <1>13, <1>14

\* The store stays as it is.
LEMMA StoreKept ==
  ASSUME IInv, UNCHANGED storeVars
  PROVE  Stored' /\ scan' = scan
<1>1. Stored /\ scan' = scan
  BY DEF IInv, storeVars
<1> QED
  BY <1>1, StoreStep

\* Admission answers what readiness promises.
LEMMA AdmitKeeps ==
  ASSUME IInv, NEW r \in Callers, Admit(r)
  PROVE  IInv'
<1>1. PICK k \in Handlers : k = chat[r] /\ Admitted(r, k) /\ Ended(k) /\ k.pc = "new"
  BY DEF IInv, Admit
<1>2. Stored' /\ scan' = scan
  BY StoreKept DEF Admit
<1>3. k.cut = {} /\ (\A i \in DOMAIN k.rows : k.rows[i][2] # "UNKNOWN")
  BY <1>1 DEF Ended
<1>4. CASE Admission(r) = "admitted"
  <2>1. State # "INVALID_FAIL_CLOSED" /\ Egress /\ env.token
    BY <1>4, Zenon DEF Admission
  <2>2. Eligible(want[r]) \in SUBSET Providers
    BY GatewayAssumption DEF IInv, Eligible, Registry
  <2>3. PICK left \in SUBSET Providers : left = Eligible(want[r])
    BY <2>2
  <2>4. PICK n \in Handlers :
          /\ n = [k EXCEPT !.pc = "route", !.left = left] /\ n.pc = "route" /\ n.left = left
          /\ n.rows = k.rows /\ n.cut = k.cut /\ n.posted = k.posted /\ n.answer = k.answer
    <3>1. [k EXCEPT !.pc = "route", !.left = left] \in Handlers
      BY DEF Handlers, Stations
    <3> QED
      BY <3>1 DEF Handlers
  <2>5. Admitted(r, n) /\ Ended(n) /\ Sealed(n, scan'[r])
    BY <1>1, <1>3, <2>1, <2>3, <2>4 DEF Admitted, Ended, Sealed, Trying
  <2>6. Becomes(r, n)
    BY <1>1, <1>4, <2>3, <2>4 DEF Admit
  <2> QED
    BY <1>2, <2>5, <2>6, Becoming
<1>5. CASE Admission(r) # "admitted"
  <2>1. PICK code \in Answers : code = Admission(r) /\ (Ready => code \notin Closed)
    <3>1. CASE State = "INVALID_FAIL_CLOSED"
      BY <3>1 DEF Admission, Answers, Closed, Ready, Egress
    <3>2. CASE State # "INVALID_FAIL_CLOSED" /\ ~Egress
      BY <3>2 DEF Admission, Answers, Closed, Ready
    <3>3. CASE State # "INVALID_FAIL_CLOSED" /\ Egress /\ ~env.token
      BY <3>3 DEF Admission, Answers, Closed, Ready
    <3>4. CASE State # "INVALID_FAIL_CLOSED" /\ Egress /\ env.token
      <4>1. CASE ~want[r].bearer
        <5>1. Admission(r) = "401 INVALID_ROUTER_CREDENTIAL"
          BY <3>4, <4>1 DEF Admission
        <5> QED
          BY <5>1 DEF Answers, Closed
      <4>2. CASE want[r].bearer /\ Eligible(want[r]) = {}
        <5>1. Admission(r) = "503 NO_ELIGIBLE_PROVIDER"
          BY <3>4, <4>2 DEF Admission
        <5> QED
          BY <5>1 DEF Answers, Closed
      <4>3. CASE want[r].bearer /\ Eligible(want[r]) # {}
        BY <1>5, <3>4, <4>3 DEF Admission
      <4> QED
        BY <4>1, <4>2, <4>3
    <3> QED
      BY <3>1, <3>2, <3>3, <3>4
  <2>2. PICK n \in Handlers :
          /\ n = Answered(k, code) /\ n.pc = "answered" /\ n.answer = code
          /\ n.rows = k.rows /\ n.cut = k.cut /\ n.posted = k.posted
    <3>1. Answered(k, code) = [k EXCEPT !.pc = "answered", !.answer = code, !.left = {},
                                        !.tags = "none", !.clock = 0, !.due = 0]
      BY DEF Answered
    <3>2. [k EXCEPT !.pc = "answered", !.answer = code, !.left = {}, !.tags = "none",
                    !.clock = 0, !.due = 0] \in Handlers
      BY DEF Handlers, Stations
    <3> QED
      BY <3>1, <3>2 DEF Handlers
  <2>3. Admitted(r, n) /\ Ended(n) /\ Sealed(n, scan'[r])
    BY <1>1, <1>3, <2>1, <2>2 DEF Admitted, Ended, Sealed, Trying
  <2>4. Becomes(r, n)
    BY <1>1, <1>5, <2>1, <2>2 DEF Admit
  <2> QED
    BY <1>2, <2>3, <2>4, Becoming
<1> QED
  BY <1>4, <1>5

\* A candidate is in the registry, and when its credential is there the service
\* is ready.
LEMMA CandidateKeeps ==
  ASSUME IInv, NEW r \in Callers, NextCandidate(r)
  PROVE  IInv'
<1> DEFINE k == chat[r]
<1>1. k \in Handlers /\ Admitted(r, k) /\ Ended(k) /\ k.pc = "route"
  BY DEF IInv, NextCandidate
<1>2. Stored' /\ scan' = scan
  BY StoreKept DEF NextCandidate
<1>3. k.cut = {} /\ (\A i \in DOMAIN k.rows : k.rows[i][2] # "UNKNOWN")
  BY <1>1 DEF Ended
<1>4. /\ State # "INVALID_FAIL_CLOSED" /\ Egress /\ env.token /\ k.left \subseteq Eligible(want[r])
      /\ (Ready => k.answer \notin Closed) /\ (k.posted # {} => Ready) /\ k.left \subseteq Providers
  BY <1>1 DEF Admitted, Handlers
<1>5. PICK p \in k.left :
        LET c == [k EXCEPT !.left = k.left \ {p}, !.now = p] IN
        Becomes(r,
          CASE c.clock >= MaxRoute -> To(AddRow(c, "ROUTE_DEADLINE_EXCEEDED"), "failed")
            [] c.clock < MaxRoute /\ Credential(p) = "UNAVAILABLE" ->
                 AddRow(c, "SKIPPED_CREDENTIAL_UNAVAILABLE")
            [] OTHER -> [c EXCEPT !.pc = IF Local(p) THEN "tags" ELSE "post",
                                  !.due = IF MaxRoute - c.clock < MaxTimeout THEN MaxRoute
                                          ELSE c.clock + MaxTimeout])
  BY DEF NextCandidate
<1> HIDE DEF k
<1>6. PICK c \in Handlers :
        /\ c = [k EXCEPT !.left = k.left \ {p}, !.now = p]
        /\ c.pc = "route" /\ c.left = k.left \ {p} /\ c.now = p /\ c.rows = k.rows
        /\ c.answer = k.answer /\ c.cut = {} /\ c.posted = k.posted
  <2>1. [k EXCEPT !.left = k.left \ {p}, !.now = p] \in Handlers
    BY <1>1, <1>4 DEF Handlers, Ids
  <2> QED
    BY <1>1, <1>3, <2>1 DEF Handlers
<1>7. c.clock \in Nat /\ MaxRoute \in Nat /\ MaxTimeout \in Nat
  BY GatewayAssumption DEF Handlers
<1>8. ASSUME NEW n \in Handlers, n.pc \in {"route", "failed"}, n.left = c.left, n.answer = c.answer,
             n.cut = {}, n.posted = c.posted, \A i \in DOMAIN n.rows : n.rows[i][2] # "UNKNOWN",
             Becomes(r, n)
      PROVE  IInv'
  <2>1. Admitted(r, n) /\ Ended(n) /\ Sealed(n, scan'[r])
    BY <1>4, <1>6, <1>8 DEF Admitted, Ended, Sealed, Trying
  <2> QED
    BY <1>2, <1>8, <2>1, Becoming
<1>9. ASSUME NEW state \in Outcomes \ {"UNKNOWN"}, NEW pc \in {"route", "failed"},
             Becomes(r, To(AddRow(c, state), pc))
      PROVE  IInv'
  <2>1. PICK rows \in Seq(Ids \X Outcomes) :
          /\ AddRow(c, state) = [c EXCEPT !.rows = rows]
          /\ Len(rows) = Len(c.rows) + 1 /\ Len(c.rows) \in Nat
          /\ DOMAIN rows = 1..Len(c.rows) + 1 /\ DOMAIN c.rows = 1..Len(c.rows)
          /\ rows[Len(c.rows) + 1][2] = state
          /\ \A i \in 1..Len(c.rows) : rows[i] = c.rows[i]
    BY RowAdded
  <2>2. \A i \in DOMAIN rows : rows[i][2] # "UNKNOWN"
    BY <1>3, <1>6, <2>1
  <2>3. PICK n \in Handlers :
          /\ n = To(AddRow(c, state), pc) /\ n.pc = pc /\ n.rows = rows /\ n.left = c.left
          /\ n.answer = c.answer /\ n.cut = c.cut /\ n.posted = c.posted
    <3>1. To(AddRow(c, state), pc) = [c EXCEPT !.rows = rows, !.pc = pc]
      BY <2>1 DEF To, Handlers
    <3>2. [c EXCEPT !.rows = rows, !.pc = pc] \in Handlers
      BY DEF Handlers, Stations
    <3> QED
      BY <3>1, <3>2 DEF Handlers
  <2> QED
    BY <1>6, <1>8, <1>9, <2>2, <2>3
<1>10. CASE c.clock >= MaxRoute
  <2>1. Becomes(r, To(AddRow(c, "ROUTE_DEADLINE_EXCEEDED"), "failed"))
    BY <1>5, <1>6, <1>7, <1>10
  <2> QED
    BY <1>9, <2>1 DEF Outcomes
<1>11. CASE c.clock < MaxRoute /\ Credential(p) = "UNAVAILABLE"
  <2>1. Becomes(r, AddRow(c, "SKIPPED_CREDENTIAL_UNAVAILABLE"))
    BY <1>5, <1>6, <1>7, <1>11
  <2>2. To(AddRow(c, "SKIPPED_CREDENTIAL_UNAVAILABLE"), "route")
          = AddRow(c, "SKIPPED_CREDENTIAL_UNAVAILABLE")
    <3>1. PICK rows : AddRow(c, "SKIPPED_CREDENTIAL_UNAVAILABLE") = [c EXCEPT !.rows = rows]
      BY DEF AddRow
    <3>2. [[c EXCEPT !.rows = rows] EXCEPT !.pc = "route"] = [c EXCEPT !.rows = rows]
      BY <1>6 DEF Handlers
    <3> QED
      BY <3>1, <3>2 DEF To
  <2> QED
    BY <1>9, <2>1, <2>2 DEF Outcomes
<1>12. CASE c.clock < MaxRoute /\ Credential(p) # "UNAVAILABLE"
  <2>1. PICK pc \in {"tags", "post"} : pc = IF Local(p) THEN "tags" ELSE "post"
    OBVIOUS
  <2>2. PICK due \in Nat : due = IF MaxRoute - c.clock < MaxTimeout THEN MaxRoute
                                 ELSE c.clock + MaxTimeout
    BY <1>7
  <2>3. PICK n \in Handlers :
          /\ n = [c EXCEPT !.pc = pc, !.due = due] /\ n.pc = pc /\ n.now = p /\ n.left = c.left
          /\ n.rows = k.rows /\ n.answer = k.answer /\ n.cut = {} /\ n.posted = k.posted
    <3>1. [c EXCEPT !.pc = pc, !.due = due] \in Handlers
      BY DEF Handlers, Stations, Trying
    <3> QED
      BY <1>6, <3>1 DEF Handlers
  <2>4. Becomes(r, n)
    BY <1>5, <1>6, <1>7, <1>12, <2>1, <2>2, <2>3
  <2>5. p \in Registry /\ Record(p).enabled
    BY <1>4 DEF Eligible
  <2>6. Ready
    BY <1>4, <1>12, <2>5 DEF Ready, Registry
  <2>7. Admitted(r, n) /\ Ended(n)
    BY <1>3, <1>4, <1>6, <2>3, <2>6 DEF Admitted, Ended
  <2>8. Sealed(n, scan'[r])
    BY <2>1, <2>3 DEF Sealed, Pinned
  <2> QED
    BY <1>2, <2>4, <2>7, <2>8, Becoming
<1> QED
  BY <1>7, <1>10, <1>11, <1>12

\* A step of an attempt that goes on.
LEMMA Going ==
  ASSUME IInv, NEW r \in Callers, chat[r].pc \in Trying,
         NEW n \in Handlers, n.pc \in Trying, n.left = chat[r].left, n.now = chat[r].now,
         n.rows = chat[r].rows, n.answer = chat[r].answer, n.cut = chat[r].cut, Becomes(r, n),
         Stored', \A d \in Callers \ {r} : scan'[d] = scan[d], Sealed(n, scan'[r])
  PROVE  IInv'
<1>1. chat[r] \in Handlers /\ Admitted(r, chat[r]) /\ Ended(chat[r])
  BY DEF IInv
<1>2. Admitted(r, n) /\ Ended(n)
  BY <1>1, Onward
<1> QED
  BY <1>2, Becoming

\* A local model whose identity is in doubt ends the request.
LEMMA RefusedKeeps ==
  ASSUME IInv, NEW r \in Callers, chat[r].pc \in Trying, Becomes(r, Refused(chat[r])),
         Stored', \A d \in Callers \ {r} : scan'[d] = scan[d]
  PROVE  IInv'
<1>1. chat[r] \in Handlers /\ Admitted(r, chat[r]) /\ Ended(chat[r])
  BY DEF IInv
<1>2. PICK n \in Handlers : /\ n = Refused(chat[r]) /\ Admitted(r, n) /\ Ended(n)
                            /\ n.pc = "answered"
  BY <1>1, Refusing
<1>3. Sealed(n, scan'[r])
  BY <1>2 DEF Sealed
<1> QED
  BY <1>2, <1>3, Becoming

LEMMA FailKeeps ==
  ASSUME IInv, NEW r \in Callers, Fail(r)
  PROVE  IInv'
<1>1. PICK k \in Handlers :
        k = chat[r] /\ Admitted(r, k) /\ Ended(k) /\ k.pc \in {"failed", "route"}
  BY DEF IInv, Fail
<1>2. Stored' /\ scan' = scan
  BY StoreKept DEF Fail
<1>3. PICK code \in Answers :
        /\ code = IF Unknown(k) THEN "504 ATTEMPT_OUTCOME_UNKNOWN"
                  ELSE "502 ALL_ELIGIBLE_PROVIDERS_FAILED"
        /\ code \notin Closed /\ (Unknown(k) => code \in Retried)
  BY DEF Answers, Closed, Retried
<1>4. PICK n \in Handlers :
        /\ n = Answered(k, code) /\ n.pc = "answered" /\ n.answer = code
        /\ n.rows = k.rows /\ n.cut = k.cut /\ n.posted = k.posted /\ n.now = k.now
  <2>1. Answered(k, code) = [k EXCEPT !.pc = "answered", !.answer = code, !.left = {},
                                      !.tags = "none", !.clock = 0, !.due = 0]
    BY DEF Answered
  <2>2. [k EXCEPT !.pc = "answered", !.answer = code, !.left = {}, !.tags = "none",
                  !.clock = 0, !.due = 0] \in Handlers
    BY DEF Handlers, Stations
  <2> QED
    BY <2>1, <2>2 DEF Handlers
<1>5. Admitted(r, n)
  BY <1>1, <1>3, <1>4 DEF Admitted, Trying
<1>6. Ended(n)
  <2>1. \A i \in DOMAIN n.rows : n.rows[i][2] = "UNKNOWN" => i = Len(n.rows)
    BY <1>1, <1>4 DEF Ended
  <2>2. n.cut # {} => n.now \in n.cut /\ Unknown(k)
    BY <1>1, <1>4 DEF Ended
  <2>3. n.cut # {} => n.now \in n.cut /\ n.answer \in Retried
    BY <1>3, <1>4, <2>2
  <2> QED
    BY <1>4, <2>1, <2>3 DEF Ended
<1>7. Sealed(n, scan'[r]) /\ Becomes(r, n)
  BY <1>1, <1>3, <1>4 DEF Sealed, Fail
<1> QED
  BY <1>2, <1>5, <1>6, <1>7, Becoming

\* The inventories, and the scan an unpinned candidate does without.
LEMMA InventoryKeeps ==
  ASSUME IInv, NEW r \in Callers, ReadTags(r) \/ ReadPs(r)
  PROVE  IInv'
<1>1. Stored /\ chat[r] \in Handlers /\ chat[r].pc \in Trying
  BY DEF IInv, ReadTags, ReadPs, Trying
<1>2. CASE ReadTags(r)
  <2>1. Stored' /\ scan' = scan
    BY <1>2, StoreKept DEF ReadTags
  <2>2. CASE Becomes(r, Refused(chat[r]))
    BY <1>1, <2>1, <2>2, RefusedKeeps
  <2>3. ASSUME NEW report \in {"match", "other"},
               Becomes(r, [chat[r] EXCEPT !.tags = report,
                                          !.pc = IF @ = "tags" THEN "ps" ELSE "ps after"])
        PROVE  IInv'
    <3>1. PICK pc \in {"ps", "ps after"} :
            pc = IF chat[r].pc = "tags" THEN "ps" ELSE "ps after"
      OBVIOUS
    <3>2. Becomes(r, [chat[r] EXCEPT !.tags = report, !.pc = pc])
      BY <2>3, <3>1
    <3>3. PICK n \in Handlers :
            /\ n = [chat[r] EXCEPT !.tags = report, !.pc = pc] /\ n.pc = pc
            /\ n.left = chat[r].left /\ n.now = chat[r].now /\ n.rows = chat[r].rows
            /\ n.answer = chat[r].answer /\ n.cut = chat[r].cut
      <4>1. [chat[r] EXCEPT !.tags = report, !.pc = pc] \in Handlers
        BY <1>1 DEF Handlers, Stations, Trying
      <4> QED
        BY <1>1, <4>1 DEF Handlers
    <3>4. n.pc \in Trying /\ Sealed(n, scan'[r])
      BY <3>3 DEF Trying, Sealed
    <3> QED
      BY <1>1, <2>1, <3>2, <3>3, <3>4, Going
  <2> QED
    BY <1>2, <2>2, <2>3 DEF ReadTags
<1>3. CASE ReadPs(r) /\ Becomes(r, Refused(chat[r])) /\ UNCHANGED storeVars
  BY <1>1, <1>3, StoreKept, RefusedKeeps
<1>4. CASE /\ chat[r].pc \in {"ps", "ps after"}
           /\ Becomes(r, [chat[r] EXCEPT !.tags = "none",
                                         !.pc = CASE @ = "ps after" -> "seal"
                                                  [] @ = "ps" /\ Pinned(chat[r].now) -> "scan"
                                                  [] OTHER -> "post"])
           /\ IF chat[r].pc = "ps" /\ Pinned(chat[r].now) THEN Submit(r) ELSE UNCHANGED storeVars
  <2>1. PICK pc \in {"seal", "scan", "post"} :
          /\ pc = CASE chat[r].pc = "ps after" -> "seal"
                    [] chat[r].pc = "ps" /\ Pinned(chat[r].now) -> "scan"
                    [] OTHER -> "post"
          /\ pc = "post" => ~Pinned(chat[r].now)
    BY <1>4
  <2>2. Becomes(r, [chat[r] EXCEPT !.tags = "none", !.pc = pc])
    BY <1>4, <2>1
  <2>3. Stored' /\ \A d \in Callers \ {r} : scan'[d] = scan[d]
    BY <1>1, <1>4, Asked, StoreKept
  <2>4. PICK n \in Handlers :
          /\ n = [chat[r] EXCEPT !.tags = "none", !.pc = pc] /\ n.pc = pc
          /\ n.left = chat[r].left /\ n.now = chat[r].now /\ n.rows = chat[r].rows
          /\ n.answer = chat[r].answer /\ n.cut = chat[r].cut
    <3>1. [chat[r] EXCEPT !.tags = "none", !.pc = pc] \in Handlers
      BY <1>1 DEF Handlers, Stations, Trying
    <3> QED
      BY <1>1, <3>1 DEF Handlers
  <2>5. n.pc \in Trying /\ Sealed(n, scan'[r])
    BY <2>1, <2>4 DEF Trying, Sealed
  <2> QED
    BY <1>1, <2>2, <2>3, <2>4, <2>5, Going
<1> QED
  BY <1>2, <1>3, <1>4 DEF ReadPs

\* The verdict, and the wait that ends before it.
LEMMA VerdictKeeps ==
  ASSUME IInv, NEW r \in Callers, TakeVerdict(r) \/ ScanWaitEnds(r)
  PROVE  IInv'
<1>1. /\ Stored /\ chat[r] \in Handlers /\ chat[r].pc = "scan" /\ "scan" \in Trying
      /\ scan[r] \in Scans /\ Honest(scan[r]) /\ scan \in [Callers -> Scans]
  BY DEF IInv, Stored, TakeVerdict, ScanWaitEnds, Trying
<1>2. Stored' /\ \A d \in Callers \ {r} : scan'[d] = scan[d]
  BY <1>1, Asked DEF TakeVerdict, ScanWaitEnds
<1>3. CASE Becomes(r, Refused(chat[r]))
  BY <1>1, <1>2, <1>3, RefusedKeeps
<1>4. CASE /\ Deliver(r) /\ Becomes(r, To(chat[r], "post"))
           /\ scan[r].verdict = "LOCAL_STORE_BYTES_PRE_REQUEST_MATCH"
  <2>1. scan[r].intact = DOMAIN Files
    BY <1>1, <1>4 DEF Honest
  <2>2. scan'[r] = [NoScan EXCEPT !.intact = scan[r].intact]
    BY <1>1, <1>4 DEF Deliver
  <2>3. scan'[r].at = "none" /\ scan'[r].intact = DOMAIN Files
    BY <2>1, <2>2 DEF NoScan
  <2>4. PICK n \in Handlers :
          /\ n = To(chat[r], "post") /\ n.pc = "post"
          /\ n.left = chat[r].left /\ n.now = chat[r].now /\ n.rows = chat[r].rows
          /\ n.answer = chat[r].answer /\ n.cut = chat[r].cut
    <3>1. To(chat[r], "post") \in Handlers
      BY <1>1 DEF To, Handlers, Stations, Trying
    <3> QED
      BY <1>1, <3>1 DEF To, Handlers
  <2>5. n.pc \in Trying /\ Sealed(n, scan'[r])
    BY <2>3, <2>4 DEF Trying, Sealed
  <2> QED
    BY <1>1, <1>2, <1>4, <2>4, <2>5, Going
<1> QED
  BY <1>3, <1>4 DEF TakeVerdict, ScanWaitEnds

\* The POST, its reply, and the clock of whoever waits.
LEMMA SendKeeps ==
  ASSUME IInv, NEW r \in Callers, Dispatch(r) \/ Reply(r) \/ Tick(r)
  PROVE  IInv'
<1>1. PICK k \in Handlers : /\ k = chat[r] /\ k.pc \in Trying /\ Sealed(k, scan[r])
  BY DEF IInv, Dispatch, Reply, Tick, Awaiting, Trying
<1>2. Stored' /\ scan' = scan
  BY StoreKept DEF Dispatch, Reply, Tick
<1>3. k.clock \in Nat /\ k.now \in Ids /\ k.posted \subseteq Ids
  BY DEF Handlers
<1>4. CASE Becomes(r, Refused(chat[r]))
  BY <1>1, <1>2, <1>4, RefusedKeeps
<1>5. ASSUME NEW n \in Handlers, n.pc \in Trying, n.left = k.left, n.now = k.now,
             n.rows = k.rows, n.answer = k.answer, n.cut = k.cut, Becomes(r, n),
             n.pc \in {"post", "reply"} => k.pc \in {"post", "reply"}
      PROVE  IInv'
  <2>1. Sealed(n, scan'[r])
    BY <1>1, <1>2, <1>5 DEF Sealed
  <2> QED
    BY <1>1, <1>2, <1>5, <2>1, Going
<1>6. CASE Dispatch(r)
  <2> DEFINE n == [k EXCEPT !.pc = "reply", !.posted = k.posted \cup {k.now}]
  <2>1. /\ n \in Handlers /\ n.pc = "reply" /\ n.left = k.left /\ n.now = k.now
        /\ n.rows = k.rows /\ n.answer = k.answer /\ n.cut = k.cut
    BY <1>3 DEF Handlers, Stations, Trying
  <2>2. Becomes(r, n) /\ k.pc = "post"
    BY <1>1, <1>6 DEF Dispatch
  <2> HIDE DEF n
  <2> QED
    BY <1>5, <2>1, <2>2 DEF Trying
<1>7. CASE Reply(r) /\ ~Becomes(r, Refused(chat[r]))
  <2> DEFINE n == To(k, IF Local(k.now) THEN "tags after" ELSE "seal")
  <2>1. /\ n \in Handlers /\ n.pc \in {"tags after", "seal"} /\ n.left = k.left /\ n.now = k.now
        /\ n.rows = k.rows /\ n.answer = k.answer /\ n.cut = k.cut
    BY DEF To, Handlers, Stations, Trying
  <2>2. Becomes(r, n)
    BY <1>1, <1>7 DEF Reply
  <2> HIDE DEF n
  <2> QED
    BY <1>5, <2>1, <2>2 DEF Trying
<1>8. CASE Tick(r)
  <2> DEFINE n == [k EXCEPT !.clock = k.clock + 1]
  <2>1. /\ n \in Handlers /\ n.pc = k.pc /\ n.left = k.left /\ n.now = k.now
        /\ n.rows = k.rows /\ n.answer = k.answer /\ n.cut = k.cut
    BY <1>3 DEF Handlers
  <2>2. Becomes(r, n)
    BY <1>1, <1>8 DEF Tick
  <2> HIDE DEF n
  <2> QED
    BY <1>1, <1>5, <2>1, <2>2
<1> QED
  BY <1>4, <1>6, <1>7, <1>8

\* An attempt that fails for a known reason, and one that succeeds.
LEMMA EndsKeep ==
  ASSUME IInv, NEW r \in Callers, AttemptFails(r) \/ Seal(r)
  PROVE  IInv'
<1>1. /\ chat[r] \in Handlers /\ Admitted(r, chat[r]) /\ Ended(chat[r])
      /\ chat[r].pc \in {"post", "reply", "seal"} /\ chat[r].pc \in Trying
  BY DEF IInv, AttemptFails, Seal, Trying
<1>2. Stored' /\ scan' = scan
  BY StoreKept DEF AttemptFails, Seal
<1>3. ASSUME NEW pc \in {"route", "failed"}, Becomes(r, To(AddRow(chat[r], "FAILED"), pc))
      PROVE  IInv'
  <2>1. "FAILED" \in Outcomes \ {"UNKNOWN"}
    BY DEF Outcomes
  <2>2. PICK n \in Handlers : /\ n = To(AddRow(chat[r], "FAILED"), pc) /\ n.pc = pc
                              /\ Admitted(r, n) /\ Ended(n)
    BY <1>1, <2>1, RowEnds
  <2>3. Sealed(n, scan'[r])
    BY <2>2 DEF Sealed
  <2> QED
    BY <1>2, <1>3, <2>2, <2>3, Becoming
<1>4. CASE Seal(r)
  <2>1. "SUCCESS" \in Outcomes \ {"UNKNOWN"} /\ "200" \in Answers \ Closed
    BY DEF Outcomes, Answers, Closed
  <2>2. PICK n \in Handlers : /\ n = Answered(AddRow(chat[r], "SUCCESS"), "200")
                              /\ n.pc = "answered" /\ Admitted(r, n) /\ Ended(n)
    BY <1>1, <2>1, RowAnswers
  <2>3. Sealed(n, scan'[r]) /\ Becomes(r, n)
    BY <1>4, <2>2 DEF Sealed, Seal
  <2> QED
    BY <1>2, <2>2, <2>3, Becoming
<1> QED
  BY <1>3, <1>4 DEF AttemptFails

\* Both kinds of timeout.
LEMMA TimeoutKeeps ==
  ASSUME IInv, NEW r \in Callers, TransportTimeout(r) \/ AttemptTimeout(r)
  PROVE  IInv'
<1>1. /\ Stored /\ chat[r] \in Handlers /\ Admitted(r, chat[r]) /\ Ended(chat[r])
      /\ chat[r].pc \in Trying
  BY DEF IInv, TransportTimeout, AttemptTimeout, Awaiting, Trying
<1>2. Stored' /\ \A d \in Callers \ {r} : scan'[d] = scan[d]
  BY <1>1, Asked, StoreKept DEF TransportTimeout, AttemptTimeout
<1>3. PICK c \in Handlers :
        /\ c = AddRow(CutOff(chat[r]), "UNKNOWN") /\ c.now = chat[r].now
        /\ To(c, "failed") \in Handlers /\ To(c, "failed").pc = "failed"
        /\ Admitted(r, To(c, "failed")) /\ Ended(To(c, "failed"))
        /\ Answered(c, "503 LOCAL_ROUTE_UNAVAILABLE") \in Handlers
        /\ Answered(c, "503 LOCAL_ROUTE_UNAVAILABLE").pc = "answered"
        /\ Admitted(r, Answered(c, "503 LOCAL_ROUTE_UNAVAILABLE"))
        /\ Ended(Answered(c, "503 LOCAL_ROUTE_UNAVAILABLE"))
  BY <1>1, CuttingOff
<1>4. PICK n \in {To(c, "failed"), Answered(c, "503 LOCAL_ROUTE_UNAVAILABLE")} : Becomes(r, n)
  BY <1>3 DEF TransportTimeout, AttemptTimeout
<1>5. n \in Handlers /\ Admitted(r, n) /\ Ended(n) /\ Sealed(n, scan'[r])
  BY <1>3, <1>4 DEF Sealed
<1> QED
  BY <1>2, <1>4, <1>5, Becoming

\* A scan's thread, or another program, moves while the requests stay.
LEMMA StoreKeeps ==
  ASSUME IInv, UNCHANGED <<inputs, chat>>, Write \/ \E c \in Callers : ScanStep(c)
  PROVE  IInv'
<1>1. Stored /\ Stored'
  BY StoreStep DEF IInv
<1>2. \A c \in Callers : scan[c].at = "none" => scan'[c] = scan[c]
  <2>1. CASE Write
    BY <1>1, <2>1, Written
  <2>2. ASSUME NEW d \in Callers, ScanStep(d)
        PROVE  \A c \in Callers : scan[c].at = "none" => scan'[c] = scan[c]
    <3>1. scan[d].at # "none"
      BY <2>2 DEF ScanStep, Start, Open, ReadChunk, EndOfFile
    <3>2. \A c \in Callers \ {d} : scan'[c] = scan[c]
      BY <1>1, <2>2, Started, Opened, ChunkRead, FileEnded DEF ScanStep
    <3> QED
      BY <3>1, <3>2
  <2> QED
    BY <2>1, <2>2
<1>3. ASSUME NEW r \in Callers
      PROVE  Admitted(r, chat[r])' /\ Ended(chat[r])' /\ Sealed(chat[r], scan[r])'
  <2>1. Admitted(r, chat[r]) /\ Ended(chat[r]) /\ Sealed(chat[r], scan[r]) /\ UNCHANGED inputs
    BY DEF IInv
  <2>2. Admitted(r, chat[r])'
    BY <2>1, SameInputs DEF Admitted
  <2>3. Ended(chat[r])'
    BY <2>1 DEF Ended, Unknown
  <2>4. Sealed(chat[r], scan[r])'
    BY <1>2, <2>1, SameInputs DEF Sealed
  <2> QED
    BY <2>2, <2>3, <2>4
<1> QED
  BY <1>1, <1>3, SameInputs DEF IInv

\* Nobody has asked, and no file has been opened.
LEMMA InitIInv == Init => IInv
<1> SUFFICES ASSUME Init PROVE IInv
  OBVIOUS
<1>1. PICK store \in Stores : disk = store.disk
  BY DEF Init, StoreInit
<1>2. disk \in Disks /\ scan = [c \in Callers |-> NoScan]
  BY <1>1, StoreAssumption DEF Disks, Init, StoreInit
<1>3. Stored
  BY <1>2, NoScanHonest DEF Stored
<1>4. << >> \in Seq(Ids \X Outcomes) /\ DOMAIN << >> = {}
  OBVIOUS
<1>5. NewChat \in Handlers
  BY <1>4 DEF NewChat, Handlers, Stations, Ids, Answers
<1>6. NewChat.pc = "new" /\ NewChat.rows = << >> /\ NewChat.cut = {} /\ NewChat.posted = {}
      /\ NewChat.answer = "none"
  BY DEF NewChat
<1>7. \A r \in Callers : Admitted(r, NewChat) /\ Ended(NewChat) /\ Sealed(NewChat, scan[r])
  BY <1>4, <1>6 DEF Admitted, Ended, Sealed, Trying, Closed
<1> QED
  BY <1>3, <1>5, <1>7 DEF Init, IInv

\* One case per action.
LEMMA StepIInv == IInv /\ [Next]_vars => IInv'
<1> SUFFICES ASSUME IInv, [Next]_vars PROVE IInv'
  OBVIOUS
<1>1. ASSUME NEW r \in Callers, Chat(r)
      PROVE  IInv'
  BY <1>1, AdmitKeeps, CandidateKeeps, FailKeeps, InventoryKeeps, VerdictKeeps, SendKeeps,
     EndsKeep, TimeoutKeeps
  DEF Chat, Own
<1>2. CASE \/ Write /\ UNCHANGED <<inputs, chat>>
           \/ \E r \in Callers : Scan(r)
  BY <1>2, StoreKeeps DEF Scan
<1>3. ASSUME UNCHANGED vars PROVE IInv'
  <2>1. Stored' /\ scan' = scan /\ chat' = chat /\ UNCHANGED inputs
    BY <1>3, StoreKept DEF vars
  <2>2. \A r \in Callers : Admitted(r, chat[r])' /\ Ended(chat[r])' /\ Sealed(chat[r], scan[r])'
    BY <2>1, SameInputs DEF IInv, Admitted, Ended, Unknown, Sealed
  <2> QED
    BY <2>1, <2>2, SameInputs DEF IInv
<1> QED
  BY <1>1, <1>2, <1>3 DEF Next

\* The inductive invariant of requests and store.
THEOREM Invariance == Spec => []IInv
  BY InitIInv, StepIInv, PTL DEF Spec

\* No prompt reaches a pinned model whose files were not all intact during the
\* request's own scan, whatever writes and whoever else scans.
THEOREM PromptAfterMatch == Spec => []PostedOnMatch
<1>1. IInv => PostedOnMatch
  BY DEF IInv, Sealed, PostedOnMatch
<1> QED
  BY <1>1, Invariance, PTL

\* What /readyz says of admission is so for any environment and request.
THEOREM ReadinessTold == Spec => []ReadinessHonest
<1>1. IInv => ReadinessHonest
  BY DEF IInv, Admitted, ReadinessHonest, Closed
<1> QED
  BY <1>1, Invariance, PTL

\* A request whose answer a timeout cut off ends there and says so.
THEOREM NoRetryAfterUnknown == Spec => []UnknownStops
<1>1. IInv => UnknownStops
  BY DEF IInv, Ended, UnknownStops, Retried
<1> QED
  BY <1>1, Invariance, PTL
=============================================================================
