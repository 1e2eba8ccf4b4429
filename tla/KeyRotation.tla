---------------------------- MODULE KeyRotation ----------------------------
(***************************************************************************)
(* The rotation of the key that seals the secrets of the platform.         *)
(* Source: r3v3rs3/src/platform/rotate.rs, ClusterKeys of keys/crypto.rs,  *)
(* load_keys of keys/key_file.rs, open_keys of platform/mod.rs and         *)
(* secret_keys of config/sqlite.rs.                                        *)
(*                                                                         *)
(* A rotation is the task of a request, and nothing keeps two of them      *)
(* apart.  It reads a table, seals its rows one by one with a key that     *)
(* only the memory has, and writes the key file last.  The platform opens  *)
(* the rows with the keys in its memory, the DNS storage with the keys it  *)
(* has cached from the files.  A sealed value is the number of the key     *)
(* that sealed it; keys are numbered in the order they are made.           *)
(***************************************************************************)
EXTENDS Naturals, Sequences, FiniteSets

CONSTANTS
  EnvRows,    \* the rows of the tables that only the platform opens
  DnsRows,    \* the rows of dns_credentials, the last table
  Rotations,  \* the requests that rotate the key
  MaxOutages  \* bound on the crashes of the process

Rows   == EnvRows \union DnsRows
Tables == <<EnvRows, DnsRows>>
Keys   == 1 .. Cardinality(Rotations) + 1

ASSUME RotationAssumption ==
  /\ IsFiniteSet(Rotations) /\ EnvRows \intersect DnsRows = {} /\ MaxOutages \in Nat

\* What a key file, or a value that is being written, is when it is not a key.
Empty  == 0
Absent == Cardinality(Rotations) + 2

VARIABLES
  up,        \* the process runs
  ring,      \* ClusterKeys of the platform: the first key seals, every key opens
  made,      \* how many keys were made
  keyFile,   \* r3v3rs3.key
  oldFile,   \* r3v3rs3.key.old
  sealed,    \* [Rows -> Keys], what the database holds
  writing,   \* [Rows -> Keys \union {Empty}], a value that is sealed and not yet stored
  cached,    \* SqliteStorage::secrets: a ring loaded from the files, or <<>>
  invalid,   \* InvalidateStorageSecrets is in the command channel
  request,   \* [Rotations -> the state of run_key_rotation]
  outages,
  unsure,    \* history: since a rotation began, none has ended well, see FinishRotation
  harmed     \* history: the process was started again while that was so

rotationVars == <<up, ring, made, keyFile, oldFile, sealed, writing, cached, invalid,
                  request, outages, unsure, harmed>>

\* key: the key it made; table: the table it is at; seen: the rows of that table when
\* it was read; todo: the rows it has still to store; text: the copy of the key file;
\* alone: history, see StartRotation and KeepValue.
Pcs     == {"new", "select", "reseal", "read", "old", "trim", "key", "done", "failed"}
Working == {"select", "reseal", "read", "old", "trim", "key"}
At(pc, key) == [pc |-> pc, key |-> key, table |-> 1, seen |-> [r \in Rows |-> 1],
                todo |-> {}, text |-> Absent, alone |-> TRUE]

KeysIn(list) == {list[i] : i \in DOMAIN list}
Active       == {q \in Rotations : request[q].pc \in Working}

\* load_keys of the two files: each has one key, and no key is listed twice.
Loadable == keyFile \in Keys /\ oldFile # Empty /\ keyFile # oldFile
Loaded   == IF oldFile = Absent THEN <<keyFile>> ELSE <<keyFile, oldFile>>

\* secret_keys: an empty cache is filled from the files.
SecretKeys == IF cached = <<>> THEN Loaded ELSE cached

-----------------------------------------------------------------------------
(* The values that are written beside a rotation.                           *)

\* A value of the platform is sealed with the keys of the memory, one of the DNS
\* storage with the cached keys of the files.
SealValue(r) ==
  /\ up /\ writing[r] = Empty
  /\ \/ /\ r \in EnvRows
        /\ writing' = [writing EXCEPT ![r] = ring[1]]
        /\ UNCHANGED cached
     \/ /\ r \in DnsRows
        /\ cached # <<>> \/ Loadable
        /\ cached' = SecretKeys
        /\ writing' = [writing EXCEPT ![r] = SecretKeys[1]]
  /\ UNCHANGED <<up, ring, made, keyFile, oldFile, sealed, invalid, request, outages,
                 unsure, harmed>>

\* The key that the rotation q replaces, as long as it is the only one.
Base(q) == IF request[q].pc = "key" THEN request[q].text ELSE keyFile

\* set_env with a secret that has no value: stored_env clones the sealed value that was
\* read, whichever key sealed it, and set_env stores it later.  A rotation that runs is
\* not alone any more if that key is neither its own nor the one that it replaces.
KeepValue(r) ==
  /\ up /\ r \in EnvRows /\ writing[r] = Empty
  /\ writing' = [writing EXCEPT ![r] = sealed[r]]
  /\ request' = [q \in Rotations |-> [request[q] EXCEPT !.alone =
       @ /\ (q \in Active => sealed[r] \in {Base(q), request[q].key})]]
  /\ UNCHANGED <<up, ring, made, keyFile, oldFile, sealed, cached, invalid, outages,
                 unsure, harmed>>

StoreValue(r) ==
  /\ up /\ writing[r] # Empty
  /\ sealed' = [sealed EXCEPT ![r] = writing[r]]
  /\ writing' = [writing EXCEPT ![r] = Empty]
  /\ UNCHANGED <<up, ring, made, keyFile, oldFile, cached, invalid, request, outages,
                 unsure, harmed>>

\* The server loop handles InvalidateStorageSecrets.
InvalidateSecrets ==
  /\ up /\ invalid
  /\ invalid' = FALSE
  /\ cached' = <<>>
  /\ UNCHANGED <<up, ring, made, keyFile, oldFile, sealed, writing, request, outages,
                 unsure, harmed>>

-----------------------------------------------------------------------------
(* run_key_rotation.                                                        *)

RotateForgetting(key) == <<key>>

\* ClusterKeys::rotate: the previous keys still open.
Rotate(key) == <<key>> \o ring

NothingBeside ==
  Active = {} /\ ~invalid /\ \A r \in Rows : writing[r] \in {Empty, keyFile}

\* It is alone if no other one runs, the command of the last one is handled, and no value
\* that is being written was sealed with a key that the key file does not have.
StartRotation(q) ==
  /\ up /\ request[q].pc = "new"
  /\ made' = made + 1
  /\ ring' = Rotate(made + 1)
  /\ request' = [p \in Rotations |->
       IF p = q THEN [At("select", made + 1) EXCEPT !.alone = NothingBeside]
       ELSE [request[p] EXCEPT !.alone = @ /\ p \notin Active]]
  /\ unsure' = TRUE
  /\ UNCHANGED <<up, keyFile, oldFile, sealed, writing, cached, invalid, outages, harmed>>

\* fetch_all of the rows of a table.
SelectTable(q) ==
  /\ up /\ request[q].pc = "select"
  /\ request' = [request EXCEPT ![q] =
       [@ EXCEPT !.pc = "reseal", !.seen = sealed, !.todo = Tables[request[q].table]]]
  /\ UNCHANGED <<up, ring, made, keyFile, oldFile, sealed, writing, cached, invalid,
                 outages, unsure, harmed>>

Opens(q, r) == request[q].seen[r] \in KeysIn(ring)

\* reseal_value and the UPDATE of a row.  The value is the one that was read with the
\* table.  A DNS credential that does not open is left as it is.
ResealRow(q, r) ==
  /\ up /\ request[q].pc = "reseal" /\ r \in request[q].todo
  /\ Opens(q, r) \/ r \in DnsRows
  /\ sealed' = IF Opens(q, r) THEN [sealed EXCEPT ![r] = ring[1]] ELSE sealed
  /\ request' = [request EXCEPT ![q].todo = @ \ {r}]
  /\ UNCHANGED <<up, ring, made, keyFile, oldFile, writing, cached, invalid, outages,
                 unsure, harmed>>

NextTableOnce(q) ==
  /\ up /\ request[q].pc = "reseal" /\ request[q].todo = {}
  /\ request' = [request EXCEPT ![q] =
       IF @.table > Len(Tables) THEN [At("read", @.key) EXCEPT !.alone = request[q].alone]
       ELSE [@ EXCEPT !.pc = "select", !.table = request[q].table + 1]]
  /\ UNCHANGED <<up, ring, made, keyFile, oldFile, sealed, writing, cached, invalid,
                 outages, unsure, harmed>>

NextTable(q) ==
  /\ up /\ request[q].pc = "reseal" /\ request[q].todo = {}
  /\ request' = [request EXCEPT ![q] =
       IF @.table = Len(Tables) THEN [At("read", @.key) EXCEPT !.alone = request[q].alone]
       ELSE [@ EXCEPT !.pc = "select", !.table = request[q].table + 1]]
  /\ UNCHANGED <<up, ring, made, keyFile, oldFile, sealed, writing, cached, invalid,
                 outages, unsure, harmed>>

\* write_key_files copies the key file.  Opening a file for writing empties it.
BackUpKey(q) ==
  /\ up /\ request[q].pc = "read"
  /\ request' = [request EXCEPT ![q] = [@ EXCEPT !.pc = "old", !.text = keyFile]]
  /\ oldFile' = Empty
  /\ UNCHANGED <<up, ring, made, keyFile, sealed, writing, cached, invalid, outages,
                 unsure, harmed>>

WriteNoOldFile(q) ==
  /\ up /\ request[q].pc = "old"
  /\ request' = [request EXCEPT ![q].pc = "trim"]
  /\ UNCHANGED <<up, ring, made, keyFile, oldFile, sealed, writing, cached, invalid, outages,
                 unsure, harmed>>

WriteOldFile(q) ==
  /\ up /\ request[q].pc = "old"
  /\ request' = [request EXCEPT ![q].pc = "trim"]
  /\ oldFile' = request[q].text
  /\ UNCHANGED <<up, ring, made, keyFile, sealed, writing, cached, invalid, outages,
                 unsure, harmed>>

OpenKeyFile(q) ==
  /\ up /\ request[q].pc = "trim"
  /\ request' = [request EXCEPT ![q].pc = "key"]
  /\ keyFile' = Empty
  /\ UNCHANGED <<up, ring, made, oldFile, sealed, writing, cached, invalid, outages,
                 unsure, harmed>>

FinishSilently(q) ==
  /\ up /\ request[q].pc = "key"
  /\ request' = [request EXCEPT ![q] = At("done", Empty)]
  /\ keyFile' = request[q].key
  /\ unsure' = ~(request[q].alone /\ request[q].text \in Keys)
  /\ UNCHANGED <<up, ring, made, oldFile, sealed, writing, cached, invalid, outages, harmed>>

\* The key is written, and the request tells the server loop.  The rotation ended well
\* if it was alone and the file that it copied had a key.
FinishRotation(q) ==
  /\ up /\ request[q].pc = "key"
  /\ request' = [request EXCEPT ![q] = At("done", Empty)]
  /\ keyFile' = request[q].key
  /\ invalid' = TRUE
  /\ unsure' = ~(request[q].alone /\ request[q].text \in Keys)
  /\ UNCHANGED <<up, ring, made, oldFile, sealed, writing, cached, outages, harmed>>

\* A row does not open, or the database or the disk fails: what was done stays.
RotationFails(q) ==
  /\ up /\ q \in Active
  /\ request' = [request EXCEPT ![q] = At("failed", Empty)]
  /\ UNCHANGED <<up, ring, made, keyFile, oldFile, sealed, writing, cached, invalid,
                 outages, unsure, harmed>>

-----------------------------------------------------------------------------
(* The process.                                                             *)

Outage ==
  /\ up /\ outages < MaxOutages
  /\ outages' = outages + 1
  /\ up' = FALSE
  /\ ring' = <<>> /\ cached' = <<>> /\ invalid' = FALSE
  /\ writing' = [r \in Rows |-> Empty]
  /\ request' = [q \in Rotations |->
       IF q \in Active THEN At("failed", Empty) ELSE request[q]]
  /\ UNCHANGED <<made, keyFile, oldFile, sealed, unsure, harmed>>

\* open_keys: a start without readable keys fails.
OpenKeys ==
  /\ ~up /\ Loadable
  /\ up' = TRUE
  /\ ring' = Loaded
  /\ harmed' = (harmed \/ unsure)
  /\ UNCHANGED <<made, keyFile, oldFile, sealed, writing, cached, invalid, request,
                 outages, unsure>>

-----------------------------------------------------------------------------
RotationInit ==
  /\ up = TRUE /\ ring = <<1>> /\ made = 1
  /\ keyFile = 1 /\ oldFile = Absent
  /\ sealed = [r \in Rows |-> 1] /\ writing = [r \in Rows |-> Empty]
  /\ cached = <<>> /\ invalid = FALSE
  /\ request = [q \in Rotations |-> At("new", Empty)]
  /\ outages = 0 /\ unsure = FALSE /\ harmed = FALSE

RotationNext ==
  \/ \E r \in Rows : SealValue(r) \/ KeepValue(r) \/ StoreValue(r)
  \/ InvalidateSecrets
  \/ \E q \in Rotations :
       \/ StartRotation(q) \/ SelectTable(q) \/ NextTable(q)
       \/ \E r \in Rows : ResealRow(q, r)
       \/ BackUpKey(q) \/ WriteOldFile(q) \/ OpenKeyFile(q) \/ FinishRotation(q)
       \/ RotationFails(q)
  \/ Outage \/ OpenKeys

RotationSpec == RotationInit /\ [][RotationNext]_rotationVars

-----------------------------------------------------------------------------
KeyOrEmpty == Keys \union {Empty}

RotationTypeOK ==
  /\ up \in BOOLEAN /\ ring \in Seq(Keys) /\ made \in Keys
  /\ keyFile \in KeyOrEmpty /\ oldFile \in KeyOrEmpty \union {Absent}
  /\ sealed \in [Rows -> Keys] /\ writing \in [Rows -> KeyOrEmpty]
  /\ cached \in Seq(Keys) /\ invalid \in BOOLEAN
  /\ request \in [Rotations -> [pc : Pcs, key : KeyOrEmpty, table : 1..2,
                                seen : [Rows -> Keys], todo : SUBSET Rows,
                                text : KeyOrEmpty \union {Absent}, alone : BOOLEAN]]
  /\ outages \in 0..MaxOutages /\ unsure \in BOOLEAN /\ harmed \in BOOLEAN

\* The running platform opens every row, and every value that is on its way into one,
\* at every step of every rotation, also of one that fails half way or of two at once,
\* unless the process was started again before a rotation had repaired the files.
RingOpens ==
  up /\ ~harmed =>
    \A r \in Rows : {sealed[r], writing[r]} \subseteq KeysIn(ring) \union {Empty}

\* After a rotation that ended well, also after others that had failed, the files have
\* the keys of everything the running platform opens: the next start loses nothing.
FilesOpen ==
  ~unsure =>
    /\ Loadable
    /\ up => \A r \in Rows : sealed[r] \in KeysIn(ring) => sealed[r] \in KeysIn(Loaded)

\* The DNS storage opens what the platform opens once it has been told of the rotation:
\* its cached keys are never behind the rows.
StorageOpens ==
  up /\ ~unsure /\ ~invalid =>
    \A r \in DnsRows : sealed[r] \in KeysIn(ring) => sealed[r] \in KeysIn(SecretKeys)

\* What was sealed can be opened: by the platform, by its next start and by the DNS storage.
SealedOpens == RotationTypeOK /\ RingOpens /\ FilesOpen /\ StorageOpens

\* The documentation: the values are sealed again in a single atomic transaction and the
\* key file is written, so no crash leaves a value that the next start cannot open.
AtomicRotation == up => \A r \in Rows : sealed[r] \in KeysIn(ring)
=============================================================================
