----------------------------- MODULE BlobStore -----------------------------
(***************************************************************************)
(* The content-addressed store of diagnostic snapshots:                    *)
(* approval/diagnostic_blob_filesystem_adapter.py over the system calls of *)
(* diagnostic_blob_linux_syscalls.py.  A blob is written to a temporary    *)
(* file of its shard directory, synced, renamed without clobbering, and    *)
(* the directories are synced.                                             *)
(*                                                                         *)
(* The file system keeps what it shows apart from what it has on disk.  A  *)
(* power loss keeps what was synced and any part of the rest; a process    *)
(* may also die alone.  The blobs of the model share their two shards.     *)
(***************************************************************************)
EXTENDS Naturals, FiniteSets

CONSTANTS Procs, Blobs,
          MaxAttempts   \* bound: calls of persist_snapshot_blob()

ASSUME BlobAssumption == MaxAttempts \in Nat

Shards == 1..2   \* <root>/<digest[0:2]> and the directory below it
NoFile == [data |-> "none", synced |-> FALSE, by |-> "none"]

VARIABLES
    entry,     \* directory entry of a shard: none, made or durable
    temp,      \* .<digest>.tmp, as the processes see it
    target,    \* <digest>.json, as the processes see it
    disk,      \* the names of the last directory sync: temp and target of each blob
    proc,      \* what each process is doing: step, blob, outcome so far
    done,      \* blobs reported as durable since their shards were last lost
    attempts

fs == <<entry, temp, target, disk>>
BSvars == <<fs, proc, done, attempts>>

Idle == [step |-> "idle"]
Partial(p) == [data |-> "partial", synced |-> FALSE, by |-> p]
Foreign == [data |-> "foreign", synced |-> TRUE, by |-> "none"]
Names == [temp |-> temp, target |-> target]

(* The target of a blob may already exist with another content. *)
BSInit ==
    /\ \E old \in SUBSET Blobs :
        /\ target = [b \in Blobs |-> IF b \in old THEN Foreign ELSE NoFile]
        /\ entry = [l \in Shards |-> IF old = {} THEN "none" ELSE "durable"]
    /\ temp = [b \in Blobs |-> NoFile]
    /\ disk = Names
    /\ proc = [p \in Procs |-> Idle]
    /\ done = {} /\ attempts = 0

At(p, step) == proc[p].step = step
Goto(p, step) == proc' = [proc EXCEPT ![p].step = step]
Becomes(p, step, outcome) == proc' = [proc EXCEPT ![p].step = step, ![p].outcome = outcome]
Return(p) == proc' = [proc EXCEPT ![p] = Idle]

(* The call ends with an error: nothing of the file system changes, and    *)
(* what was made so far stays.                                             *)
Fail(p) ==
    /\ Return(p)
    /\ UNCHANGED <<fs, done, attempts>>

(***************************************************************************)
(* persist_snapshot_blob(): preflight, root and shards.                    *)
(***************************************************************************)
\* A snapshot whose digest, reference or length is wrong touches nothing.
Begin(p, b) ==
    /\ At(p, "idle") /\ attempts < MaxAttempts
    /\ attempts' = attempts + 1
    /\ proc' = [proc EXCEPT ![p] = [step |-> "shard", blob |-> b, level |-> 1, outcome |-> "none"]]
    /\ UNCHANGED <<fs, done>>

NextShard(p) ==
    proc' = [proc EXCEPT ![p] = IF @.level = 2 THEN [@ EXCEPT !.step = "create"]
                                ELSE [@ EXCEPT !.step = "shard", !.level = 2]]

(* mkdir: a shard that exists is used as it is, one that was made is to be *)
(* committed.                                                              *)
MakeShard(p) ==
    LET l == proc[p].level IN
    /\ At(p, "shard") /\ entry[l] = "none"
    /\ entry' = [entry EXCEPT ![l] = "made"]
    /\ Goto(p, "commit_shard")
    /\ UNCHANGED <<temp, target, disk, done, attempts>>

UseShard(p) ==
    /\ At(p, "shard") /\ entry[proc[p].level] # "none"
    /\ NextShard(p)
    /\ UNCHANGED <<fs, done, attempts>>

\* fsync of the new shard and of its parent.
CommitShard(p) ==
    /\ At(p, "commit_shard")
    /\ entry' = [entry EXCEPT ![proc[p].level] = "durable"]
    /\ NextShard(p)
    /\ UNCHANGED <<temp, target, disk, done, attempts>>

(***************************************************************************)
(* The temporary file.                                                     *)
(***************************************************************************)
\* O_EXCL: a temporary file that is there already ends the call.
CreateTemp(p) ==
    LET b == proc[p].blob IN
    /\ At(p, "create") /\ temp[b] = NoFile
    /\ temp' = [temp EXCEPT ![b] = Partial(p)]
    /\ Goto(p, "write")
    /\ UNCHANGED <<entry, target, disk, done, attempts>>

TempIsThere(p) ==
    /\ At(p, "create") /\ temp[proc[p].blob] # NoFile
    /\ Fail(p)

WriteTemp(p) ==
    /\ At(p, "write")
    /\ temp' = [temp EXCEPT ![proc[p].blob].data = "whole"]
    /\ Goto(p, "sync")
    /\ UNCHANGED <<entry, target, disk, done, attempts>>

\* Mutant: the file is renamed before it is synced.
Unsynced(f) == f
Synced(f) == [f EXCEPT !.synced = TRUE]

\* fchmod, fstat, fsync, read back.
SyncTemp(p) ==
    /\ At(p, "sync")
    /\ temp' = [temp EXCEPT ![proc[p].blob] = Synced(@)]
    /\ Goto(p, "rename")
    /\ UNCHANGED <<entry, target, disk, done, attempts>>

\* Any of these steps fails: the temporary file is cleaned up.
TempFails(p) ==
    /\ proc[p].step \in {"write", "sync", "rename"}
    /\ Becomes(p, "cleanup", "failed")
    /\ UNCHANGED <<fs, done, attempts>>

(***************************************************************************)
(* Publication.                                                            *)
(***************************************************************************)
\* renameat2(RENAME_NOREPLACE)
Publish(p) ==
    LET b == proc[p].blob IN
    /\ At(p, "rename") /\ target[b] = NoFile
    /\ target' = [target EXCEPT ![b] = temp[b]]
    /\ temp' = [temp EXCEPT ![b] = NoFile]
    /\ Goto(p, "commit")
    /\ UNCHANGED <<entry, disk, done, attempts>>

TargetIsThere(p) ==
    /\ At(p, "rename") /\ target[proc[p].blob] # NoFile
    /\ Goto(p, "existing")
    /\ UNCHANGED <<fs, done, attempts>>

\* Mutant: the shard directory is not synced after the rename.
NothingSynced == disk
ShardSynced == Names

(* fsync of the shard directory, reopen, fsync and read back the target,   *)
(* fsync again.                                                            *)
Commit(p) ==
    /\ At(p, "commit") /\ target[proc[p].blob].data = "whole"
    /\ disk' = ShardSynced
    /\ Becomes(p, "close", "durable")
    /\ UNCHANGED <<entry, temp, target, done, attempts>>

CommitFails(p) ==
    /\ At(p, "commit")
    /\ Fail(p)

(* existing_target(): one of the same content is synced with its directory *)
(* and is as good as new; any other is a collision.                        *)
VerifyExisting(p) ==
    LET b == proc[p].blob IN
    /\ At(p, "existing") /\ target[b].data = "whole"
    /\ target' = [target EXCEPT ![b] = Synced(@)]
    /\ disk' = [temp |-> temp, target |-> target']
    /\ Becomes(p, "cleanup", "durable")
    /\ UNCHANGED <<entry, temp, done, attempts>>

ExistingFails(p) ==
    /\ At(p, "existing")
    /\ Becomes(p, "cleanup", "failed")
    /\ UNCHANGED <<fs, done, attempts>>

(* cleanup_temp(): unlink the file this call made, and sync the directory. *)
(* A cleanup that cannot be proved turns any outcome into an error.        *)
Cleanup(p) ==
    LET b == proc[p].blob IN
    /\ At(p, "cleanup") /\ temp[b].by = p
    /\ temp' = [temp EXCEPT ![b] = NoFile]
    /\ disk' = [Names EXCEPT !.temp = temp']
    /\ Becomes(p, "close", proc[p].outcome)
    /\ UNCHANGED <<entry, target, done, attempts>>

CleanupFails(p) ==
    /\ At(p, "cleanup")
    /\ Fail(p)

\* PERSISTED_NEW or VERIFIED_EXISTING_NOOP, if every descriptor closes.
ReportBlob(p) ==
    /\ At(p, "close")
    /\ done' = IF proc[p].outcome = "durable" THEN done \cup {proc[p].blob} ELSE done
    /\ Return(p)
    /\ UNCHANGED <<fs, attempts>>

CallFails(p) ==
    /\ proc[p].step \in {"shard", "commit_shard", "create", "close"}
    /\ Fail(p)

(***************************************************************************)
(* Faults.                                                                 *)
(***************************************************************************)
\* The process dies where it is.  Its temporary file stays.
ProcessDies(p) ==
    /\ ~At(p, "idle")
    /\ Return(p)
    /\ UNCHANGED <<fs, done, attempts>>

(* What is left of a file: all of it if it was synced. *)
Remains(f) ==
    IF f = NoFile THEN NoFile
    ELSE IF f.synced THEN [f EXCEPT !.by = "none"]
    ELSE [data |-> "partial", synced |-> TRUE, by |-> "none"]

(* Each name is as it is shown or as it was last synced; nothing is left   *)
(* below a shard whose entry is lost.                                      *)
PowerLoss ==
    \E kept \in SUBSET {l \in Shards : entry[l] = "made"}, current \in SUBSET Blobs :
        LET stays(l) == entry[l] = "durable" \/ l \in kept
            whole    == \A l \in Shards : stays(l)
            after(now, old, b) == IF ~whole THEN NoFile
                                  ELSE Remains(IF b \in current THEN now[b] ELSE old[b])
        IN /\ entry' = [l \in Shards |-> IF \A k \in 1..l : stays(k) THEN "durable" ELSE "none"]
           /\ temp' = [b \in Blobs |-> after(temp, disk.temp, b)]
           /\ target' = [b \in Blobs |-> after(target, disk.target, b)]
           /\ disk' = [temp |-> temp', target |-> target']
           /\ done' = IF whole THEN done ELSE {}
           /\ proc' = [p \in Procs |-> Idle]
           /\ UNCHANGED attempts

BSNext ==
    \/ \E p \in Procs :
        \/ \E b \in Blobs : Begin(p, b)
        \/ MakeShard(p) \/ UseShard(p) \/ CommitShard(p)
        \/ CreateTemp(p) \/ TempIsThere(p) \/ WriteTemp(p) \/ SyncTemp(p) \/ TempFails(p)
        \/ Publish(p) \/ TargetIsThere(p) \/ Commit(p) \/ CommitFails(p)
        \/ VerifyExisting(p) \/ ExistingFails(p) \/ Cleanup(p) \/ CleanupFails(p)
        \/ ReportBlob(p) \/ CallFails(p) \/ ProcessDies(p)
    \/ PowerLoss

BSSpec == BSInit /\ [][BSNext]_BSvars

(***************************************************************************)
(* Properties.                                                             *)
(***************************************************************************)
(* Nobody ever reads half a blob under its digest: whatever crashes, the   *)
(* target of a blob is all there, or is not the store's.                   *)
TargetIsWhole == \A b \in Blobs : target[b].data # "partial"

(* With its two shards on disk, a blob that was reported as persisted is   *)
(* there after any power loss.                                             *)
ShardsOnDisk == \A l \in Shards : entry[l] = "durable"
PersistedSurvives ==
    [][\A b \in done : ShardsOnDisk => target'[b].data = "whole"]_BSvars

(* Violated.  A reported blob survives every power loss: the shards of a   *)
(* blob are on disk when it is reported.                                   *)
PersistedIsDurable ==
    [][\A b \in done : target'[b].data = "whole"]_BSvars
=============================================================================
