--------------------------- MODULE PhotoRetention ---------------------------
(***************************************************************************)
(* Photos on the private volume and their rows in the table files          *)
(* (uploads/storage.py): an upload writes the image before its row is      *)
(* committed, a confirmation moves the deadline, a deletion removes the    *)
(* image before the commit, and the worker's purge removes what is due,    *)
(* image by image, and marks all rows in one commit.                       *)
(*                                                                         *)
(* A photo is known by its random name.  Time is counted in days.          *)
(***************************************************************************)
EXTENDS Naturals

CONSTANTS
    Photos,
    UnconfirmedDays,  \* unconfirmed_retention_days
    ConfirmedDays,    \* confirmed_retention_days
    MaxTime,          \* bound: the days modelled
    MaxMishaps        \* bound: crashes, rollbacks and unlinks that fail

ASSUME RetentionAssumption ==
    /\ UnconfirmedDays \in Nat /\ ConfirmedDays \in Nat
    /\ MaxTime \in Nat /\ MaxMishaps \in Nat

VARIABLES
    disk,      \* the images on the volume
    file,      \* files row: "none", "kept" (has a path), "tombstone", "removed"
    due,       \* files.delete_after
    item,      \* the request that is at work on each photo's receipt or capture
    purge,     \* the worker's purge: rows selected, rows it will mark
    now,
    adrift,    \* history: images a rollback or a failed unlink left behind
    mishaps

photoVars == <<disk, file, due, item, purge, now, adrift, mishaps>>

NoPurge == [on |-> FALSE, left |-> {}, gone |-> {}]
Requests == {"none", "uploading", "confirming", "deleting"}

PhotoInit ==
    /\ disk = {}
    /\ file = [p \in Photos |-> "none"]
    /\ due = [p \in Photos |-> 0]
    /\ item = [p \in Photos |-> "none"]
    /\ purge = NoPurge
    /\ now = 0
    /\ adrift = {}
    /\ mishaps = 0

Mishap ==
    /\ mishaps < MaxMishaps
    /\ mishaps' = mishaps + 1

Do(p, r) == item' = [item EXCEPT ![p] = r]
Mark(p, s) == file' = [file EXCEPT ![p] = s]

-----------------------------------------------------------------------------
(* Uploads, confirmations, deletions *)

\* save_image(): the image is written, the row only flushed.
SaveImage(p) ==
    /\ file[p] = "none" /\ p \notin disk
    /\ item[p] = "none"
    /\ disk' = disk \union {p}
    /\ due' = [due EXCEPT ![p] = now + UnconfirmedDays]
    /\ Do(p, "uploading")
    /\ UNCHANGED <<file, purge, now, adrift, mishaps>>

\* The commit of create_capture() or create_from_upload().
CommitUpload(p) ==
    /\ item[p] = "uploading"
    /\ Mark(p, "kept")
    /\ Do(p, "none")
    /\ UNCHANGED <<disk, due, purge, now, adrift, mishaps>>

\* The transaction is rolled back, or the process dies: no row names the image.
LoseUpload(p) ==
    /\ item[p] = "uploading"
    /\ Mishap
    /\ adrift' = adrift \union {p}
    /\ Do(p, "none")
    /\ UNCHANGED <<disk, file, due, purge, now>>

\* confirm_receipt(), confirm_capture(): the row is loaded, not yet deleted ...
OpenConfirm(p) ==
    /\ file[p] = "kept"
    /\ item[p] = "none"
    /\ Do(p, "confirming")
    /\ UNCHANGED <<disk, file, due, purge, now, adrift, mishaps>>

\* ... and gets its new deadline: schedule_deletion().
SaveConfirm(p) ==
    /\ item[p] = "confirming"
    /\ due' = [due EXCEPT ![p] = now + ConfirmedDays]
    /\ Do(p, "none")
    /\ UNCHANGED <<disk, file, purge, now, adrift, mishaps>>

KeepOnDisk(p) == UNCHANGED <<disk, adrift, mishaps>>         \* mutant: never unlinked
\* remove_from_disk(): an unlink that fails is logged.
RemoveFromDisk(p) ==
    \/ disk' = disk \ {p} /\ UNCHANGED <<adrift, mishaps>>
    \/ p \in disk /\ Mishap /\ adrift' = adrift \union {p} /\ UNCHANGED disk

\* delete_receipt(), delete_capture() up to the commit.
OpenDelete(p) ==
    /\ file[p] = "kept"
    /\ item[p] = "none"
    /\ RemoveFromDisk(p)
    /\ Do(p, "deleting")
    /\ UNCHANGED <<file, due, purge, now>>

\* The commit: the row goes, whether or not the image did.
CommitDelete(p) ==
    /\ item[p] = "deleting"
    /\ Mark(p, "removed")
    /\ Do(p, "none")
    /\ UNCHANGED <<disk, due, purge, now, adrift, mishaps>>

\* The request ends without its commit.
DropRequest(p) ==
    /\ item[p] \in {"confirming", "deleting"}
    /\ Mishap
    /\ Do(p, "none")
    /\ UNCHANGED <<disk, file, due, purge, now, adrift>>

-----------------------------------------------------------------------------
(* purge_due_files(), called by the worker's housekeeping() *)

DuePhotos == {p \in Photos : file[p] = "kept" /\ due[p] <= now}

SelectDue ==
    /\ purge = NoPurge
    /\ DuePhotos # {}
    /\ purge' = [on |-> TRUE, left |-> DuePhotos, gone |-> {}]
    /\ UNCHANGED <<disk, file, due, item, now, adrift, mishaps>>

\* unlink(missing_ok=True)
UnlinksStrictly(p) == p \in disk /\ disk' = disk \ {p}        \* mutant: no missing_ok
Unlinks(p) == disk' = disk \ {p}

Unlink(p) ==
    /\ p \in purge.left
    /\ Unlinks(p)
    /\ purge' = [purge EXCEPT !.left = @ \ {p}, !.gone = @ \union {p}]
    /\ UNCHANGED <<file, due, item, now, adrift, mishaps>>

MarkAnyway(p) == [purge EXCEPT !.left = @ \ {p},              \* mutant: no continue
                               !.gone = @ \union {p}]
\* The unlink fails: `continue`, and the row stays for the next purge.
Skip(p) == [purge EXCEPT !.left = @ \ {p}]

UnlinkFails(p) ==
    /\ p \in purge.left \intersect disk
    /\ Mishap
    /\ purge' = Skip(p)
    /\ UNCHANGED <<disk, file, due, item, now, adrift>>

\* One commit for all rows.  If one of them was deleted meanwhile, its update
\* matches no row, nothing is marked, and the exception ends the worker.
CommitPurge ==
    /\ purge.on /\ purge.left = {}
    /\ file' = IF \E p \in purge.gone : file[p] = "removed" THEN file
               ELSE [p \in Photos |-> IF p \in purge.gone THEN "tombstone" ELSE file[p]]
    /\ purge' = NoPurge
    /\ UNCHANGED <<disk, due, item, now, adrift, mishaps>>

\* The worker dies between two unlinks or before the commit.
Die ==
    /\ purge.on
    /\ Mishap
    /\ purge' = NoPurge
    /\ UNCHANGED <<disk, file, due, item, now, adrift>>

Tick ==
    /\ now < MaxTime
    /\ now' = now + 1
    /\ UNCHANGED <<disk, file, due, item, purge, adrift, mishaps>>

\* The days modelled are over.
AtRest == now = MaxTime /\ UNCHANGED photoVars

-----------------------------------------------------------------------------
Purge == SelectDue \/ (\E p \in Photos : Unlink(p) \/ UnlinkFails(p)) \/ CommitPurge

PhotoNext ==
    \/ \E p \in Photos :
        \/ SaveImage(p) \/ CommitUpload(p) \/ LoseUpload(p)
        \/ OpenConfirm(p) \/ SaveConfirm(p)
        \/ OpenDelete(p) \/ CommitDelete(p) \/ DropRequest(p)
    \/ Purge
    \/ Die
    \/ Tick
    \/ AtRest

PhotoSpec == PhotoInit /\ [][PhotoNext]_photoVars

\* Days pass and the worker does its housekeeping every hour, restarted when
\* it dies.
FairPhotoSpec == PhotoSpec /\ WF_photoVars(Tick) /\ WF_photoVars(Purge)

-----------------------------------------------------------------------------
\* Every variable keeps its type; what a purge has at hand was kept when it
\* was selected, and at most deleted since.
RetentionTypeOK ==
    /\ disk \in SUBSET Photos
    /\ file \in [Photos -> {"none", "kept", "tombstone", "removed"}]
    /\ due \in [Photos -> Nat]
    /\ item \in [Photos -> Requests]
    /\ purge \in [on : BOOLEAN, left : SUBSET Photos, gone : SUBSET Photos]
    /\ \A p \in purge.left \union purge.gone : file[p] \in {"kept", "removed"}
    /\ now \in Nat /\ mishaps \in Nat
    /\ adrift \in SUBSET Photos

\* A row that says the image was deleted tells the truth, however many images
\* could not be removed and whatever died in between.
TombstoneIsTrue == \A p \in Photos : file[p] = "tombstone" => p \notin disk

\* An image stays on the volume without a row that leads the purge to it only
\* after a rollback of its upload or a failed unlink of its deletion.
DiskIsKnown ==
    \A p \in disk : file[p] = "kept" \/ item[p] = "uploading" \/ p \in adrift

\* What is due is purged, the rows whose image went in a purge that died or
\* in a deletion that was rolled back included, unless it is given more time.
DueIsPurged ==
    \A p \in Photos :
        (file[p] = "kept" /\ due[p] <= now) ~> (file[p] # "kept" \/ due[p] > now)
=============================================================================
