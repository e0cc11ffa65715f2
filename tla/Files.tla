------------------------------- MODULE Files -------------------------------
(***************************************************************************)
(* Files shared in a meeting: FilesController and FilesService, which keep *)
(* a row in Postgres and the bytes on a disk, two stores and no            *)
(* transaction over them; the list a useMeetingFiles hook keeps; the panel *)
(* with its delete dialog, and the preview window.                         *)
(*                                                                         *)
(* A "page" here is one mounted hook: the badge of the toolbar has one for *)
(* as long as the page lives, the panel one for as long as it is open.     *)
(***************************************************************************)
EXTENDS Naturals

CONSTANTS
    Pages,
    Hosts,       \* pages of the host or of an administrator
    Files,       \* uploads
    MaxFaults,   \* bound: crashes of the process and connections lost
    MaxMounts,   \* bound: times the panels are opened
    MaxPreviews, \* bound: preview windows opened
    NoFile

ASSUME HostsAssumption ==
    Hosts \subseteq Pages /\ MaxFaults \in Nat /\ MaxMounts \in Nat
    /\ MaxPreviews \in Nat /\ NoFile \notin Files

VARIABLES
    rows,     \* meeting_files
    disk,     \* names under MEDIA_UPLOAD_DIR
    upload,   \* upload[f]: how far it is
    by,       \* by[f]: the page that uploads f
    conn,     \* the page's socket is in the room
    load,     \* load[p]: "none" (not mounted), "asked", "read", "done"
    answer,   \* the list on its way to the page
    list,     \* files of the hook
    dialog,   \* confirmDelete
    delete,   \* delete[p]: how far the request is
    preview,  \* the file whose preview window is open
    fetch,    \* previews requested, not answered and not cancelled
    blob,     \* blobUrl: the file whose bytes the window has
    faults, mounts, previews,  \* history: for the bounds
    torn,     \* history: files whose upload or delete stopped half way
    removed,  \* history: files whose deletion was broadcast
    gap       \* history: files with a broadcast the page was not attending

stores == <<rows, disk, upload, by, torn>>
room == <<conn, load, answer, list, gap>>
dialogs == <<dialog, delete>>
window == <<preview, fetch, blob>>
counts == <<faults, mounts, previews>>
vars == <<stores, room, dialogs, window, counts, removed>>

TypeOK ==
    /\ rows \subseteq Files /\ disk \subseteq Files /\ torn \subseteq Files
    /\ upload \in [Files -> {"new", "sent", "written", "failing", "stored", "shared", "failed"}]
    /\ by \in [Files -> Pages] /\ conn \in [Pages -> BOOLEAN]
    /\ load \in [Pages -> {"none", "asked", "read", "done"}]
    /\ answer \in [Pages -> SUBSET Files] /\ list \in [Pages -> SUBSET Files]
    /\ dialog \in [Pages -> Files \cup {NoFile}]
    /\ delete \in [Pages -> {"idle", "sent", "found", "unlinked", "removed"}]
    /\ preview \in [Pages -> Files \cup {NoFile}] /\ blob \in [Pages -> Files \cup {NoFile}]
    /\ fetch \in [Pages -> SUBSET Files]
    /\ faults \in 0 .. MaxFaults /\ mounts \in 0 .. MaxMounts /\ previews \in 0 .. MaxPreviews /\ removed \subseteq Files
    /\ gap \in [Pages -> SUBSET Files]

Each(x) == [p \in Pages |-> x]
Set(f, x, y) == [f EXCEPT ![x] = y]

Init ==
    /\ rows = {} /\ disk = {} /\ torn = {} /\ removed = {} /\ faults = 0 /\ mounts = 0 /\ previews = 0
    /\ upload = [f \in Files |-> "new"] /\ by \in [Files -> Pages]
    /\ conn = Each(TRUE) /\ load = Each("none") /\ answer = Each({}) /\ list = Each({})
    /\ gap = Each(Files) /\ dialog = Each(NoFile) /\ delete = Each("idle")
    /\ preview = Each(NoFile) /\ fetch = Each({}) /\ blob = Each(NoFile)

-----------------------------------------------------------------------------
(* Upload: write the bytes, create the row, broadcast.                      *)
Uploading(f, from, to) == upload[f] = from /\ upload' = Set(upload, f, to)

Submit(f) ==
    /\ Uploading(f, "new", "sent") /\ load[by[f]] # "none"
    /\ UNCHANGED <<rows, disk, by, torn, room, dialogs, window, counts, removed>>

Write(f) ==
    /\ Uploading(f, "sent", "written")
    /\ disk' = disk \cup {f}
    /\ UNCHANGED <<rows, by, torn, room, dialogs, window, counts, removed>>

WriteFails(f) ==
    /\ Uploading(f, "sent", "failed")
    /\ UNCHANGED <<rows, disk, by, torn, room, dialogs, window, counts, removed>>

CreateRow(f) ==
    /\ Uploading(f, "written", "stored")
    /\ rows' = rows \cup {f}
    /\ UNCHANGED <<disk, by, torn, room, dialogs, window, counts, removed>>

CreateFails(f) ==
    /\ Uploading(f, "written", "failing")
    /\ UNCHANGED <<rows, disk, by, torn, room, dialogs, window, counts, removed>>

(* The bytes go after the row has failed; when that fails too they stay.    *)
Undone_Never(f) == disk
Undone(f) == disk \ {f}

UndoWrite(f) ==
    /\ Uploading(f, "failing", "failed")
    /\ \/ disk' = Undone(f) /\ torn' = torn
       \/ disk' = disk /\ torn' = torn \cup {f}
    /\ UNCHANGED <<rows, by, room, dialogs, window, counts, removed>>

(* The list of the uploading page grows by this broadcast, too.             *)
Audience_Others(f) == {p \in Pages \ {by[f]} : conn[p] /\ load[p] # "none"}
Audience(f) == {p \in Pages : conn[p] /\ load[p] # "none"}

Missed(f) == [p \in Pages |->
    IF conn[p] /\ load[p] = "done" THEN gap[p] ELSE gap[p] \cup {f}]

Share(f) ==
    /\ Uploading(f, "stored", "shared")
    /\ list' = [p \in Pages |-> IF p \in Audience(f) THEN list[p] \cup {f} ELSE list[p]]
    /\ gap' = IF f \in removed THEN Each(Files) ELSE Missed(f)
    /\ UNCHANGED <<rows, disk, by, torn, conn, load, answer, dialogs, window, counts, removed>>

-----------------------------------------------------------------------------
(* The hook: mounted, it asks for the list, and the answer replaces what    *)
(* it has; unmounted, it forgets everything.                                *)
Mount(p) ==
    /\ load[p] = "none" /\ mounts < MaxMounts /\ mounts' = mounts + 1
    /\ load' = Set(load, p, "asked") /\ gap' = Set(gap, p, {})
    /\ UNCHANGED <<stores, conn, answer, list, dialogs, window, faults, previews, removed>>

ReadList(p) ==
    /\ load[p] = "asked"
    /\ load' = Set(load, p, "read") /\ answer' = Set(answer, p, rows)
    /\ UNCHANGED <<stores, conn, list, gap, dialogs, window, counts, removed>>

ListArrives(p) ==
    /\ load[p] = "read"
    /\ load' = Set(load, p, "done") /\ list' = Set(list, p, answer[p])
    /\ answer' = Set(answer, p, {})
    /\ UNCHANGED <<stores, conn, gap, dialogs, window, counts, removed>>

ListFails(p) ==
    /\ load[p] \in {"asked", "read"}
    /\ load' = Set(load, p, "done") /\ answer' = Set(answer, p, {})
    /\ gap' = Set(gap, p, Files)
    /\ UNCHANGED <<stores, conn, list, dialogs, window, counts, removed>>

Unmount(p) ==
    /\ load[p] # "none" /\ dialog[p] = NoFile /\ preview[p] = NoFile
    /\ load' = Set(load, p, "none") /\ list' = Set(list, p, {})
    /\ answer' = Set(answer, p, {}) /\ gap' = Set(gap, p, Files)
    /\ UNCHANGED <<stores, conn, dialogs, window, counts, removed>>

Drop(p) ==
    /\ conn[p] /\ faults < MaxFaults /\ faults' = faults + 1
    /\ conn' = Set(conn, p, FALSE)
    /\ UNCHANGED <<stores, load, answer, list, gap, dialogs, window, mounts, previews, removed>>

Return(p) ==
    /\ ~conn[p] /\ conn' = Set(conn, p, TRUE)
    /\ UNCHANGED <<stores, load, answer, list, gap, dialogs, window, counts, removed>>

-----------------------------------------------------------------------------
(* Delete: find the row, unlink the bytes, delete the row, broadcast.       *)
Deleting(p, from, to) == delete[p] = from /\ delete' = Set(delete, p, to)

AskDelete(p, f) ==
    /\ dialog[p] = NoFile /\ f \in list[p] /\ preview[p] = NoFile
    /\ p \in Hosts \/ by[f] = p
    /\ dialog' = Set(dialog, p, f)
    /\ UNCHANGED <<stores, room, delete, window, counts, removed>>

CancelDelete(p) ==
    /\ dialog[p] # NoFile /\ delete[p] = "idle"
    /\ dialog' = Set(dialog, p, NoFile)
    /\ UNCHANGED <<stores, room, delete, window, counts, removed>>

ConfirmDelete(p) ==
    /\ dialog[p] # NoFile /\ Deleting(p, "idle", "sent")
    /\ UNCHANGED <<stores, room, dialog, window, counts, removed>>

Find(p) ==
    /\ dialog[p] \in rows /\ Deleting(p, "sent", "found")
    /\ UNCHANGED <<stores, room, dialog, window, counts, removed>>

FindFails(p) ==
    /\ Deleting(p, "sent", "idle")
    /\ UNCHANGED <<stores, room, dialog, window, counts, removed>>

(* An unlink that fails is logged and forgotten.                            *)
Unlink(p) ==
    /\ Deleting(p, "found", "unlinked")
    /\ \/ disk' = disk \ {dialog[p]} /\ torn' = torn
       \/ disk' = disk /\ torn' = torn \cup {dialog[p]}
    /\ UNCHANGED <<rows, upload, by, room, dialog, window, counts, removed>>

(* The delete answers before anything else happens in the controller.       *)
RemoveRow(p) ==
    /\ dialog[p] \in rows /\ Deleting(p, "unlinked", "removed")
    /\ rows' = rows \ {dialog[p]}
    /\ UNCHANGED <<disk, upload, by, torn, room, dialog, window, counts, removed>>

(* The row is gone already, or the statement fails and the row outlives its *)
(* bytes.                                                                   *)
RemoveFails(p) ==
    /\ Deleting(p, "unlinked", "idle")
    /\ torn' = torn \cup ({dialog[p]} \cap rows)
    /\ UNCHANGED <<rows, disk, upload, by, room, dialog, window, counts, removed>>

Announced(p) == {q \in Pages : conn[q]}

AnnounceRemoval(p) ==
    /\ Deleting(p, "removed", "idle")
    /\ removed' = removed \cup {dialog[p]}
    /\ list' = [q \in Pages |->
          IF q \in Announced(p) \cup {p} THEN list[q] \ {dialog[p]} ELSE list[q]]
    /\ gap' = [Missed(dialog[p]) EXCEPT ![p] = IF load[p] = "done" THEN gap[p] ELSE @]
    /\ dialog' = Set(dialog, p, NoFile)
    /\ UNCHANGED <<stores, conn, load, answer, window, counts>>

-----------------------------------------------------------------------------
(* The preview window fetches the bytes; closing it cancels the request.    *)
OpenPreview(p, f) ==
    /\ preview[p] = NoFile /\ dialog[p] = NoFile /\ f \in list[p]
    /\ previews < MaxPreviews /\ previews' = previews + 1
    /\ preview' = Set(preview, p, f)
    /\ fetch' = Set(fetch, p, fetch[p] \cup {f})
    /\ UNCHANGED <<stores, room, dialogs, blob, faults, mounts, removed>>

Cancelled_Never(requests) == requests
Cancelled(requests) == {}

ClosePreview(p) ==
    /\ preview[p] # NoFile
    /\ preview' = Set(preview, p, NoFile) /\ blob' = Set(blob, p, NoFile)
    /\ fetch' = Set(fetch, p, Cancelled(fetch[p]))
    /\ UNCHANGED <<stores, room, dialogs, counts, removed>>

(* Bytes come only for a row that still has some.                           *)
BlobArrives(p, f) ==
    /\ f \in fetch[p]
    /\ fetch' = Set(fetch, p, fetch[p] \ {f})
    /\ blob' = IF f \in rows \cap disk THEN Set(blob, p, f) ELSE blob
    /\ UNCHANGED <<stores, room, dialogs, preview, counts, removed>>

-----------------------------------------------------------------------------
(* The process dies; uploads and deletes stop where they are.               *)
Interrupted ==
    {f \in Files : upload[f] \in {"written", "failing"}}
        \cup {dialog[p] : p \in {q \in Pages : delete[q] = "unlinked"}}

Crash ==
    /\ faults < MaxFaults /\ faults' = faults + 1
    /\ torn' = torn \cup Interrupted
    /\ upload' = [f \in Files |->
          IF upload[f] \in {"sent", "written", "failing", "stored"} THEN "failed" ELSE upload[f]]
    /\ conn' = Each(FALSE) /\ delete' = Each("idle")
    /\ load' = [p \in Pages |-> IF load[p] \in {"asked", "read"} THEN "done" ELSE load[p]]
    /\ answer' = Each({})
    /\ gap' = [p \in Pages |-> IF load[p] = "done"
          THEN gap[p] \cup {f \in Files : upload[f] = "stored"}
                      \cup {dialog[q] : q \in {r \in Pages : delete[r] = "removed"}}
          ELSE Files]
    /\ UNCHANGED <<rows, disk, by, list, dialog, window, mounts, previews, removed>>

Next ==
    \/ \E f \in Files :
        \/ Submit(f) \/ Write(f) \/ WriteFails(f)
        \/ CreateRow(f) \/ CreateFails(f) \/ UndoWrite(f) \/ Share(f)
    \/ \E p \in Pages :
        \/ Mount(p) \/ ReadList(p) \/ ListArrives(p) \/ ListFails(p) \/ Unmount(p)
        \/ Drop(p) \/ Return(p)
        \/ CancelDelete(p) \/ ConfirmDelete(p) \/ Find(p) \/ FindFails(p)
        \/ Unlink(p) \/ RemoveRow(p) \/ RemoveFails(p) \/ AnnounceRemoval(p)
        \/ ClosePreview(p)
        \/ \E f \in Files : AskDelete(p, f) \/ OpenPreview(p, f) \/ BlobArrives(p, f)
    \/ Crash

Spec == Init /\ [][Next]_vars

-----------------------------------------------------------------------------
(* Row and bytes agree except in the middle of an upload or a delete, or    *)
(* where one was cut off half way: no file is offered that cannot be        *)
(* fetched, and a failed upload leaves no bytes behind.                     *)
InTransit(f) ==
    \/ upload[f] \in {"written", "failing"}
    \/ \E p \in Pages : dialog[p] = f /\ delete[p] = "unlinked"

RowsHaveBytes == \A f \in Files : (f \in rows) # (f \in disk) => InTransit(f) \/ f \in torn

(* A page that attended every broadcast about a file shows it from the      *)
(* upload's broadcast to the deletion's, and not afterwards, whatever its   *)
(* own requests and the other pages' did in the meantime.                   *)
ListsFollow ==
    \A p \in Pages : load[p] = "done" =>
        \A f \in Files \ gap[p] :
            /\ upload[f] = "shared" /\ f \notin removed /\ f \in rows => f \in list[p]
            /\ f \in removed => f \notin list[p]

(* The preview window never shows the bytes of another file than its title  *)
(* says, and never any that come after it was closed.                       *)
PreviewShowsItsFile == \A p \in Pages : blob[p] \in {preview[p], NoFile}
=============================================================================
