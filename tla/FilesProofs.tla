---------------------------- MODULE FilesProofs ----------------------------
(***************************************************************************)
(* Files, for any pages, hosts, files and number of faults: the preview    *)
(* shows the bytes of its own file, row and bytes agree except where the   *)
(* module says, and a list follows the broadcasts that its page attends.   *)
(***************************************************************************)
EXTENDS Files, TLAPS

(* A preview window that is open has asked for its own file and no other;   *)
(* one that is closed waits for nothing and holds nothing.                  *)
WindowInv ==
    /\ preview \in [Pages -> Files \cup {NoFile}]
    /\ blob \in [Pages -> Files \cup {NoFile}]
    /\ fetch \in [Pages -> SUBSET Files]
    /\ \A p \in Pages : fetch[p] \subseteq {preview[p]}
    /\ PreviewShowsItsFile

LEMMA WindowInit == Init => WindowInv
BY DEF Init, WindowInv, PreviewShowsItsFile, Each

LEMMA WindowStep == WindowInv /\ [Next]_vars => WindowInv'
<1> SUFFICES ASSUME WindowInv, [Next]_vars PROVE WindowInv'
    OBVIOUS
<1> USE HostsAssumption DEF WindowInv, PreviewShowsItsFile, Set
<1>1. ASSUME NEW p \in Pages, NEW f \in Files, OpenPreview(p, f) PROVE WindowInv'
    BY <1>1 DEF OpenPreview
<1>2. ASSUME NEW p \in Pages, ClosePreview(p) PROVE WindowInv'
    BY <1>2 DEF ClosePreview, Cancelled
<1>3. ASSUME NEW p \in Pages, NEW f \in Files, BlobArrives(p, f) PROVE WindowInv'
    <2>1. f = preview[p]
        BY <1>3 DEF BlobArrives
    <2>2. CASE blob' = blob
        BY <1>3, <2>2 DEF BlobArrives
    <2>3. CASE blob' = [blob EXCEPT ![p] = f]
        BY <1>3, <2>1, <2>3 DEF BlobArrives
    <2> QED BY <1>3, <2>2, <2>3 DEF BlobArrives
<1>4. CASE UNCHANGED window
    BY <1>4 DEF window
<1> QED
    BY <1>1, <1>2, <1>3, <1>4 DEF Next, vars, Submit, Write, WriteFails, CreateRow, CreateFails,
       UndoWrite, Share, Mount, ReadList, ListArrives, ListFails, Unmount, Drop, Return,
       AskDelete, CancelDelete, ConfirmDelete, Find, FindFails, Unlink, RemoveRow, RemoveFails,
       AnnounceRemoval, Crash

(* FilePreviewModal cancels its request when it closes: the window shows the *)
(* bytes of the file in its title or none.                                  *)
THEOREM PreviewsTrue == Spec => []PreviewShowsItsFile
<1>1. WindowInv => PreviewShowsItsFile
    BY DEF WindowInv
<1> QED BY <1>1, WindowInit, WindowStep, PTL DEF Spec

-----------------------------------------------------------------------------
(* Nothing but an upload's own statements touches its file before its row   *)
(* is there: a page can only list, and so delete, what has had a row.       *)
Early == {"new", "sent", "written", "failing"}

ShapeInv ==
    /\ upload \in [Files -> Early \cup {"stored", "shared", "failed"}]
    /\ list \in [Pages -> SUBSET Files]
    /\ answer \in [Pages -> SUBSET Files]
    /\ dialog \in [Pages -> Files \cup {NoFile}]
    /\ delete \in [Pages -> {"idle", "sent", "found", "unlinked", "removed"}]
    /\ rows \subseteq Files /\ disk \subseteq Files /\ torn \subseteq Files

HadRow == {f \in Files : upload[f] \notin Early}

StoresInv ==
    /\ rows \subseteq HadRow
    /\ \A p \in Pages : list[p] \subseteq HadRow
    /\ \A p \in Pages : answer[p] \subseteq HadRow
    /\ \A p \in Pages : dialog[p] \in HadRow \cup {NoFile}
    /\ \A p \in Pages : delete[p] # "idle" => dialog[p] # NoFile
    /\ \A f \in Files : upload[f] \in {"new", "sent"} => f \notin disk
    /\ \A f \in Files : upload[f] \in {"written", "failing"} => f \in disk
    /\ \A p \in Pages : delete[p] = "unlinked" => dialog[p] \notin disk \/ dialog[p] \in torn
    /\ RowsHaveBytes

FilesInv == ShapeInv /\ StoresInv

LEMMA FilesInit == Init => FilesInv
BY DEF Init, FilesInv, ShapeInv, StoresInv, HadRow, Early, RowsHaveBytes, Each

(* The statements of an upload.                                             *)
LEMMA UploadStep ==
    ASSUME FilesInv, NEW f \in Files,
           Submit(f) \/ Write(f) \/ WriteFails(f) \/ CreateRow(f) \/ CreateFails(f)
             \/ UndoWrite(f) \/ Share(f)
    PROVE  FilesInv'
<1> USE DEF FilesInv, ShapeInv, StoresInv, HadRow, Early, RowsHaveBytes, InTransit, Uploading, Set,
            room, dialogs
<1>1. CASE Submit(f)
    BY <1>1 DEF Submit
<1>2. CASE Write(f)
    BY <1>2, HostsAssumption DEF Write
<1>3. CASE WriteFails(f)
    BY <1>3 DEF WriteFails
<1>4. CASE CreateRow(f)
    BY <1>4 DEF CreateRow
<1>5. CASE CreateFails(f)
    BY <1>5 DEF CreateFails
<1>6. CASE UndoWrite(f)
    BY <1>6 DEF UndoWrite, Undone
<1>7. CASE Share(f)
    BY <1>7 DEF Share
<1> QED BY <1>1, <1>2, <1>3, <1>4, <1>5, <1>6, <1>7

(* The hook's list, and the dialog up to the request.                       *)
LEMMA PageStep ==
    ASSUME FilesInv, NEW p \in Pages,
           \/ Mount(p) \/ ReadList(p) \/ ListArrives(p) \/ ListFails(p) \/ Unmount(p)
           \/ CancelDelete(p) \/ ConfirmDelete(p) \/ Find(p) \/ FindFails(p)
           \/ \E f \in Files : AskDelete(p, f)
    PROVE  FilesInv'
<1> USE DEF FilesInv, ShapeInv, StoresInv, HadRow, Early, RowsHaveBytes, InTransit, Deleting, Set,
            stores, room, dialogs
<1>1. CASE Mount(p)
    BY <1>1 DEF Mount
<1>2. CASE ReadList(p)
    BY <1>2 DEF ReadList
<1>3. CASE ListArrives(p)
    BY <1>3 DEF ListArrives
<1>4. CASE ListFails(p) \/ Unmount(p)
    BY <1>4 DEF ListFails, Unmount
<1>5. CASE CancelDelete(p)
    BY <1>5 DEF CancelDelete
<1>6. CASE ConfirmDelete(p) \/ Find(p) \/ FindFails(p)
    BY <1>6 DEF ConfirmDelete, Find, FindFails
<1>7. ASSUME NEW f \in Files, AskDelete(p, f) PROVE FilesInv'
    BY <1>7 DEF AskDelete
<1> QED BY <1>1, <1>2, <1>3, <1>4, <1>5, <1>6, <1>7

(* The statements of a deletion.                                            *)
LEMMA DeleteStep ==
    ASSUME FilesInv, NEW p \in Pages,
           Unlink(p) \/ RemoveRow(p) \/ RemoveFails(p) \/ AnnounceRemoval(p)
    PROVE  FilesInv'
<1> USE DEF FilesInv, ShapeInv, StoresInv, HadRow, Early, RowsHaveBytes, InTransit, Deleting, Set,
            stores, room
<1>1. CASE Unlink(p)
    BY <1>1, HostsAssumption DEF Unlink
<1>2. CASE RemoveRow(p)
    BY <1>2, HostsAssumption DEF RemoveRow
<1>3. CASE RemoveFails(p)
    BY <1>3, HostsAssumption DEF RemoveFails
<1>4. CASE AnnounceRemoval(p)
    BY <1>4, HostsAssumption DEF AnnounceRemoval
<1> QED BY <1>1, <1>2, <1>3, <1>4

LEMMA CrashStep == ASSUME FilesInv, Crash PROVE FilesInv'
BY HostsAssumption DEF FilesInv, ShapeInv, StoresInv, HadRow, Early, RowsHaveBytes, InTransit,
   Crash, Interrupted, Each

LEMMA FilesStep == FilesInv /\ [Next]_vars => FilesInv'
<1> SUFFICES ASSUME FilesInv, [Next]_vars PROVE FilesInv'
    OBVIOUS
<1>1. CASE UNCHANGED <<stores, list, answer, dialogs>>
    BY <1>1 DEF FilesInv, ShapeInv, StoresInv, HadRow, RowsHaveBytes, InTransit, stores, dialogs
<1> QED
    BY <1>1, UploadStep, PageStep, DeleteStep, CrashStep DEF Next, vars, room, Drop, Return,
       OpenPreview, ClosePreview, BlobArrives

(* create unlinks what it wrote when the row fails, remove unlinks before it *)
(* deletes the row: however requests, failures and crashes are mixed, row   *)
(* and bytes differ only inside a request or where one was torn.            *)
THEOREM StoresAgree == Spec => []RowsHaveBytes
<1>1. FilesInv => RowsHaveBytes
    BY DEF FilesInv, StoresInv
<1> QED BY <1>1, FilesInit, FilesStep, PTL DEF Spec

-----------------------------------------------------------------------------
(* What a page has of a file whose broadcasts it has all attended: the list *)
(* on its way shows what the rows showed, for a row that is gone does not   *)
(* come back, and a broadcast that comes before the answer is a gap.        *)
Told(f, shown) ==
    /\ upload[f] = "shared" /\ f \in rows => f \in shown
    /\ f \in removed => f \notin shown

FollowInv ==
    /\ load \in [Pages -> {"none", "asked", "read", "done"}]
    /\ gap \in [Pages -> SUBSET Files]
    /\ removed \subseteq HadRow /\ removed \cap rows = {}
    /\ \A p \in Pages : delete[p] = "removed" => dialog[p] \notin rows
    /\ \A p \in Pages : load[p] = "read" => \A f \in Files \ gap[p] : Told(f, answer[p])
    /\ \A p \in Pages : load[p] = "done" => \A f \in Files \ gap[p] : Told(f, list[p])

LEMMA FollowInit == Init => FollowInv
    BY DEF Init, FollowInv, HadRow, Each

(* Where no broadcast is made and no list is replaced.                      *)
LEMMA RowsChange ==
    ASSUME FilesInv, FilesInv', FollowInv,
           UNCHANGED <<load, gap, list, removed>>,
           HadRow \subseteq HadRow', rows' \subseteq rows \cup (Files \ HadRow),
           \A f \in Files : upload'[f] = "shared" => upload[f] = "shared",
           \A p \in Pages : load[p] = "read" => answer'[p] = answer[p],
           \A p \in Pages : delete'[p] = "removed" => dialog'[p] \notin rows'
    PROVE  FollowInv'
    <1>1. \A f \in Files : upload'[f] = "shared" /\ f \in rows' => upload[f] = "shared" /\ f \in rows
        BY DEF FilesInv, ShapeInv, HadRow, Early
    <1>2. \A f \in removed : f \notin rows' /\ f \in HadRow'
        BY DEF FollowInv
    <1>3. \A f \in Files, shown \in SUBSET Files : Told(f, shown) => Told(f, shown)'
        BY <1>1 DEF Told
    <1>. QED  BY <1>1, <1>2, <1>3 DEF FollowInv, Told

(* The list is asked for, read and shown.                                   *)
LEMMA ListStep ==
    ASSUME FilesInv, FollowInv, NEW p \in Pages,
           Mount(p) \/ ReadList(p) \/ ListArrives(p) \/ ListFails(p) \/ Unmount(p)
    PROVE  FollowInv'
    <1>1. UNCHANGED <<rows, upload, removed, dialog, delete, HadRow>>
        BY DEF Mount, ReadList, ListArrives, ListFails, Unmount, stores, dialogs, HadRow
    <1>2. /\ load \in [Pages -> {"none", "asked", "read", "done"}]
          /\ gap \in [Pages -> SUBSET Files]
          /\ list \in [Pages -> SUBSET Files] /\ answer \in [Pages -> SUBSET Files]
        BY DEF FilesInv, ShapeInv, FollowInv
    <1>3. \A f, shown : Told(f, shown)' <=> Told(f, shown)
        BY <1>1 DEF Told
    <1>4. /\ load' \in [Pages -> {"none", "asked", "read", "done"}]
          /\ gap' \in [Pages -> SUBSET Files]
          /\ \A q \in Pages \ {p} : UNCHANGED <<load[q], gap[q], list[q], answer[q]>>
        BY <1>2 DEF Mount, ReadList, ListArrives, ListFails, Unmount, Set
    <1>5. CASE Mount(p) \/ Unmount(p)
        <2>1. load'[p] \in {"asked", "none"}
            BY <1>2, <1>5 DEF Mount, Unmount, Set
        <2>. QED  BY <1>1, <1>3, <1>4, <2>1 DEF FollowInv, Told
    <1>6. CASE ReadList(p)
        <2>1. load'[p] = "read" /\ answer'[p] = rows
            BY <1>2, <1>6 DEF ReadList, Set
        <2>2. \A f \in Files : Told(f, rows)'
            BY <1>1 DEF Told, FollowInv
        <2>. QED  BY <1>1, <1>3, <1>4, <2>1, <2>2 DEF FollowInv, Told
    <1>7. CASE ListArrives(p)
        <2>1. load[p] = "read" /\ load'[p] = "done" /\ list'[p] = answer[p] /\ gap'[p] = gap[p]
            BY <1>2, <1>7 DEF ListArrives, Set
        <2>. QED  BY <1>1, <1>3, <1>4, <2>1 DEF FollowInv, Told
    <1>8. CASE ListFails(p)
        <2>1. gap'[p] = Files
            BY <1>2, <1>8 DEF ListFails, Set
        <2>. QED  BY <1>1, <1>3, <1>4, <2>1 DEF FollowInv, Told
    <1>. QED  BY <1>5, <1>6, <1>7, <1>8

(* A broadcast of f: an open list that attends it changes as it says, any   *)
(* other has a gap.                                                         *)
LEMMA BroadcastStep ==
    ASSUME FilesInv, FilesInv', FollowInv, NEW f \in Files, NEW attends \in SUBSET Pages,
           UNCHANGED <<rows, load, answer>>,
           HadRow \subseteq HadRow',
           \A g \in Files \ {f} : (upload'[g] = "shared" <=> upload[g] = "shared"),
           removed' \subseteq removed \cup ({f} \ rows), removed' \subseteq HadRow',
           gap' \in [Pages -> SUBSET Files],
           \A p \in Pages : gap[p] \subseteq gap'[p],
           \A p \in Pages : f \in gap'[p] \/ (p \in attends /\ load[p] = "done"),
           \A p \in Pages : list'[p] \ {f} = list[p] \ {f},
           \A p \in attends : Told(f, list[p])',
           \A p \in Pages : delete'[p] = "removed" => dialog'[p] \notin rows'
    PROVE  FollowInv'
    <1>1. \A p \in Pages, g \in Files \ {f} :
              /\ Told(g, answer[p]) => Told(g, answer[p])'
              /\ Told(g, list[p]) => Told(g, list[p])'
        BY DEF Told
    <1>2. removed' \subseteq HadRow' /\ removed' \cap rows' = {}
        BY DEF FollowInv
    <1>3. ASSUME NEW p \in Pages, load'[p] = "read", NEW g \in Files \ gap'[p]
          PROVE  Told(g, answer[p])'
        <2>1. g # f /\ g \notin gap[p]
            BY <1>3
        <2>. QED  BY <1>1, <1>3, <2>1 DEF FollowInv
    <1>4. ASSUME NEW p \in Pages, load'[p] = "done", NEW g \in Files \ gap'[p]
          PROVE  Told(g, list[p])'
        <2>1. CASE g = f
            BY <2>1
        <2>2. CASE g # f
            <3>1. g \notin gap[p]
                OBVIOUS
            <3>. QED  BY <1>1, <1>4, <2>2, <3>1 DEF FollowInv
        <2>. QED  BY <2>1, <2>2
    <1>. QED  BY <1>2, <1>3, <1>4 DEF FollowInv

LEMMA ShareStep ==
    ASSUME FilesInv, FilesInv', FollowInv, NEW f \in Files, Share(f)
    PROVE  FollowInv'
    <1>. DEFINE attends == IF f \in removed THEN {} ELSE {p \in Pages : conn[p] /\ load[p] = "done"}
    <1>1. UNCHANGED <<rows, load, answer, removed, dialog, delete>>
        BY DEF Share, dialogs
    <1>2. /\ upload \in [Files -> Early \cup {"stored", "shared", "failed"}]
          /\ list \in [Pages -> SUBSET Files]
          /\ gap \in [Pages -> SUBSET Files]
        BY DEF FilesInv, ShapeInv, FollowInv
    <1>3. /\ \A g \in Files \ {f} : upload'[g] = upload[g]
          /\ upload[f] = "stored" /\ upload'[f] = "shared"
        BY <1>2 DEF Share, Uploading, Set
    <1>4. HadRow' = HadRow
        BY <1>3 DEF HadRow, Early
    <1>5. \A p \in Pages : list'[p] \ {f} = list[p] \ {f} /\ (p \in attends => f \in list'[p])
        BY <1>2 DEF Share, Audience
    <1>6. /\ gap' \in [Pages -> SUBSET Files]
          /\ \A p \in Pages : gap[p] \subseteq gap'[p]
          /\ \A p \in Pages : f \in gap'[p] \/ (p \in attends /\ load[p] = "done")
        BY <1>2 DEF Share, Each, Missed
    <1>7. \A p \in attends : f \notin removed /\ p \in Pages /\ f \in list'[p]
        BY <1>5
    <1>8. \A p \in attends : Told(f, list[p])'
        BY <1>1, <1>7 DEF Told
    <1>9. removed' \subseteq HadRow'
        BY <1>1, <1>4 DEF FollowInv
    <1>10. \A p \in Pages : delete'[p] = "removed" => dialog'[p] \notin rows'
        BY <1>1 DEF FollowInv
    <1>11. attends \in SUBSET Pages
        OBVIOUS
    <1>. HIDE DEF attends
    <1>. QED
        BY <1>1, <1>3, <1>4, <1>5, <1>6, <1>8, <1>9, <1>10, <1>11, BroadcastStep

LEMMA AnnounceStep ==
    ASSUME FilesInv, FilesInv', FollowInv, NEW p \in Pages, AnnounceRemoval(p)
    PROVE  FollowInv'
    <1>. DEFINE f == dialog[p]
                attends == {q \in Pages : (conn[q] \/ q = p) /\ load[q] = "done"}
    <1>1. /\ UNCHANGED <<rows, load, answer, upload, HadRow>>
          /\ removed' = removed \cup {f} /\ delete[p] = "removed"
        BY DEF AnnounceRemoval, stores, Deleting, HadRow
    <1>2. /\ list \in [Pages -> SUBSET Files] /\ gap \in [Pages -> SUBSET Files]
          /\ dialog \in [Pages -> Files \cup {NoFile}]
          /\ delete \in [Pages -> {"idle", "sent", "found", "unlinked", "removed"}]
        BY DEF FilesInv, ShapeInv, FollowInv
    <1>3. f \in Files /\ f \in HadRow /\ f \notin rows
        BY <1>1, <1>2 DEF FilesInv, StoresInv, FollowInv
    <1>4. \A q \in Pages :
              list'[q] = IF conn[q] \/ q = p THEN list[q] \ {f} ELSE list[q]
        BY <1>2 DEF AnnounceRemoval, Announced
    <1>5. \A q \in Pages : list'[q] \ {f} = list[q] \ {f} /\ (q \in attends => f \notin list'[q])
        BY <1>4
    <1>6. /\ gap' \in [Pages -> SUBSET Files]
          /\ \A q \in Pages : gap[q] \subseteq gap'[q]
          /\ \A q \in Pages : f \in gap'[q] \/ (q \in attends /\ load[q] = "done")
        BY <1>2, <1>3 DEF AnnounceRemoval, Missed
    <1>7. \A q \in attends : q \in Pages /\ f \notin list'[q]
        BY <1>5
    <1>8. \A q \in Pages : delete'[q] = "removed" => dialog'[q] \notin rows'
        <2>1. \A q \in Pages \ {p} : delete'[q] = delete[q] /\ dialog'[q] = dialog[q]
            BY <1>2 DEF AnnounceRemoval, Deleting, Set
        <2>2. delete'[p] = "idle"
            BY <1>2 DEF AnnounceRemoval, Deleting, Set
        <2>. QED  BY <1>1, <2>1, <2>2 DEF FollowInv
    <1>9. PICK x \in Files : x = f
        BY <1>3
    <1>10. \A q \in attends : Told(x, list[q])'
        BY <1>1, <1>3, <1>7, <1>9 DEF Told
    <1>11. removed' \subseteq HadRow' /\ removed' \subseteq removed \cup ({x} \ rows)
        BY <1>1, <1>3, <1>9 DEF FollowInv
    <1>12. attends \in SUBSET Pages
        OBVIOUS
    <1>. HIDE DEF f, attends
    <1>. QED
        BY <1>1, <1>5, <1>6, <1>8, <1>9, <1>10, <1>11, <1>12, BroadcastStep

(* A crash ends every request: a list on its way is a gap, and so is what   *)
(* was about to be broadcast.                                               *)
LEMMA FollowCrash ==
    ASSUME FilesInv, FilesInv', FollowInv, Crash
    PROVE  FollowInv'
    <1>1. /\ UNCHANGED <<rows, list, removed>> /\ HadRow \subseteq HadRow'
          /\ \A f \in Files : upload'[f] = "shared" => upload[f] = "shared"
          /\ \A p \in Pages : delete'[p] = "idle"
        BY DEF Crash, HadRow, Early, Each, FilesInv, ShapeInv
    <1>2. \A f \in Files, shown \in SUBSET Files : Told(f, shown) => Told(f, shown)'
        BY <1>1 DEF Told
    <1>3. /\ load' \in [Pages -> {"none", "done"}]
          /\ \A p \in Pages : load'[p] = "done" =>
                (load[p] = "done" /\ gap[p] \subseteq gap'[p]) \/ gap'[p] = Files
        BY DEF Crash, FollowInv
    <1>4. gap' \in [Pages -> SUBSET Files]
        <2>1. \A q \in Pages : delete[q] = "removed" => dialog[q] \in Files
            BY DEF FilesInv, ShapeInv, StoresInv
        <2>. QED  BY <2>1 DEF Crash, FollowInv
    <1>5. \A p \in Pages : list[p] \in SUBSET Files
        BY DEF FilesInv, ShapeInv
    <1>. QED  BY <1>1, <1>2, <1>3, <1>4, <1>5 DEF FollowInv

LEMMA FollowStep == FilesInv /\ FilesInv' /\ FollowInv /\ [Next]_vars => FollowInv'
    <1>. SUFFICES ASSUME FilesInv, FilesInv', FollowInv, [Next]_vars PROVE FollowInv'
        OBVIOUS
    <1>. USE DEF Uploading, Deleting, Set
    <1>1. /\ upload \in [Files -> Early \cup {"stored", "shared", "failed"}]
          /\ delete \in [Pages -> {"idle", "sent", "found", "unlinked", "removed"}]
          /\ dialog \in [Pages -> Files \cup {NoFile}]
          /\ \A p \in Pages : dialog[p] \in HadRow \cup {NoFile}
          /\ \A p \in Pages : delete[p] = "removed" => dialog[p] \notin rows
          /\ \A p \in Pages : delete[p] # "idle" => dialog[p] # NoFile
        BY DEF FilesInv, ShapeInv, StoresInv, FollowInv
    <1>2. CASE UNCHANGED <<rows, upload, load, answer, list, gap, removed, dialogs>>
        BY <1>2 DEF FollowInv, Told, HadRow, dialogs
    <1>3. ASSUME NEW f \in Files,
                 Submit(f) \/ Write(f) \/ WriteFails(f) \/ CreateFails(f) \/ UndoWrite(f)
          PROVE  FollowInv'
        <2>1. /\ UNCHANGED <<room, removed, rows, dialog, delete>> /\ HadRow \subseteq HadRow'
              /\ \A g \in Files : upload'[g] = "shared" => upload[g] = "shared"
            BY <1>1, <1>3 DEF Submit, Write, WriteFails, CreateFails, UndoWrite, dialogs, HadRow, Early
        <2>. QED  BY <1>1, <2>1, RowsChange DEF room
    <1>4. ASSUME NEW f \in Files, CreateRow(f) PROVE FollowInv'
        <2>1. /\ UNCHANGED <<room, removed, dialog, delete>> /\ HadRow \subseteq HadRow'
              /\ \A g \in Files : upload'[g] = "shared" => upload[g] = "shared"
              /\ f \notin HadRow /\ rows' = rows \cup {f}
            BY <1>1, <1>4 DEF CreateRow, dialogs, HadRow, Early
        <2>2. \A p \in Pages : delete'[p] = "removed" => dialog'[p] \notin rows'
            BY <1>1, <2>1
        <2>. QED  BY <1>1, <2>1, <2>2, RowsChange DEF room
    <1>5. ASSUME NEW p \in Pages, NEW f \in Files, AskDelete(p, f) PROVE FollowInv'
        <2>1. /\ UNCHANGED <<room, removed, rows, upload, delete>> /\ HadRow' = HadRow
              /\ delete[p] = "idle" /\ \A q \in Pages \ {p} : dialog'[q] = dialog[q]
            BY <1>1, <1>5 DEF AskDelete, stores, HadRow
        <2>2. \A q \in Pages : delete'[q] = "removed" => dialog'[q] \notin rows'
            BY <1>1, <2>1
        <2>. QED  BY <1>1, <2>1, <2>2, RowsChange DEF room
    <1>6. ASSUME NEW p \in Pages,
                 \/ CancelDelete(p) \/ ConfirmDelete(p) \/ Find(p) \/ FindFails(p)
                 \/ Unlink(p) \/ RemoveRow(p) \/ RemoveFails(p)
          PROVE  FollowInv'
        <2>1. UNCHANGED <<room, removed, upload, HadRow>> /\ rows' \subseteq rows
            BY <1>6 DEF CancelDelete, ConfirmDelete, Find, FindFails, Unlink, RemoveRow,
               RemoveFails, stores, HadRow
        <2>2. \A q \in Pages : delete'[q] = "removed" => dialog'[q] \notin rows'
            BY <1>1, <1>6 DEF CancelDelete, ConfirmDelete, Find, FindFails, Unlink, RemoveRow,
               RemoveFails, stores
        <2>. QED  BY <2>1, <2>2, RowsChange DEF room
    <1>. QED
        BY <1>2, <1>3, <1>4, <1>5, <1>6, ShareStep, ListStep, AnnounceStep, FollowCrash
        DEF Next, vars, stores, room, dialogs, Drop, Return, OpenPreview, ClosePreview, BlobArrives

(* The hook replaces its list by the answer and edits it on each broadcast, *)
(* and the rows never bring a file back: a page that attended every         *)
(* broadcast about a file shows it from the one of its upload to the one of *)
(* its deletion.                                                            *)
THEOREM ListsRight == Spec => []ListsFollow
    <1>1. FollowInv => ListsFollow
        BY DEF FollowInv, Told, ListsFollow
    <1>. QED  BY <1>1, FilesInit, FilesStep, FollowInit, FollowStep, PTL DEF Spec

-----------------------------------------------------------------------------
(* Faults and windows are counted where they happen and nowhere else.       *)
LEMMA CountersStep ==
    ASSUME TypeOK, [Next]_vars
    PROVE  /\ by' = by /\ conn' \in [Pages -> BOOLEAN]
           /\ faults' \in 0 .. MaxFaults /\ mounts' \in 0 .. MaxMounts
           /\ previews' \in 0 .. MaxPreviews
    <1>1. by' = by
        BY DEF Next, vars, stores, Submit, Write, WriteFails, CreateRow, CreateFails, UndoWrite,
           Share, Mount, ReadList, ListArrives, ListFails, Unmount, Drop, Return, AskDelete,
           CancelDelete, ConfirmDelete, Find, FindFails, Unlink, RemoveRow, RemoveFails,
           AnnounceRemoval, OpenPreview, ClosePreview, BlobArrives, Crash
    <1>2. \/ conn' = conn \/ conn' = Each(FALSE)
          \/ \E p \in Pages, x \in BOOLEAN : conn' = Set(conn, p, x)
        BY DEF Next, vars, room, Submit, Write, WriteFails, CreateRow, CreateFails, UndoWrite,
           Share, Mount, ReadList, ListArrives, ListFails, Unmount, Drop, Return, AskDelete,
           CancelDelete, ConfirmDelete, Find, FindFails, Unlink, RemoveRow, RemoveFails,
           AnnounceRemoval, OpenPreview, ClosePreview, BlobArrives, Crash
    <1>3. /\ faults' = faults \/ (faults < MaxFaults /\ faults' = faults + 1)
          /\ mounts' = mounts \/ (mounts < MaxMounts /\ mounts' = mounts + 1)
          /\ previews' = previews \/ (previews < MaxPreviews /\ previews' = previews + 1)
        BY DEF Next, vars, counts, Submit, Write, WriteFails, CreateRow, CreateFails, UndoWrite,
           Share, Mount, ReadList, ListArrives, ListFails, Unmount, Drop, Return, AskDelete,
           CancelDelete, ConfirmDelete, Find, FindFails, Unlink, RemoveRow, RemoveFails,
           AnnounceRemoval, OpenPreview, ClosePreview, BlobArrives, Crash
    <1>4. conn' \in [Pages -> BOOLEAN]
        BY <1>2 DEF TypeOK, Each, Set
    <1>5. /\ faults' \in 0 .. MaxFaults /\ mounts' \in 0 .. MaxMounts
          /\ previews' \in 0 .. MaxPreviews
        BY <1>3, HostsAssumption DEF TypeOK
    <1>. QED  BY <1>1, <1>4, <1>5

(* Dialogs, windows, lists and requests only ever hold files, whatever is   *)
(* deleted, cancelled or cut off while they do.                             *)
THEOREM FilesTyped == Spec => []TypeOK
    <1>1. Init => TypeOK
        BY HostsAssumption DEF Init, TypeOK, Each
    <1>2. /\ FilesInv' /\ FollowInv' /\ WindowInv'
          /\ TypeOK /\ [Next]_vars
          => TypeOK'
        <2>. SUFFICES ASSUME FilesInv', FollowInv', WindowInv', TypeOK, [Next]_vars
                      PROVE  TypeOK'
            OBVIOUS
        <2>1. /\ upload' \in [Files -> {"new", "sent", "written", "failing", "stored", "shared",
                                        "failed"}]
              /\ list' \in [Pages -> SUBSET Files] /\ answer' \in [Pages -> SUBSET Files]
              /\ dialog' \in [Pages -> Files \cup {NoFile}]
              /\ delete' \in [Pages -> {"idle", "sent", "found", "unlinked", "removed"}]
              /\ rows' \subseteq Files /\ disk' \subseteq Files /\ torn' \subseteq Files
            BY DEF FilesInv, ShapeInv, Early
        <2>2. /\ load' \in [Pages -> {"none", "asked", "read", "done"}]
              /\ gap' \in [Pages -> SUBSET Files] /\ removed' \subseteq Files
            BY DEF FollowInv, HadRow
        <2>3. /\ preview' \in [Pages -> Files \cup {NoFile}]
              /\ blob' \in [Pages -> Files \cup {NoFile}] /\ fetch' \in [Pages -> SUBSET Files]
            BY DEF WindowInv
        <2>4. by' \in [Files -> Pages]
            BY CountersStep DEF TypeOK
        <2>. QED  BY <2>1, <2>2, <2>3, <2>4, CountersStep DEF TypeOK
    <1>. QED
        BY <1>1, <1>2, FilesInit, FilesStep, FollowInit, FollowStep, WindowInit, WindowStep, PTL
        DEF Spec

=============================================================================
