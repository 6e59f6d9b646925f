-------------------------------- MODULE FrontEnd -------------------------------
(***************************************************************************)
(* The React front end in one browser tab: the pages, any of which may be  *)
(* the one that is open (frontend/src/App.tsx).  A page starts with what   *)
(* its first load brought, or with that load on its way.                   *)
(***************************************************************************)
EXTENDS UploadPage, TokensPage, FieldsPage, AddinPage, PartPage, BomView, ColumnsPage,
        PartsTable, PackForm, MarkupEditor, MentionBox

CONSTANT Starts    \* [page, calls, server, left]

Init == \E s \in Starts : page = s.page /\ calls = s.calls /\ server = s.server /\ left = s.left

Next ==
  \/ UploadNext \/ TokensNext \/ FieldsNext \/ AddinNext \/ PartNext \/ BomNext
  \/ ColumnsNext \/ TableNext \/ PackNext \/ MarkupNext \/ MentionNext
  \/ Lose

Spec == Init /\ [][Next]_vars

-------------------------------------------------------------------------------

\* The pages on which something is shown as busy or loading.
Busy(p) ==
  CASE p.at = "upload" -> p.busy
    [] p.at = "fields" -> p.saving
    [] p.at = "addin"  -> p.saving
    [] p.at = "part"   -> p.loading \/ p.notesSaving \/ p.commentSaving \/ p.refreshing \/ p.uploading \/ p.sharing
                           \/ p.arenaBusy # Absent
    [] p.at = "bom"    -> p.treeLoading \/ (p.flatLoading /\ ~p.flatLeft) \/ p.whereUsedLoading
    [] p.at = "parts"  -> p.loading
    [] p.at = "pack"   -> p.building
    [] p.at = "markup" -> p.ed.state = "saving" \/ p.ed.busy
    [] OTHER -> FALSE

\* Nothing stays busy when no request is out: whatever failed, was cancelled
\* or overtaken, the flag that was raised for it has been taken down
\* (PartDetailPage.tsx:2224-2243, 1049-1176, DrawingMarkupWorkspace.tsx:380-487),
\* with one exception: who goes back to the tree while the flat list loads
\* cancels that load, and its flag stays up until the list is turned to again
\* (PartDetailPage.tsx:1389-1413), so that a part without children still shows
\* a BOM section (:2163-2164).
QuietPageIsIdle == calls = <<>> => ~Busy(page)

\* A quiet page shows what is stored or answered, each page with the exceptions that its
\* own statement names.
QuietPageShowsTheStored ==
  /\ ListIsCurrent /\ ShowsWhatIsStored /\ ShownSwitchesAreStored
  /\ CommentsAreTheParts /\ FilesAndLinksAreTheParts
  /\ RowsAnswerTheQuestion /\ PreferencesAreStored /\ SavedMarkupsAreStored
  /\ SuggestionsAnswerTheQuery
===============================================================================
