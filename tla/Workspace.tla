----------------------------- MODULE Workspace -----------------------------
(***************************************************************************)
(* The open-document workspace of CadEngine (core/engine.py): the tabs in  *)
(* the order they were opened, the active one, and for each tab its        *)
(* document, its undo stack and its redo stack; the revision number every  *)
(* change of the model advances; and the files the documents are loaded    *)
(* from and saved to.                                                      *)
(*                                                                         *)
(* Every public method holds engine.lock (or, for undo and redo called     *)
(* from the web runtime, the project's operation lock), so one action is   *)
(* one command.  A command that raises before it changed anything, or a    *)
(* tracked command whose workspace snapshot is restored, is a stuttering   *)
(* step and has no action.  The documents of this module are parts: what   *)
(* assemblies add to save, close and delete is not modelled here.          *)
(***************************************************************************)
EXTENDS Naturals, Sequences, SequencesExt

CONSTANTS
  Session,      \* the ids a document session can get (uuid4 in the code)
  NativePath,   \* paths that end in .scad.json
  ForeignPath,  \* paths of STEP and BREP files
  Content,      \* what a document can contain
  Blank,        \* the content of a new part
  None,         \* no session, no path, no file
  MaxRevision,  \* bound on the revision number
  MaxHistory    \* bound on the length of an undo stack

Path == NativePath \cup ForeignPath

ASSUME WorkspaceAssumption ==
  /\ Blank \in Content
  /\ Session # {}
  /\ NativePath \cap ForeignPath = {}
  /\ None \notin Session \cup Path
  /\ MaxRevision \in Nat
  /\ MaxHistory \in Nat

VARIABLES
  tabs,      \* engine._sessions, in order
  active,    \* engine._active_session_id
  doc,       \* the document of each session
  undo,      \* session.undo
  redo,      \* session.redo
  revision,  \* engine.revision
  disk       \* the file at each path

vars == <<tabs, active, doc, undo, redo, revision, disk>>

(* What _document_snapshot keeps of a document: the serialized content,    *)
(* _runtime_path and _runtime_dirty.                                       *)
Document == [content : Content, path : Path \cup {None}, dirty : BOOLEAN]

(* A file holds a CADia document, an interchange model, or what a failed   *)
(* write left of a document.                                               *)
Format == {"scad", "step", "torn"}
File == [format : Format, content : Content]

Native(c)  == [format |-> "scad", content |-> c]
Foreign(c) == [format |-> "step", content |-> c]
Torn       == [format |-> "torn", content |-> Blank]

(* CadDocument.load accepts a file when its content is what the suffix of  *)
(* its name announces.                                                     *)
Loadable(p) ==
  /\ disk[p] \in File
  /\ disk[p].format = IF p \in NativePath THEN "scad" ELSE "step"

Fresh(c, p) == [content |-> c, path |-> p, dirty |-> FALSE]

Opened == Range(tabs)

----------------------------------------------------------------------------
(* Opening documents                                                       *)

(* _changed: every change of the model gets a new revision.                *)
Changed ==
  /\ revision < MaxRevision
  /\ revision' = revision + 1

(* _create_document_session and the session open_document appends: a new   *)
(* tab at the end, active, with empty histories.                           *)
AddTab(s, d) ==
  /\ s \notin Opened
  /\ tabs' = Append(tabs, s)
  /\ active' = s
  /\ doc' = [doc EXCEPT ![s] = d]
  /\ UNCHANGED <<undo, redo>>

(* new_part and new_assembly, without and with a template file: the copy   *)
(* of a template has no path of its own.                                   *)
NewDocument(s) ==
  /\ \/ AddTab(s, Fresh(Blank, None))
     \/ \E p \in NativePath :
          Loadable(p) /\ AddTab(s, Fresh(disk[p].content, None))
  /\ Changed
  /\ UNCHANGED disk

(* open_document of a file that a tab already shows: the first such tab is *)
(* activated.                                                              *)
ReopenDocument(p) ==
  \E i \in DOMAIN tabs :
    /\ doc[tabs[i]].path = p
    /\ \A j \in 1..(i - 1) : doc[tabs[j]].path # p
    /\ active' = tabs[i]
    /\ Changed
    /\ UNCHANGED <<tabs, doc, undo, redo, disk>>

(* open_document of a file no tab shows: it is loaded into a new tab.      *)
LoadDocument(s, p) ==
  /\ \A t \in Opened : doc[t].path # p
  /\ Loadable(p)
  /\ AddTab(s, Fresh(disk[p].content, p))
  /\ Changed
  /\ UNCHANGED disk

(* activate_document: a click on another tab.                              *)
ActivateDocument(s) ==
  /\ s \in Opened
  /\ s # active
  /\ active' = s
  /\ Changed
  /\ UNCHANGED <<tabs, doc, undo, redo, disk>>

----------------------------------------------------------------------------
(* Editing                                                                 *)

(* A plausible slip in Edit: a command that forgets _changed.              *)
EditWithoutChanged(c) ==
  /\ active # None
  /\ Len(undo[active]) < MaxHistory
  /\ undo' = [undo EXCEPT ![active] = Append(@, doc[active])]
  /\ redo' = [redo EXCEPT ![active] = <<>>]
  /\ doc' = [doc EXCEPT ![active].content = c, ![active].dirty = TRUE]
  /\ UNCHANGED <<tabs, active, revision, disk>>

(* execute of a tracked command that succeeds: the snapshot taken before   *)
(* the command goes on the undo stack, the redo stack is dropped and the   *)
(* document is dirty.                                                      *)
Edit(c) ==
  /\ active # None
  /\ Len(undo[active]) < MaxHistory
  /\ undo' = [undo EXCEPT ![active] = Append(@, doc[active])]
  /\ redo' = [redo EXCEPT ![active] = <<>>]
  /\ doc' = [doc EXCEPT ![active].content = c, ![active].dirty = TRUE]
  /\ Changed
  /\ UNCHANGED <<tabs, active, disk>>

(* A plausible slip in Undo: the snapshot is taken after the restore.      *)
UndoPushesRestored ==
  /\ active # None
  /\ undo[active] # <<>>
  /\ doc' = [doc EXCEPT ![active] = Last(undo[active])]
  /\ redo' = [redo EXCEPT ![active] = Append(@, Last(undo[active]))]
  /\ undo' = [undo EXCEPT ![active] = Front(@)]
  /\ Changed
  /\ UNCHANGED <<tabs, active, disk>>

(* undo: the document goes on the redo stack, and the last snapshot is     *)
(* restored with the path and the dirty flag it was taken with.            *)
Undo ==
  /\ active # None
  /\ undo[active] # <<>>
  /\ redo' = [redo EXCEPT ![active] = Append(@, doc[active])]
  /\ doc' = [doc EXCEPT ![active] = Last(undo[active])]
  /\ undo' = [undo EXCEPT ![active] = Front(@)]
  /\ Changed
  /\ UNCHANGED <<tabs, active, disk>>

(* A plausible slip in Redo: the content goes on the stack, not a snapshot.*)
RedoPushesContent ==
  /\ active # None
  /\ redo[active] # <<>>
  /\ undo' = [undo EXCEPT ![active] = Append(@, doc[active].content)]
  /\ doc' = [doc EXCEPT ![active] = Last(redo[active])]
  /\ redo' = [redo EXCEPT ![active] = Front(@)]
  /\ Changed
  /\ UNCHANGED <<tabs, active, disk>>

(* redo: the mirror image.                                                 *)
Redo ==
  /\ active # None
  /\ redo[active] # <<>>
  /\ undo' = [undo EXCEPT ![active] = Append(@, doc[active])]
  /\ doc' = [doc EXCEPT ![active] = Last(redo[active])]
  /\ redo' = [redo EXCEPT ![active] = Front(@)]
  /\ Changed
  /\ UNCHANGED <<tabs, active, disk>>


----------------------------------------------------------------------------
(* Saving                                                                  *)

(* save_document: to the document's own path, or to a new one (Save-As),   *)
(* which becomes its path.  Neither the history nor the revision changes.  *)
Save(p) ==
  /\ active # None
  /\ doc' = [doc EXCEPT ![active].path = p, ![active].dirty = FALSE]
  /\ disk' = [disk EXCEPT ![p] = Native(doc[active].content)]
  /\ UNCHANGED <<tabs, active, undo, redo, revision>>

(* The write of save_document fails: document.save has already given the   *)
(* document its new path, and may have truncated the file.                 *)
SaveFails(p) ==
  /\ active # None
  /\ doc' = [doc EXCEPT ![active].path = p]
  /\ disk' \in {disk, [disk EXCEPT ![p] = Torn]}
  /\ UNCHANGED <<tabs, active, undo, redo, revision>>

(* The tabs among the first n that save_all writes.                        *)
DirtyTabs(n) == {i \in 1..n : doc[tabs[i]].dirty}

Savable(i) == doc[tabs[i]].path \in NativePath

(* The last tab of I that is saved to p.                                   *)
IsLastWriter(i, I, p) ==
  /\ i \in I
  /\ doc[tabs[i]].path = p
  /\ \A j \in I : doc[tabs[j]].path = p => j <= i

(* The files after the tabs of I are saved, one after the other.           *)
Written(I) ==
  [p \in Path |->
     IF \E i \in I : IsLastWriter(i, I, p)
       THEN Native(doc[tabs[CHOOSE i \in I : IsLastWriter(i, I, p)]].content)
       ELSE disk[p]]

Cleaned(I) ==
  [s \in Session |->
     IF \E i \in I : tabs[i] = s THEN [doc[s] EXCEPT !.dirty = FALSE]
                                ELSE doc[s]]

(* save_all: every dirty document is saved to its own path.                *)
SaveAll ==
  /\ \A i \in DirtyTabs(Len(tabs)) : Savable(i)
  /\ disk' = Written(DirtyTabs(Len(tabs)))
  /\ doc' = Cleaned(DirtyTabs(Len(tabs)))
  /\ Changed
  /\ UNCHANGED <<tabs, active, undo, redo>>

(* save_all meets a document that was never saved and raises: what comes   *)
(* before it in the tab order is saved.                                    *)
SaveAllStops(n) ==
  /\ n \in DirtyTabs(Len(tabs))
  /\ ~Savable(n)
  /\ \A i \in DirtyTabs(n - 1) : Savable(i)
  /\ disk' = Written(DirtyTabs(n - 1))
  /\ doc' = Cleaned(DirtyTabs(n - 1))
  /\ UNCHANGED <<tabs, active, undo, redo, revision>>

(* save_all through execute is tracked like an edit: it leaves a version   *)
(* in the history of the active document and marks that document dirty.    *)
ExecuteSaveAll ==
  /\ active # None
  /\ \A i \in DirtyTabs(Len(tabs)) : Savable(i)
  /\ Len(undo[active]) < MaxHistory
  /\ disk' = Written(DirtyTabs(Len(tabs)))
  /\ doc' = [Cleaned(DirtyTabs(Len(tabs))) EXCEPT ![active].dirty = TRUE]
  /\ undo' = [undo EXCEPT ![active] = Append(@, doc[active])]
  /\ redo' = [redo EXCEPT ![active] = <<>>]
  /\ Changed
  /\ UNCHANGED <<tabs, active>>

(* Through execute the failure restores the workspace, not the files.      *)
ExecuteSaveAllStops(n) ==
  /\ active # None
  /\ n \in DirtyTabs(Len(tabs))
  /\ ~Savable(n)
  /\ \A i \in DirtyTabs(n - 1) : Savable(i)
  /\ disk' = Written(DirtyTabs(n - 1))
  /\ UNCHANGED <<tabs, active, doc, undo, redo, revision>>

----------------------------------------------------------------------------
(* Closing and deleting                                                    *)

ActiveTab == CHOOSE i \in DOMAIN tabs : tabs[i] = active

(* A plausible slip in RemoveActive: the last tab has no right neighbour.  *)
RemoveActiveKeepsActive ==
  LET i    == ActiveTab
      rest == RemoveAt(tabs, i)
  IN /\ tabs' = rest
     /\ active' = IF i <= Len(rest) THEN rest[i] ELSE active
     /\ doc' = [doc EXCEPT ![active] = Fresh(Blank, None)]
     /\ undo' = [undo EXCEPT ![active] = <<>>]
     /\ redo' = [redo EXCEPT ![active] = <<>>]

(* The active tab goes away with its histories; its right neighbour is     *)
(* next, or the new last tab, or nothing.                                  *)
RemoveActive ==
  LET i    == ActiveTab
      rest == RemoveAt(tabs, i)
  IN /\ tabs' = rest
     /\ active' = IF rest = <<>> THEN None
                  ELSE IF i <= Len(rest) THEN rest[i] ELSE rest[Len(rest)]
     /\ doc' = [doc EXCEPT ![active] = Fresh(Blank, None)]
     /\ undo' = [undo EXCEPT ![active] = <<>>]
     /\ redo' = [redo EXCEPT ![active] = <<>>]

(* close_document with save=true: the document is written to its own path, *)
(* whatever the kind of file it was opened from.                           *)
CloseSaving ==
  /\ active # None
  /\ doc[active].path # None
  /\ disk' = [disk EXCEPT ![doc[active].path] = Native(doc[active].content)]
  /\ RemoveActive
  /\ Changed

(* close_document with save=false: the edits are lost.  The saved version  *)
(* of a dirty document is loaded first, so it has to be there.             *)
CloseDiscarding ==
  /\ active # None
  /\ (doc[active].dirty /\ doc[active].path \in NativePath)
       => Loadable(doc[active].path)
  /\ RemoveActive
  /\ Changed
  /\ UNCHANGED disk

(* delete_document_file: the tab closes and its file goes away.  A dirty   *)
(* document needs discard_unsaved_changes, which the caller may pass.      *)
DeleteFile(discard) ==
  /\ active # None
  /\ doc[active].path \in NativePath
  /\ disk[doc[active].path] # None
  /\ doc[active].dirty => discard
  /\ disk' = [disk EXCEPT ![doc[active].path] = None]
  /\ RemoveActive
  /\ Changed

----------------------------------------------------------------------------
(* CadEngine.__init__: one tab with an empty part.  The directory holds    *)
(* the interchange files the user brought along.                           *)
Init ==
  \E s \in Session :
    /\ tabs = <<s>>
    /\ active = s
    /\ doc = [t \in Session |-> Fresh(Blank, None)]
    /\ undo = [t \in Session |-> <<>>]
    /\ redo = [t \in Session |-> <<>>]
    /\ revision = 0
    /\ \E c \in Content :
         disk = [p \in Path |-> IF p \in ForeignPath THEN Foreign(c) ELSE None]

Next ==
  \/ \E s \in Session :
       \/ NewDocument(s)
       \/ \E p \in Path : LoadDocument(s, p)
       \/ ActivateDocument(s)
  \/ \E p \in Path : ReopenDocument(p)
  \/ \E c \in Content : Edit(c)
  \/ Undo
  \/ Redo
  \/ \E p \in NativePath : Save(p) \/ SaveFails(p)
  \/ SaveAll
  \/ ExecuteSaveAll
  \/ \E n \in DOMAIN tabs : SaveAllStops(n) \/ ExecuteSaveAllStops(n)
  \/ CloseSaving
  \/ CloseDiscarding
  \/ \E discard \in BOOLEAN : DeleteFile(discard)

Spec == Init /\ [][Next]_vars

----------------------------------------------------------------------------
(* Properties                                                              *)

(* Every variable has its type; the stacks hold whole snapshots.           *)
TypeOK ==
  /\ tabs \in Seq(Session)
  /\ active \in Session \cup {None}
  /\ doc \in [Session -> Document]
  /\ undo \in [Session -> Seq(Document)]
  /\ redo \in [Session -> Seq(Document)]
  /\ revision \in Nat
  /\ disk \in [Path -> File \cup {None}]

(* The index arithmetic of close and delete, over any number of openings   *)
(* and closings: an active document exists exactly when a tab is open, it  *)
(* is one of the tabs, no session has two tabs, and a session that is      *)
(* closed leaves no history behind.                                        *)
TabsConsistent ==
  /\ active = None <=> tabs = <<>>
  /\ active # None => active \in Opened
  /\ \A i, j \in DOMAIN tabs : tabs[i] = tabs[j] => i = j
  /\ \A s \in Session \ Opened :
       doc[s] = Fresh(Blank, None) /\ undo[s] = <<>> /\ redo[s] = <<>>

(* The line of contents that an undo stack, a document and a redo stack    *)
(* stand for, oldest first.                                                *)
Line(past, now, future) ==
  [i \in 1..(Len(past) + 1 + Len(future)) |->
     IF i <= Len(past) THEN past[i].content
     ELSE IF i = Len(past) + 1 THEN now.content
     ELSE future[Len(past) + Len(future) + 2 - i].content]

Timeline(s) == Line(undo[s], doc[s], redo[s])

History == INSTANCE VersionHistory WITH
  Document <- Session,
  Version  <- Content,
  First    <- Blank,
  open     <- Opened,
  versions <- [s \in Session |-> Timeline(s)],
  cursor   <- [s \in Session |-> Len(undo[s]) + 1]

(* The two stacks of every tab are one line of versions and a cursor in    *)
(* it: undo and redo return exactly what was there, also after a switch of *)
(* tabs, a save, a failed save and a save of everything, and no tab's      *)
(* history is disturbed by another tab's.                                  *)
ImplementsHistory == History!Spec

(* What the user sees: the active session and its content.                 *)
Shown == IF active = None THEN None ELSE <<active, doc[active].content>>

(* A step that changes what is shown advances the revision, which is all   *)
(* that the viewers of the model watch.                                    *)
RevisionTracksModel == [][Shown' # Shown => revision' > revision]_vars

(* When undo or redo shows a version that is not the one in the document's *)
(* file, the document is marked as having unsaved changes, so that closing *)
(* or deleting it asks before the version is lost.                         *)
UndoneWorkIsUnsaved ==
  [][\A p \in NativePath :
       (/\ Undo \/ Redo
        /\ doc'[active].path = p
        /\ Loadable(p)
        /\ disk[p].content # doc'[active].content)
       => doc'[active].dirty]_vars

(* A file with the name of an interchange file stays one: a document is    *)
(* saved as *.scad.json only.                                              *)
ImportedFilesStayReadable == \A p \in ForeignPath : disk[p].format = "step"
=============================================================================
