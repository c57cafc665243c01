--------------------------- MODULE AssemblyLinks ---------------------------
(***************************************************************************)
(* Assemblies among the open documents of CadEngine (core/engine.py,       *)
(* core/document.py, core/assembly.py).  An occurrence names the file of   *)
(* its component and keeps a copy of its shape; while that component is    *)
(* open it is linked to its tab instead and has to follow it, through any  *)
(* number of nested assemblies (_sync_open_assembly_occurrences).          *)
(*                                                                         *)
(* A shape is the set of part versions in it; the empty set is a document  *)
(* without geometry (shape None).  The code also compares the identity of  *)
(* shape objects: "same" says that an occurrence holds the very object its *)
(* linked document shows.  Positions, constraints, mass, interfaces and    *)
(* part numbers are left out.  A rebuilt assembly is a new object, unless  *)
(* all it has is one occurrence that was not moved: then it shows the      *)
(* object of that occurrence.                                              *)
(*                                                                         *)
(* One action is one command under engine.lock.  Interchange files,        *)
(* templates and failing writes are in module Workspace.                   *)
(***************************************************************************)
EXTENDS Naturals, Sequences, FiniteSets, SequencesExt

CONSTANTS
  Session,     \* the ids of document sessions (uuid4 in the code)
  Path,        \* the .scad.json paths documents are saved to
  Elsewhere,   \* a path in the temporary directory, where no document is
  Name,        \* the names occurrences can get
  Version,     \* the versions of a part's body
  None,        \* no session, no path, no file
  MaxHistory,  \* how many versions a stack keeps here; the code keeps all
  Overwriting, \* which documents are saved over: those tabs show, or others
  Raising      \* whether commands that are rolled back are considered

ASSUME LinksAssumption ==
  /\ Session # {} /\ IsFiniteSet(Path)
  /\ None \notin Session \cup Path \cup {Elsewhere}
  /\ Elsewhere \notin Path
  /\ MaxHistory \in Nat
  /\ Overwriting \subseteq {"open", "closed"}
  /\ Raising \in BOOLEAN

VARIABLES
  tabs,    \* engine._sessions, in order
  active,  \* engine._active_session_id
  doc,     \* the document of each tab
  undo,    \* session.undo of each tab
  redo,    \* session.redo of each tab
  disk,    \* the file at each path
  closed,  \* the sessions that were closed: an id is used once
  rolled   \* whether the last rollback has not been followed by a command

vars == <<tabs, active, doc, undo, redo, disk, closed, rolled>>

Opened == Range(tabs)

Shape == SUBSET Version

(* Occurrence: source_session_id is link, path the file it was placed from.*)
Occurrence == [path  : Path \cup {Elsewhere}, link : Session \cup {None},
               shape : Shape, same : BOOLEAN]

Occurrences == UNION {[N -> Occurrence] : N \in SUBSET Name}

Document == [kind : {"part", "assembly"}, path : Path \cup {None},
             dirty : BOOLEAN, shape : Shape, occs : Occurrences]

File == [kind : {"part", "assembly"}, shape : Shape, occs : Occurrences]

ASSUME NoFileAssumption == None \notin File

----------------------------------------------------------------------------
(* Writing and reading documents                                           *)

(* rebuild_assembly: what the occurrences show together.                   *)
Compose(occs) == UNION {occs[o].shape : o \in DOMAIN occs}

Rebuilt(d, occs) == [d EXCEPT !.occs = occs, !.shape = Compose(occs)]

(* serialize: the shape of each occurrence is kept (snapshot_brep_b64), its*)
(* link to a tab is not.                                                   *)
Unlinked(occs) ==
  [o \in DOMAIN occs |-> [occs[o] EXCEPT !.link = None, !.same = FALSE]]

Snapshot(d) == [d EXCEPT !.occs = Unlinked(@)]

(* A part is read from its features, an assembly from its occurrences.     *)
FileOf(d) ==
  [kind |-> d.kind, occs |-> Unlinked(d.occs),
   shape |-> IF d.kind = "part" THEN d.shape ELSE {}]

(* load: the component at the path of the occurrence, or else the shape    *)
(* kept in the assembly; neither has to be there.                          *)
FoundOr(found, kept) == IF found # {} THEN found ELSE {kept} \ {{}}

(* load_component: the shapes the component at p may show when the files   *)
(* are as given; none when loading it raises: no file, a file that is      *)
(* being loaded already, a part without geometry, an occurrence of which   *)
(* nothing is left.                                                        *)
Loading(files) ==
  LET loaded[visited \in SUBSET Path] ==
        [p \in Path |->
           IF p \in visited \/ files[p] = None THEN {}
           ELSE LET occs == files[p].occs
                    at(o) == FoundOr(IF occs[o].path \in Path
                                       THEN loaded[visited \cup {p}][occs[o].path]
                                       ELSE {},
                                     occs[o].shape)
                IN IF \E o \in DOMAIN occs : at(o) = {} THEN {}
                   ELSE {(UNION {UNION at(o) : o \in DOMAIN occs})
                           \cup files[p].shape} \ {{}}]
  IN loaded

Found(files, visited, p) ==
  IF p \in Path THEN Loading(files)[visited][p] ELSE {}

Reads(files, visited, occ) ==
  FoundOr(Found(files, visited, occ.path), occ.shape)

CanRead(files, visited, occs) ==
  \A o \in DOMAIN occs : Reads(files, visited, occs[o]) # {}

Read(files, visited, d) ==
  IF d.kind = "part" THEN d
  ELSE Rebuilt(d, [o \in DOMAIN d.occs |->
                     [d.occs[o] EXCEPT !.shape =
                        UNION Reads(files, visited, d.occs[o])]])

(* CadDocument.load of a file, as open_document does it.                   *)
CanLoad(p) == disk[p] # None /\ CanRead(disk, {p}, disk[p].occs)

FromFile(p) ==
  Read(disk, {p}, [kind |-> disk[p].kind, path |-> p, dirty |-> FALSE,
                   shape |-> disk[p].shape, occs |-> disk[p].occs])

(* _document_from_snapshot: the snapshot of a saved document has paths     *)
(* relative to that document, but is loaded from a temporary file.         *)
Relocated(d) ==
  IF d.path = None THEN d.occs
  ELSE [o \in DOMAIN d.occs |-> [d.occs[o] EXCEPT !.path = Elsewhere]]

CanRestore(files, d) == CanRead(files, {}, Relocated(d))

Restored(files, d) ==
  Read(files, {}, [Snapshot(d) EXCEPT !.occs = Unlinked(Relocated(d))])

----------------------------------------------------------------------------
(* Following open documents                                                *)

(* The tabs that show the document at a path, by their place in the order. *)
Showing(docs, order, path) == {i \in DOMAIN order : docs[order[i]].path = path}

(* The tab an occurrence shows: the one it is linked to, or the last one   *)
(* that has its path.                                                      *)
Source(docs, order, occ) ==
  LET showing == Showing(docs, order, occ.path)
  IN IF occ.link # None THEN occ.link
     ELSE IF showing = {} THEN None ELSE order[Max(showing)]

LinkTo(docs, s, occ) ==
  [occ EXCEPT !.link = s, !.same = TRUE, !.shape = docs[s].shape]

(* A slip in Put: the identity of the object is not looked at.             *)
PutUnseen(docs, x, d) == [docs EXCEPT ![x] = d]

(* The tabs in X show new objects: who is linked to one has another.       *)
Parted(occs, X) ==
  [o \in DOMAIN occs |->
     [occs[o] EXCEPT !.same = @ /\ occs[o].link \notin X]]

(* Tab x shows d from now on, a new object.                                *)
Put(docs, x, d) ==
  [s \in DOMAIN docs |->
     IF s = x THEN d ELSE [docs[s] EXCEPT !.occs = Parted(@, {x})]]

(* The occurrences of x that do not show what their tab shows.  A document *)
(* without geometry is not followed.                                       *)
Stale(docs, order, x) ==
  {o \in DOMAIN docs[x].occs :
     LET occ == docs[x].occs[o]
         s   == Source(docs, order, occ)
     IN /\ s \notin {None, x}
        /\ docs[s].shape # {}
        /\ occ.link # s \/ ~occ.same}

(* Whether one of the linked documents has unsaved changes.                *)
LinkedToUnsaved(docs, occs) ==
  \E o \in DOMAIN occs : occs[o].link # None /\ docs[occs[o].link].dirty

(* A slip in SyncOne: an assembly that follows is not marked as changed.   *)
SyncOneClean(docs, order, x) ==
  LET stale == Stale(docs, order, x)
      occs  == [o \in DOMAIN docs[x].occs |->
                  LET occ == docs[x].occs[o]
                  IN IF o \in stale
                       THEN LinkTo(docs, Source(docs, order, occ), occ)
                       ELSE occ]
  IN IF stale = {} THEN docs ELSE Put(docs, x, Rebuilt(docs[x], occs))

(* One assembly in one pass; it has unsaved changes when what it shows has.*)
SyncOne(docs, order, x) ==
  LET stale == Stale(docs, order, x)
      occs  == [o \in DOMAIN docs[x].occs |->
                  LET occ == docs[x].occs[o]
                  IN IF o \in stale
                       THEN LinkTo(docs, Source(docs, order, occ), occ)
                       ELSE occ]
  IN IF stale = {} THEN docs
     ELSE Put(docs, x, [Rebuilt(docs[x], occs) EXCEPT
                          !.dirty = @ \/ LinkedToUnsaved(docs, occs)])

Pass(docs, order) ==
  LET after[i \in 0..Len(order)] ==
        IF i = 0 THEN docs ELSE SyncOne(after[i - 1], order, order[i])
  IN  after[Len(order)]

(* A slip in Sync: one pass over the tabs.                                 *)
SyncOncePerCommand(docs, order) == Pass(docs, order)

(* _sync_open_assembly_occurrences: one pass more than there are tabs; a   *)
(* pass that changes nothing ends it.                                      *)
Sync(docs, order) ==
  LET after[i \in 0..(Len(order) + 1)] ==
        IF i = 0 THEN docs ELSE Pass(after[i - 1], order)
  IN  after[Len(order) + 1]

----------------------------------------------------------------------------
(* Commands                                                                *)

(* A command that is not tracked: the documents follow, in the tab order   *)
(* the command leaves.                                                     *)
Commit(docs) == doc' = Sync(docs, tabs') /\ rolled' = FALSE

(* _create_document_session and the session open_document appends.         *)
AddTab(s, d) ==
  /\ s \notin Opened \cup closed
  /\ tabs' = Append(tabs, s)
  /\ active' = s
  /\ Commit([t \in Opened \cup {s} |-> IF t = s THEN d ELSE doc[t]])
  /\ undo' = [t \in Opened \cup {s} |-> IF t = s THEN <<>> ELSE undo[t]]
  /\ redo' = [t \in Opened \cup {s} |-> IF t = s THEN <<>> ELSE redo[t]]
  /\ UNCHANGED <<disk, closed>>

(* new_part and new_assembly.                                              *)
NewDocument(s, kind) ==
  AddTab(s, [kind |-> kind, path |-> None, dirty |-> FALSE, shape |-> {},
             occs |-> <<>>])

(* open_document of a file no tab shows.                                   *)
LoadDocument(s, p) ==
  /\ \A t \in Opened : doc[t].path # p
  /\ CanLoad(p)
  /\ AddTab(s, FromFile(p))

(* activate_document, and open_document of a file that a tab shows.        *)
ActivateDocument(s) ==
  /\ s \in Opened
  /\ s # active
  /\ active' = s
  /\ UNCHANGED tabs
  /\ Commit(doc)
  /\ UNCHANGED <<undo, redo, disk, closed>>

(* A version goes on a stack; the oldest is forgotten beyond MaxHistory.   *)
Push(stack, d) ==
  IF MaxHistory = 0 THEN <<>>
  ELSE IF Len(stack) < MaxHistory THEN Append(stack, Snapshot(d))
  ELSE Append(Tail(stack), Snapshot(d))

(* A tracked command: the document it found goes on the undo stack, the    *)
(* active document has unsaved changes, and every open assembly follows.   *)
Tracked(docs) ==
  /\ undo' = [undo EXCEPT ![active] = Push(@, doc[active])]
  /\ redo' = [redo EXCEPT ![active] = <<>>]
  /\ UNCHANGED <<tabs, active, closed>>
  /\ Commit([docs EXCEPT ![active].dirty = TRUE])

(* A modelling command on a part.                                          *)
EditPart(v) ==
  /\ active # None
  /\ doc[active].kind = "part"
  /\ Tracked(Put(doc, active, [doc[active] EXCEPT !.shape = {v}]))
  /\ UNCHANGED disk

ActiveIsAssembly == active # None /\ doc[active].kind = "assembly"

OwnPath == {doc[active].path} \ {None}

(* _bind_occurrence_to_open_source: to the first tab that shows the path,  *)
(* with its shape, even when it has none.                                  *)
Bind(occ) ==
  LET showing == Showing(doc, tabs, occ.path)
  IN IF showing = {} THEN occ ELSE LinkTo(doc, tabs[Min(showing)], occ)

(* Whether the assembly d may be the object it was after its occurrence o  *)
(* becomes occ: o is all it has, and shows the same tab.                   *)
MayKeepObject(d, o, occ) ==
  /\ DOMAIN d.occs = {o}
  /\ d.occs[o].same /\ occ.same /\ d.occs[o].link = occ.link

(* place_occurrence under a new name, relink_occurrence under one that     *)
(* there is: the file is loaded, then an open document goes before it.     *)
Place(o, p) ==
  /\ ActiveIsAssembly
  /\ Found(disk, OwnPath, p) # {}
  /\ LET occ  == Bind([path |-> p, link |-> None, same |-> FALSE,
                       shape |-> UNION Found(disk, OwnPath, p)])
         occs == doc[active].occs
         d    == Rebuilt(doc[active], [n \in DOMAIN occs \cup {o} |->
                                         IF n = o THEN occ ELSE occs[n]])
     IN \/ Tracked(Put(doc, active, d))
        \/ /\ MayKeepObject(doc[active], o, occ)
           /\ Tracked([doc EXCEPT ![active] = d])
  /\ UNCHANGED disk

(* replace_occurrence: of o, or of all that have its path; the loaded file *)
(* is shown first, and followed if it is open.                             *)
Replace(o, p) ==
  /\ ActiveIsAssembly
  /\ Found(disk, OwnPath, p) # {}
  /\ LET occs == doc[active].occs
         occ  == [path |-> p, link |-> None, same |-> FALSE,
                  shape |-> UNION Found(disk, OwnPath, p)]
         like == {n \in DOMAIN occs : occs[n].path = occs[o].path}
     IN /\ o \in DOMAIN occs
        /\ \E names \in {{o}, like} :
             Tracked(Put(doc, active,
                         Rebuilt(doc[active],
                                 [n \in DOMAIN occs |->
                                    IF n \in names THEN occ ELSE occs[n]])))
  /\ UNCHANGED disk

(* delete_occurrence.                                                      *)
DeleteOccurrence(o) ==
  /\ ActiveIsAssembly
  /\ LET occs == doc[active].occs
     IN /\ o \in DOMAIN occs
        /\ Tracked(Put(doc, active,
                       Rebuilt(doc[active],
                               [n \in DOMAIN occs \ {o} |-> occs[n]])))
  /\ UNCHANGED disk

(* _restore_workspace: every document is put back from the snapshot taken  *)
(* before the command, and nothing is followed.  When a snapshot cannot be *)
(* loaded that raises too, and the documents stay as the command left them.*)
RestoreWorkspace(files, left) ==
  /\ doc' = IF \A s \in Opened : CanRestore(files, doc[s])
              THEN [s \in Opened |-> Restored(files, doc[s])] ELSE left
  /\ rolled' = TRUE
  /\ UNCHANGED <<tabs, active, undo, redo, closed>>

(* What a command may have done before it raises: features of the part are *)
(* there already, or an occurrence is gone; place and relink load first.   *)
HalfDone ==
  {doc} \cup
  {Put(doc, active, d) : d \in
     IF doc[active].kind = "part"
       THEN {[doc[active] EXCEPT !.shape = {v}] : v \in Version}
       ELSE LET occs == doc[active].occs
            IN {Rebuilt(doc[active], [n \in DOMAIN occs \ {o} |-> occs[n]]) :
                  o \in DOMAIN occs}}

(* A tracked command raises.                                               *)
FailingCommand ==
  /\ Raising
  /\ active # None
  /\ \E left \in HalfDone : RestoreWorkspace(disk, left)
  /\ UNCHANGED disk

(* undo and redo: the document goes on one stack, the last snapshot of the *)
(* other is shown.                                                         *)
Undo ==
  /\ active # None
  /\ undo[active] # <<>>
  /\ CanRestore(disk, Last(undo[active]))
  /\ undo' = [undo EXCEPT ![active] = Front(@)]
  /\ redo' = [redo EXCEPT ![active] = Push(@, doc[active])]
  /\ UNCHANGED <<tabs, active, disk, closed>>
  /\ Commit(Put(doc, active, Restored(disk, Last(undo[active]))))

Redo ==
  /\ active # None
  /\ redo[active] # <<>>
  /\ CanRestore(disk, Last(redo[active]))
  /\ redo' = [redo EXCEPT ![active] = Front(@)]
  /\ undo' = [undo EXCEPT ![active] = Push(@, doc[active])]
  /\ UNCHANGED <<tabs, active, disk, closed>>
  /\ Commit(Put(doc, active, Restored(disk, Last(redo[active]))))

(* The version cannot be loaded: the workspace is put back; when that      *)
(* raises too, the stacks have moved already.                              *)
UndoFails ==
  /\ active # None
  /\ undo[active] # <<>>
  /\ ~CanRestore(disk, Last(undo[active]))
  /\ IF \A s \in Opened : CanRestore(disk, doc[s])
       THEN RestoreWorkspace(disk, doc)
       ELSE /\ undo' = [undo EXCEPT ![active] = Front(@)]
            /\ redo' = [redo EXCEPT ![active] = Push(@, doc[active])]
            /\ UNCHANGED <<tabs, active, doc, closed, rolled>>
  /\ UNCHANGED disk

RedoFails ==
  /\ active # None
  /\ redo[active] # <<>>
  /\ ~CanRestore(disk, Last(redo[active]))
  /\ IF \A s \in Opened : CanRestore(disk, doc[s])
       THEN RestoreWorkspace(disk, doc)
       ELSE /\ redo' = [redo EXCEPT ![active] = Front(@)]
            /\ undo' = [undo EXCEPT ![active] = Push(@, doc[active])]
            /\ UNCHANGED <<tabs, active, doc, closed, rolled>>
  /\ UNCHANGED disk

----------------------------------------------------------------------------
(* Saving                                                                  *)

Dirty == {s \in Opened : doc[s].dirty}

(* A slip in Linked: a document is saved without what it depends on.       *)
LinkedForgotten(S) == {}

(* The unsaved documents linked from those of S.                           *)
Linked(S) ==
  {t \in Dirty : \E s \in S : \E o \in DOMAIN doc[s].occs :
                   doc[s].occs[o].link = t}

(* What _save_session_with_dependencies saves before x: unsaved documents  *)
(* it is linked to, and theirs.                                            *)
Dependencies(x) ==
  LET before[i \in 0..Len(tabs)] ==
        IF i = 0 THEN Linked({x})
        ELSE LET S == before[i - 1] IN S \cup Linked(S)
  IN  before[Len(tabs)]

(* It raises for a document without a path, and where it comes back to a   *)
(* document it is saving.                                                  *)
Savable(x) == doc[x].path # None /\ x \notin Dependencies(x)

(* The files after the documents of S are saved; of two documents with the *)
(* same path the one that is saved later stays.                            *)
Disks(S) ==
  {[p \in Path |-> IF p \in DOMAIN w THEN FileOf(doc[w[p]]) ELSE disk[p]] :
     w \in {f \in [{doc[s].path : s \in S} -> S] :
              \A p \in DOMAIN f : doc[f[p]].path = p}}

Saved(S) ==
  [s \in Opened |-> [doc[s] EXCEPT !.dirty = @ /\ s \notin S]]

(* Save-As: every open assembly that refers to x or to its old path refers *)
(* to x and to its new path.                                               *)
Refers(occ, x, old) == occ.link = x \/ (old # None /\ occ.path = old)

Touched(docs, x, old) ==
  {s \in Opened : /\ docs[s].kind = "assembly"
                  /\ \E o \in DOMAIN docs[s].occs :
                       Refers(docs[s].occs[o], x, old)}

(* The touched assemblies that are rebuilt as new objects.                 *)
Renewals(docs, x, old) ==
  {N \in SUBSET Touched(docs, x, old) :
     \A s \in Touched(docs, x, old) \ N :
       \E o \in DOMAIN docs[s].occs : DOMAIN docs[s].occs = {o}}

Rebind(docs, x, old, new, renewed) ==
  LET moved(s) ==
        [o \in DOMAIN docs[s].occs |->
           LET occ  == docs[s].occs[o]
               here == s \in Touched(docs, x, old) /\ Refers(occ, x, old)
               link == IF here THEN x ELSE occ.link
           IN [occ EXCEPT !.path = IF here THEN new ELSE @, !.link = link,
                          !.same = @ /\ link = occ.link /\ link \notin renewed]]
  IN [s \in Opened |->
        IF s \in Touched(docs, x, old)
          THEN [Rebuilt(docs[s], moved(s)) EXCEPT !.dirty = TRUE]
          ELSE [docs[s] EXCEPT !.occs = moved(s)]]

(* To its own file or to a new one, or over that of another document.      *)
MaySaveTo(p) ==
  \/ p = doc[active].path
  \/ disk[p] = None
  \/ \E s \in Opened : doc[s].path = p /\ "open" \in Overwriting
  \/ (\A s \in Opened : doc[s].path # p) /\ "closed" \in Overwriting

(* save_document, to the document's own path or to another one.            *)
Save(p) ==
  /\ active # None
  /\ MaySaveTo(p)
  /\ active \notin Dependencies(active)
  /\ \A s \in Dependencies(active) : Savable(s)
  /\ \E files \in Disks(Dependencies(active)) :
       disk' = [files EXCEPT ![p] = FileOf(doc[active])]
  /\ UNCHANGED <<tabs, active, undo, redo, closed>>
  /\ LET old   == doc[active].path
         saved == [Saved(Dependencies(active) \cup {active})
                     EXCEPT ![active].path = p]
     IN \/ p = old /\ Commit(saved)
        \/ /\ p # old
           /\ \E renewed \in Renewals(saved, active, old) :
                Commit(Rebind(saved, active, old, p, renewed))

(* What is saved when saving stops halfway.                                *)
SavedBefore(S) == \A s \in S : Savable(s) /\ Dependencies(s) \subseteq S

SavesOnly(S) == SavedBefore(S) /\ disk' \in Disks(S) /\ doc' = Saved(S)

(* save_document raises for one of the unsaved documents it depends on;    *)
(* those it saved before stay saved, each after its own.                   *)
SaveStops ==
  /\ active # None
  /\ \/ active \in Dependencies(active)
     \/ \E s \in Dependencies(active) : ~Savable(s)
  /\ \E S \in SUBSET Dependencies(active) : SavesOnly(S)
  /\ UNCHANGED <<tabs, active, undo, redo, closed, rolled>>

(* save_all: every unsaved document, after those it depends on.            *)
SaveAll ==
  /\ \A s \in Dirty : Savable(s)
  /\ disk' \in Disks(Dirty)
  /\ UNCHANGED <<tabs, active, undo, redo, closed>>
  /\ Commit(Saved(Dirty))

SaveAllStops ==
  /\ \E s \in Dirty : ~Savable(s)
  /\ \E S \in SUBSET Dirty : SavesOnly(S)
  /\ UNCHANGED <<tabs, active, undo, redo, closed, rolled>>

(* save_all_documents through execute is tracked: the active document is   *)
(* marked as changed, and a failure rolls the documents back, not the      *)
(* files.                                                                  *)
ExecuteSaveAll ==
  /\ active # None
  /\ \A s \in Dirty : Savable(s)
  /\ disk' \in Disks(Dirty)
  /\ undo' = [undo EXCEPT ![active] = Push(@, doc[active])]
  /\ redo' = [redo EXCEPT ![active] = <<>>]
  /\ UNCHANGED <<tabs, active, closed>>
  /\ Commit([Sync(Saved(Dirty), tabs) EXCEPT ![active].dirty = TRUE])

ExecuteSaveAllStops ==
  /\ Raising
  /\ active # None
  /\ \E s \in Dirty : ~Savable(s)
  /\ \E S \in SUBSET Dirty :
       SavedBefore(S) /\ disk' \in Disks(S) /\ RestoreWorkspace(disk', Saved(S))

----------------------------------------------------------------------------
(* Closing and deleting                                                    *)

Forget(stacks) == [s \in Opened \ {active} |-> stacks[s]]

(* The active tab goes away; whoever was linked to it is linked to no tab. *)
CloseTab(docs) ==
  LET i    == CHOOSE n \in DOMAIN tabs : tabs[n] = active
      rest == RemoveAt(tabs, i)
      drop(occ) == IF occ.link = active
                     THEN [occ EXCEPT !.link = None, !.same = FALSE] ELSE occ
  IN /\ tabs' = rest
     /\ active' = IF rest = <<>> THEN None
                  ELSE IF i <= Len(rest) THEN rest[i] ELSE rest[Len(rest)]
     /\ closed' = closed \cup {active}
     /\ undo' = Forget(undo)
     /\ redo' = Forget(redo)
     /\ Commit([s \in Opened \ {active} |->
                  [docs[s] EXCEPT !.occs =
                     [o \in DOMAIN @ |-> drop(docs[s].occs[o])]]])

(* close_document with save=true: only this document is written.           *)
CloseSaving ==
  /\ active # None
  /\ doc[active].path # None
  /\ disk' = [disk EXCEPT ![doc[active].path] = FileOf(doc[active])]
  /\ CloseTab(doc)

(* close_document with save=false of a document without unsaved changes,   *)
(* or that was never saved.                                                *)
CloseUnchanged ==
  /\ active # None
  /\ doc[active].dirty => doc[active].path = None
  /\ CloseTab(doc)
  /\ UNCHANGED disk

(* A slip in BackToDisk: the assemblies keep the discarded shape.          *)
KeepDiscarded(d, x, file) == d

(* close_document with save=false that discards changes: the open          *)
(* assemblies that refer to the document show its file again.              *)
BackToDisk(d, x, file) ==
  LET back == {o \in DOMAIN d.occs : Refers(d.occs[o], x, doc[x].path)}
  IN IF d.kind = "part" \/ back = {} THEN d
     ELSE [Rebuilt(d, [o \in DOMAIN d.occs |->
                         IF o \in back
                           THEN [d.occs[o] EXCEPT !.link = None, !.same = FALSE,
                                                  !.shape = file.shape]
                           ELSE d.occs[o]]) EXCEPT !.dirty = TRUE]

CloseDiscarding ==
  /\ active # None
  /\ doc[active].dirty
  /\ doc[active].path # None
  /\ CanLoad(doc[active].path)
  /\ LET back(s) == IF s = active THEN doc[s]
                    ELSE BackToDisk(doc[s], active, FromFile(doc[active].path))
         touched == {s \in Opened : back(s) # doc[s]}
     IN CloseTab([s \in Opened |->
                    [back(s) EXCEPT !.occs = Parted(@, touched)]])
  /\ UNCHANGED disk

(* delete_document_file: refused while another open assembly refers to the *)
(* document; confirm and discard_unsaved_changes are the caller's.         *)
DeleteFile ==
  /\ active # None
  /\ doc[active].path # None
  /\ disk[doc[active].path] # None
  /\ \A s \in Opened \ {active} : \A o \in DOMAIN doc[s].occs :
       ~Refers(doc[s].occs[o], active, doc[active].path)
  /\ disk' = [disk EXCEPT ![doc[active].path] = None]
  /\ CloseTab(doc)

----------------------------------------------------------------------------
(* CadEngine.__init__ opens an empty part, which is closed here; the       *)
(* directory holds nothing yet.                                            *)
Init ==
  /\ tabs = <<>> /\ active = None
  /\ doc = <<>> /\ undo = <<>> /\ redo = <<>>
  /\ disk = [p \in Path |-> None]
  /\ closed = {} /\ rolled = FALSE

(* What a user does while no command raises and nothing is undone.         *)
PlainNext ==
  \/ \E s \in Session, kind \in {"part", "assembly"} : NewDocument(s, kind)
  \/ \E s \in Session, p \in Path : LoadDocument(s, p)
  \/ \E s \in Session : ActivateDocument(s)
  \/ \E v \in Version : EditPart(v)
  \/ \E o \in Name, p \in Path : Place(o, p) \/ Replace(o, p)
  \/ \E o \in Name : DeleteOccurrence(o)
  \/ \E p \in Path : Save(p)
  \/ SaveStops \/ SaveAll \/ SaveAllStops \/ ExecuteSaveAll
  \/ CloseSaving \/ CloseUnchanged \/ CloseDiscarding \/ DeleteFile

Next ==
  \/ PlainNext
  \/ FailingCommand \/ ExecuteSaveAllStops
  \/ Undo \/ Redo \/ UndoFails \/ RedoFails

Spec == Init /\ [][Next]_vars

(* Where nothing is kept to undo (MaxHistory = 0) and no command raises     *)
(* (Raising = FALSE), these are all the behaviours of Spec.                 *)
PlainSpec == Init /\ [][PlainNext]_vars

----------------------------------------------------------------------------
(* Properties                                                              *)

TypeOK ==
  /\ tabs \in Seq(Session)
  /\ active \in Session \cup {None}
  /\ doc \in [Opened -> Document]
  /\ undo \in [Opened -> Seq(Document)]
  /\ redo \in [Opened -> Seq(Document)]
  /\ disk \in [Path -> File \cup {None}]
  /\ closed \subseteq Session
  /\ rolled \in BOOLEAN

(* The tabs s shows, directly or through other assemblies.                 *)
LinkedFrom(docs, S) ==
  (UNION {{docs[t].occs[o].link : o \in DOMAIN docs[t].occs} : t \in S})
    \ {None}

Below(docs, order, s) ==
  LET below[i \in 0..Len(order)] ==
        IF i = 0 THEN LinkedFrom(docs, {s})
        ELSE LET S == below[i - 1] IN S \cup LinkedFrom(docs, S)
  IN  below[Len(order)]

NoCycle == \A s \in Opened : s \notin Below(doc, tabs, s)

(* After a command that succeeds every open assembly shows what its open   *)
(* components show, however deep they are nested and whatever the order of *)
(* the tabs (engine.py 112 and 116: "transitively and atomically",         *)
(* "independent of tab/open order"): not the version a component had in    *)
(* its file, nor the one it had before an undo, a rollback or a Save-As.   *)
AssembliesFollow ==
  (~rolled /\ NoCycle) =>
    \A s \in Opened : doc[s].kind = "assembly" =>
      /\ doc[s].shape = Compose(doc[s].occs)
      /\ \A o \in DOMAIN doc[s].occs :
           LET t == Source(doc, tabs, doc[s].occs[o])
           IN (t \notin {None, s} /\ doc[t].shape # {}) =>
                /\ doc[s].occs[o].link = t
                /\ doc[s].occs[o].shape = doc[t].shape

(* Everything s is made of is open, has geometry and is not made of itself.*)
AllOpen(s) ==
  \A t \in {s} \cup Below(doc, tabs, s) :
    /\ doc[t].shape # {} /\ t \notin Below(doc, tabs, t)
    /\ \A o \in DOMAIN doc[t].occs : doc[t].occs[o].link # None

(* Opening the file of s again would show what s shows now.                *)
ReadsBack(s) ==
  CanLoad(doc[s].path) /\ FromFile(doc[s].path).shape = doc[s].shape

(* The file of s still names the old file of its only component, which was *)
(* saved under another name. Then s has unsaved changes, but it may be the *)
(* object it was, and an assembly above it does not learn of them.         *)
Refiled(s) ==
  LET old == disk[doc[s].path].occs
  IN \E o \in DOMAIN old : /\ DOMAIN doc[s].occs = {o}
                           /\ old[o].path # doc[s].occs[o].path

(* Nothing that s shows has moved, and all of it is open.                  *)
InPlace(s) == AllOpen(s) /\ \A t \in Below(doc, tabs, s) : ~Refiled(t)

(* The dirty flag of an assembly can be trusted, which is what close,      *)
(* delete and save_all do: a document that has a path and no unsaved       *)
(* changes, and whose components are all open and where they were saved,   *)
(* looks the same when it is opened again, so an edit of a part has to     *)
(* mark every assembly above it and a Save-As of a part every assembly     *)
(* that names its file.                                                    *)
CleanIsSaved ==
  \A s \in Opened :
    (~rolled /\ doc[s].path # None /\ ~doc[s].dirty /\ InPlace(s)) =>
      ReadsBack(s)

(* save_document commits an assembly together with what it shows: it has   *)
(* no unsaved changes afterwards and looks the same when it is opened      *)
(* again, however deep the edited part is                                  *)
(* (test_saving_assembly_commits_dirty_linked_component_first).            *)
SaveCommits ==
  [][(~rolled /\ \E p \in Path : Save(p)) =>
       (InPlace(active)' => ReadsBack(active)' /\ ~doc'[active].dirty)]_vars

(* After a document is closed without saving no open assembly shows the    *)
(* discarded work (engine.py 415: "parents must return to the disk version *)
(* too"): whoever was placed from its file, and shows no other tab, shows  *)
(* what the file holds.                                                    *)
DiscardReachesParents ==
  [][CloseDiscarding =>
       \A s \in Opened' : \A o \in DOMAIN doc'[s].occs :
         LET occ == doc'[s].occs[o]
         IN (occ.path = doc[active].path /\ occ.link = None) =>
              occ.shape = FromFile(doc[active].path).shape]_vars

(* A command that raises leaves every document as it was (engine.py 334:   *)
(* execute is "one atomic CAD operation across the whole open-document     *)
(* workspace"): what it shows, its path, its dirty flag, and the files its *)
(* occurrences were placed from.                                           *)
FailedCommandChangesNothing ==
  [][FailingCommand =>
       \A s \in Opened : Snapshot(doc'[s]) = Snapshot(doc[s])]_vars
=============================================================================
