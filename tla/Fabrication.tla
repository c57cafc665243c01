----------------------------- MODULE Fabrication ------------------------------
(***************************************************************************)
(* From the model to the printer: the mesh cache of a project runtime      *)
(* (cad_runtime.py, mesh.py), the checks before printing (dfm.py), slicing *)
(* and upload (slicer.py, printers.py), quotes of the print service        *)
(* (slant3d.py) and downloads, as the routes of manufacturing.py and       *)
(* cad.py call them, while commands and AI turns edit the model.           *)
(*                                                                         *)
(* A shape stands for a whole B-Rep model; Unfinished is what the engine   *)
(* holds in the middle of an AI turn. Meshes with edges and meshes without *)
(* have keys of their own; one of the two kinds is modelled.               *)
(***************************************************************************)
EXTENDS Naturals

CONSTANTS
  Order,     \* requests for a mesh, a file, a print or a quote
  Body,      \* models at rest
  Fitting,   \* those that fit the build volume
  Unfinished, NoShape, NoMesh,
  MaxStamp   \* bound on the revision counter

ASSUME FabricationAssumption ==
  /\ Fitting \subseteq Body /\ MaxStamp \in Nat
  /\ {Unfinished, NoShape, NoMesh} \cap Body = {}
  /\ NoShape # Unfinished /\ NoMesh \notin {NoShape, Unfinished}

VARIABLES
  model,     \* engine.doc.shape
  stamp,     \* engine.revision
  turn,      \* the revision at which the turn that holds operation_lock began
  pre,       \* pre_workspace of the command that holds engine.lock
  meshes,    \* CadRuntime._mesh_cache: the shape whose mesh a key has
  again,     \* revisions that a restoration left to a second model
  left,      \* a turn ended with the half of its edits in the model
  desk,      \* how far a request is
  want,      \* what it was asked for, once it has its mesh if it needs one
  seen,      \* its local key
  drawn,     \* the shape of the mesh that it is about to store
  cut        \* the shape in the file that was made for it

orders == <<desk, want, seen, drawn, cut>>
fbVars == <<model, stamp, turn, pre, meshes, again, left, orders>>

Model == Body \cup {Unfinished, NoShape}
Stamp == 0..MaxStamp
NoTurn == MaxStamp + 1
NoCommand == [stamp |-> 0, model |-> NoMesh]
Wants == {"view", "3mf", "file", "slice", "upload", "quote", "document"}

\* The types of the variables. A request has a file between its export and its
\* end only.
FabricationTypeOK ==
  /\ model \in Model /\ stamp \in Stamp
  /\ turn \in Stamp \cup {NoTurn}
  /\ pre \in {NoCommand} \cup [stamp : Stamp, model : Model]
  /\ meshes \in [Stamp -> Model \cup {NoMesh}]
  /\ again \subseteq Stamp
  /\ left \in BOOLEAN
  /\ desk \in [Order -> {"new", "key", "draw", "store", "return", "judged",
                         "exported", "sliced", "sent"}]
  /\ want \in [Order -> Wants]
  /\ seen \in [Order -> Stamp] /\ drawn \in [Order -> Model \cup {NoMesh}]
  /\ cut \in [Order -> Model \cup {NoMesh}]
  /\ \A o \in Order :
       cut[o] # NoMesh <=> desk[o] \in {"exported", "sliced", "sent"}

----------------------------------------------------------------------------
(* The model                                                               *)

operationFree == turn = NoTurn
engineFree == pre = NoCommand
Forgotten == [k \in Stamp |-> NoMesh]

\* What may be in the engine: the half of a turn only while a turn is at work,
\* or once a turn has left one.
Holdable == IF operationFree /\ ~left THEN Model \ {Unfinished} ELSE Model

\* CadEngine.execute, undo, redo and activate_document hold engine.lock to
\* their end: for a client also operation_lock, in a turn the turn has it.
CommandBegins ==
  /\ engineFree /\ stamp < MaxStamp
  /\ pre' = [stamp |-> stamp, model |-> model]
  /\ UNCHANGED <<model, stamp, turn, meshes, again, left, orders>>

\* A plausible slip in CommandChanges: a change without a new revision.
CommandChangesQuietly ==
  /\ ~engineFree /\ stamp = pre.stamp
  /\ model' \in Holdable /\ meshes' = Forgotten
  /\ UNCHANGED <<stamp, turn, pre, again, left, orders>>

\* _changed, before verify_after_command and the synchronisation: the new
\* revision can be read at once, the model only when the lock is free. The
\* runtime forgets all meshes. A command comes here once.
CommandChanges ==
  /\ ~engineFree /\ stamp = pre.stamp /\ stamp < MaxStamp
  /\ stamp' = stamp + 1
  /\ model' \in Holdable /\ meshes' = Forgotten
  /\ UNCHANGED <<turn, pre, again, left, orders>>

CommandSucceeds ==
  /\ ~engineFree /\ pre' = NoCommand
  /\ UNCHANGED <<model, stamp, turn, meshes, again, left, orders>>

\* _restore_workspace: a revision above this one will be given out again, and
\* this one is left to a second model if the snapshot does not load to the
\* model there was.
CommandFails ==
  /\ ~engineFree /\ pre' = NoCommand
  /\ model' \in Holdable /\ stamp' = pre.stamp /\ meshes' = Forgotten
  /\ again' = again \cup (pre.stamp + 1)..stamp
                    \cup {r \in {pre.stamp} : model' # pre.model}
  /\ UNCHANGED <<turn, left, orders>>

\* The snapshot cannot be loaded, or there is none (open, close and delete are
\* not tracked): what the command did before it raised stays, also what it did
\* before _changed, under the revision there was.
CommandStops ==
  /\ ~engineFree /\ pre' = NoCommand
  /\ model' \in IF stamp = pre.stamp THEN Holdable ELSE {model}
  /\ again' = again \cup {r \in {stamp} : model' # model}
  /\ UNCHANGED <<stamp, turn, meshes, left, orders>>

\* An AI turn takes operation_lock and its first snapshot.
TurnBegins ==
  /\ operationFree /\ engineFree /\ stamp < MaxStamp
  /\ turn' = stamp
  /\ UNCHANGED <<model, stamp, pre, meshes, again, left, orders>>

\* _rollback to a snapshot of this turn: the revision is the one of the
\* snapshot, plus one. The first of them is of before the turn, a later one may
\* be of half of it. Then it is planned again, or the turn is over.
TurnRollsBack ==
  /\ ~operationFree /\ engineFree
  /\ \E r \in turn..stamp :
       /\ r < MaxStamp
       /\ stamp' = r + 1
       /\ again' = again \cup (r + 1)..stamp
       /\ model' \in IF r = turn /\ ~left THEN Model \ {Unfinished} ELSE Model
  /\ meshes' = Forgotten
  /\ UNCHANGED <<turn, pre, left, orders>>

\* The turn has succeeded; or it has failed, and was rolled back, or was not
\* (the roll-back raised, or it was cancelled as it was saved).
TurnIsOver ==
  /\ ~operationFree /\ engineFree
  /\ turn' = NoTurn
  /\ left' = (left \/ model = Unfinished)
  /\ UNCHANGED <<model, stamp, pre, meshes, again, orders>>

----------------------------------------------------------------------------
(* CadRuntime.mesh                                                         *)

Step(o, d) == desk' = [desk EXCEPT ![o] = d]
engineSide == <<model, stamp, turn, pre, again, left>>

\* The request is over, with an answer or an error.
Over(o) ==
  /\ Step(o, "new")
  /\ want' = [want EXCEPT ![o] = "view"]
  /\ seen' = [seen EXCEPT ![o] = 0]
  /\ drawn' = [drawn EXCEPT ![o] = NoMesh]
  /\ cut' = [cut EXCEPT ![o] = NoMesh]

\* An export of a file needs no mesh.
AskFile(o) ==
  /\ desk[o] = "new"
  /\ want' = [want EXCEPT ![o] = "file"]
  /\ Step(o, "judged")
  /\ UNCHANGED <<engineSide, meshes, seen, drawn, cut>>

\* The key is read without a lock, also in the middle of a command.
ReadKey(o) ==
  /\ desk[o] = "new"
  /\ seen' = [seen EXCEPT ![o] = stamp]
  /\ Step(o, "key")
  /\ UNCHANGED <<engineSide, meshes, want, drawn, cut>>

LookUp(o) ==
  /\ desk[o] = "key"
  /\ Step(o, IF meshes[seen[o]] = NoMesh THEN "draw" ELSE "return")
  /\ UNCHANGED <<engineSide, meshes, want, seen, drawn, cut>>

\* build_web_mesh, under engine.lock alone: in the middle of a turn it draws
\* what is there. Nothing is drawn of no shape.
DrawMesh(o) ==
  /\ desk[o] = "draw" /\ engineFree
  /\ drawn' = [drawn EXCEPT ![o] = model]
  /\ Step(o, "store")
  /\ UNCHANGED <<engineSide, meshes, want, seen, cut>>

StoreMesh(o) ==
  /\ desk[o] = "store"
  /\ meshes' = [meshes EXCEPT ![seen[o]] = drawn[o]]
  /\ drawn' = [drawn EXCEPT ![o] = NoMesh]
  /\ Step(o, "return")
  /\ UNCHANGED <<engineSide, want, seen, cut>>

\* _preflight_build_volume: only a mesh can be too large. A quote needs the
\* whole precheck to pass. The half of a model may pass or not.
Passes(w, s) ==
  CASE w \in {"slice", "upload"} -> s \in Fitting \cup {Unfinished, NoShape}
    [] w = "quote" -> s \in Fitting \cup {Unfinished}
    [] OTHER -> FALSE

\* The mesh is read from the cache once more, where a change may have removed
\* it (KeyError). A view and a check are done with it. A print and a quote go
\* on with one that passes; export_3mf with one that has triangles (Write3mf).
Return(o) ==
  LET s == meshes[seen[o]] IN
  /\ desk[o] = "return"
  /\ \/ Over(o)
     \/ \E w \in {"slice", "upload", "quote"} :
          /\ s # NoMesh /\ Passes(w, s)
          /\ Step(o, "judged") /\ seen' = [seen EXCEPT ![o] = 0]
          /\ want' = [want EXCEPT ![o] = w]
          /\ UNCHANGED <<drawn, cut>>
  /\ UNCHANGED <<engineSide, meshes>>

----------------------------------------------------------------------------
(* Export, slicing, upload, quotes, downloads                              *)

Exported(o, s) == Step(o, "exported") /\ cut' = [cut EXCEPT ![o] = s]

\* write_3mf: the file is made of the mesh, whatever that was drawn of.
Write3mf(o) ==
  LET s == meshes[seen[o]] IN
  /\ desk[o] = "return" /\ s \notin {NoMesh, NoShape}
  /\ want' = [want EXCEPT ![o] = "3mf"]
  /\ Exported(o, s) /\ seen' = [seen EXCEPT ![o] = 0]
  /\ UNCHANGED <<engineSide, meshes, drawn>>

\* download_document saves the active document first, under engine.lock alone.
\* That its file may be saved again before it is read gives what a later
\* request gives; that the active document may be another one by the time its
\* path is read is left out.
SaveDocument(o) ==
  /\ desk[o] = "new" /\ engineFree
  /\ want' = [want EXCEPT ![o] = "document"]
  /\ Exported(o, model)
  /\ UNCHANGED <<engineSide, meshes, seen, drawn>>

\* A plausible slip in Export: only the lock of the engine is taken.
ExportAtOnce(o) ==
  /\ desk[o] = "judged" /\ engineFree /\ model # NoShape
  /\ Exported(o, model)
  /\ UNCHANGED <<engineSide, meshes, want, seen, drawn>>

\* export: the STL file is of the model at this moment, not of the mesh that
\* was checked. operation_lock keeps it out of turns.
Export(o) ==
  /\ desk[o] = "judged" /\ operationFree /\ engineFree /\ model # NoShape
  /\ Exported(o, model)
  /\ UNCHANGED <<engineSide, meshes, want, seen, drawn>>

\* slice_stl: the slicer is another process; what it refuses is EndOrder.
Slice(o) ==
  /\ desk[o] = "exported" /\ want[o] \in {"slice", "upload"}
  /\ Step(o, "sliced")
  /\ UNCHANGED <<engineSide, meshes, want, seen, drawn, cut>>

\* upload_gcode: the printer may have the file although its answer is lost.
\* Whether it starts to print at once changes nothing here.
Upload(o) ==
  /\ desk[o] = "sliced" /\ want[o] = "upload"
  /\ Step(o, "sent")
  /\ UNCHANGED <<engineSide, meshes, want, seen, drawn, cut>>

\* FileResponse: what was made is downloaded.
Download(o) ==
  /\ \/ desk[o] = "exported" /\ want[o] \in {"3mf", "file", "document"}
     \/ desk[o] = "sliced" /\ want[o] = "slice"
  /\ Step(o, "sent")
  /\ UNCHANGED <<engineSide, meshes, want, seen, drawn, cut>>

\* call_slant_tool: the service has the file once tools/call was sent.
Quote(o) ==
  /\ desk[o] = "exported" /\ want[o] = "quote"
  /\ Step(o, "sent")
  /\ UNCHANGED <<engineSide, meshes, want, seen, drawn, cut>>

\* The answer; or there is no shape to export, the slicer is missing or times
\* out, a printer or service cannot be reached, a file is too large or gone.
EndOrder(o) ==
  /\ desk[o] \in {"judged", "exported", "sliced", "sent"}
  /\ Over(o)
  /\ UNCHANGED <<engineSide, meshes>>

----------------------------------------------------------------------------
\* A project that was just made: its empty document was saved.
FabricationInit ==
  /\ model = NoShape /\ stamp = 0 /\ turn = NoTurn /\ pre = NoCommand
  /\ meshes = Forgotten /\ again = {} /\ left = FALSE
  /\ desk = [o \in Order |-> "new"] /\ want = [o \in Order |-> "view"]
  /\ seen = [o \in Order |-> 0] /\ drawn = [o \in Order |-> NoMesh]
  /\ cut = [o \in Order |-> NoMesh]

FabricationNext ==
  \/ CommandBegins \/ CommandChanges \/ CommandSucceeds \/ CommandFails
  \/ CommandStops
  \/ TurnBegins \/ TurnRollsBack \/ TurnIsOver
  \/ \E o \in Order :
       \/ AskFile(o) \/ ReadKey(o) \/ LookUp(o) \/ DrawMesh(o) \/ StoreMesh(o)
       \/ Return(o) \/ Write3mf(o) \/ SaveDocument(o) \/ Export(o) \/ Slice(o)
       \/ Upload(o) \/ Download(o) \/ Quote(o) \/ EndOrder(o)

FabricationSpec == FabricationInit /\ [][FabricationNext]_fbVars

----------------------------------------------------------------------------
\* The file that is sliced, uploaded, quoted or exported as STL or STEP is not
\* of the middle of a turn that may yet be rolled back, though the mesh that
\* was checked for it may have been: these roads wait for operation_lock. The
\* half of a turn leaves the server by the two that do not wait, a 3MF file
\* made of the cached mesh and the document itself, or after a turn has ended
\* and left its half in the model.
OnlyFinishedIsMade ==
  \A o \in Order : cut[o] = Unfinished =>
                     left \/ want[o] \in {"3mf", "document"}

\* The mesh that viewers get for the current revision is of the current
\* model, unless the revision was in use before for another one: a failed
\* command or a rolled-back plan set the counter back below it, or left it to
\* another model. A mesh of the first use, or one whose key was read in the
\* middle of the failing command, may then have been on its way.
StaleMeshNeedsRollback ==
  meshes[stamp] \in {NoMesh, model} \/ stamp \in again

=============================================================================
