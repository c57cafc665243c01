------------------------- MODULE DocumentsProofs --------------------------
(***************************************************************************)
(* Proofs about Fabrication, for any requests and models, and about        *)
(* DesktopView, for any pictures: what is made of the model, and what is   *)
(* shown of it. Both have a cache whose keys are revisions of the engine,  *)
(* and both arguments are about the revisions a key may be of. At the end  *)
(* MCDocuments, which has these and the models of what is in a document    *)
(* side by side.                                                           *)
(***************************************************************************)
EXTENDS MCDocuments, AssemblyLinksProofs, PartHistoryProofs,
        AssemblyPosesProofs

----------------------------------------------------------------------------
(* What is made.                                                           *)
(*                                                                         *)
(* A key of the cache, and a key a request still holds, is a revision the  *)
(* engine has passed, or one that a restoration left to a second model. So *)
(* a mesh that is stored late lands under the current revision only if it  *)
(* is of the current model or if that revision is such a one. In the       *)
(* middle of a command the same is said of the snapshot, which the command *)
(* may yet be rolled back to.                                              *)

(* A turn began at a revision that left room for its end, and the engine   *)
(* holds half a model only during a turn or after one that left it so. A   *)
(* command began at a revision of its turn, and has not changed the model  *)
(* as long as it has that revision.                                        *)
TurnFits ==
  /\ turn # NoTurn => turn <= stamp /\ turn < MaxStamp
  /\ model = Unfinished => turn # NoTurn \/ left
  /\ pre # NoCommand =>
       /\ pre.stamp <= stamp /\ (turn # NoTurn => turn <= pre.stamp)
       /\ pre.stamp = stamp => pre.model = model

(* Keys are of the past, or were freed by a roll-back.                     *)
KeysArePast ==
  /\ \A o \in Order : seen[o] <= stamp \/ seen[o] \in again
  /\ \A k \in Stamp : meshes[k] # NoMesh => k <= stamp \/ k \in again

(* A mesh on its way to the current revision is of the current model, and  *)
(* one on its way to the revision of a command's snapshot of its model.    *)
LateMeshFits ==
  \A o \in Order : desk[o] = "store" =>
    /\ seen[o] = stamp /\ stamp \notin again => drawn[o] = model
    /\ pre # NoCommand /\ seen[o] = pre.stamp /\ pre.stamp \notin again =>
         drawn[o] = pre.model

FabricationInv ==
  /\ FabricationTypeOK /\ TurnFits /\ KeysArePast /\ LateMeshFits
  /\ OnlyFinishedIsMade /\ StaleMeshNeedsRollback

(* Every step of the specification, one disjunct per action.               *)
LEMMA FabricationCases ==
  ASSUME FabricationNext, NEW P,
         CommandBegins => P, CommandChanges => P, CommandSucceeds => P,
         CommandFails => P, CommandStops => P,
         TurnBegins => P, TurnRollsBack => P, TurnIsOver => P,
         \A o \in Order : AskFile(o) => P, \A o \in Order : ReadKey(o) => P,
         \A o \in Order : LookUp(o) => P, \A o \in Order : DrawMesh(o) => P,
         \A o \in Order : StoreMesh(o) => P, \A o \in Order : Return(o) => P,
         \A o \in Order : Write3mf(o) => P,
         \A o \in Order : SaveDocument(o) => P,
         \A o \in Order : Export(o) => P, \A o \in Order : Slice(o) => P,
         \A o \in Order : Upload(o) => P, \A o \in Order : Download(o) => P,
         \A o \in Order : Quote(o) => P, \A o \in Order : EndOrder(o) => P
  PROVE  P
  BY Zenon DEF FabricationNext

LEMMA FabricationInitInv == FabricationInit => FabricationInv
<1> SUFFICES ASSUME FabricationInit PROVE FabricationInv
  OBVIOUS
<1>1. /\ 0 \in Stamp /\ NoTurn \notin Stamp /\ NoMesh # Unfinished
      /\ Unfinished # NoShape /\ NoShape \in Model
  BY FabricationAssumption DEF Stamp, NoTurn, Model
<1>2. FabricationTypeOK
  BY <1>1 DEF FabricationInit, FabricationTypeOK, Wants, Forgotten
<1>3. TurnFits /\ KeysArePast /\ LateMeshFits
  BY <1>1 DEF FabricationInit, TurnFits, KeysArePast, LateMeshFits, Forgotten
<1>4. OnlyFinishedIsMade /\ StaleMeshNeedsRollback
  BY <1>1 DEF FabricationInit, OnlyFinishedIsMade, StaleMeshNeedsRollback,
              Forgotten
<1> QED
  BY <1>2, <1>3, <1>4 DEF FabricationInv

(* The counter is set back to r or r + 1: what was above may come again.   *)
LEMMA SetBackFits ==
  ASSUME FabricationInv, NEW r \in Stamp, r <= stamp,
         stamp' \in Stamp, stamp' >= r, meshes' = Forgotten, seen' = seen,
         again' \subseteq Stamp,
         again \cup (r + 1)..stamp \subseteq again'
  PROVE  KeysArePast'
<1>1. stamp \in Nat /\ r \in Nat /\ stamp' \in Nat
  BY FabricationAssumption DEF FabricationInv, FabricationTypeOK, Stamp
<1>2. ASSUME NEW o \in Order PROVE seen[o] <= stamp' \/ seen[o] \in again'
  <2>1. seen[o] \in Nat /\ (seen[o] <= stamp \/ seen[o] \in again)
    BY FabricationAssumption
    DEF FabricationInv, FabricationTypeOK, KeysArePast, Stamp
  <2> QED
    BY <1>1, <2>1
<1> QED
  BY <1>2 DEF KeysArePast, Forgotten

(* What came before r stays below it, and what is freed is a revision.     *)
LEMMA FreedAreStamps ==
  ASSUME MaxStamp \in Nat, Stamp = 0..MaxStamp, NEW r \in Stamp,
         NEW old \in SUBSET Stamp, NEW top \in Stamp
  PROVE  old \cup (r + 1)..top \subseteq Stamp
  OBVIOUS

LEMMA FabricationStepInv ==
  FabricationInv /\ [FabricationNext]_fbVars => FabricationInv'
<1> SUFFICES ASSUME FabricationInv, [FabricationNext]_fbVars
             PROVE  FabricationInv'
  OBVIOUS
<1>a. /\ MaxStamp \in Nat /\ Stamp = 0..MaxStamp /\ NoTurn \notin Stamp
      /\ Unfinished \in Model /\ NoMesh \notin Model
      /\ NoMesh # Unfinished /\ Holdable \subseteq Model
  BY FabricationAssumption DEF Stamp, NoTurn, Model, Holdable
<1>b. pre # NoCommand => pre \in [stamp : Stamp, model : Model]
  BY DEF FabricationInv, FabricationTypeOK
<1>c. Unfinished \in Holdable => turn # NoTurn \/ left
  BY DEF Holdable, operationFree
<1>f. Forgotten \in [Stamp -> Model \cup {NoMesh}]
        /\ \A k \in Stamp : Forgotten[k] = NoMesh
  BY DEF Forgotten
<1> USE <1>a
    DEF FabricationInv, FabricationTypeOK, TurnFits, KeysArePast,
        LateMeshFits, OnlyFinishedIsMade, StaleMeshNeedsRollback,
        Step, engineSide, orders, operationFree, engineFree
<1>1. CASE UNCHANGED fbVars
  BY <1>1 DEF fbVars
<1>2. CASE FabricationNext
  <2>1. CommandBegins => FabricationInv'
    BY DEF CommandBegins
  <2>2. CommandChanges => FabricationInv'
    BY <1>b, <1>c, <1>f DEF CommandChanges
  <2>3. CommandSucceeds => FabricationInv'
    BY DEF CommandSucceeds
  <2>4. ASSUME CommandFails PROVE FabricationInv'
    <3>1. /\ pre # NoCommand /\ pre.stamp \in Stamp /\ pre.stamp <= stamp
          /\ pre.model \in Model
      BY <1>b, <2>4 DEF CommandFails
    <3>2. /\ model' \in Holdable /\ stamp' = pre.stamp /\ meshes' = Forgotten
          /\ pre' = NoCommand
          /\ UNCHANGED <<turn, left, desk, want, seen, drawn, cut>>
      BY <2>4 DEF CommandFails
    <3>3. again' = again \cup (pre.stamp + 1)..stamp
                         \cup {r \in {pre.stamp} : model' # pre.model}
      BY <2>4 DEF CommandFails
    <3>4. again \cup (pre.stamp + 1)..stamp \subseteq again'
            /\ again' \subseteq Stamp
      <4>1. again \in SUBSET Stamp /\ stamp \in Stamp
        OBVIOUS
      <4> HIDE DEF FabricationInv
      <4>2. again \cup (pre.stamp + 1)..stamp \subseteq Stamp
        BY <1>a, <3>1, <4>1, FreedAreStamps
      <4> QED
        BY <3>1, <3>3, <4>2
    <3>5. KeysArePast'
      <4>1. stamp' \in Stamp /\ stamp' >= pre.stamp /\ seen' = seen
        BY <3>1, <3>2
      <4> HIDE DEF FabricationInv, KeysArePast
      <4> QED
        BY <3>1, <3>2, <3>4, <4>1, SetBackFits
    <3>6. LateMeshFits'
      BY <3>1, <3>2, <3>3
    <3> QED
      BY <1>c, <1>f, <3>1, <3>2, <3>4, <3>5, <3>6
  <2>5. ASSUME CommandStops PROVE FabricationInv'
    <3>1. /\ pre # NoCommand /\ pre' = NoCommand
          /\ model' \in Model /\ (model' = model \/ model' \in Holdable)
          /\ again' = again \cup {r \in {stamp} : model' # model}
          /\ UNCHANGED <<stamp, turn, meshes, left, desk, want, seen, drawn,
                         cut>>
      BY <2>5 DEF CommandStops
    <3>2. /\ again \subseteq again' /\ again' \subseteq Stamp
          /\ stamp' \notin again' => model' = model
      BY <3>1
    <3>3. FabricationTypeOK' /\ TurnFits'
      BY <1>c, <3>1, <3>2
    <3>4. KeysArePast' /\ LateMeshFits'
      BY <3>1, <3>2
    <3>5. OnlyFinishedIsMade' /\ StaleMeshNeedsRollback'
      BY <3>1, <3>2
    <3> QED
      BY <3>3, <3>4, <3>5
  <2>6. TurnBegins => FabricationInv'
    BY DEF TurnBegins
  <2>7. ASSUME TurnRollsBack PROVE FabricationInv'
    <3>1. PICK r \in turn..stamp :
            /\ r < MaxStamp /\ stamp' = r + 1
            /\ again' = again \cup (r + 1)..stamp
            /\ model' \in Model
      BY <2>7 DEF TurnRollsBack
    <3>2. /\ turn # NoTurn /\ pre = NoCommand /\ meshes' = Forgotten
          /\ UNCHANGED <<turn, pre, left, desk, want, seen, drawn, cut>>
      BY <2>7 DEF TurnRollsBack
    <3>3. r \in Stamp /\ r <= stamp /\ turn <= r /\ stamp' \in Stamp
      BY <3>1, <3>2
    <3>4. again' \subseteq Stamp
      <4>1. again \in SUBSET Stamp /\ stamp \in Stamp
        OBVIOUS
      <4> HIDE DEF FabricationInv
      <4> QED
        BY <1>a, <3>1, <3>3, <4>1, FreedAreStamps
    <3>5. KeysArePast'
      <4>1. stamp' >= r /\ seen' = seen
        BY <3>1, <3>2, <3>3
      <4> HIDE DEF FabricationInv, KeysArePast
      <4> QED
        BY <3>1, <3>2, <3>3, <3>4, <4>1, SetBackFits
    <3>6. LateMeshFits'
      <4> SUFFICES ASSUME NEW o \in Order,
                          seen[o] = stamp', stamp' \notin again'
                   PROVE  FALSE
        BY <3>2
      <4>1. seen[o] <= stamp \/ seen[o] \in again
        OBVIOUS
      <4> QED
        BY <3>1, <3>3, <4>1
    <3> QED
      BY <1>f, <3>1, <3>2, <3>3, <3>4, <3>5, <3>6
  <2>8. TurnIsOver => FabricationInv'
    BY DEF TurnIsOver
  <2>9. \A o \in Order : AskFile(o) => FabricationInv'
    BY DEF AskFile, Wants
  <2>10. \A o \in Order : ReadKey(o) => FabricationInv'
    BY DEF ReadKey
  <2>11. \A o \in Order : LookUp(o) => FabricationInv'
    BY DEF LookUp
  <2>12. \A o \in Order : DrawMesh(o) => FabricationInv'
    BY DEF DrawMesh
  <2>13. ASSUME NEW o \in Order, StoreMesh(o) PROVE FabricationInv'
    <3>1. /\ desk[o] = "store" /\ desk' = [desk EXCEPT ![o] = "return"]
          /\ meshes' = [meshes EXCEPT ![seen[o]] = drawn[o]]
          /\ drawn' = [drawn EXCEPT ![o] = NoMesh]
          /\ UNCHANGED <<model, stamp, turn, pre, again, left, want, seen, cut>>
      BY <2>13 DEF StoreMesh
    <3>2. FabricationTypeOK' /\ TurnFits'
      BY <3>1
    <3>3. KeysArePast'
      BY <3>1
    <3>4. LateMeshFits'
      BY <3>1
    <3>5. OnlyFinishedIsMade'
      BY <3>1
    <3>6. StaleMeshNeedsRollback'
      <4>1. CASE seen[o] = stamp
        BY <3>1, <4>1
      <4>2. CASE seen[o] # stamp
        BY <3>1, <4>2
      <4> QED
        BY <4>1, <4>2
    <3> QED
      BY <3>2, <3>3, <3>4, <3>5, <3>6
  <2>14. ASSUME NEW o \in Order, Return(o) PROVE FabricationInv'
    <3>1. CASE Over(o)
      BY <2>14, <3>1 DEF Return, Over, Wants
    <3>2. ASSUME NEW w \in {"slice", "upload", "quote"},
                 /\ Step(o, "judged") /\ seen' = [seen EXCEPT ![o] = 0]
                 /\ want' = [want EXCEPT ![o] = w]
                 /\ UNCHANGED <<drawn, cut>>
          PROVE  FabricationInv'
      <4>1. FabricationTypeOK' /\ TurnFits'
        BY <2>14, <3>2 DEF Return, Wants
      <4>2. KeysArePast' /\ LateMeshFits'
        BY <2>14, <3>2 DEF Return
      <4>3. OnlyFinishedIsMade' /\ StaleMeshNeedsRollback'
        BY <2>14, <3>2 DEF Return
      <4> QED
        BY <4>1, <4>2, <4>3
    <3> QED
      BY <2>14, <3>1, <3>2 DEF Return
  <2>15. ASSUME NEW o \in Order, Write3mf(o) PROVE FabricationInv'
    <3> DEFINE s == meshes[seen[o]]
    <3>1. /\ desk[o] = "return" /\ s \in Model /\ s # NoMesh
          /\ want' = [want EXCEPT ![o] = "3mf"]
          /\ desk' = [desk EXCEPT ![o] = "exported"]
          /\ cut' = [cut EXCEPT ![o] = s]
          /\ seen' = [seen EXCEPT ![o] = 0]
          /\ UNCHANGED <<model, stamp, turn, pre, again, left, meshes, drawn>>
      BY <2>15 DEF Write3mf, Exported
    <3> HIDE DEF s
    <3>2. FabricationTypeOK' /\ TurnFits'
      BY <3>1 DEF Wants
    <3>3. KeysArePast' /\ LateMeshFits'
      BY <3>1
    <3>4. OnlyFinishedIsMade' /\ StaleMeshNeedsRollback'
      BY <3>1
    <3> QED
      BY <3>2, <3>3, <3>4
  <2>16. \A o \in Order : SaveDocument(o) => FabricationInv'
    BY DEF SaveDocument, Exported, Wants
  <2>17. \A o \in Order : Export(o) => FabricationInv'
    BY DEF Export, Exported
  <2>18. \A o \in Order : Slice(o) => FabricationInv'
    BY DEF Slice
  <2>19. \A o \in Order : Upload(o) => FabricationInv'
    BY DEF Upload
  <2>20. \A o \in Order : Download(o) => FabricationInv'
    BY DEF Download
  <2>21. \A o \in Order : Quote(o) => FabricationInv'
    BY DEF Quote
  <2>22. \A o \in Order : EndOrder(o) => FabricationInv'
    BY DEF EndOrder, Over, Wants
  <2> HIDE DEF FabricationInv
  <2> QED
    BY <1>2, <2>1, <2>2, <2>3, <2>4, <2>5, <2>6, <2>7, <2>8, <2>9, <2>10,
       <2>11, <2>12, <2>13, <2>14, <2>15, <2>16, <2>17, <2>18, <2>19, <2>20,
       <2>21, <2>22, FabricationCases, Zenon
<1> QED
  BY <1>1, <1>2

LEMMA FabricationInvariant == FabricationSpec => []FabricationInv
  BY FabricationInitInv, FabricationStepInv, PTL DEF FabricationSpec

(* FabricationTypeOK: in particular the revision stays in its bound and a  *)
(* request has a file exactly between its export and its end.              *)
THEOREM FabricationTypeCorrect == FabricationSpec => []FabricationTypeOK
<1>1. FabricationInv => FabricationTypeOK
  BY DEF FabricationInv
<1> QED
  BY <1>1, FabricationInvariant, PTL

(* OnlyFinishedIsMade: the file that is exported, sliced, uploaded or      *)
(* quoted (CadRuntime.export, under operation_lock) is of half a turn only *)
(* if a turn has ended and left its half; a 3MF file of the cached mesh and*)
(* the document itself are the two that may be.                            *)
THEOREM NoHalfTurnIsMade == FabricationSpec => []OnlyFinishedIsMade
<1>1. FabricationInv => OnlyFinishedIsMade
  BY DEF FabricationInv
<1> QED
  BY <1>1, FabricationInvariant, PTL

(* StaleMeshNeedsRollback: the cache gives another model under the current *)
(* revision only where a command that raised or a plan that was rolled back*)
(* left a revision to a second model (CadRuntime.mesh, _restore_workspace).*)
THEOREM MeshIsOfItsRevision == FabricationSpec => []StaleMeshNeedsRollback
<1>1. FabricationInv => StaleMeshNeedsRollback
  BY DEF FabricationInv
<1> QED
  BY <1>1, FabricationInvariant, PTL

----------------------------------------------------------------------------
(* What is shown.                                                          *)
(*                                                                         *)
(* A revision that has anything in the cache, a thread that draws it, or   *)
(* was the last to be looked at, is one the engine has passed, or one that *)
(* was drawn before a roll-back. So a new revision begins with nothing     *)
(* drawn, and what is then drawn of it is of the model of the engine, until*)
(* a command that raises leaves another under it.                          *)

(* A plan began at a revision that left room for its roll-back.            *)
PlanFits ==
  /\ agent = "plan" => base < MaxRevision /\ base <= rev
  /\ ahead <= rev

(* A revision of the past: in a plan that is at work, one of the plan is a *)
(* revision of the past only if something was drawn of it.                 *)
Passed(r) ==
  \/ r <= misused
  \/ IF agent = "plan" /\ r > base THEN r <= ahead ELSE r <= rev

KeysArePassed ==
  /\ \A r \in Cached(views) : Passed(r)
  /\ job # NoJob => Passed(job.rev)
  /\ Passed(last)

(* What is drawn of the revision of now is the model of the engine, unless *)
(* that revision was drawn before a roll-back or was left to another shape;*)
(* once it was looked at, it is on the screen, on its way, or has failed.  *)
DrawnIsSolid ==
  misused < rev =>
    /\ views[rev].faces \in {Unseen, solid}
    /\ job # NoJob /\ job.rev = rev =>
         job.of = solid /\ (job.faces \/ views[rev].faces # Unseen)
    /\ last = rev => \/ screen = solid \/ failed
                     \/ job # NoJob /\ job.rev = rev

DesktopInv == DesktopTypeOK /\ PlanFits /\ KeysArePassed /\ DrawnIsSolid

(* Every step of the specification, one disjunct per action.               *)
LEMMA DesktopCases ==
  ASSUME DesktopNext, NEW P,
         ClientCommand => P, CommandRaises => P, SendPrompt => P,
         PlanBegins => P, PlanStep => P, PlanRollsBack => P, PlanStays => P,
         TurnEnds => P, StartTask => P, RunTask => P,
         Poll => P, LookAgain => P, ChooseMode => P, MeshReady => P,
         MeshError => P
  PROVE  P
  BY Zenon DEF DesktopNext

LEMMA MaxOfTwo ==
  ASSUME NEW m \in Nat, NEW n \in Nat
  PROVE  Max({m, n}) = IF m < n THEN n ELSE m
<1> DEFINE top == IF m < n THEN n ELSE m
<1>1. top \in {m, n} /\ \A y \in {m, n} : top >= y
  OBVIOUS
<1>2. \A x \in {m, n} : (\A y \in {m, n} : x >= y) => x = top
  OBVIOUS
<1> QED
  BY <1>1, <1>2 DEF Max

LEMMA NamesDiffer ==
  /\ Unseen \notin View /\ Blank \in View
  /\ Revision \subseteq Nat /\ 0 \in Revision /\ MaxRevision \in Nat
  BY DesktopAssumption DEF View, Revision

(* The outcomes of having the model drawn: what there is is in the cache   *)
(* and shown, the last thread is at it, or a new one is.                   *)
Shown == views[rev].faces # Unseen /\ screen' = views[rev].faces
NewJob(edges) ==
  [rev |-> rev, faces |-> views[rev].faces = Unseen,
   edges |-> edges /\ ~views[rev].edges, of |-> solid]

LEMMA NewJobFits ==
  ASSUME DesktopTypeOK, NEW edges \in BOOLEAN
  PROVE  /\ NewJob(edges) \in
              [rev : Revision, faces : BOOLEAN, edges : BOOLEAN, of : View]
         /\ NewJob(edges).rev = rev /\ NewJob(edges).of = solid
         /\ NewJob(edges).faces \/ views[rev].faces # Unseen
<1> DEFINE f == views[rev].faces = Unseen
           e == edges /\ ~views[rev].edges
<1>1. f \in BOOLEAN /\ e \in BOOLEAN
  BY Zenon
<1>2. NewJob(edges) = [rev |-> rev, faces |-> f, edges |-> e, of |-> solid]
  BY Zenon DEF NewJob
<1>3. f \/ views[rev].faces # Unseen
  OBVIOUS
<1> HIDE DEF f, e
<1>4. rev \in Revision /\ solid \in View
  BY DEF DesktopTypeOK
<1> QED
  BY <1>1, <1>2, <1>3, <1>4

LEMMA ScheduleOutcomes ==
  ASSUME DesktopTypeOK, NEW edges \in BOOLEAN, Schedule(views, edges)
  PROVE  /\ failed' = FALSE /\ ahead' = Ahead
         /\ \/ Shown /\ job' = job
            \/ /\ screen' = screen /\ job' = job
               /\ job # NoJob /\ job.rev = rev
               /\ job.faces \/ views[rev].faces # Unseen
            \/ /\ screen' = screen /\ job' = NewJob(edges)
               /\ job'.faces \/ job'.edges
<1> DEFINE next == NewJob(edges)
<1>1. /\ failed' = FALSE /\ ahead' = Ahead
      /\ IF ~next.faces /\ ~next.edges
         THEN ShowCached(views) /\ job' = job
         ELSE /\ job' = IF [job EXCEPT !.of = solid] = next THEN job ELSE next
              /\ screen' = screen
  BY Zenon DEF Schedule, NewJob
<1>2. CASE ~next.faces /\ ~next.edges
  <2>1. views[rev].faces # Unseen
    BY <1>2 DEF NewJob
  <2> QED
    BY <1>1, <1>2, <2>1 DEF ShowCached, Shown
<1>3. CASE next.faces \/ next.edges
  <2>1. CASE [job EXCEPT !.of = solid] = next
    <3>1. job.rev = rev /\ job.faces = next.faces /\ job.edges = next.edges
      BY <2>1 DEF NewJob, DesktopTypeOK, NoJob
    <3>2. job # NoJob
      BY <1>3, <3>1 DEF NoJob
    <3>3. next.faces \/ views[rev].faces # Unseen
      BY DEF NewJob
    <3> QED
      BY <1>1, <1>3, <2>1, <3>1, <3>2, <3>3
  <2>2. CASE [job EXCEPT !.of = solid] # next
    BY <1>1, <1>3, <2>2
  <2> QED
    BY <2>1, <2>2
<1> QED
  BY <1>2, <1>3

(* A new revision was not drawn before, unless it is one that was misused. *)
LEMMA NewRevisionIsBlank ==
  ASSUME DesktopInv, misused' \in Revision,
         rev' \in Revision, solid' \in View, UNCHANGED window,
         \A r \in Revision : Passed(r) => r < rev' \/ r <= misused'
  PROVE  DrawnIsSolid'
<1> USE DEF DesktopInv, DrawnIsSolid, KeysArePassed, DesktopTypeOK, window
<1>1. ASSUME misused' < rev' PROVE ~Passed(rev')
  BY <1>1, NamesDiffer
<1>2. ASSUME misused' < rev' PROVE views[rev'] = NoView
  BY <1>1, <1>2 DEF Cached
<1>3. ASSUME misused' < rev'
      PROVE  last # rev' /\ (job # NoJob => job.rev # rev')
  BY <1>1, <1>3
<1> QED
  BY <1>2, <1>3 DEF NoView

LEMMA DesktopInitInv == DesktopInit => DesktopInv
<1> SUFFICES ASSUME DesktopInit PROVE DesktopInv
  OBVIOUS
<1>1. changed \in BOOLEAN /\ edgeMode \in BOOLEAN /\ failed \in BOOLEAN
  BY Zenon DEF DesktopInit
<1>2. DesktopTypeOK
  BY <1>1, NamesDiffer DEF DesktopInit, DesktopTypeOK, NoView
<1>3. PlanFits /\ DrawnIsSolid
  BY NamesDiffer DEF DesktopInit, PlanFits, DrawnIsSolid
<1>4. KeysArePassed
  BY NamesDiffer DEF DesktopInit, KeysArePassed, Passed, Cached
<1> QED
  BY <1>2, <1>3, <1>4 DEF DesktopInv

(* What the window's cache is after the engine moved on.                   *)
LEMMA EngineStepFits ==
  ASSUME DesktopInv, UNCHANGED window, misused' \in Revision,
         \A r \in Revision : Passed(r) => Passed(r)'
  PROVE  KeysArePassed'
  BY DEF DesktopInv, KeysArePassed, DesktopTypeOK, window, Cached

LEMMA EngineInv ==
  ASSUME DesktopInv, DesktopNext
  PROVE  ClientCommand \/ CommandRaises \/ SendPrompt \/ PlanBegins
           \/ PlanStep \/ PlanRollsBack \/ PlanStays \/ TurnEnds
           \/ StartTask \/ RunTask => DesktopInv'
<1> USE NamesDiffer
<1>t. DesktopTypeOK /\ PlanFits /\ KeysArePassed /\ DrawnIsSolid
  BY DEF DesktopInv
<1>m. MaxRevision \in Nat /\ Revision = 0..MaxRevision
  BY DEF Revision
<1>a. Changes => /\ rev < MaxRevision /\ rev' = rev + 1 /\ solid' \in View
                 /\ changed' \in BOOLEAN
  BY Zenon DEF Changes
<1>1. ASSUME Changes, UNCHANGED <<base, agent, window, ahead, misused>>,
             manual' \in {"idle", "busy", "done", "error"}
      PROVE  DesktopInv'
  <2>1. DesktopTypeOK'
    BY <1>1, <1>t, <1>a, <1>m DEF DesktopTypeOK, window
  <2>2. PlanFits'
    BY <1>1, <1>t, <1>a, <1>m DEF PlanFits, DesktopTypeOK
  <2>3. \A r \in Revision :
          Passed(r) => Passed(r)' /\ (r < rev' \/ r <= misused')
    BY <1>1, <1>t, <1>a, <1>m DEF Passed, PlanFits, DesktopTypeOK
  <2> QED
    BY <1>1, <1>t, <2>1, <2>2, <2>3, EngineStepFits, NewRevisionIsBlank
    DEF DesktopInv, DesktopTypeOK
<1>2. ASSUME UNCHANGED <<solid, rev, base, changed, window, ahead, misused>>,
             agent' = agent \/ (agent # "plan" /\ agent' = "busy"),
             manual' \in {"idle", "busy", "done", "error"}
      PROVE  DesktopInv'
  <2>1. DesktopTypeOK'
    BY <1>2, <1>t DEF DesktopTypeOK, window
  <2>2. PlanFits'
    BY <1>2, <1>t DEF PlanFits
  <2>3. \A r \in Revision : Passed(r) => Passed(r)'
    BY <1>2, <1>t, <1>m DEF Passed, PlanFits, DesktopTypeOK
  <2>4. DrawnIsSolid'
    BY <1>2, <1>t DEF DrawnIsSolid, window
  <2> QED
    BY <1>2, <1>t, <2>1, <2>2, <2>3, <2>4, EngineStepFits
    DEF DesktopInv, DesktopTypeOK
<1>r. ASSUME Raised, UNCHANGED <<base, agent, window, ahead>>,
             manual' \in {"idle", "busy", "done", "error"}
      PROVE  DesktopInv'
  <2>1. /\ solid' \in View /\ rev' = rev
        /\ misused' = IF solid' = solid THEN misused ELSE Max({misused, rev})
    BY <1>r DEF Raised
  <2>2. changed' \in BOOLEAN
    BY <1>r, <1>t DEF Raised, DesktopTypeOK
  <2>3. misused \in Nat /\ rev \in Nat
    BY <1>t, <1>m DEF DesktopTypeOK
  <2>4. /\ misused' \in Revision /\ misused' >= misused
        /\ (solid' = solid /\ misused' = misused) \/ misused' >= rev
    BY <1>t, <1>m, <2>1, <2>3, MaxOfTwo DEF DesktopTypeOK
  <2>5. DesktopTypeOK'
    BY <1>r, <1>t, <2>1, <2>2, <2>4 DEF DesktopTypeOK, window
  <2>6. PlanFits'
    BY <1>r, <1>t, <2>1 DEF PlanFits
  <2>7. \A r \in Revision : Passed(r) => Passed(r)'
    BY <1>r, <1>t, <1>m, <2>1, <2>3, <2>4 DEF Passed
  <2>8. DrawnIsSolid'
    <3>1. CASE solid' = solid /\ misused' = misused
      BY <1>r, <1>t, <2>1, <3>1 DEF DrawnIsSolid, window
    <3>2. CASE misused' >= rev
      BY <2>1, <2>3, <2>4, <3>2, <1>m DEF DrawnIsSolid
    <3> QED
      BY <2>4, <3>1, <3>2
  <2> QED
    BY <1>r, <2>4, <2>5, <2>6, <2>7, <2>8, EngineStepFits DEF DesktopInv
<1>3. /\ ClientCommand => DesktopInv'
      /\ CommandRaises => DesktopInv'
  BY <1>1, <1>r, <1>t DEF ClientCommand, CommandRaises, DesktopTypeOK
<1>4. SendPrompt => DesktopInv'
  BY <1>2, <1>t DEF SendPrompt, DesktopTypeOK
<1>5. ASSUME PlanBegins PROVE DesktopInv'
  <2>1. DesktopTypeOK'
    BY <1>5, <1>t, <1>m DEF PlanBegins, DesktopTypeOK, window
  <2>2. PlanFits'
    BY <1>5, <1>t, <1>m DEF PlanBegins, PlanFits, DesktopTypeOK
  <2>3. \A r \in Revision : Passed(r) => Passed(r)'
    BY <1>5, <1>t, <1>m DEF PlanBegins, Passed, DesktopTypeOK, PlanFits
  <2>4. DrawnIsSolid'
    BY <1>5, <1>t DEF PlanBegins, DrawnIsSolid, window
  <2> QED
    BY <1>5, <1>t, <2>1, <2>2, <2>3, <2>4, EngineStepFits
    DEF PlanBegins, DesktopInv, DesktopTypeOK
<1>6. PlanStep => DesktopInv'
  BY <1>1, <1>t DEF PlanStep, DesktopTypeOK
<1>7. ASSUME PlanRollsBack PROVE DesktopInv'
  <2>1. /\ agent = "plan" /\ solid' \in View
        /\ agent' \in {"plan", "busy"} /\ ahead' = 0
        /\ base' = IF agent' = "plan" THEN base ELSE 0
        /\ manual' = manual /\ UNCHANGED window /\ changed' \in BOOLEAN
    BY <1>7, Zenon DEF PlanRollsBack
  <2>2. PICK r \in base..rev : r < MaxRevision /\ rev' = r + 1
    BY <1>7 DEF PlanRollsBack
  <2>3. misused \in Nat /\ ahead \in Nat /\ base \in Nat /\ rev \in Nat
    BY <1>t, <1>m DEF DesktopTypeOK
  <2>4. misused' = IF misused < ahead THEN ahead ELSE misused
    BY <1>7, <2>3, MaxOfTwo DEF PlanRollsBack
  <2>5. rev' \in Revision /\ base < rev' /\ rev' <= rev + 1
    BY <1>m, <2>2, <2>3
  <2>6. DesktopTypeOK'
    BY <1>t, <1>m, <2>1, <2>4, <2>5 DEF DesktopTypeOK, window
  <2>7. PlanFits'
    BY <1>t, <1>m, <2>1, <2>3, <2>5 DEF PlanFits
  <2>8. \A q \in Revision :
          Passed(q) => Passed(q)' /\ (q < rev' \/ q <= misused')
    BY <1>t, <1>m, <2>1, <2>3, <2>4, <2>5 DEF Passed, PlanFits
  <2> QED
    BY <2>1, <2>6, <2>7, <2>8, EngineStepFits, NewRevisionIsBlank
    DEF DesktopInv, DesktopTypeOK
<1>8. ASSUME TurnEnds \/ PlanStays PROVE DesktopInv'
  <2>1. DesktopTypeOK'
    BY <1>8, <1>t DEF TurnEnds, PlanStays, DesktopTypeOK, window
  <2>2. PlanFits'
    BY <1>8, <1>t, <1>m DEF TurnEnds, PlanStays, PlanFits, DesktopTypeOK
  <2>3. \A r \in Revision : Passed(r) => Passed(r)'
    BY <1>8, <1>t, <1>m DEF TurnEnds, PlanStays, Passed, DesktopTypeOK, PlanFits
  <2>4. DrawnIsSolid'
    BY <1>8, <1>t DEF TurnEnds, PlanStays, DrawnIsSolid, window
  <2> QED
    BY <1>8, <1>t, <2>1, <2>2, <2>3, <2>4, EngineStepFits
    DEF TurnEnds, PlanStays, DesktopInv, DesktopTypeOK
<1>9. StartTask => DesktopInv'
  <2>1. StartTask =>
          /\ UNCHANGED <<solid, rev, base, changed, window, ahead, misused>>
          /\ agent' = agent /\ manual' = "busy"
    BY Zenon DEF StartTask
  <2> QED
    BY <1>2, <2>1
<1>10. ASSUME RunTask PROVE DesktopInv'
  <2>1. /\ UNCHANGED <<base, agent, window, ahead>>
        /\ manual' \in {"done", "error"}
        /\ \/ /\ UNCHANGED misused
              /\ Changes \/ UNCHANGED <<solid, rev, changed>>
           \/ Raised
    BY <1>10, Zenon DEF RunTask
  <2> QED
    BY <1>1, <1>2, <1>r, <2>1
<1> QED
  BY <1>3, <1>4, <1>5, <1>6, <1>7, <1>8, <1>9, <1>10

(* What a handler that has the model drawn leaves: everything is typed,    *)
(* passed and of the model of the engine.                                  *)
LEMMA ScheduleFits ==
  ASSUME DesktopInv, NEW edges \in BOOLEAN, Schedule(views, edges),
         UNCHANGED <<solid, rev, base, misused, views>>,
         agent' = agent \/ (agent = "done" /\ agent' = "idle"),
         manual' \in {"idle", "busy", "done", "error"}, changed' \in BOOLEAN,
         edgeMode' \in BOOLEAN, last' \in {last, rev}
  PROVE  DesktopInv'
<1> USE NamesDiffer
<1>t. DesktopTypeOK /\ PlanFits /\ KeysArePassed /\ DrawnIsSolid
  BY DEF DesktopInv
<1>m. MaxRevision \in Nat /\ Revision = 0..MaxRevision
  BY DEF Revision
<1>2. /\ failed' = FALSE /\ ahead' = Ahead
      /\ \/ Shown /\ job' = job
         \/ /\ screen' = screen /\ job' = job
            /\ job # NoJob /\ job.rev = rev
            /\ job.faces \/ views[rev].faces # Unseen
         \/ /\ screen' = screen /\ job' = NewJob(edges)
            /\ job'.faces \/ job'.edges
  BY <1>t, ScheduleOutcomes
<1>3. failed' \in BOOLEAN
  BY <1>2, Zenon
<1>4. \/ job' = job
      \/ /\ job' \in [rev : Revision, faces : BOOLEAN, edges : BOOLEAN,
                      of : View]
         /\ job'.faces \/ job'.edges
         /\ job'.rev = rev /\ job'.of = solid /\ job' # NoJob
         /\ job'.faces \/ views[rev].faces # Unseen
  <2>1. CASE job' = job
    BY <2>1
  <2>2. CASE job' = NewJob(edges) /\ (job'.faces \/ job'.edges)
    <3>1. job' # NoJob
      BY <2>2 DEF NoJob
    <3> QED
      BY <1>t, <2>2, <3>1, NewJobFits
  <2> QED
    BY <1>2, <2>1, <2>2
<1>5. screen' \in View \cup {Unseen}
  BY <1>t, <1>2 DEF Shown, DesktopTypeOK
<1>6. DesktopTypeOK'
  BY <1>t, <1>m, <1>2, <1>3, <1>4, <1>5 DEF DesktopTypeOK, Ahead
<1>7. PlanFits'
  BY <1>t, <1>m, <1>2 DEF PlanFits, DesktopTypeOK, Ahead
<1>8. Passed(rev)' /\ \A r \in Revision : Passed(r) => Passed(r)'
  BY <1>t, <1>m, <1>2 DEF Passed, Ahead, PlanFits, DesktopTypeOK
<1>9. KeysArePassed'
  BY <1>t, <1>m, <1>4, <1>8
  DEF KeysArePassed, Cached, DesktopTypeOK
<1>10. ASSUME misused < rev PROVE
         /\ views[rev].faces \in {Unseen, solid}
         /\ job' # NoJob /\ job'.rev = rev =>
              job'.of = solid /\ (job'.faces \/ views[rev].faces # Unseen)
         /\ screen' = solid \/ (job' # NoJob /\ job'.rev = rev)
  <2>1. views[rev].faces \in {Unseen, solid}
    BY <1>t, <1>10 DEF DrawnIsSolid
  <2>2. job' # NoJob /\ job'.rev = rev =>
          job'.of = solid /\ (job'.faces \/ views[rev].faces # Unseen)
    BY <1>t, <1>4, <1>10 DEF DrawnIsSolid
  <2>3. screen' = solid \/ (job' # NoJob /\ job'.rev = rev)
    <3>1. CASE Shown
      BY <2>1, <3>1 DEF Shown
    <3>2. CASE job' = job /\ job # NoJob /\ job.rev = rev
      BY <3>2
    <3>3. CASE job' = NewJob(edges) /\ (job'.faces \/ job'.edges)
      <4>1. job' # NoJob
        BY <3>3 DEF NoJob
      <4> QED
        BY <1>t, <3>3, <4>1, NewJobFits
    <3> QED
      BY <1>2, <3>1, <3>2, <3>3
  <2> QED
    BY <2>1, <2>2, <2>3
<1>11. DrawnIsSolid'
  BY <1>10 DEF DrawnIsSolid
<1> QED
  BY <1>6, <1>7, <1>9, <1>11 DEF DesktopInv

(* The same of a refresh, where a document without a shape is blank at once.*)
LEMMA RenderFits ==
  ASSUME DesktopInv, Render, UNCHANGED <<solid, rev, base, misused>>,
         agent' = agent \/ (agent = "done" /\ agent' = "idle"),
         manual' \in {"idle", "busy", "done", "error"}, changed' \in BOOLEAN,
         edgeMode' \in BOOLEAN, last' = rev
  PROVE  DesktopInv'
<1> USE NamesDiffer
<1>t. DesktopTypeOK /\ PlanFits /\ KeysArePassed /\ DrawnIsSolid
  BY DEF DesktopInv
<1>m. MaxRevision \in Nat /\ Revision = 0..MaxRevision
  BY DEF Revision
<1>1. CASE solid = Blank
  <2>1. /\ job' = NoJob
        /\ views' = [views EXCEPT ![rev] = [faces |-> Blank, edges |-> TRUE]]
        /\ screen' = Blank /\ failed' \in BOOLEAN /\ ahead' = Ahead
    BY <1>1, Zenon DEF Render
  <2>2. DesktopTypeOK'
    BY <1>t, <1>m, <2>1 DEF DesktopTypeOK, Ahead
  <2>3. PlanFits'
    BY <1>t, <1>m, <2>1 DEF PlanFits, DesktopTypeOK, Ahead
  <2>4. Passed(rev)' /\ \A r \in Revision : Passed(r) => Passed(r)'
    BY <1>t, <1>m, <2>1 DEF Passed, Ahead, PlanFits, DesktopTypeOK
  <2>5. KeysArePassed'
    BY <1>t, <1>m, <2>1, <2>4 DEF KeysArePassed, Cached, DesktopTypeOK
  <2>6. DrawnIsSolid'
    BY <1>1, <1>t, <1>m, <2>1 DEF DrawnIsSolid, DesktopTypeOK
  <2> QED
    BY <2>2, <2>3, <2>5, <2>6 DEF DesktopInv
<1>2. CASE solid # Blank
  <2>1. views' = views /\ Schedule(views, edgeMode)
    BY <1>2, Zenon DEF Render
  <2>2. edgeMode \in BOOLEAN
    BY <1>t DEF DesktopTypeOK
  <2> QED
    BY <2>1, <2>2, ScheduleFits
<1> QED
  BY <1>1, <1>2

LEMMA PollInv == DesktopInv /\ Poll => DesktopInv'
<1> SUFFICES ASSUME DesktopInv, Poll PROVE DesktopInv'
  OBVIOUS
<1>t. DesktopTypeOK /\ PlanFits /\ KeysArePassed /\ DrawnIsSolid
  BY DEF DesktopInv
<1>m. MaxRevision \in Nat /\ Revision = 0..MaxRevision
  BY NamesDiffer DEF Revision
<1>1. /\ agent' = IF agent = "done" THEN "idle" ELSE agent
      /\ manual' = IF manual \in {"done", "error"} THEN "idle" ELSE manual
      /\ changed' \in BOOLEAN
      /\ UNCHANGED <<solid, rev, base, edgeMode, misused>>
      /\ Refresh \/ UNCHANGED <<last, views, job, screen, failed, ahead>>
  BY Zenon DEF Poll, AgentFinished, ManualFinished
<1>2. /\ agent' = agent \/ (agent = "done" /\ agent' = "idle")
      /\ manual' \in {"idle", "busy", "done", "error"} /\ edgeMode' \in BOOLEAN
  BY <1>1, <1>t DEF DesktopTypeOK
<1>3. CASE Refresh
  BY <1>1, <1>2, <1>3, RenderFits DEF Refresh
<1>4. CASE UNCHANGED <<last, views, job, screen, failed, ahead>>
  <2>1. DesktopTypeOK'
    BY <1>1, <1>2, <1>4, <1>t DEF DesktopTypeOK
  <2>2. PlanFits' /\ DrawnIsSolid'
    BY <1>1, <1>2, <1>4, <1>t DEF PlanFits, DrawnIsSolid
  <2>3. KeysArePassed'
    BY <1>1, <1>2, <1>4, <1>t DEF KeysArePassed, Passed, Cached
  <2> QED
    BY <2>1, <2>2, <2>3 DEF DesktopInv
<1> QED
  BY <1>1, <1>3, <1>4

LEMMA LookAgainInv == DesktopInv /\ LookAgain => DesktopInv'
<1> SUFFICES ASSUME DesktopInv, LookAgain PROVE DesktopInv'
  OBVIOUS
<1>1. /\ Render /\ last' = rev
      /\ UNCHANGED <<solid, rev, base, agent, manual, changed, edgeMode,
                     misused>>
  BY DEF LookAgain, Refresh
<1>2. DesktopTypeOK
  BY DEF DesktopInv
<1>3. manual' \in {"idle", "busy", "done", "error"} /\ changed' \in BOOLEAN
        /\ edgeMode' \in BOOLEAN
  BY <1>1, <1>2 DEF DesktopTypeOK
<1> QED
  BY <1>1, <1>3, RenderFits

(* A thread that finds nothing more to draw.                               *)
LEMMA MeshErrorInv == DesktopInv /\ MeshError => DesktopInv'
<1> SUFFICES ASSUME DesktopInv, MeshError PROVE DesktopInv'
  OBVIOUS
<1>t. DesktopTypeOK /\ PlanFits /\ KeysArePassed /\ DrawnIsSolid
  BY DEF DesktopInv
<1>1. /\ job # NoJob /\ job' = NoJob
      /\ UNCHANGED <<solid, rev, base, agent, manual, changed, last, edgeMode,
                     views, screen, ahead, misused>>
  BY Zenon DEF MeshError
<1>2. failed' \in BOOLEAN /\ (job.rev = rev => failed') /\ (failed => failed')
  BY Zenon DEF MeshError
<1>3. DesktopTypeOK'
  BY <1>1, <1>2, <1>t DEF DesktopTypeOK
<1>4. PlanFits' /\ DrawnIsSolid'
  BY <1>1, <1>2, <1>t DEF PlanFits, DrawnIsSolid
<1>5. KeysArePassed'
  BY <1>1, <1>t DEF KeysArePassed, Passed, Cached
<1> QED
  BY <1>3, <1>4, <1>5 DEF DesktopInv

LEMMA ChooseModeInv == DesktopInv /\ ChooseMode => DesktopInv'
<1> SUFFICES ASSUME DesktopInv, ChooseMode PROVE DesktopInv'
  OBVIOUS
<1> USE NamesDiffer
<1>t. DesktopTypeOK /\ PlanFits /\ KeysArePassed /\ DrawnIsSolid
  BY DEF DesktopInv
<1>m. MaxRevision \in Nat /\ Revision = 0..MaxRevision
  BY DEF Revision
<1>1. /\ edgeMode' \in BOOLEAN
      /\ UNCHANGED <<solid, rev, base, agent, manual, changed, last, views,
                     misused>>
      /\ \/ Schedule(views, TRUE) /\ ~views[rev].edges
         \/ UNCHANGED <<job, screen, failed, ahead>>
  BY Zenon DEF ChooseMode
<1>2. CASE UNCHANGED <<job, screen, failed, ahead>>
  <2>1. DesktopTypeOK'
    BY <1>1, <1>2, <1>t DEF DesktopTypeOK
  <2>2. PlanFits' /\ DrawnIsSolid'
    BY <1>1, <1>2, <1>t DEF PlanFits, DrawnIsSolid
  <2>3. KeysArePassed'
    BY <1>1, <1>2, <1>t DEF KeysArePassed, Passed, Cached
  <2> QED
    BY <2>1, <2>2, <2>3 DEF DesktopInv
<1>3. CASE Schedule(views, TRUE)
  <2>1. manual' \in {"idle", "busy", "done", "error"} /\ changed' \in BOOLEAN
    BY <1>1, <1>t DEF DesktopTypeOK
  <2> QED
    BY <1>1, <1>3, <2>1, ScheduleFits
<1> QED
  BY <1>1, <1>2, <1>3

(* Kept forgets, and nothing of the highest revision there is.             *)
LEMMA KeptFits ==
  ASSUME NEW vs, NEW r \in Revision
  PROVE  /\ Kept(vs)[r] \in {vs[r], NoView}
         /\ (\A q \in Cached(vs) : ~(q > r)) => Kept(vs)[r] = vs[r]
<1>1. Kept(vs)[r] = IF Cardinality({q \in Cached(vs) : q > r}) < 2
                    THEN vs[r] ELSE NoView
  BY DEF Kept
<1>2. ASSUME \A q \in Cached(vs) : ~(q > r) PROVE Kept(vs)[r] = vs[r]
  <2>1. {q \in Cached(vs) : q > r} = {}
    BY <1>2
  <2>2. Cardinality({q \in Cached(vs) : q > r}) = 0
    BY <2>1, FS_EmptySet
  <2> QED
    BY <1>1, <2>2
<1> QED
  BY <1>1, <1>2

LEMMA MeshReadyInv == DesktopInv /\ MeshReady => DesktopInv'
<1> SUFFICES ASSUME DesktopInv, MeshReady PROVE DesktopInv'
  OBVIOUS
<1> USE NamesDiffer
<1>t. DesktopTypeOK /\ PlanFits /\ KeysArePassed /\ DrawnIsSolid
  BY DEF DesktopInv
<1>m. MaxRevision \in Nat /\ Revision = 0..MaxRevision
  BY DEF Revision
<1> DEFINE r == job.rev
           drew == Drawn(views[r])
           mid == [views EXCEPT ![r] = drew]
           shown == r = rev /\ views'[r].faces # Unseen
           more == shown /\ edgeMode /\ ~views'[r].edges
           anew == [rev |-> rev, faces |-> FALSE, edges |-> TRUE, of |-> solid]
<1>1. /\ job # NoJob
      /\ views' = Kept(mid)
      /\ IF shown THEN ShowCached(views') /\ failed' = FALSE
         ELSE UNCHANGED <<screen, failed>>
      /\ job' = IF more THEN anew ELSE NoJob
      /\ ahead' = IF more THEN Ahead ELSE ahead
      /\ UNCHANGED <<solid, rev, base, agent, manual, changed, last, edgeMode,
                     misused>>
  BY Zenon DEF MeshReady
<1>2. /\ r \in Revision /\ job.of \in View /\ rev \in Revision
      /\ views \in [Revision -> [faces : View \cup {Unseen}, edges : BOOLEAN]]
      /\ job \in [rev : Revision, faces : BOOLEAN, edges : BOOLEAN, of : View]
  BY <1>1, <1>t DEF DesktopTypeOK
<1>3. drew \in [faces : View \cup {Unseen}, edges : BOOLEAN]
        /\ drew.faces = IF job.faces THEN job.of ELSE views[r].faces
  <2> DEFINE f == IF job.faces THEN job.of ELSE views[r].faces
             e == job.edges \/ views[r].edges
  <2>1. f \in View \cup {Unseen}
    BY <1>2
  <2>2. e \in BOOLEAN
    BY Zenon
  <2>3. drew = [faces |-> f, edges |-> e]
    BY Zenon DEF Drawn
  <2> HIDE DEF f, e, drew
  <2>4. drew \in [faces : View \cup {Unseen}, edges : BOOLEAN]
          /\ drew.faces = f
    BY <2>1, <2>2, <2>3
  <2> QED
    BY <2>4 DEF f
<1> HIDE DEF drew
<1>4. /\ mid \in [Revision -> [faces : View \cup {Unseen}, edges : BOOLEAN]]
      /\ mid[r] = drew /\ \A q \in Revision : q # r => mid[q] = views[q]
  BY <1>2, <1>3
<1> HIDE DEF mid
<1>5. /\ views' \in [Revision -> [faces : View \cup {Unseen}, edges : BOOLEAN]]
      /\ \A q \in Cached(views') : q \in Cached(mid)
  <2>1. NoView \in [faces : View \cup {Unseen}, edges : BOOLEAN]
    BY DEF NoView
  <2>2. \A q \in Revision : views'[q] \in {mid[q], NoView}
    BY <1>1, KeptFits
  <2>3. views' = [q \in Revision |-> views'[q]]
    BY <1>1 DEF Kept
  <2> QED
    BY <1>4, <2>1, <2>2, <2>3 DEF Cached
<1>6. \A q \in Cached(mid) : Passed(q)
  BY <1>1, <1>4, <1>t DEF Cached, KeysArePassed
<1>7. /\ job' = NoJob \/ (job' = anew /\ more /\ shown)
      /\ ahead' \in {ahead, Ahead} /\ (job' # NoJob => ahead' = Ahead)
  BY <1>1, Zenon
<1>8. failed' \in BOOLEAN
  <2>1. failed \in BOOLEAN
    BY <1>t DEF DesktopTypeOK
  <2> QED
    BY <1>1, <2>1, Zenon
<1>9. /\ shown => screen' = views'[r].faces
      /\ ~shown => UNCHANGED <<screen, failed>>
  <2>1. shown => ShowCached(views')
    BY <1>1, Zenon
  <2>2. ~shown => UNCHANGED <<screen, failed>>
    BY <1>1, Zenon
  <2> QED
    BY <2>1, <2>2 DEF ShowCached
<1>10. DesktopTypeOK'
  <2>1. screen' \in View \cup {Unseen}
    BY <1>2, <1>5, <1>9, <1>t DEF DesktopTypeOK
  <2>2. anew \in [rev : Revision, faces : BOOLEAN, edges : BOOLEAN, of : View]
          /\ anew.edges
    BY <1>t DEF DesktopTypeOK
  <2>3. ahead' \in Revision
    BY <1>t, <1>m, <1>7 DEF DesktopTypeOK, Ahead
  <2> QED
    BY <1>1, <1>5, <1>7, <1>8, <1>t, <2>1, <2>2, <2>3 DEF DesktopTypeOK
<1>11. PlanFits'
  BY <1>1, <1>7, <1>t, <1>m DEF PlanFits, DesktopTypeOK, Ahead
<1>12. (\A q \in Revision : Passed(q) => Passed(q)')
         /\ (job' # NoJob => Passed(rev)')
  BY <1>1, <1>7, <1>t, <1>m DEF Passed, Ahead, PlanFits, DesktopTypeOK
<1>13. KeysArePassed'
  <2>1. \A q \in Cached(views') : Passed(q)'
    BY <1>5, <1>6, <1>12 DEF Cached
  <2>2. job' # NoJob => job'.rev = rev
    BY <1>7
  <2>3. Passed(last)'
    BY <1>1, <1>12, <1>t DEF KeysArePassed, DesktopTypeOK
  <2>4. Cached(views)' = Cached(views')
    BY DEF Cached
  <2>5. job' # NoJob => Passed(job.rev)'
    BY <1>1, <1>12, <2>2 DEF Passed
  <2> HIDE DEF Passed, Cached
  <2> QED
    BY <2>1, <2>3, <2>4, <2>5, Zenon DEF KeysArePassed
<1>14. ASSUME misused < rev
       PROVE  /\ views'[rev].faces \in {Unseen, solid}
              /\ job' # NoJob => views'[rev].faces # Unseen
              /\ last = rev => \/ screen' = solid \/ failed'
                               \/ job' # NoJob /\ job'.rev = rev
  <2>1. \A q \in Cached(mid) : ~(q > rev)
    BY <1>6, <1>14, <1>t, <1>m DEF Passed, PlanFits, DesktopTypeOK, Cached
  <2>2. views'[rev] = mid[rev]
    BY <1>1, <1>2, <2>1, KeptFits
  <2>3. CASE r = rev
    <3>1. mid[rev].faces = solid
      BY <1>1, <1>2, <1>3, <1>4, <1>14, <1>t, <2>3 DEF DrawnIsSolid
    <3>2. solid # Unseen
      BY <1>t DEF DesktopTypeOK
    <3>3. screen' = solid
      BY <1>9, <2>2, <2>3, <3>1, <3>2
    <3> QED
      BY <2>2, <3>1, <3>2, <3>3
  <2>4. CASE r # rev
    <3>1. mid[rev] = views[rev]
      BY <1>2, <1>4, <2>4
    <3>2. job' = NoJob /\ UNCHANGED <<screen, failed>>
      BY <1>7, <1>9, <2>4
    <3>3. views[rev].faces \in {Unseen, solid}
            /\ (last = rev => screen = solid \/ failed)
      BY <1>14, <1>t, <2>4 DEF DrawnIsSolid
    <3>4. last = rev => screen' = solid \/ failed'
      BY <3>2, <3>3, Zenon
    <3> QED
      BY <2>2, <3>1, <3>2, <3>3, <3>4
  <2> QED
    BY <2>3, <2>4
<1>15. job' # NoJob => job'.of = solid /\ job'.rev = rev
  BY <1>7
<1>16. DrawnIsSolid'
  BY <1>1, <1>14, <1>15 DEF DrawnIsSolid
<1> QED
  BY <1>10, <1>11, <1>13, <1>16 DEF DesktopInv

LEMMA DesktopInvariant == DesktopSpec => []DesktopInv
<1>1. DesktopInv /\ [DesktopNext]_dvVars => DesktopInv'
  <2> SUFFICES ASSUME DesktopInv, [DesktopNext]_dvVars PROVE DesktopInv'
    OBVIOUS
  <2>1. CASE UNCHANGED dvVars
    <3>1. DesktopTypeOK' /\ PlanFits'
      BY <2>1 DEF DesktopInv, DesktopTypeOK, PlanFits, dvVars
    <3>2. KeysArePassed'
      BY <2>1 DEF DesktopInv, KeysArePassed, Passed, Cached, dvVars
    <3>3. DrawnIsSolid'
      BY <2>1 DEF DesktopInv, DrawnIsSolid, dvVars
    <3> QED
      BY <3>1, <3>2, <3>3 DEF DesktopInv
  <2>2. CASE DesktopNext
    <3>1. ClientCommand \/ CommandRaises \/ SendPrompt \/ PlanBegins
            \/ PlanStep \/ PlanRollsBack \/ PlanStays \/ TurnEnds
            \/ StartTask \/ RunTask => DesktopInv'
      BY <2>2, EngineInv
    <3>2. Poll \/ LookAgain \/ ChooseMode \/ MeshReady \/ MeshError
            => DesktopInv'
      BY PollInv, LookAgainInv, ChooseModeInv, MeshReadyInv, MeshErrorInv
    <3> HIDE DEF DesktopInv
    <3> QED
      BY <2>2, <3>1, <3>2, Zenon DEF DesktopNext
  <2> QED
    BY <2>1, <2>2
<1> QED
  BY <1>1, DesktopInitInv, PTL DEF DesktopSpec

(* DesktopTypeOK: a thread that draws has something to draw                *)
(* (_schedule_mesh_build).                                                 *)
THEOREM DesktopTypeCorrect == DesktopSpec => []DesktopTypeOK
<1>1. DesktopInv => DesktopTypeOK
  BY DEF DesktopInv
<1> QED
  BY <1>1, DesktopInvariant, PTL

(* WindowShowsModel: with nothing under way the window shows the model of  *)
(* the engine or has said that it could not, whatever turns, tasks, failed *)
(* commands and late threads came between; the exceptions are a revision   *)
(* that was drawn before a roll-back in a plan, and one that a command that*)
(* raised left to another shape (_poll, _mesh_ready, _restore_workspace).  *)
THEOREM StillWindowIsTrue == DesktopSpec => []WindowShowsModel
<1>1. DesktopInv => WindowShowsModel
  <2> SUFFICES ASSUME DesktopInv, Still, misused < rev
               PROVE  screen = solid \/ failed
    BY NamesDiffer DEF WindowShowsModel, DesktopInv, DesktopTypeOK
  <2>1. last = rev /\ job = NoJob
    BY Zenon DEF Still
  <2> QED
    BY <2>1 DEF DesktopInv, DrawnIsSolid
<1> QED
  BY <1>1, DesktopInvariant, PTL

----------------------------------------------------------------------------
(* What is side by side.                                                   *)

(* Each behaviour of the documents is one of the assemblies, of a part, of *)
(* what is made, of a window and of the poses: a step of one leaves the    *)
(* others alone. So what was proved of each holds of all of them together. *)
THEOREM DocumentsAreTheirParts ==
  DocumentsSpec => /\ Spec /\ PartSpec /\ FabricationSpec
                   /\ DesktopSpec /\ PosesSpec
<1> DEFINE all == <<view, vars, phVars, fbVars, dvVars, apVars>>
<1>1. DocumentsInit =>
        Init /\ PartInit /\ FabricationInit /\ DesktopInit /\ PosesInit
  BY Zenon DEF DocumentsInit
<1>2. [DocumentsNext]_all =>
        /\ [Next]_vars /\ [PartNext]_phVars /\ [FabricationNext]_fbVars
        /\ [DesktopNext]_dvVars /\ [PosesNext]_apVars
  BY Zenon DEF DocumentsNext
<1>3. DocumentsSpec => DocumentsInit /\ [][DocumentsNext]_all
  BY PTL DEF DocumentsSpec
<1> QED
  BY <1>1, <1>2, <1>3, PTL
     DEF Spec, PartSpec, FabricationSpec, DesktopSpec, PosesSpec

(* DocumentsTypeOK: the tabs, stacks and files of an assembly, the cache of*)
(* a part, the files of a request to print, what a window holds and where  *)
(* components stand have their types in every view.                        *)
THEOREM DocumentsTypeCorrect == DocumentsSpec => []DocumentsTypeOK
<1>1. TypeOK /\ PartTypeOK /\ FabricationTypeOK /\ DesktopTypeOK /\ PosesTypeOK
        => DocumentsTypeOK
  BY Zenon DEF DocumentsTypeOK
<1> QED
  BY <1>1, DocumentsAreTheirParts, LinksTypeCorrect, PartTypeCorrect,
     FabricationTypeCorrect, DesktopTypeCorrect, PosesTypeCorrect, PTL
=============================================================================
