---------------------------- MODULE MCDocuments -----------------------------
(* Five views of what is inside the open documents: assemblies of other    *)
(* documents, where the components of an assembly stand, the feature       *)
(* history of a part, what is fabricated of the model and what a window    *)
(* shows of it. Each behaviour is of one of them, so that one run of TLC   *)
(* checks all without their product.                                       *)
EXTENDS MCAssemblyLinks, PartHistory, Fabrication, DesktopView,
        AssemblyPoses

VARIABLE view

DocumentsInit ==
  /\ view \in {"assembly", "part", "fabrication", "window", "poses"}
  /\ Init /\ PartInit /\ FabricationInit /\ DesktopInit /\ PosesInit

DocumentsNext ==
  /\ \/ /\ view = "assembly" /\ Next
        /\ UNCHANGED <<phVars, fbVars, dvVars, apVars>>
     \/ /\ view = "part" /\ PartNext
        /\ UNCHANGED <<vars, fbVars, dvVars, apVars>>
     \/ /\ view = "fabrication" /\ FabricationNext
        /\ UNCHANGED <<vars, phVars, dvVars, apVars>>
     \/ /\ view = "window" /\ DesktopNext
        /\ UNCHANGED <<vars, phVars, fbVars, apVars>>
     \/ /\ view = "poses" /\ PosesNext
        /\ UNCHANGED <<vars, phVars, fbVars, dvVars>>
  /\ UNCHANGED view

DocumentsSpec ==
  /\ DocumentsInit
  /\ [][DocumentsNext]_<<view, vars, phVars, fbVars, dvVars, apVars>>

DocumentsSymmetry == Permutations(Session) \cup Permutations(Picture)

\* The types of the variables of all views, and what each module says of its
\* own beyond them: the cache of a part has a shape for every feature, a
\* request to print has a file as long as it needs one.
DocumentsTypeOK ==
  /\ TypeOK /\ PartTypeOK /\ FabricationTypeOK /\ DesktopTypeOK
  /\ PosesTypeOK
=============================================================================
