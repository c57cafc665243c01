-------------------------- MODULE VersionHistory --------------------------
(***************************************************************************)
(* What undo and redo promise, for several documents at once: the contents *)
(* a document went through form one line, the cursor is the version that   *)
(* is shown, undo and redo move the cursor, and an edit cuts the line      *)
(* after the cursor and adds a version.  No document's line is touched by  *)
(* what happens to another, by a switch of the active tab, or by a save.   *)
(***************************************************************************)
EXTENDS Naturals, Sequences

CONSTANTS
  Document,  \* the documents that can be open
  Version,   \* what a document can contain
  First      \* the version a document that is not open stands for

VARIABLES
  open,      \* the documents that are open
  versions,  \* the line of versions of each document
  cursor     \* the position in that line of the version shown

hvars == <<open, versions, cursor>>

Init ==
  \E d \in Document :
    /\ open = {d}
    /\ versions = [e \in Document |-> <<First>>]
    /\ cursor = [e \in Document |-> 1]

(* A document is opened with one version, and no past or future.           *)
Open(d, v) ==
  /\ d \notin open
  /\ open' = open \cup {d}
  /\ versions' = [versions EXCEPT ![d] = <<v>>]
  /\ cursor' = [cursor EXCEPT ![d] = 1]

Close(d) ==
  /\ d \in open
  /\ open' = open \ {d}
  /\ versions' = [versions EXCEPT ![d] = <<First>>]
  /\ cursor' = [cursor EXCEPT ![d] = 1]

(* An edit: everything after the cursor is dropped, v is added.            *)
Record(d, v) ==
  /\ d \in open
  /\ versions' = [versions EXCEPT ![d] = Append(SubSeq(@, 1, cursor[d]), v)]
  /\ cursor' = [cursor EXCEPT ![d] = @ + 1]
  /\ UNCHANGED open

Back(d) ==
  /\ d \in open
  /\ cursor[d] > 1
  /\ cursor' = [cursor EXCEPT ![d] = @ - 1]
  /\ UNCHANGED <<open, versions>>

Forward(d) ==
  /\ d \in open
  /\ cursor[d] < Len(versions[d])
  /\ cursor' = [cursor EXCEPT ![d] = @ + 1]
  /\ UNCHANGED <<open, versions>>

Next ==
  \E d \in Document :
    \/ \E v \in Version : Open(d, v) \/ Record(d, v)
    \/ Close(d) \/ Back(d) \/ Forward(d)

Spec == Init /\ [][Next]_hvars
=============================================================================
