-------------------------- MODULE WorkspaceProofs --------------------------
(***************************************************************************)
(* Proofs about Workspace for any number of sessions, any files and        *)
(* contents, and any bounds: types and tabs are consistent, the undo and   *)
(* redo stacks implement a linear history, and the revision advances       *)
(* whenever what is shown changes.                                         *)
(***************************************************************************)
EXTENDS Workspace, Recursion, SequenceTheorems, TLAPS

USE WorkspaceAssumption

(* The inductive invariant: neither part is inductive alone, since an edit *)
(* has its type only because the active document is a session, and close   *)
(* finds the index of the active tab only because it is one of the tabs.   *)
IInv == TypeOK /\ TabsConsistent

----------------------------------------------------------------------------
(* Sequences                                                               *)

LEMMA AppendFacts ==
  ASSUME NEW S, NEW s \in Seq(S), NEW e \in S
  PROVE  /\ Append(s, e) \in Seq(S)
         /\ Append(s, e) # <<>>
         /\ Len(Append(s, e)) = Len(s) + 1
         /\ DOMAIN Append(s, e) = DOMAIN s \cup {Len(s) + 1}
         /\ Len(s) + 1 \notin DOMAIN s
         /\ \A i \in DOMAIN s : Append(s, e)[i] = s[i]
         /\ Append(s, e)[Len(s) + 1] = e
         /\ Range(Append(s, e)) = Range(s) \cup {e}
<1> DEFINE t == Append(s, e)
<1>1. /\ t \in Seq(S)
      /\ t # <<>>
      /\ Len(t) = Len(s) + 1
      /\ \A i \in 1..Len(s) : t[i] = s[i]
      /\ t[Len(s) + 1] = e
  BY AppendProperties
<1> HIDE DEF t
<1>2. Len(s) \in Nat /\ DOMAIN s = 1..Len(s) /\ DOMAIN t = 1..(Len(s) + 1)
  BY <1>1, LenProperties
<1>3. DOMAIN t = DOMAIN s \cup {Len(s) + 1} /\ Len(s) + 1 \notin DOMAIN s
  BY <1>2
<1>4. Range(t) = Range(s) \cup {e}
  BY <1>1, <1>2, <1>3 DEF Range
<1>5. QED
  BY <1>1, <1>2, <1>3, <1>4 DEF t

----------------------------------------------------------------------------
(* Tabs and types                                                          *)

LEMMA FreshIsDocument ==
  /\ \A c \in Content, p \in Path \cup {None} : Fresh(c, p) \in Document
  /\ \A c \in Content : Native(c) \in File /\ Foreign(c) \in File
  /\ Torn \in File
  /\ None \notin Session
BY DEF Fresh, Document, Native, Foreign, Torn, File, Format

(* What is true of the tabs and histories, whatever the files are.         *)
SessionsOK ==
  /\ tabs \in Seq(Session)
  /\ active \in Session \cup {None}
  /\ doc \in [Session -> Document]
  /\ undo \in [Session -> Seq(Document)]
  /\ redo \in [Session -> Seq(Document)]
  /\ TabsConsistent

LEMMA AddTabKeeps ==
  ASSUME SessionsOK, NEW s \in Session, NEW d \in Document, AddTab(s, d)
  PROVE  SessionsOK'
<1>1. /\ tabs' \in Seq(Session)
      /\ tabs' # <<>>
      /\ DOMAIN tabs' = DOMAIN tabs \cup {Len(tabs) + 1}
      /\ Len(tabs) + 1 \notin DOMAIN tabs
      /\ \A i \in DOMAIN tabs : tabs'[i] = tabs[i]
      /\ tabs'[Len(tabs) + 1] = s
      /\ Range(tabs') = Range(tabs) \cup {s}
  BY AppendFacts DEF SessionsOK, AddTab
<1>2. s \notin Range(tabs) /\ s # None
  BY FreshIsDocument DEF AddTab, Opened
<1>3. \A i \in DOMAIN tabs : tabs[i] # s
  BY <1>2 DEF Range
<1>4. \A i, j \in DOMAIN tabs' : tabs'[i] = tabs'[j] => i = j
  BY <1>1, <1>3 DEF SessionsOK, TabsConsistent
<1>5. /\ active' = s
      /\ doc' = [doc EXCEPT ![s] = d]
      /\ undo' = undo
      /\ redo' = redo
  BY DEF AddTab
<1>6. TabsConsistent'
  BY <1>1, <1>2, <1>4, <1>5 DEF SessionsOK, TabsConsistent, Opened
<1>7. QED
  BY <1>1, <1>5, <1>6 DEF SessionsOK

LEMMA ActiveTabProperties ==
  ASSUME SessionsOK, active # None
  PROVE  /\ ActiveTab \in 1..Len(tabs)
         /\ tabs[ActiveTab] = active
         /\ active \in Session
         /\ DOMAIN tabs = 1..Len(tabs)
<1>1. DOMAIN tabs = 1..Len(tabs)
  BY LenProperties DEF SessionsOK
<1>2. \E i \in DOMAIN tabs : tabs[i] = active
  BY DEF SessionsOK, TabsConsistent, Opened, Range
<1>3. QED
  BY <1>1, <1>2 DEF ActiveTab, SessionsOK

LEMMA RemoveActiveKeeps ==
  ASSUME SessionsOK, active # None, RemoveActive
  PROVE  SessionsOK' /\ Opened' = Opened \ {active}
<1> DEFINE i == ActiveTab
           rest == RemoveAt(tabs, i)
<1>1. /\ i \in 1..Len(tabs)
      /\ tabs[i] = active
      /\ active \in Session
      /\ DOMAIN tabs = 1..Len(tabs)
      /\ Len(tabs) \in Nat
  BY ActiveTabProperties, LenProperties DEF SessionsOK
<1>2. /\ rest \in Seq(Session)
      /\ Len(rest) = Len(tabs) - 1
      /\ \A j \in 1..(Len(tabs) - 1) :
           rest[j] = IF j < i THEN tabs[j] ELSE tabs[j + 1]
  BY <1>1, RemoveAtProperties DEF SessionsOK
<1>3. DOMAIN rest = 1..(Len(tabs) - 1)
  BY <1>2, LenProperties
<1>4. /\ tabs' = rest
      /\ active' = IF rest = <<>> THEN None
                   ELSE IF i <= Len(rest) THEN rest[i] ELSE rest[Len(rest)]
      /\ doc' = [doc EXCEPT ![active] = Fresh(Blank, None)]
      /\ undo' = [undo EXCEPT ![active] = <<>>]
      /\ redo' = [redo EXCEPT ![active] = <<>>]
  BY DEF RemoveActive
<1> HIDE DEF i, rest
<1>5. \A j, k \in DOMAIN tabs : tabs[j] = tabs[k] => j = k
  BY DEF SessionsOK, TabsConsistent
<1>6. \A j, k \in DOMAIN rest : rest[j] = rest[k] => j = k
  BY <1>1, <1>2, <1>3, <1>5
<1>7. Range(rest) = Range(tabs) \ {active}
  <2>1. ASSUME NEW x \in Range(rest) PROVE x \in Range(tabs) /\ x # active
    <3>1. PICK j \in 1..(Len(tabs) - 1) : x = rest[j]
      BY <1>3, <2>1 DEF Range
    <3>2. PICK k \in 1..Len(tabs) : x = tabs[k] /\ k # i
      BY <1>1, <1>2, <3>1
    <3>3. QED
      BY <1>1, <1>5, <3>2 DEF Range
  <2>2. ASSUME NEW x \in Range(tabs), x # active PROVE x \in Range(rest)
    <3>1. PICK k \in 1..Len(tabs) : x = tabs[k]
      BY <1>1, <2>2 DEF Range
    <3>2. k # i
      BY <1>1, <2>2, <3>1
    <3>3. PICK j \in 1..(Len(tabs) - 1) : x = rest[j]
      <4>1. CASE k < i
        BY <1>1, <1>2, <3>1, <4>1
      <4>2. CASE k > i
        <5>1. k - 1 \in 1..(Len(tabs) - 1) /\ ~(k - 1 < i) /\ (k - 1) + 1 = k
          BY <1>1, <4>2
        <5>2. rest[k - 1] = tabs[k]
          BY <1>2, <5>1
        <5>3. QED
          BY <3>1, <5>1, <5>2
      <4>3. QED
        BY <1>1, <3>2, <4>1, <4>2
    <3>4. QED
      BY <1>3, <3>3 DEF Range
  <2>3. QED
    BY <2>1, <2>2
<1>8. rest # <<>> => Len(rest) \in 1..Len(rest)
  BY <1>2, EmptySeq
<1>9. /\ active' = None <=> rest = <<>>
      /\ active' # None => active' \in Range(rest)
      /\ active' \in Session \cup {None}
  <2>1. CASE rest = <<>>
    BY <1>4, <2>1
  <2>2. CASE rest # <<>>
    <3>1. \E j \in DOMAIN rest : active' = rest[j]
      BY <1>1, <1>2, <1>3, <1>4, <1>8, <2>2
    <3>2. active' \in Session
      BY <1>2, <1>3, <3>1, ElementOfSeq
    <3>3. QED
      BY <2>2, <3>1, <3>2, FreshIsDocument DEF Range
  <2>3. QED
    BY <2>1, <2>2
<1>10. /\ doc' \in [Session -> Document]
       /\ undo' \in [Session -> Seq(Document)]
       /\ redo' \in [Session -> Seq(Document)]
  BY <1>4, FreshIsDocument, EmptySeq DEF SessionsOK
<1>11. \A s \in Session \ Opened' :
         doc'[s] = Fresh(Blank, None) /\ undo'[s] = <<>> /\ redo'[s] = <<>>
  BY <1>4, <1>7 DEF SessionsOK, TabsConsistent, Opened
<1>12. TabsConsistent'
  BY <1>4, <1>6, <1>9, <1>11 DEF TabsConsistent, Opened
<1>13. QED
  BY <1>2, <1>4, <1>7, <1>9, <1>10, <1>12 DEF SessionsOK, Opened

(* A step that only changes the document and the histories of the active   *)
(* tab.                                                                    *)
LEMMA ActiveStepKeeps ==
  ASSUME SessionsOK, active # None,
         NEW d \in Document, NEW u \in Seq(Document), NEW r \in Seq(Document),
         doc' = [doc EXCEPT ![active] = d],
         undo' = [undo EXCEPT ![active] = u],
         redo' = [redo EXCEPT ![active] = r],
         UNCHANGED <<tabs, active>>
  PROVE  SessionsOK'
<1>1. active \in Opened
  BY DEF SessionsOK, TabsConsistent
<1>2. TabsConsistent'
  BY <1>1 DEF SessionsOK, TabsConsistent, Opened
<1>3. QED
  BY <1>2 DEF SessionsOK

LEMMA CleanedProperties ==
  ASSUME SessionsOK, NEW I, I \subseteq 1..Len(tabs)
  PROVE  /\ Cleaned(I) \in [Session -> Document]
         /\ \A s \in Session :
              /\ Cleaned(I)[s].content = doc[s].content
              /\ s \notin Opened => Cleaned(I)[s] = doc[s]
<1>1. \A s \in Session : doc[s] \in Document
  BY DEF SessionsOK
<1>2. \A s \in Session : [doc[s] EXCEPT !.dirty = FALSE] \in Document
  BY <1>1 DEF Document
<1>3. Cleaned(I) \in [Session -> Document]
  BY <1>1, <1>2 DEF Cleaned
<1>4. \A s \in Session : Cleaned(I)[s].content = doc[s].content
  BY <1>1 DEF Cleaned, Document
<1>5. \A s \in Session : s \notin Opened => Cleaned(I)[s] = doc[s]
  <2>1. I \subseteq DOMAIN tabs
    BY LenProperties DEF SessionsOK
  <2>2. QED
    BY <2>1 DEF Cleaned, Opened, Range
<1>6. QED
  BY <1>3, <1>4, <1>5

LEMMA WrittenProperties ==
  ASSUME IInv, NEW I, I \subseteq 1..Len(tabs)
  PROVE  Written(I) \in [Path -> File \cup {None}]
<1>1. \A i \in I : doc[tabs[i]].content \in Content
  BY ElementOfSeq DEF IInv, TypeOK, Document
<1>2. ASSUME NEW p \in Path, \E i \in I : IsLastWriter(i, I, p)
      PROVE  (CHOOSE i \in I : IsLastWriter(i, I, p)) \in I
  BY <1>2
<1>3. QED
  BY <1>1, <1>2, FreshIsDocument DEF Written, IInv, TypeOK

LEMMA DirtyTabsAreTabs ==
  ASSUME SessionsOK
  PROVE  /\ DirtyTabs(Len(tabs)) \subseteq 1..Len(tabs)
         /\ \A n \in DirtyTabs(Len(tabs)) : DirtyTabs(n - 1) \subseteq 1..Len(tabs)
<1>1. Len(tabs) \in Nat
  BY LenProperties DEF SessionsOK
<1>2. QED
  BY <1>1 DEF DirtyTabs

(* save_all changes documents but not the tabs or the histories.           *)
LEMMA CleanedKeeps ==
  ASSUME SessionsOK, NEW I, I \subseteq 1..Len(tabs), doc' = Cleaned(I),
         UNCHANGED <<tabs, active, undo, redo>>
  PROVE  SessionsOK'
<1>1. TabsConsistent'
  BY CleanedProperties DEF SessionsOK, TabsConsistent, Opened
<1>2. QED
  BY <1>1, CleanedProperties DEF SessionsOK

LEMMA InvariantParts == IInv <=> SessionsOK /\ revision \in Nat
                                   /\ disk \in [Path -> File \cup {None}]
BY DEF IInv, SessionsOK, TypeOK

LEMMA ChangedKeeps == ASSUME revision \in Nat, Changed
                      PROVE  revision' \in Nat /\ revision' > revision
BY DEF Changed

----------------------------------------------------------------------------
(* The inductive invariant                                                 *)

LEMMA InitIInv == Init => IInv
<1> SUFFICES ASSUME Init PROVE IInv
  OBVIOUS
<1>1. PICK s \in Session :
        /\ tabs = <<s>>
        /\ active = s
        /\ doc = [t \in Session |-> Fresh(Blank, None)]
        /\ undo = [t \in Session |-> <<>>]
        /\ redo = [t \in Session |-> <<>>]
        /\ revision = 0
  BY DEF Init
<1>2. disk \in [Path -> File \cup {None}]
  BY FreshIsDocument DEF Init
<1>3. tabs \in Seq(Session) /\ DOMAIN tabs = {1} /\ tabs[1] = s /\ tabs # <<>>
  BY <1>1
<1>4. Range(tabs) = {s}
  BY <1>3 DEF Range
<1>5. TabsConsistent
  BY <1>1, <1>3, <1>4, FreshIsDocument DEF TabsConsistent, Opened
<1>6. TypeOK
  BY <1>1, <1>2, <1>3, FreshIsDocument, EmptySeq DEF TypeOK
<1>7. QED
  BY <1>5, <1>6 DEF IInv

LEMMA OpenKeeps ==
  ASSUME IInv, NEW s \in Session
  PROVE  /\ NewDocument(s) => IInv'
         /\ \A p \in Path : LoadDocument(s, p) => IInv'
<1>1. SessionsOK /\ revision \in Nat /\ disk \in [Path -> File \cup {None}]
  BY InvariantParts
<1>2. \A p \in Path : Loadable(p) => disk[p].content \in Content
  BY DEF Loadable, File
<1>3. ASSUME NewDocument(s) PROVE IInv'
  <2>1. PICK d \in Document : AddTab(s, d)
    BY <1>2, <1>3, FreshIsDocument DEF NewDocument, Path
  <2>2. SessionsOK'
    BY <1>1, <2>1, AddTabKeeps
  <2>3. QED
    BY <1>1, <1>3, <2>2, ChangedKeeps DEF NewDocument, IInv, SessionsOK, TypeOK
<1>4. ASSUME NEW p \in Path, LoadDocument(s, p) PROVE IInv'
  <2>1. PICK d \in Document : AddTab(s, d)
    BY <1>2, <1>4, FreshIsDocument DEF LoadDocument
  <2>2. SessionsOK'
    BY <1>1, <2>1, AddTabKeeps
  <2>3. QED
    BY <1>1, <1>4, <2>2, ChangedKeeps DEF LoadDocument, IInv, SessionsOK, TypeOK
<1>5. QED
  BY <1>3, <1>4

LEMMA ActivateKeeps ==
  ASSUME IInv
  PROVE  /\ \A p \in Path : ReopenDocument(p) => IInv'
         /\ \A s \in Session : ActivateDocument(s) => IInv'
<1>1. SessionsOK /\ revision \in Nat /\ disk \in [Path -> File \cup {None}]
  BY InvariantParts
<1>2. ASSUME NEW s \in Opened, active' = s, Changed,
             UNCHANGED <<tabs, doc, undo, redo, disk>>
      PROVE  IInv'
  <2>1. s \in Session
    BY ElementOfSeq, LenProperties, <1>1 DEF SessionsOK, Opened, Range
  <2>2. tabs # <<>>
    BY <1>1, EmptySeq DEF SessionsOK, Opened, Range
  <2>3. TabsConsistent'
    BY <1>1, <1>2, <2>1, <2>2, FreshIsDocument
       DEF SessionsOK, TabsConsistent, Opened
  <2>4. QED
    BY <1>1, <1>2, <2>1, <2>3, ChangedKeeps DEF SessionsOK, IInv, TypeOK
<1>3. ASSUME NEW p \in Path, ReopenDocument(p) PROVE IInv'
  <2>1. PICK i \in DOMAIN tabs :
          active' = tabs[i] /\ Changed /\ UNCHANGED <<tabs, doc, undo, redo, disk>>
    BY <1>3 DEF ReopenDocument
  <2>2. tabs[i] \in Opened
    BY <2>1 DEF Opened, Range
  <2>3. QED
    BY <1>2, <2>1, <2>2
<1>4. ASSUME NEW s \in Session, ActivateDocument(s) PROVE IInv'
  BY <1>2, <1>4 DEF ActivateDocument
<1>5. QED
  BY <1>3, <1>4

LEMMA EditKeeps ==
  ASSUME IInv
  PROVE  /\ \A c \in Content : Edit(c) => IInv'
         /\ Undo => IInv'
         /\ Redo => IInv'
<1>1. SessionsOK /\ revision \in Nat /\ disk \in [Path -> File \cup {None}]
  BY InvariantParts
<1>2. active # None =>
        /\ active \in Session
        /\ doc[active] \in Document
        /\ undo[active] \in Seq(Document)
        /\ redo[active] \in Seq(Document)
  BY <1>1 DEF SessionsOK
<1>3. ASSUME NEW c \in Content, Edit(c) PROVE IInv'
  <2> DEFINE d == [doc[active] EXCEPT !.content = c, !.dirty = TRUE]
  <2>1. d \in Document
    BY <1>2, <1>3 DEF Edit, Document
  <2>2. doc' = [doc EXCEPT ![active] = d]
    BY <1>2, <1>3 DEF Edit, SessionsOK
  <2> HIDE DEF d
  <2>3. Append(undo[active], doc[active]) \in Seq(Document)
    BY <1>2, <1>3, AppendProperties DEF Edit
  <2>4. SessionsOK'
    BY <1>1, <1>3, <2>1, <2>2, <2>3, EmptySeq, ActiveStepKeeps DEF Edit
  <2>5. QED
    BY <1>1, <1>3, <2>4, ChangedKeeps DEF Edit, SessionsOK, IInv, TypeOK
<1>4. ASSUME Undo PROVE IInv'
  <2>1. /\ Last(undo[active]) \in Document
        /\ Front(undo[active]) \in Seq(Document)
        /\ Append(redo[active], doc[active]) \in Seq(Document)
    BY <1>2, <1>4, FrontLastProperties, AppendProperties DEF Undo
  <2>2. SessionsOK'
    BY <1>1, <1>4, <2>1, ActiveStepKeeps DEF Undo
  <2>3. QED
    BY <1>1, <1>4, <2>2, ChangedKeeps DEF Undo, SessionsOK, IInv, TypeOK
<1>5. ASSUME Redo PROVE IInv'
  <2>1. /\ Last(redo[active]) \in Document
        /\ Front(redo[active]) \in Seq(Document)
        /\ Append(undo[active], doc[active]) \in Seq(Document)
    BY <1>2, <1>5, FrontLastProperties, AppendProperties DEF Redo
  <2>2. SessionsOK'
    BY <1>1, <1>5, <2>1, ActiveStepKeeps DEF Redo
  <2>3. QED
    BY <1>1, <1>5, <2>2, ChangedKeeps DEF Redo, SessionsOK, IInv, TypeOK
<1>6. QED
  BY <1>3, <1>4, <1>5

LEMMA SaveKeeps ==
  ASSUME IInv, NEW p \in NativePath
  PROVE  (Save(p) \/ SaveFails(p)) => IInv'
<1>1. SessionsOK /\ revision \in Nat /\ disk \in [Path -> File \cup {None}]
  BY InvariantParts
<1>2. p \in Path
  BY DEF Path
<1>3. active # None =>
        /\ active \in Session
        /\ doc[active] \in Document
        /\ undo[active] \in Seq(Document)
        /\ redo[active] \in Seq(Document)
        /\ undo = [undo EXCEPT ![active] = undo[active]]
        /\ redo = [redo EXCEPT ![active] = redo[active]]
  BY <1>1 DEF SessionsOK
<1>4. ASSUME active # None, NEW d \in Document,
             doc' = [doc EXCEPT ![active] = d], disk' \in [Path -> File \cup {None}],
             UNCHANGED <<tabs, active, undo, redo, revision>>
      PROVE  IInv'
  <2>1. undo' = [undo EXCEPT ![active] = undo[active]]
    BY <1>3, <1>4
  <2>2. redo' = [redo EXCEPT ![active] = redo[active]]
    BY <1>3, <1>4
  <2>3. SessionsOK'
    BY <1>1, <1>3, <1>4, <2>1, <2>2, ActiveStepKeeps
  <2>4. QED
    BY <1>1, <1>4, <2>3 DEF SessionsOK, IInv, TypeOK
<1>5. ASSUME Save(p) PROVE IInv'
  <2> DEFINE d == [doc[active] EXCEPT !.path = p, !.dirty = FALSE]
  <2>1. d \in Document
    BY <1>2, <1>3, <1>5 DEF Save, Document
  <2>2. doc' = [doc EXCEPT ![active] = d]
    BY <1>1, <1>3, <1>5 DEF Save, SessionsOK
  <2>3. Native(doc[active].content) \in File
    BY <1>3, <1>5, FreshIsDocument DEF Save, Document
  <2>4. disk' \in [Path -> File \cup {None}]
    BY <1>1, <1>5, <2>3 DEF Save
  <2> HIDE DEF d
  <2>5. QED
    BY <1>4, <1>5, <2>1, <2>2, <2>4 DEF Save
<1>6. ASSUME SaveFails(p) PROVE IInv'
  <2> DEFINE d == [doc[active] EXCEPT !.path = p]
  <2>1. d \in Document
    BY <1>2, <1>3, <1>6 DEF SaveFails, Document
  <2>2. doc' = [doc EXCEPT ![active] = d]
    BY <1>1, <1>3, <1>6 DEF SaveFails, SessionsOK
  <2>3. disk' \in [Path -> File \cup {None}]
    BY <1>1, <1>6, FreshIsDocument DEF SaveFails
  <2> HIDE DEF d
  <2>4. QED
    BY <1>4, <1>6, <2>1, <2>2, <2>3 DEF SaveFails
<1>7. QED
  BY <1>5, <1>6

LEMMA SaveAllKeeps ==
  ASSUME IInv
  PROVE  /\ SaveAll => IInv'
         /\ ExecuteSaveAll => IInv'
         /\ \A n \in DOMAIN tabs :
              SaveAllStops(n) \/ ExecuteSaveAllStops(n) => IInv'
<1>1. SessionsOK /\ revision \in Nat /\ disk \in [Path -> File \cup {None}]
  BY InvariantParts
<1> DEFINE all == DirtyTabs(Len(tabs))
<1>2. all \subseteq 1..Len(tabs) /\ \A n \in all : DirtyTabs(n - 1) \subseteq 1..Len(tabs)
  BY <1>1, DirtyTabsAreTabs
<1>3. ASSUME SaveAll PROVE IInv'
  <2>1. disk' \in [Path -> File \cup {None}]
    BY <1>2, <1>3, WrittenProperties DEF SaveAll
  <2>2. SessionsOK'
    BY <1>1, <1>2, <1>3, CleanedKeeps DEF SaveAll
  <2>3. QED
    BY <1>1, <1>3, <2>1, <2>2, ChangedKeeps DEF SaveAll, SessionsOK, IInv, TypeOK
<1>4. ASSUME ExecuteSaveAll PROVE IInv'
  <2> DEFINE cleaned == Cleaned(all)
             d == [cleaned[active] EXCEPT !.dirty = TRUE]
  <2>1. disk' \in [Path -> File \cup {None}]
    BY <1>2, <1>4, WrittenProperties DEF ExecuteSaveAll
  <2>2. /\ cleaned \in [Session -> Document]
        /\ \A s \in Session : s \notin Opened => cleaned[s] = doc[s]
    BY <1>1, <1>2, CleanedProperties
  <2>3. active \in Session /\ active \in Opened /\ active # None
    BY <1>1, <1>4 DEF ExecuteSaveAll, SessionsOK, TabsConsistent
  <2>4. d \in Document
    <3> HIDE DEF cleaned
    <3>1. QED
      BY <2>2, <2>3 DEF Document
  <2>5. doc' = [cleaned EXCEPT ![active].dirty = TRUE]
    BY <1>4 DEF ExecuteSaveAll
  <2> HIDE DEF cleaned
  <2>6. doc' = [cleaned EXCEPT ![active] = d]
    BY <2>2, <2>3, <2>5
  <2>7. Append(undo[active], doc[active]) \in Seq(Document)
    BY <1>1, <2>3, AppendProperties DEF SessionsOK
  <2> HIDE DEF d
  <2>8. /\ doc' \in [Session -> Document]
        /\ undo' \in [Session -> Seq(Document)]
        /\ redo' \in [Session -> Seq(Document)]
    BY <1>1, <1>4, <2>2, <2>3, <2>4, <2>6, <2>7, EmptySeq
       DEF ExecuteSaveAll, SessionsOK
  <2>9. TabsConsistent'
    BY <1>1, <1>4, <2>2, <2>3, <2>6
       DEF ExecuteSaveAll, SessionsOK, TabsConsistent, Opened
  <2>10. QED
    BY <1>1, <1>4, <2>1, <2>8, <2>9, ChangedKeeps
       DEF ExecuteSaveAll, SessionsOK, IInv, TypeOK
<1>5. ASSUME NEW n \in DOMAIN tabs, SaveAllStops(n) PROVE IInv'
  <2>1. DirtyTabs(n - 1) \subseteq 1..Len(tabs)
    BY <1>2, <1>5 DEF SaveAllStops
  <2>2. disk' \in [Path -> File \cup {None}]
    BY <1>5, <2>1, WrittenProperties DEF SaveAllStops
  <2>3. SessionsOK'
    BY <1>1, <1>5, <2>1, CleanedKeeps DEF SaveAllStops
  <2>4. QED
    BY <1>1, <1>5, <2>2, <2>3 DEF SaveAllStops, SessionsOK, IInv, TypeOK
<1>6. ASSUME NEW n \in DOMAIN tabs, ExecuteSaveAllStops(n) PROVE IInv'
  <2>1. disk' \in [Path -> File \cup {None}]
    BY <1>2, <1>6, WrittenProperties DEF ExecuteSaveAllStops
  <2>2. QED
    BY <1>6, <2>1 DEF ExecuteSaveAllStops, IInv, TypeOK, TabsConsistent, Opened
<1>7. QED
  BY <1>3, <1>4, <1>5, <1>6

LEMMA CloseKeeps ==
  ASSUME IInv
  PROVE  /\ CloseSaving => IInv'
         /\ CloseDiscarding => IInv'
         /\ \A discard \in BOOLEAN : DeleteFile(discard) => IInv'
<1>1. SessionsOK /\ revision \in Nat /\ disk \in [Path -> File \cup {None}]
  BY InvariantParts
<1>2. ASSUME active # None, RemoveActive, Changed,
             disk' \in [Path -> File \cup {None}]
      PROVE  IInv'
  <2>1. SessionsOK'
    BY <1>1, <1>2, RemoveActiveKeeps
  <2>2. QED
    BY <1>1, <1>2, <2>1, ChangedKeeps DEF SessionsOK, IInv, TypeOK
<1>3. ASSUME CloseSaving PROVE IInv'
  <2>1. doc[active] \in Document
    BY <1>1, <1>3 DEF CloseSaving, SessionsOK
  <2>2. Native(doc[active].content) \in File
    BY <2>1, FreshIsDocument DEF Document
  <2>3. disk' \in [Path -> File \cup {None}]
    BY <1>1, <1>3, <2>2 DEF CloseSaving
  <2>4. QED
    BY <1>2, <1>3, <2>3 DEF CloseSaving
<1>4. CloseDiscarding => IInv'
  BY <1>1, <1>2 DEF CloseDiscarding
<1>5. ASSUME NEW discard \in BOOLEAN, DeleteFile(discard) PROVE IInv'
  <2>1. disk' \in [Path -> File \cup {None}]
    BY <1>1, <1>5 DEF DeleteFile
  <2>2. QED
    BY <1>2, <1>5, <2>1 DEF DeleteFile
<1>6. QED
  BY <1>3, <1>4, <1>5

(* Every step keeps the invariant: one case per command of the engine.     *)
LEMMA NextIInv == IInv /\ [Next]_vars => IInv'
<1> SUFFICES ASSUME IInv, [Next]_vars PROVE IInv'
  OBVIOUS
<1>1. CASE UNCHANGED vars
  BY <1>1 DEF vars, IInv, TypeOK, TabsConsistent, Opened
<1>2. CASE Next
  BY <1>2, OpenKeeps, ActivateKeeps, EditKeeps, SaveKeeps, SaveAllKeeps,
     CloseKeeps DEF Next
<1>3. QED
  BY <1>1, <1>2

(* In every state the engine reaches, variables have their types.          *)
THEOREM TypeCorrect == Spec => []TypeOK
<1>1. IInv => TypeOK
  BY DEF IInv
<1>2. QED
  BY <1>1, InitIInv, NextIInv, PTL DEF Spec

(* In every state the engine reaches, the tabs, the active tab and the     *)
(* histories agree, however many documents were opened and closed.         *)
THEOREM TabsStayConsistent == Spec => []TabsConsistent
<1>1. IInv => TabsConsistent
  BY DEF IInv
<1>2. QED
  BY <1>1, InitIInv, NextIInv, PTL DEF Spec

----------------------------------------------------------------------------
(* The revision                                                            *)

LEMMA SaveShowsTheSame ==
  ASSUME IInv
  PROVE  /\ \A p \in NativePath : Save(p) \/ SaveFails(p) => Shown' = Shown
         /\ \A n \in DOMAIN tabs :
              SaveAllStops(n) \/ ExecuteSaveAllStops(n) => Shown' = Shown
<1>1. SessionsOK
  BY InvariantParts
<1>2. active # None => active \in Session /\ doc[active] \in Document
  BY <1>1 DEF SessionsOK
<1>3. ASSUME NEW p \in NativePath, Save(p) \/ SaveFails(p) PROVE Shown' = Shown
  <2>1. active # None /\ active' = active
    BY <1>3 DEF Save, SaveFails
  <2>2. doc'[active].content = doc[active].content
    <3>1. CASE Save(p)
      BY <1>1, <1>2, <2>1, <3>1 DEF Save, SessionsOK, Document
    <3>2. CASE SaveFails(p)
      BY <1>1, <1>2, <2>1, <3>2 DEF SaveFails, SessionsOK, Document
    <3>3. QED
      BY <1>3, <3>1, <3>2
  <2>3. QED
    BY <2>1, <2>2 DEF Shown
<1>4. ASSUME NEW n \in DOMAIN tabs, SaveAllStops(n) PROVE Shown' = Shown
  <2>1. DirtyTabs(n - 1) \subseteq 1..Len(tabs)
    BY <1>1, <1>4, DirtyTabsAreTabs DEF SaveAllStops
  <2>2. active # None => doc'[active].content = doc[active].content
    BY <1>1, <1>2, <1>4, <2>1, CleanedProperties DEF SaveAllStops
  <2>3. QED
    BY <1>4, <2>2 DEF SaveAllStops, Shown
<1>5. ASSUME NEW n \in DOMAIN tabs, ExecuteSaveAllStops(n) PROVE Shown' = Shown
  BY <1>5 DEF ExecuteSaveAllStops, Shown
<1>6. QED
  BY <1>3, <1>4, <1>5

LEMMA NextRevision ==
  IInv /\ [Next]_vars => [Shown' # Shown => revision' > revision]_vars
<1> SUFFICES ASSUME IInv, Next PROVE Shown' # Shown => revision' > revision
  OBVIOUS
<1>1. revision \in Nat
  BY DEF IInv, TypeOK
<1>2. Changed => revision' > revision
  BY <1>1, ChangedKeeps
<1>3. Changed \/ Shown' = Shown
  BY SaveShowsTheSame
     DEF Next, NewDocument, LoadDocument, ReopenDocument, ActivateDocument,
         Edit, Undo, Redo, SaveAll, ExecuteSaveAll, CloseSaving,
         CloseDiscarding, DeleteFile
<1>4. QED
  BY <1>2, <1>3

(* A viewer that compares revisions never misses a change of the model.    *)
THEOREM RevisionIsEnough == Spec => RevisionTracksModel
BY InitIInv, NextIInv, NextRevision, PTL DEF Spec, RevisionTracksModel

----------------------------------------------------------------------------
(* The undo and redo stacks implement VersionHistory                       *)

Versions == [s \in Session |-> Timeline(s)]
Cursor   == [s \in Session |-> Len(undo[s]) + 1]

LEMMA FunctionIsSeq ==
  ASSUME NEW S, NEW n \in Nat, NEW f \in [1..n -> S]
  PROVE  f \in Seq(S) /\ Len(f) = n
<1> DEFINE g == SubSeq(f, 1, n)
<1>1. g \in Seq(S) /\ Len(g) = n /\ \A i \in 1..n : g[i] = f[i]
  BY SubSeqProperties
<1> HIDE DEF g
<1>2. g \in [1..n -> S]
  BY <1>1, LenProperties
<1>3. f = g
  BY <1>1, <1>2
<1>4. QED
  BY <1>1, <1>3

(* What an edit makes of a line: it is cut after the cursor, and extended. *)
LEMMA CutAndAppend ==
  ASSUME NEW S, NEW n \in Nat, NEW k \in 0..n, NEW c \in S,
         NEW t \in [1..n -> S], NEW r \in [1..(k + 1) -> S],
         \A i \in 1..k : r[i] = t[i],
         r[k + 1] = c
  PROVE  r = Append(SubSeq(t, 1, k), c)
<1> DEFINE u == SubSeq(t, 1, k)
           a == Append(u, c)
<1>1. u \in Seq(S) /\ Len(u) = k /\ \A i \in 1..k : u[i] = t[i]
  BY SubSeqProperties
<1> HIDE DEF u
<1>2. /\ a \in Seq(S)
      /\ Len(a) = k + 1
      /\ \A i \in 1..k : a[i] = u[i]
      /\ a[k + 1] = c
  BY <1>1, AppendProperties
<1> HIDE DEF a
<1>3. r \in Seq(S) /\ Len(r) = k + 1
  BY FunctionIsSeq
<1>4. \A i \in 1..(k + 1) : r[i] = a[i]
  BY <1>1, <1>2
<1>5. r = a
  BY <1>2, <1>3, <1>4, SeqEqual
<1>6. QED
  BY <1>5 DEF a, u

(* Position i of a line is found from the end of the redo stack.           *)
LEMMA Mirror ==
  ASSUME NEW u \in Nat, NEW r \in Nat, NEW i \in 1..(u + 1 + r), i > u + 1
  PROVE  u + r + 2 - i \in 1..r
OBVIOUS

LEMMA LineType ==
  ASSUME NEW past \in Seq(Document), NEW now \in Document,
         NEW future \in Seq(Document)
  PROVE  /\ Len(past) \in Nat
         /\ Len(future) \in Nat
         /\ Line(past, now, future)
              \in [1..(Len(past) + 1 + Len(future)) -> Content]
<1>1. Len(past) \in Nat /\ Len(future) \in Nat
  BY LenProperties
<1>2. /\ \A i \in 1..Len(past) : past[i] \in Document
      /\ \A i \in 1..Len(future) : future[i] \in Document
  BY ElementOfSeq
<1>3. \A d \in Document : d.content \in Content
  BY DEF Document
<1> DEFINE e(i) == IF i <= Len(past) THEN past[i].content
                   ELSE IF i = Len(past) + 1 THEN now.content
                   ELSE future[Len(past) + Len(future) + 2 - i].content
<1>4. ASSUME NEW i \in 1..(Len(past) + 1 + Len(future))
      PROVE  e(i) \in Content
  <2>1. CASE i <= Len(past)
    <3>1. i \in 1..Len(past)
      BY <1>1, <2>1
    <3>2. QED
      BY <1>2, <1>3, <2>1, <3>1
  <2>2. CASE i = Len(past) + 1
    BY <1>1, <1>3, <2>2
  <2>3. CASE i > Len(past) + 1
    <3>1. Len(past) + Len(future) + 2 - i \in 1..Len(future)
      BY <1>1, <2>3, Mirror
    <3>2. ~(i <= Len(past)) /\ i # Len(past) + 1
      BY <1>1, <2>3
    <3>3. QED
      BY <1>2, <1>3, <3>1, <3>2
  <2>4. QED
    BY <1>1, <2>1, <2>2, <2>3
<1>5. Line(past, now, future)
        = [i \in 1..(Len(past) + 1 + Len(future)) |-> e(i)]
  BY DEF Line
<1> HIDE DEF e
<1>6. QED
  BY <1>1, <1>4, <1>5

(* t is s with e on top.                                                   *)
Pushed(s, e, t) ==
  /\ Len(t) = Len(s) + 1
  /\ \A i \in 1..Len(s) : t[i] = s[i]
  /\ t[Len(t)] = e

LEMMA PushAppend ==
  ASSUME NEW S, NEW s \in Seq(S), NEW e \in S
  PROVE  Append(s, e) \in Seq(S) /\ Pushed(s, e, Append(s, e))
BY AppendProperties DEF Pushed

LEMMA PushFront ==
  ASSUME NEW S, NEW s \in Seq(S), s # <<>>
  PROVE  /\ Front(s) \in Seq(S)
         /\ Last(s) \in S
         /\ Pushed(Front(s), Last(s), s)
<1>1. Len(s) \in Nat \ {0} /\ Len(Front(s)) = Len(s) - 1
  BY FrontLastProperties
<1>2. Len(s) = Len(Front(s)) + 1
  BY <1>1
<1>3. QED
  BY <1>1, <1>2, FrontLastProperties DEF Pushed

(* Undo moves the last version of the past to the middle: the line stays.  *)
LEMMA LineMoves ==
  ASSUME NEW past \in Seq(Document), NEW now \in Document,
         NEW future \in Seq(Document), NEW past2 \in Seq(Document),
         NEW then \in Document, NEW future2 \in Seq(Document),
         Pushed(past2, then, past), Pushed(future, now, future2)
  PROVE  Line(past, now, future) = Line(past2, then, future2)
<1> DEFINE n == Len(past) + 1 + Len(future)
           f == Line(past, now, future)
           g == Line(past2, then, future2)
<1>1. /\ Len(past) \in Nat /\ Len(past2) \in Nat
      /\ Len(future) \in Nat /\ Len(future2) \in Nat
      /\ Len(past) = Len(past2) + 1
      /\ Len(future2) = Len(future) + 1
      /\ Len(past2) + 1 + Len(future2) = n
      /\ n \in Nat
  BY LenProperties DEF Pushed
<1> USE DEF Pushed
<1>2. f \in [1..n -> Content] /\ g \in [1..n -> Content]
  BY <1>1, LineType
<1>3. ASSUME NEW i \in 1..n PROVE f[i] = g[i]
  <2>1. f[i] = IF i <= Len(past) THEN past[i].content
               ELSE IF i = Len(past) + 1 THEN now.content
               ELSE future[Len(past) + Len(future) + 2 - i].content
    BY DEF Line
  <2>2. g[i] = IF i <= Len(past2) THEN past2[i].content
               ELSE IF i = Len(past2) + 1 THEN then.content
               ELSE future2[Len(past2) + Len(future2) + 2 - i].content
    BY <1>1 DEF Line
  <2> HIDE DEF f, g
  <2>3. CASE i <= Len(past2)
    <3>1. i \in 1..Len(past2) /\ i <= Len(past)
      BY <1>1, <2>3
    <3>2. QED
      BY <2>1, <2>2, <2>3, <3>1
  <2>4. CASE i = Len(past2) + 1
    <3>1. i <= Len(past) /\ i = Len(past) /\ ~(i <= Len(past2))
      BY <1>1, <2>4
    <3>2. QED
      BY <2>1, <2>2, <2>4, <3>1
  <2>5. CASE i = Len(past) + 1
    <3>1. /\ ~(i <= Len(past)) /\ ~(i <= Len(past2)) /\ i # Len(past2) + 1
          /\ Len(past2) + Len(future2) + 2 - i = Len(future2)
      BY <1>1, <2>5
    <3>2. QED
      BY <2>1, <2>2, <2>5, <3>1
  <2>6. CASE i > Len(past) + 1
    <3>1. /\ ~(i <= Len(past)) /\ ~(i <= Len(past2))
          /\ i # Len(past2) + 1 /\ i # Len(past) + 1
          /\ Len(past2) + Len(future2) + 2 - i = Len(past) + Len(future) + 2 - i
      BY <1>1, <2>6
    <3>2. Len(past) + Len(future) + 2 - i \in 1..Len(future)
      BY <1>1, <2>6, Mirror
    <3>3. QED
      BY <2>1, <2>2, <3>1, <3>2
  <2>7. QED
    BY <1>1, <2>3, <2>4, <2>5, <2>6
<1> HIDE DEF f, g
<1>4. /\ f \in Seq(Content) /\ Len(f) = n
      /\ g \in Seq(Content) /\ Len(g) = n
  <2>1. n \in Nat
    BY <1>1
  <2> HIDE DEF n
  <2>2. QED
    BY <1>2, <2>1, FunctionIsSeq
<1> HIDE DEF n
<1>5. f = g
  BY <1>3, <1>4, SeqEqual
<1>6. QED
  BY <1>5 DEF f, g

(* An edit cuts the line after the document and adds a version.            *)
LEMMA LineGrows ==
  ASSUME NEW past \in Seq(Document), NEW now \in Document,
         NEW future \in Seq(Document), NEW then \in Document
  PROVE  Line(Append(past, now), then, <<>>)
           = Append(SubSeq(Line(past, now, future), 1, Len(past) + 1),
                    then.content)
<1> DEFINE n == Len(past) + 1 + Len(future)
           k == Len(past) + 1
           past2 == Append(past, now)
           t == Line(past, now, future)
           r == Line(past2, then, <<>>)
<1>1. /\ past2 \in Seq(Document)
      /\ Len(past2) = k
      /\ \A i \in 1..Len(past) : past2[i] = past[i]
      /\ past2[k] = now
  BY AppendProperties
<1> HIDE DEF past2
<1>2. /\ <<>> \in Seq(Document)
      /\ Len(<<>>) = 0
      /\ then.content \in Content
  BY EmptySeq DEF Document
<1>3. /\ Len(past) \in Nat
      /\ Len(future) \in Nat
      /\ t \in [1..n -> Content]
  BY LineType
<1>4. r \in [1..(Len(past2) + 1 + Len(<<>>)) -> Content]
  BY <1>1, <1>2, LineType
<1>5. /\ n \in Nat
      /\ k \in 0..n
      /\ Len(past2) + 1 + Len(<<>>) = k + 1
  BY <1>1, <1>2, <1>3
<1>6. ASSUME NEW i \in 1..k PROVE r[i] = t[i]
  <2>1. t[i] = IF i <= Len(past) THEN past[i].content
               ELSE IF i = Len(past) + 1 THEN now.content
               ELSE future[Len(past) + Len(future) + 2 - i].content
    BY <1>3 DEF Line
  <2>2. r[i] = past2[i].content
    BY <1>1, <1>5 DEF Line
  <2> HIDE DEF t, r
  <2>3. CASE i <= Len(past)
    <3>1. i \in 1..Len(past)
      BY <1>3, <2>3
    <3>2. QED
      BY <1>1, <2>1, <2>2, <2>3, <3>1
  <2>4. CASE i = Len(past) + 1
    <3>1. ~(i <= Len(past))
      BY <1>3, <2>4
    <3>2. QED
      BY <1>1, <2>1, <2>2, <2>4, <3>1
  <2>5. QED
    BY <1>3, <2>3, <2>4
<1>7. r[k + 1] = then.content
  <2>1. k + 1 \in 1..(Len(past2) + 1 + Len(<<>>))
    BY <1>3, <1>5
  <2>2. ~(k + 1 <= Len(past2)) /\ k + 1 = Len(past2) + 1
    BY <1>1, <1>3
  <2>3. QED
    BY <2>1, <2>2 DEF Line
<1> HIDE DEF t, r, k, n
<1>8. r \in [1..(k + 1) -> Content]
  BY <1>4, <1>5
<1>9. r = Append(SubSeq(t, 1, k), then.content)
  BY <1>2, <1>3, <1>5, <1>6, <1>7, <1>8, CutAndAppend
<1>10. QED
  BY <1>9 DEF t, r, k, past2

LEMMA LineStarts ==
  ASSUME NEW now \in Document
  PROVE  Line(<<>>, now, <<>>) = <<now.content>>
<1> DEFINE r == Line(<<>>, now, <<>>)
           c == now.content
           t == <<c>>
<1>1. <<>> \in Seq(Document) /\ Len(<<>>) = 0
  BY EmptySeq
<1>2. r \in [1..1 -> Content]
  <2>1. r \in [1..(Len(<<>>) + 1 + Len(<<>>)) -> Content]
    BY <1>1, LineType
  <2> HIDE DEF r
  <2>2. QED
    BY <1>1, <2>1
<1>3. r[1] = c
  BY <1>1 DEF Line
<1>4. t \in Seq(Content) /\ Len(t) = 1 /\ t[1] = c
  BY DEF Document
<1>5. 1 \in Nat
  OBVIOUS
<1> HIDE DEF r, t, c
<1>6. r \in Seq(Content) /\ Len(r) = 1
  BY <1>2, <1>5, FunctionIsSeq
<1>7. r = t
  BY <1>3, <1>4, <1>6, SeqEqual
<1>8. QED
  BY <1>7 DEF r, t, c

(* Steps that keep the tabs, the histories and all contents are stuttering *)
(* steps of the history.                                                   *)
LEMMA SameHistory ==
  ASSUME Opened' = Opened, undo' = undo, redo' = redo,
         \A s \in Session : doc'[s].content = doc[s].content
  PROVE  UNCHANGED <<Opened, Versions, Cursor>>
<1>1. Cursor' = Cursor
  BY DEF Cursor
<1>2. \A s \in Session : Timeline(s)' = Timeline(s)
  BY DEF Timeline, Line
<1>3. Versions' = Versions
  BY <1>2 DEF Versions
<1>4. QED
  BY <1>1, <1>3

(* A step that changes the document and histories of one session changes   *)
(* the line and the cursor of that session only.                           *)
SessionBecomes(s, u, d, r) ==
  /\ doc' = [doc EXCEPT ![s] = d]
  /\ undo' = [undo EXCEPT ![s] = u]
  /\ redo' = [redo EXCEPT ![s] = r]

LineBecomes(s, u, d, r) ==
  /\ Versions' = [Versions EXCEPT ![s] = Line(u, d, r)]
  /\ Cursor' = [Cursor EXCEPT ![s] = Len(u) + 1]

LEMMA OneLineChanges ==
  ASSUME SessionsOK, NEW s \in Session, NEW u, NEW d, NEW r,
         SessionBecomes(s, u, d, r)
  PROVE  LineBecomes(s, u, d, r)
<1>1. /\ doc' = [t \in Session |-> IF t = s THEN d ELSE doc[t]]
      /\ undo' = [t \in Session |-> IF t = s THEN u ELSE undo[t]]
      /\ redo' = [t \in Session |-> IF t = s THEN r ELSE redo[t]]
  BY DEF SessionsOK, SessionBecomes
<1>2. \A t \in Session :
        Timeline(t)' = IF t = s THEN Line(u, d, r) ELSE Timeline(t)
  <2>1. \A t \in Session : Timeline(t)' = Line(undo'[t], doc'[t], redo'[t])
    BY DEF Timeline
  <2>2. QED
    BY <1>1, <2>1 DEF Timeline
<1>3. Versions' = [Versions EXCEPT ![s] = Line(u, d, r)]
  BY <1>2 DEF Versions
<1>4. Cursor' = [Cursor EXCEPT ![s] = Len(u) + 1]
  BY <1>1 DEF Cursor
<1>5. QED
  BY <1>3, <1>4 DEF LineBecomes

LEMMA LineOf ==
  \A s \in Session : /\ Versions[s] = Line(undo[s], doc[s], redo[s])
                      /\ Cursor[s] = Len(undo[s]) + 1
BY DEF Versions, Cursor, Timeline

LEMMA HistoryInit == Init => History!Init
<1> SUFFICES ASSUME Init PROVE History!Init
  OBVIOUS
<1>1. PICK s \in Session :
        /\ tabs = <<s>>
        /\ doc = [t \in Session |-> Fresh(Blank, None)]
        /\ undo = [t \in Session |-> <<>>]
        /\ redo = [t \in Session |-> <<>>]
  BY DEF Init
<1>2. Opened = {s}
  <2>1. tabs \in Seq(Session) /\ DOMAIN tabs = {1} /\ tabs[1] = s
    BY <1>1
  <2>2. QED
    BY <2>1 DEF Opened, Range
<1>3. Line(<<>>, Fresh(Blank, None), <<>>) = <<Blank>>
  <2>1. Fresh(Blank, None) \in Document
    BY FreshIsDocument
  <2>2. Fresh(Blank, None).content = Blank
    BY DEF Fresh
  <2>3. QED
    BY <2>1, <2>2, LineStarts
<1>4. Versions = [t \in Session |-> <<Blank>>]
  BY <1>1, <1>3 DEF Versions, Timeline
<1>5. Cursor = [t \in Session |-> 1]
  BY <1>1, EmptySeq DEF Cursor
<1>6. QED
  BY <1>2, <1>4, <1>5 DEF History!Init, Versions, Cursor

LEMMA HistoryOpen ==
  ASSUME SessionsOK, NEW s \in Session, NEW d \in Document, AddTab(s, d)
  PROVE  History!Open(s, d.content)
<1>1. undo[s] = <<>> /\ redo[s] = <<>>
  BY DEF SessionsOK, TabsConsistent, AddTab
<1>2. SessionBecomes(s, <<>>, d, <<>>)
  BY <1>1 DEF SessionsOK, AddTab, SessionBecomes
<1>3. Opened' = Opened \cup {s} /\ s \notin Opened
  BY AppendFacts DEF SessionsOK, AddTab, Opened
<1>4. Line(<<>>, d, <<>>) = <<d.content>> /\ Len(<<>>) + 1 = 1
  BY LineStarts, EmptySeq
<1>5. LineBecomes(s, <<>>, d, <<>>)
  BY <1>2, OneLineChanges
<1>6. QED
  BY <1>3, <1>4, <1>5 DEF History!Open, LineBecomes, Versions, Cursor

LEMMA HistoryClose ==
  ASSUME SessionsOK, active # None, RemoveActive
  PROVE  active \in Session /\ History!Close(active)
<1>1. active \in Session /\ active \in Opened
  BY DEF SessionsOK, TabsConsistent
<1>2. Opened' = Opened \ {active}
  BY RemoveActiveKeeps
<1> DEFINE d == Fresh(Blank, None)
<1>3. d \in Document /\ d.content = Blank
  BY FreshIsDocument DEF Fresh
<1>4. SessionBecomes(active, <<>>, d, <<>>)
  BY DEF RemoveActive, SessionBecomes
<1> HIDE DEF d
<1>5. Line(<<>>, d, <<>>) = <<Blank>> /\ Len(<<>>) + 1 = 1
  BY <1>3, LineStarts, EmptySeq
<1>6. LineBecomes(active, <<>>, d, <<>>)
  BY <1>1, <1>4, OneLineChanges
<1>7. QED
  BY <1>1, <1>2, <1>5, <1>6 DEF History!Close, LineBecomes, Versions, Cursor

LEMMA LineContent ==
  ASSUME NEW past, NEW now, NEW then, NEW future, now.content = then.content
  PROVE  Line(past, now, future) = Line(past, then, future)
BY DEF Line

(* The step of an edit: the document goes on the undo stack, the redo      *)
(* stack is dropped, and the other documents keep their contents.          *)
RecordsAt(s, u) ==
  /\ undo' = [undo EXCEPT ![s] = u]
  /\ redo' = [redo EXCEPT ![s] = <<>>]
  /\ \A t \in Session : t # s => doc'[t].content = doc[t].content
  /\ Opened' = Opened

LEMMA HistoryRecord ==
  ASSUME SessionsOK, NEW s \in Session, s \in Opened,
         NEW d \in Document, doc'[s] = d,
         RecordsAt(s, Append(undo[s], doc[s]))
  PROVE  History!Record(s, d.content)
<1> DEFINE u == Append(undo[s], doc[s])
<1>1. /\ undo[s] \in Seq(Document)
      /\ redo[s] \in Seq(Document)
      /\ doc[s] \in Document
  BY DEF SessionsOK
<1>2. Len(u) = Len(undo[s]) + 1
  BY <1>1, AppendProperties
<1>3. RecordsAt(s, u)
  OBVIOUS
<1>4. Line(u, d, <<>>)
        = Append(SubSeq(Versions[s], 1, Cursor[s]), d.content)
  BY <1>1, LineOf, LineGrows
<1> HIDE DEF u
<1>5. /\ undo' = [t \in Session |-> IF t = s THEN u ELSE undo[t]]
      /\ redo' = [t \in Session |-> IF t = s THEN <<>> ELSE redo[t]]
  BY <1>3 DEF RecordsAt, SessionsOK
<1>6. \A t \in Session :
        Timeline(t)' = IF t = s THEN Line(u, d, <<>>) ELSE Timeline(t)
  <2>1. \A t \in Session : Timeline(t)' = Line(undo'[t], doc'[t], redo'[t])
    BY DEF Timeline
  <2>2. ASSUME NEW t \in Session, t # s PROVE Timeline(t)' = Timeline(t)
    <3>1. doc'[t].content = doc[t].content
      BY <1>3, <2>2 DEF RecordsAt
    <3>2. Timeline(t)' = Line(undo[t], doc'[t], redo[t])
      BY <1>5, <2>1, <2>2
    <3>3. Line(undo[t], doc'[t], redo[t]) = Line(undo[t], doc[t], redo[t])
      BY <3>1, LineContent
    <3>4. QED
      BY <3>2, <3>3 DEF Timeline
  <2>3. Timeline(s)' = Line(u, d, <<>>)
    BY <1>5, <2>1
  <2>4. QED
    BY <2>2, <2>3
<1>7. Versions' = [Versions EXCEPT
                     ![s] = Append(SubSeq(@, 1, Cursor[s]), d.content)]
  BY <1>4, <1>6 DEF Versions
<1>8. Cursor' = [Cursor EXCEPT ![s] = @ + 1]
  BY <1>2, <1>5 DEF Cursor
<1>9. QED
  BY <1>3, <1>7, <1>8 DEF RecordsAt, History!Record, Versions, Cursor

LEMMA HistoryUndo ==
  ASSUME SessionsOK, Undo
  PROVE  active \in Session /\ History!Back(active)
<1> DEFINE past == undo[active]
           future == redo[active]
           now == doc[active]
           u == Front(past)
           d == Last(past)
           r == Append(future, now)
<1>1. active \in Session /\ active \in Opened
  BY DEF SessionsOK, TabsConsistent, Undo
<1>2. /\ past \in Seq(Document)
      /\ future \in Seq(Document)
      /\ now \in Document
      /\ past # <<>>
  BY <1>1 DEF SessionsOK, Undo
<1>3. SessionBecomes(active, u, d, r) /\ Opened' = Opened
  BY DEF Undo, Opened, SessionBecomes
<1>4. Versions[active] = Line(past, now, future) /\ Cursor[active] = Len(past) + 1
  BY <1>1, LineOf
<1> HIDE DEF past, future, now
<1>5. u \in Seq(Document) /\ d \in Document /\ Pushed(u, d, past)
  BY <1>2, PushFront
<1>6. r \in Seq(Document) /\ Pushed(future, now, r)
  BY <1>2, PushAppend
<1> HIDE DEF u, d, r
<1>7. LineBecomes(active, u, d, r)
  BY <1>1, <1>3, OneLineChanges
<1>8. Line(past, now, future) = Line(u, d, r)
  BY <1>2, <1>5, <1>6, LineMoves
<1>9. Versions' = Versions
  BY <1>4, <1>7, <1>8 DEF LineBecomes, Versions
<1>10. Len(u) \in Nat /\ Len(past) = Len(u) + 1
  BY <1>5, LenProperties DEF Pushed
<1>11. Cursor[active] > 1 /\ Cursor' = [Cursor EXCEPT ![active] = @ - 1]
  BY <1>4, <1>7, <1>10 DEF LineBecomes
<1>12. QED
  BY <1>1, <1>3, <1>9, <1>11 DEF History!Back, Versions, Cursor

LEMMA HistoryRedo ==
  ASSUME SessionsOK, Redo
  PROVE  active \in Session /\ History!Forward(active)
<1> DEFINE past == undo[active]
           future == redo[active]
           now == doc[active]
           u == Append(past, now)
           d == Last(future)
           r == Front(future)
<1>1. active \in Session /\ active \in Opened
  BY DEF SessionsOK, TabsConsistent, Redo
<1>2. /\ past \in Seq(Document)
      /\ future \in Seq(Document)
      /\ now \in Document
      /\ future # <<>>
  BY <1>1 DEF SessionsOK, Redo
<1>3. SessionBecomes(active, u, d, r) /\ Opened' = Opened
  BY DEF Redo, Opened, SessionBecomes
<1>4. Versions[active] = Line(past, now, future) /\ Cursor[active] = Len(past) + 1
  BY <1>1, LineOf
<1> HIDE DEF past, future, now
<1>5. r \in Seq(Document) /\ d \in Document /\ Pushed(r, d, future)
  BY <1>2, PushFront
<1>6. u \in Seq(Document) /\ Pushed(past, now, u)
  BY <1>2, PushAppend
<1> HIDE DEF u, d, r
<1>7. LineBecomes(active, u, d, r)
  BY <1>1, <1>3, OneLineChanges
<1>8. Line(u, d, r) = Line(past, now, future)
  BY <1>2, <1>5, <1>6, LineMoves
<1>9. Versions' = Versions
  BY <1>4, <1>7, <1>8 DEF LineBecomes, Versions
<1>10. /\ Len(past) \in Nat /\ Len(u) = Len(past) + 1
       /\ Len(r) \in Nat /\ Len(future) = Len(r) + 1
  BY <1>2, <1>5, <1>6, LenProperties DEF Pushed
<1>11. Cursor' = [Cursor EXCEPT ![active] = @ + 1]
  BY <1>4, <1>7, <1>10 DEF LineBecomes
<1>12. Cursor[active] < Len(Versions[active])
  <2> DEFINE n == Len(past) + 1 + Len(future)
  <2>1. Line(past, now, future) \in [1..n -> Content]
    BY <1>2, LineType
  <2>2. n \in Nat /\ Len(past) + 1 < n
    BY <1>10
  <2> HIDE DEF n
  <2>3. Len(Line(past, now, future)) = n
    BY <2>1, <2>2, FunctionIsSeq
  <2>4. QED
    BY <1>4, <2>2, <2>3
<1>13. QED
  BY <1>1, <1>3, <1>9, <1>11, <1>12 DEF History!Forward, Versions, Cursor

HistoryStep == [History!Next]_(History!hvars)

LEMMA HistoryStutters ==
  ASSUME Opened' = Opened, undo' = undo, redo' = redo,
         \A s \in Session : doc'[s].content = doc[s].content
  PROVE  HistoryStep
BY SameHistory DEF HistoryStep, History!hvars, Versions, Cursor

LEMMA HistoryOpenStep ==
  ASSUME IInv, NEW s \in Session
  PROVE  /\ NewDocument(s) => HistoryStep
         /\ \A p \in Path : LoadDocument(s, p) => HistoryStep
<1>1. SessionsOK
  BY InvariantParts
<1>2. \A p \in Path : Loadable(p) => disk[p].content \in Content
  BY DEF Loadable, File
<1>3. ASSUME NEW d \in Document, AddTab(s, d) PROVE HistoryStep
  <2>1. History!Open(s, d.content)
    BY <1>1, <1>3, HistoryOpen
  <2>2. d.content \in Content
    BY DEF Document
  <2>3. QED
    BY <2>1, <2>2 DEF HistoryStep, History!Next
<1>4. NewDocument(s) => \E d \in Document : AddTab(s, d)
  BY <1>2, FreshIsDocument DEF NewDocument, Path
<1>5. \A p \in Path : LoadDocument(s, p) => \E d \in Document : AddTab(s, d)
  BY <1>2, FreshIsDocument DEF LoadDocument
<1>6. QED
  BY <1>3, <1>4, <1>5

LEMMA HistoryEditStep ==
  ASSUME IInv
  PROVE  /\ \A c \in Content : Edit(c) => HistoryStep
         /\ ExecuteSaveAll => HistoryStep
         /\ Undo => HistoryStep
         /\ Redo => HistoryStep
<1>1. SessionsOK
  BY InvariantParts
<1>2. IInv' => doc' \in [Session -> Document]
  BY DEF IInv, TypeOK
<1>3. ASSUME active # None, RecordsAt(active, Append(undo[active], doc[active])),
             doc' \in [Session -> Document]
      PROVE  HistoryStep
  <2>1. active \in Session /\ active \in Opened
    BY <1>1, <1>3 DEF SessionsOK, TabsConsistent
  <2>2. PICK d \in Document : doc'[active] = d
    BY <1>3, <2>1
  <2>3. History!Record(active, d.content)
    BY <1>1, <1>3, <2>1, <2>2, HistoryRecord
  <2>4. d.content \in Content
    BY DEF Document
  <2>5. QED
    BY <2>1, <2>3, <2>4 DEF HistoryStep, History!Next
<1>4. ASSUME NEW c \in Content, Edit(c) PROVE HistoryStep
  <2>1. doc' \in [Session -> Document]
    BY <1>2, <1>4, EditKeeps
  <2>2. RecordsAt(active, Append(undo[active], doc[active]))
    BY <1>1, <1>4 DEF Edit, SessionsOK, RecordsAt, Opened
  <2>3. QED
    BY <1>3, <1>4, <2>1, <2>2 DEF Edit
<1>5. ASSUME ExecuteSaveAll PROVE HistoryStep
  <2> DEFINE cleaned == Cleaned(DirtyTabs(Len(tabs)))
  <2>1. doc' \in [Session -> Document]
    BY <1>2, <1>5, SaveAllKeeps
  <2>2. /\ cleaned \in [Session -> Document]
        /\ \A s \in Session : cleaned[s].content = doc[s].content
    BY <1>1, DirtyTabsAreTabs, CleanedProperties
  <2>3. doc' = [cleaned EXCEPT ![active].dirty = TRUE]
    BY <1>5 DEF ExecuteSaveAll
  <2> HIDE DEF cleaned
  <2>4. \A s \in Session : s # active => doc'[s].content = doc[s].content
    BY <2>2, <2>3
  <2>5. RecordsAt(active, Append(undo[active], doc[active]))
    BY <1>5, <2>4 DEF ExecuteSaveAll, RecordsAt, Opened
  <2>6. QED
    BY <1>3, <1>5, <2>1, <2>5 DEF ExecuteSaveAll
<1>6. ASSUME Undo PROVE HistoryStep
  <2>1. active \in Session /\ History!Back(active)
    BY <1>1, <1>6, HistoryUndo
  <2>2. QED
    BY <2>1 DEF HistoryStep, History!Next, History!Back
<1>7. ASSUME Redo PROVE HistoryStep
  <2>1. active \in Session /\ History!Forward(active)
    BY <1>1, <1>7, HistoryRedo
  <2>2. QED
    BY <2>1 DEF HistoryStep, History!Next, History!Forward
<1>8. QED
  BY <1>4, <1>5, <1>6, <1>7

LEMMA HistorySaveStep ==
  ASSUME IInv
  PROVE  /\ \A p \in NativePath : Save(p) \/ SaveFails(p) => HistoryStep
         /\ SaveAll => HistoryStep
         /\ \A n \in DOMAIN tabs :
              SaveAllStops(n) \/ ExecuteSaveAllStops(n) => HistoryStep
<1>1. SessionsOK
  BY InvariantParts
<1>2. active # None => active \in Session /\ doc[active] \in Document
  BY <1>1 DEF SessionsOK
<1>3. ASSUME NEW p \in NativePath, Save(p) PROVE HistoryStep
  <2>1. \A s \in Session : doc'[s].content = doc[s].content
    BY <1>1, <1>2, <1>3 DEF Save, SessionsOK, Document
  <2>2. QED
    BY <1>3, <2>1, HistoryStutters DEF Save, Opened
<1>4. ASSUME NEW p \in NativePath, SaveFails(p) PROVE HistoryStep
  <2>1. \A s \in Session : doc'[s].content = doc[s].content
    BY <1>1, <1>2, <1>4 DEF SaveFails, SessionsOK, Document
  <2>2. QED
    BY <1>4, <2>1, HistoryStutters DEF SaveFails, Opened
<1>5. ASSUME SaveAll PROVE HistoryStep
  <2>1. \A s \in Session : doc'[s].content = doc[s].content
    BY <1>1, <1>5, DirtyTabsAreTabs, CleanedProperties DEF SaveAll
  <2>2. QED
    BY <1>5, <2>1, HistoryStutters DEF SaveAll, Opened
<1>6. ASSUME NEW n \in DOMAIN tabs, SaveAllStops(n) PROVE HistoryStep
  <2>1. DirtyTabs(n - 1) \subseteq 1..Len(tabs)
    BY <1>1, <1>6, DirtyTabsAreTabs DEF SaveAllStops
  <2>2. \A s \in Session : doc'[s].content = doc[s].content
    BY <1>1, <1>6, <2>1, CleanedProperties DEF SaveAllStops
  <2>3. QED
    BY <1>6, <2>2, HistoryStutters DEF SaveAllStops, Opened
<1>7. ASSUME NEW n \in DOMAIN tabs, ExecuteSaveAllStops(n) PROVE HistoryStep
  BY <1>7, HistoryStutters DEF ExecuteSaveAllStops, Opened
<1>8. QED
  BY <1>3, <1>4, <1>5, <1>6, <1>7

LEMMA HistoryCloseStep ==
  ASSUME IInv
  PROVE  /\ CloseSaving => HistoryStep
         /\ CloseDiscarding => HistoryStep
         /\ \A discard \in BOOLEAN : DeleteFile(discard) => HistoryStep
<1>1. SessionsOK
  BY InvariantParts
<1>2. ASSUME active # None, RemoveActive PROVE HistoryStep
  <2>1. active \in Session /\ History!Close(active)
    BY <1>1, <1>2, HistoryClose
  <2>2. QED
    BY <2>1 DEF HistoryStep, History!Next, History!Close
<1>3. QED
  BY <1>2 DEF CloseSaving, CloseDiscarding, DeleteFile

(* Every command is a step of the history, or leaves it alone.             *)
LEMMA NextHistory == IInv /\ [Next]_vars => HistoryStep
<1> SUFFICES ASSUME IInv, [Next]_vars PROVE HistoryStep
  OBVIOUS
<1>1. CASE UNCHANGED vars
  BY <1>1, HistoryStutters DEF vars, Opened
<1>2. (\E p \in Path : ReopenDocument(p)) \/ (\E s \in Session : ActivateDocument(s))
        => HistoryStep
  BY HistoryStutters DEF ReopenDocument, ActivateDocument, Opened
<1>3. CASE Next
  BY <1>2, <1>3, HistoryOpenStep, HistoryEditStep, HistorySaveStep,
     HistoryCloseStep DEF Next
<1>4. QED
  BY <1>1, <1>3

(* The workspace implements the abstract history: undo and redo walk one   *)
(* line of versions per document, in every behaviour of the engine.        *)
THEOREM WorkspaceImplementsHistory == Spec => ImplementsHistory
<1>1. IInv /\ [Next]_vars => [History!Next]_(History!hvars)
  BY NextHistory DEF HistoryStep
<1>2. QED
  BY <1>1, InitIInv, NextIInv, HistoryInit, PTL
     DEF Spec, ImplementsHistory, History!Spec
=============================================================================
