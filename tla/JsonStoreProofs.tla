-------------------------- MODULE JsonStoreProofs --------------------------
(***************************************************************************)
(* The JSON file protocol implements an atomic map for any processes, keys *)
(* and values, as long as operations of two processes do not overlap.      *)
(***************************************************************************)
EXTENDS JsonStore, FiniteSetTheorems, TLAPS

(***************************************************************************)
(* While it is calm, at most one process is inside an operation (Alone),   *)
(* the file is whole and open in no process (PathWhole), and the operation *)
(* under way will leave a map that is one change away from the one that    *)
(* readers still see (NextOK), which it alone is writing down (TmpOK).     *)
(* Calm or not, a file is open only while it is being written (Closed).    *)
(***************************************************************************)
Alone == \A p, q \in Proc : Busy(p) /\ Busy(q) => p = q

PathWhole ==
    path # NoFile => content[path].whole /\ \A p \in Proc : op[p].file # path

NextOK == \A p \in Proc : Busy(p) => op[p].next \in Results(Parsed)

TmpOK ==
    \A p \in Proc :
        /\ op[p].pc = "write" => op[p].file = tmp /\ tmp # NoFile /\ tmp # path
                                 /\ ~content[tmp].whole
        /\ op[p].pc = "replace" => tmp # NoFile /\ content[tmp] = Whole(op[p].next)

Closed == \A p \in Proc : op[p].pc # "write" => op[p].file = NoFile

CalmInv == calm => Alone /\ PathWhole /\ NextOK /\ TmpOK

JsonInv == TypeOK /\ Closed /\ CalmInv

-----------------------------------------------------------------------------
(* Facts about files and maps.                                             *)

LEMMA FileNames == NoFile \notin File
<1>1. Cardinality(Proc) \in Nat
  BY JsonAssumption, FS_CardinalityType
<1> QED BY <1>1 DEF File, NoFile

LEMMA MapFacts ==
    /\ Empty \in Map
    /\ \A m \in Map : Results(m) \subseteq Map
    /\ \A m \in Map : Whole(m) \in [whole : BOOLEAN, map : Map]
    /\ Torn \in [whole : BOOLEAN, map : Map]
<1>1. Empty \in Map
  BY DEF Empty, Map
<1>2. \A m \in Map : Results(m) \subseteq Map
  BY DEF Results, Map
<1> QED BY <1>1, <1>2 DEF Whole, Torn

LEMMA ParsedType == TypeOK => Parsed \in Map
<1> SUFFICES ASSUME TypeOK PROVE Parsed \in Map
  OBVIOUS
<1>1. path # NoFile => content[path].map \in Map
  BY DEF TypeOK
<1> QED BY <1>1, MapFacts DEF Parsed

-----------------------------------------------------------------------------
(* The invariant.                                                          *)

LEMMA JsonInit == Init => JsonInv
<1> SUFFICES ASSUME Init PROVE JsonInv
  OBVIOUS
<1>1. NoOp \in [pc : {"idle", "open", "write", "replace"}, next : Map, file : File \cup {NoFile}]
  BY MapFacts DEF NoOp
<1>2. TypeOK
  BY <1>1, MapFacts DEF Init, TypeOK
<1>3. \A p \in Proc : op[p].pc = "idle" /\ ~Busy(p)
  BY DEF Init, NoOp, Busy
<1>4. CalmInv
  BY <1>3 DEF Init, CalmInv, Alone, PathWhole, NextOK, TmpOK
<1>5. Closed
  BY DEF Init, Closed, NoOp
<1> QED BY <1>2, <1>4, <1>5 DEF JsonInv

LEMMA JsonBegin == ASSUME JsonInv, NEW p \in Proc, Begin(p) PROVE JsonInv'
<1>1. PICK next \in Results(Parsed) :
          op' = [op EXCEPT ![p] = [pc |-> "open", next |-> next, file |-> NoFile]]
  BY DEF Begin
<1>2. /\ UNCHANGED <<path, tmp, content, answer>> /\ calm' = (calm /\ \A q \in Proc \ {p} : ~Busy(q))
      /\ Parsed' = Parsed
  BY DEF Begin, Parsed
<1>3. next \in Map
  BY ParsedType, MapFacts DEF JsonInv
<1>4. /\ op'[p] = [pc |-> "open", next |-> next, file |-> NoFile]
      /\ \A q \in Proc \ {p} : op'[q] = op[q]
  BY <1>1 DEF JsonInv, TypeOK
<1>5. TypeOK'
  <2>1. op' \in [Proc -> [pc : {"idle", "open", "write", "replace"}, next : Map, file : File \cup {NoFile}]]
    BY <1>1, <1>3 DEF JsonInv, TypeOK
  <2>2. calm' \in BOOLEAN
    BY <1>2 DEF JsonInv, TypeOK
  <2> QED BY <1>2, <2>1, <2>2 DEF JsonInv, TypeOK
<1>6. CalmInv'
  <2> SUFFICES ASSUME calm' PROVE (Alone /\ PathWhole /\ NextOK /\ TmpOK)'
    BY DEF CalmInv
  <2>1. calm /\ Alone /\ PathWhole /\ NextOK /\ TmpOK /\ \A q \in Proc \ {p} : ~Busy(q)
    BY <1>2 DEF JsonInv, CalmInv
  <2>2. Alone'
    BY <1>4, <2>1 DEF Alone, Busy
  <2>3. PathWhole'
    BY <1>2, <1>4, <2>1 DEF PathWhole
  <2>4. NextOK'
    BY <1>2, <1>4, <2>1 DEF NextOK, Busy
  <2>5. TmpOK'
    BY <1>2, <1>4, <2>1 DEF TmpOK
  <2> QED BY <2>2, <2>3, <2>4, <2>5
<1>7. Closed'
  BY <1>4 DEF JsonInv, Closed
<1> QED BY <1>5, <1>6, <1>7 DEF JsonInv

LEMMA JsonRead == ASSUME JsonInv, NEW p \in Proc, Read(p) PROVE JsonInv'
<1>1. UNCHANGED <<path, tmp, content, op, calm>> /\ answer' \in Map /\ Parsed' = Parsed
  BY ParsedType DEF Read, JsonInv, Parsed
<1> QED BY <1>1 DEF JsonInv, TypeOK, Closed, CalmInv, Alone, PathWhole, NextOK, TmpOK, Busy

LEMMA JsonOpen ==
    ASSUME JsonInv, NEW p \in Proc, Open(p)
    PROVE  JsonInv' /\ (calm => Parsed' = Parsed)
<1>1. PICK f \in File :
          /\ OpensTmp(f)
          /\ content' = [content EXCEPT ![f] = Torn]
          /\ op' = [op EXCEPT ![p].pc = "write", ![p].file = f]
  BY DEF Open
<1>2. op[p].pc = "open" /\ UNCHANGED <<path, answer, calm>> /\ tmp' = f
  BY <1>1 DEF Open, OpensTmp
<1>3. /\ op'[p].pc = "write" /\ op'[p].file = f /\ op'[p].next = op[p].next
      /\ \A q \in Proc \ {p} : op'[q] = op[q]
  BY <1>1 DEF JsonInv, TypeOK
<1>4. content'[f] = Torn /\ \A g \in File \ {f} : content'[g] = content[g]
  BY <1>1 DEF JsonInv, TypeOK
<1>5. f # path /\ f # NoFile
  BY <1>1, FileNames DEF OpensTmp, IsFresh, InUse, JsonInv, TypeOK
<1>6. TypeOK'
  <2>1. op' \in [Proc -> [pc : {"idle", "open", "write", "replace"}, next : Map, file : File \cup {NoFile}]]
    BY <1>1 DEF JsonInv, TypeOK
  <2>2. content' \in [File -> [whole : BOOLEAN, map : Map]]
    BY <1>1, MapFacts DEF JsonInv, TypeOK
  <2> QED BY <1>2, <1>5, <2>1, <2>2 DEF JsonInv, TypeOK
<1>7. Parsed' = Parsed
  BY <1>2, <1>4, <1>5 DEF Parsed, JsonInv, TypeOK
<1>8. CalmInv'
  <2> SUFFICES ASSUME calm PROVE (Alone /\ PathWhole /\ NextOK /\ TmpOK)'
    BY <1>2 DEF CalmInv
  <2>1. /\ Alone /\ PathWhole /\ NextOK /\ TmpOK /\ Busy(p)
    BY <1>2 DEF JsonInv, CalmInv, Busy
  <2>2. \A q \in Proc \ {p} : op[q].pc = "idle"
    BY <2>1 DEF Alone, Busy
  <2>3. Alone'
    BY <1>3, <2>2 DEF Alone, Busy
  <2>4. PathWhole'
    BY <1>2, <1>3, <1>4, <1>5, <2>1 DEF PathWhole, JsonInv, TypeOK
  <2>5. NextOK'
    BY <1>3, <1>7, <2>1 DEF NextOK, Busy
  <2>6. TmpOK'
    BY <1>2, <1>3, <1>4, <1>5, <2>2 DEF TmpOK, Torn
  <2> QED BY <2>3, <2>4, <2>5, <2>6
<1>9. Closed'
  BY <1>3 DEF JsonInv, Closed
<1> QED BY <1>6, <1>7, <1>8, <1>9 DEF JsonInv

LEMMA JsonWrite ==
    ASSUME JsonInv, NEW p \in Proc, Write(p)
    PROVE  JsonInv' /\ (calm => Parsed' = Parsed)
<1> DEFINE f == op[p].file
<1>1. PICK c \in {Whole(op[p].next)} \cup (IF content[f].whole THEN {Torn} ELSE {}) :
          content' = [content EXCEPT ![f] = c]
  BY DEF Write
<1>2. /\ op[p].pc = "write" /\ UNCHANGED <<path, tmp, answer, calm>>
      /\ op' = [op EXCEPT ![p].pc = "replace", ![p].file = NoFile]
  BY DEF Write
<1>3. /\ op'[p].pc = "replace" /\ op'[p].file = NoFile /\ op'[p].next = op[p].next
      /\ \A q \in Proc \ {p} : op'[q] = op[q]
  BY <1>2 DEF JsonInv, TypeOK
<1>4. op[p].next \in Map /\ c \in [whole : BOOLEAN, map : Map]
  BY <1>1, MapFacts DEF JsonInv, TypeOK
<1>5. TypeOK'
  <2>1. op' \in [Proc -> [pc : {"idle", "open", "write", "replace"}, next : Map, file : File \cup {NoFile}]]
    BY <1>2 DEF JsonInv, TypeOK
  <2>2. content' \in [File -> [whole : BOOLEAN, map : Map]]
    BY <1>1, <1>4 DEF JsonInv, TypeOK
  <2> QED BY <1>2, <2>1, <2>2 DEF JsonInv, TypeOK
<1>6. ASSUME calm PROVE (Alone /\ PathWhole /\ NextOK /\ TmpOK)' /\ Parsed' = Parsed
  <2>1. /\ Alone /\ PathWhole /\ NextOK /\ TmpOK /\ Busy(p)
    BY <1>2, <1>6 DEF JsonInv, CalmInv, Busy
  <2>2. f = tmp /\ tmp # NoFile /\ tmp # path /\ ~content[tmp].whole
    BY <1>2, <2>1 DEF TmpOK
  <2>3. c = Whole(op[p].next)
    BY <1>1, <2>2
  <2>4. content'[tmp] = Whole(op[p].next) /\ \A g \in File \ {tmp} : content'[g] = content[g]
    BY <1>1, <2>2, <2>3 DEF JsonInv, TypeOK
  <2>5. \A q \in Proc \ {p} : op[q].pc = "idle"
    BY <2>1 DEF Alone, Busy
  <2>6. Parsed' = Parsed
    BY <1>2, <2>2, <2>4 DEF Parsed, JsonInv, TypeOK
  <2>7. Alone'
    BY <1>3, <2>5 DEF Alone, Busy
  <2>8. PathWhole'
    BY <1>2, <1>3, <2>1, <2>2, <2>4 DEF PathWhole, JsonInv, TypeOK
  <2>9. NextOK'
    BY <1>3, <2>1, <2>6 DEF NextOK, Busy
  <2>10. TmpOK'
    BY <1>2, <1>3, <2>2, <2>4, <2>5 DEF TmpOK
  <2> QED BY <2>6, <2>7, <2>8, <2>9, <2>10
<1>7. Closed'
  BY <1>3 DEF JsonInv, Closed
<1> QED BY <1>2, <1>5, <1>6, <1>7 DEF JsonInv, CalmInv

LEMMA JsonReplace ==
    ASSUME JsonInv, NEW p \in Proc, Replace(p)
    PROVE  /\ JsonInv'
           /\ calm => Parsed' \in Results(Parsed) /\ answer' = Parsed'
<1>1. /\ op[p].pc = "replace" /\ tmp # NoFile /\ path' = tmp /\ tmp' = NoFile
      /\ answer' = op[p].next /\ op' = [op EXCEPT ![p] = NoOp] /\ UNCHANGED <<content, calm>>
  BY DEF Replace
<1>2. op'[p] = NoOp /\ \A q \in Proc \ {p} : op'[q] = op[q]
  BY <1>1 DEF JsonInv, TypeOK
<1>3. TypeOK'
  <2>1. NoOp \in [pc : {"idle", "open", "write", "replace"}, next : Map, file : File \cup {NoFile}]
    BY MapFacts DEF NoOp
  <2>2. op' \in [Proc -> [pc : {"idle", "open", "write", "replace"}, next : Map, file : File \cup {NoFile}]]
    BY <1>1, <2>1 DEF JsonInv, TypeOK
  <2> QED BY <1>1, <2>2 DEF JsonInv, TypeOK
<1>4. Closed'
  BY <1>2 DEF JsonInv, Closed, NoOp
<1>5. ASSUME calm
      PROVE  /\ (Alone /\ PathWhole /\ NextOK /\ TmpOK)'
             /\ Parsed' \in Results(Parsed) /\ answer' = Parsed'
  <2>1. /\ Alone /\ PathWhole /\ NextOK /\ TmpOK /\ Busy(p)
    BY <1>1, <1>5 DEF JsonInv, CalmInv, Busy
  <2>2. content[tmp] = Whole(op[p].next)
    BY <1>1, <2>1 DEF TmpOK
  <2>3. \A q \in Proc : op'[q].pc = "idle"
    BY <1>2, <2>1 DEF Alone, Busy, NoOp
  <2>4. Parsed' = op[p].next
    BY <1>1, <2>2 DEF Parsed, Whole
  <2>5. (Alone /\ NextOK /\ TmpOK)'
    BY <2>3 DEF Alone, NextOK, TmpOK, Busy
  <2>6. \A q \in Proc : op'[q].file # tmp
    BY <1>1, <1>2, <1>4, <2>3 DEF Closed
  <2>7. PathWhole'
    BY <1>1, <2>2, <2>6 DEF PathWhole, Whole
  <2>8. Parsed' \in Results(Parsed) /\ answer' = Parsed'
    BY <1>1, <2>1, <2>4 DEF NextOK
  <2> QED BY <2>5, <2>7, <2>8
<1> QED BY <1>1, <1>3, <1>5, <1>4 DEF JsonInv, CalmInv

LEMMA JsonFail ==
    ASSUME JsonInv, NEW p \in Proc, Fail(p)
    PROVE  JsonInv' /\ Parsed' = Parsed
<1>1. op' = [op EXCEPT ![p] = NoOp] /\ UNCHANGED <<path, tmp, content, answer, calm>>
  BY DEF Fail
<1>2. op'[p] = NoOp /\ \A q \in Proc \ {p} : op'[q] = op[q]
  BY <1>1 DEF JsonInv, TypeOK
<1>3. Parsed' = Parsed
  BY <1>1 DEF Parsed
<1>4. TypeOK'
  <2>1. NoOp \in [pc : {"idle", "open", "write", "replace"}, next : Map, file : File \cup {NoFile}]
    BY MapFacts DEF NoOp
  <2>2. op' \in [Proc -> [pc : {"idle", "open", "write", "replace"}, next : Map, file : File \cup {NoFile}]]
    BY <1>1, <2>1 DEF JsonInv, TypeOK
  <2> QED BY <1>1, <2>2 DEF JsonInv, TypeOK
<1>5. CalmInv'
  BY <1>1, <1>2, <1>3, FileNames
  DEF JsonInv, TypeOK, CalmInv, Alone, PathWhole, NextOK, TmpOK, Busy, NoOp
<1>6. Closed'
  BY <1>2 DEF JsonInv, Closed, NoOp
<1> QED BY <1>3, <1>4, <1>5, <1>6 DEF JsonInv

LEMMA JsonStep == JsonInv /\ [Next]_vars => JsonInv'
<1> SUFFICES ASSUME JsonInv, [Next]_vars PROVE JsonInv'
  OBVIOUS
<1>1. ASSUME NEW p \in Proc,
             Begin(p) \/ Read(p) \/ Open(p) \/ Write(p) \/ Replace(p) \/ Fail(p)
      PROVE  JsonInv'
  BY <1>1, JsonBegin, JsonRead, JsonOpen, JsonWrite, JsonReplace, JsonFail
<1>2. CASE UNCHANGED vars
  BY <1>2 DEF vars, JsonInv, TypeOK, Closed, CalmInv, Alone, PathWhole, NextOK, TmpOK, Busy, Parsed
<1> QED BY <1>1, <1>2 DEF Next

LEMMA JsonInvariant == Spec => []JsonInv
  BY JsonInit, JsonStep, PTL DEF Spec

-----------------------------------------------------------------------------
(* What follows from the invariant.                                        *)

\* The files and operations are well typed, and the temporary name never is
\* the name of the file that readers open.
THEOREM JsonTypeOK == Spec => []TypeOK
<1>1. JsonInv => TypeOK
  BY DEF JsonInv
<1> QED BY <1>1, JsonInvariant, PTL

\* read, write aside, rename implements a map that changes in one step, through
\* every crash and failed write, as long as no two processes overlap.
THEOREM JsonImplementsAtomicMap == Spec => ImplementsAtomicMap
<1>1. Init => Promised!Init
  BY DEF Init, Parsed, Promised!Init, Promised!Empty, Empty
<1>2. JsonInv /\ JsonInv' /\ [Next]_vars => [Promised!Next]_(Promised!vars)
  <2> SUFFICES ASSUME JsonInv, JsonInv', [Next]_vars
               PROVE  Promised!Next \/ UNCHANGED <<Parsed, answer, calm>>
    BY DEF Promised!vars
  <2>1. CASE ~calm'
    <3>1. Parsed' \in Map /\ answer' \in Map
      <4>1. path' # NoFile => content'[path'].map \in Map
        BY DEF JsonInv, TypeOK
      <4> QED BY <4>1, MapFacts DEF Parsed, JsonInv, TypeOK
    <3>2. calm' = FALSE
      BY <2>1 DEF JsonInv, TypeOK
    <3> QED BY <3>1, <3>2 DEF Promised!Next, Promised!Disturbed, Promised!Map, Map
  <2>2. ASSUME calm', calm, NEW p \in Proc, Begin(p) \/ Open(p) \/ Write(p) \/ Fail(p)
        PROVE  UNCHANGED <<Parsed, answer, calm>>
    <3>1. answer' = answer /\ calm' = calm
      BY <2>2 DEF Begin, Open, Write, Fail, JsonInv, TypeOK
    <3>2. Parsed' = Parsed
      BY <2>2, JsonOpen, JsonWrite, JsonFail DEF Begin, Parsed
    <3> QED BY <3>1, <3>2
  <2>3. ASSUME calm', calm, NEW p \in Proc, Read(p) PROVE Promised!Next
    <3>1. answer' = Parsed /\ Parsed' = Parsed /\ calm' = TRUE /\ calm = TRUE
      BY <2>3 DEF Read, Parsed, JsonInv, TypeOK
    <3> QED BY <3>1 DEF Promised!Next, Promised!Read
  <2>4. ASSUME calm', calm, NEW p \in Proc, Replace(p) PROVE Promised!Next
    <3>1. Parsed' \in Results(Parsed) /\ answer' = Parsed' /\ calm' = TRUE
      BY <2>4, JsonReplace DEF JsonInv, TypeOK
    <3>2. Promised!Change
      BY <3>1 DEF Results, Promised!Change, Promised!Remove, Promised!Put
    <3> QED BY <2>4, <3>1, <3>2 DEF Promised!Next
  <2>5. CASE UNCHANGED vars
    BY <2>5 DEF vars, Parsed
  <2>6. calm' => calm \/ UNCHANGED vars
    BY DEF Next, Begin, Read, Open, Write, Replace, Fail
  <2> QED BY <2>1, <2>2, <2>3, <2>4, <2>5, <2>6 DEF Next
<1> QED BY <1>1, <1>2, JsonInvariant, PTL DEF Spec, ImplementsAtomicMap, Promised!Spec
=============================================================================
