-------------------------- MODULE OasVersionsProofs --------------------------
(***************************************************************************)
(* Theorems about OasVersions, for any finite set of APIs and any number   *)
(* of versions.                                                            *)
(***************************************************************************)
EXTENDS OasVersions, FiniteSetTheorems, WellFoundedInduction, TLAPS

-----------------------------------------------------------------------------
(* The operators the actions are built from                                *)

\* A set of versions that is not empty has a highest one.
LEMMA LargestIsLargest ==
    ASSUME NEW S \in SUBSET Version, S # {}
    PROVE  Largest(S) \in S /\ \A w \in S : w <= Largest(S)
<1> DEFINE R == {ss \in Nat \X Nat : ss[1] < ss[2]}
           T == {MaxVersion - v : v \in S}
<1>1. T \subseteq Nat
  BY VersionAssumption DEF Version
<1>2. T # {}
  OBVIOUS
<1>3. IsWellFoundedOn(R, Nat)
  BY NatLessThanWellFounded DEF OpToRel
<1>4. \E x \in T : \A y \in T : ~(<<y, x>> \in R)
  <2> HIDE DEF R, T
  <2> QED BY <1>1, <1>2, <1>3, WFMin
<1>5. PICK v \in S : \A y \in T : ~(<<y, MaxVersion - v>> \in R)
  BY <1>4
<1>6. \A w \in S : w <= v
  <2> SUFFICES ASSUME NEW w \in S PROVE w <= v
    OBVIOUS
  <2>1. ~(<<MaxVersion - w, MaxVersion - v>> \in R)
    BY <1>5
  <2>2. /\ MaxVersion - w \in Nat
        /\ MaxVersion - v \in Nat
        /\ w \in Int
        /\ v \in Int
    BY VersionAssumption DEF Version
  <2>3. ~(MaxVersion - w < MaxVersion - v)
    BY <2>1, <2>2
  <2> QED BY <2>2, <2>3, VersionAssumption
<1> QED BY <1>6 DEF Largest

\* The number of APIs in a document is a natural number.
LEMMA ApisCounted ==
    ASSUME NEW A \in SUBSET Api
    PROVE  Cardinality(A) \in Nat
BY ApiAssumption, FS_Subset, FS_CardinalityType

Document == [apis : SUBSET Api, apiId : [Api -> Nat], lastApiId : Nat]

LEMMA RawIsDocument == \A A \in SUBSET Api : Raw(A) \in Document
BY DEF Raw, Document, Undefined

\* A later run always has an earlier file to compare with.
LEMMA PreviousVersionType ==
    ASSUME json \subseteq Version,
           NEW v \in json, NEW w \in json, w # v
    PROVE  PreviousVersion \in json /\ PreviousVersion \in Version
<1>1. Largest(json) \in json
  BY LargestIsLargest
<1>2. json \ {Largest(json)} # {}
  BY <1>1
<1>3. PreviousVersion \in json \ {Largest(json)}
  BY <1>2, LargestIsLargest DEF PreviousVersion
<1> QED BY <1>3

LEMMA InitialDocType ==
    ASSUME NEW A \in SUBSET Api, NEW f \in Numbering(A, 1)
    PROVE  InitialDoc(A, f) \in Document
<1>1. Cardinality(A) \in Nat
  BY ApisCounted
<1>2. f \in [A -> 1 .. 1 + Cardinality(A) - 1]
  BY DEF Numbering
<1>3. \A a \in A : f[a] \in Nat
  BY <1>1, <1>2
<1> QED BY <1>1, <1>3 DEF InitialDoc, Document, Undefined

LEMMA NextDocType ==
    ASSUME NEW A \in SUBSET Api, NEW prev \in Document,
           NEW f \in Numbering(A \ prev.apis, prev.lastApiId)
    PROVE  NextDoc(A, prev, f) \in Document
<1> DEFINE new == A \ prev.apis
<1>1. Cardinality(new) \in Nat /\ prev.lastApiId \in Nat
  BY ApisCounted DEF Document
<1>2. f \in [new -> prev.lastApiId .. prev.lastApiId + Cardinality(new) - 1]
  BY DEF Numbering
<1>3. \A a \in new : f[a] \in Nat
  BY <1>1, <1>2
<1>4. prev.apiId \in [Api -> Nat]
  BY DEF Document
<1> QED BY <1>1, <1>3, <1>4 DEF NextDoc, Document, Undefined
-----------------------------------------------------------------------------
(* Types                                                                   *)

RunType ==
    [pc : {"idle", "number", "workbook"}, version : Version \cup {0},
     initial : BOOLEAN]

\* What a run knows of the files it found: the initial one found none, a later
\* one found another version, and the list of changes starts with the first.
RunOk ==
    /\ run.pc # "idle" /\ run.initial =>
          json = {run.version} /\ excel = {} /\ first = run.version
    /\ run.pc # "idle" /\ ~run.initial => \E w \in json : w # run.version

TypeInv == TypeOK /\ RunOk /\ HistoryComplete

LEMMA TypeInvInit == Init => TypeInv
<1> SUFFICES ASSUME Init PROVE TypeInv
  OBVIOUS
<1>1. doc \in [Version -> Document]
  BY RawIsDocument DEF Init
<1> QED
  BY <1>1 DEF Init, TypeInv, TypeOK, RunOk, HistoryComplete, NoRun, Document

LEMMA TypeInvStep == TypeInv /\ [Next]_vars => TypeInv'
<1> SUFFICES ASSUME TypeInv, [Next]_vars PROVE TypeInv'
  OBVIOUS
<1> USE DEF TypeInv, RunType
<1>a. /\ json \subseteq Version
      /\ doc \in [Version -> Document]
      /\ excel \subseteq json
      /\ run \in RunType
      /\ run.pc # "idle" => run.version \in json
      /\ first \in Version \cup {0}
      /\ recent \in Version \cup {0}
      /\ orderly \in BOOLEAN
  BY DEF TypeOK, Document
<1>1. ASSUME NEW v \in Version, NEW A \in SUBSET Api,
             GenerateSwaggerToJson(v, A)
      PROVE  TypeInv'
  <2>1. doc' \in [Version -> Document]
    BY <1>1, <1>a, RawIsDocument DEF GenerateSwaggerToJson
  <2>2. TypeOK'
    BY <1>1, <1>a, <2>1 DEF GenerateSwaggerToJson, TypeOK, Document
  <2>3. RunOk'
    BY <1>1, <1>a DEF GenerateSwaggerToJson, RunOk
  <2>4. HistoryComplete'
    BY <1>1, <1>a DEF GenerateSwaggerToJson, HistoryComplete
  <2> QED BY <2>2, <2>3, <2>4
<1>2. CASE NumberInitial
  <2>1. run.version \in Version
    BY <1>2, <1>a DEF NumberInitial
  <2>2. doc' \in [Version -> Document]
    <3>1. doc[run.version].apis \in SUBSET Api
      BY <1>a, <2>1 DEF Document
    <3>2. PICK f \in Numbering(doc[run.version].apis, 1) :
             doc' = [doc EXCEPT ![run.version] = InitialDoc(doc[run.version].apis, f)]
      BY <1>2 DEF NumberInitial
    <3> QED BY <1>a, <2>1, <3>1, <3>2, InitialDocType
  <2>3. TypeOK'
    BY <1>2, <1>a, <2>1, <2>2 DEF NumberInitial, TypeOK, Document
  <2> QED BY <1>2, <1>a, <2>3 DEF NumberInitial, RunOk, HistoryComplete
<1>3. CASE NumberNext
  <2>1. run.version \in Version
    BY <1>3, <1>a DEF NumberNext
  <2>2. doc' \in [Version -> Document]
    <3>1. doc[run.version].apis \in SUBSET Api
      BY <1>a, <2>1 DEF Document
    <3>2. doc[PreviousVersion] \in Document
      <4>1. \E w \in json : w # run.version
        BY <1>3 DEF NumberNext, RunOk
      <4> QED BY <1>3, <1>a, <4>1, PreviousVersionType DEF NumberNext
    <3>3. CASE UNCHANGED doc
      BY <1>a, <3>3
    <3>4. ASSUME NEW f \in Numbering(doc[run.version].apis \ doc[PreviousVersion].apis,
                                     doc[PreviousVersion].lastApiId),
                 doc' = [doc EXCEPT ![run.version] =
                           NextDoc(doc[run.version].apis, doc[PreviousVersion], f)]
          PROVE  doc' \in [Version -> Document]
      <4>1. NextDoc(doc[run.version].apis, doc[PreviousVersion], f) \in Document
        BY <3>1, <3>2, NextDocType
      <4> QED BY <1>a, <2>1, <3>4, <4>1
    <3> QED BY <1>3, <3>3, <3>4 DEF NumberNext
  <2>3. run' \in RunType /\ (run'.pc # "idle" => run'.version \in json)
    <3>1. run' = NoRun \/ run' = [run EXCEPT !.pc = "workbook"]
      BY <1>3 DEF NumberNext, Exit
    <3>2. run.version \in json
      BY <1>3, <1>a DEF NumberNext
    <3>3. run \in RunType
      BY <1>a
    <3>4. CASE run' = NoRun
      BY <3>4 DEF NoRun
    <3>5. CASE run' = [run EXCEPT !.pc = "workbook"]
      <4>1. run'.version = run.version
        BY <3>3, <3>5
      <4> QED BY <3>2, <3>3, <3>5, <4>1
    <3> QED BY <3>1, <3>4, <3>5
  <2>4. /\ UNCHANGED <<json, excel, first, orderly>>
        /\ recent' \in {recent, run.version}
    BY <1>3 DEF NumberNext
  <2>5. TypeOK'
    BY <1>a, <2>1, <2>2, <2>3, <2>4 DEF TypeOK, Document
  <2> QED BY <1>3, <1>a, <2>5 DEF NumberNext, RunOk, HistoryComplete, Exit, NoRun
<1>4. CASE GenerateExcel
  <2>1. TypeOK'
    BY <1>4, <1>a DEF GenerateExcel, TypeOK, Document, Exit, NoRun
  <2>2. RunOk'
    BY <1>4 DEF GenerateExcel, RunOk, Exit, NoRun
  <2>3. HistoryComplete'
    BY <1>4, <1>a DEF GenerateExcel, HasHistory, RunOk, HistoryComplete
  <2> QED BY <2>1, <2>2, <2>3
<1>5. CASE Die
  BY <1>5, <1>a DEF Die, TypeOK, Document, RunOk, HistoryComplete, Exit, NoRun
<1>6. CASE UNCHANGED vars
  BY <1>6, <1>a DEF vars, TypeOK, Document, RunOk, HistoryComplete
<1> QED BY <1>1, <1>2, <1>3, <1>4, <1>5, <1>6 DEF Next

\* Every reachable state is well typed, and a run in progress has written its
\* file (makeApiVersion).
THEOREM TypeCorrect == Spec => []TypeOK
<1>1. TypeInv => TypeOK
  BY DEF TypeInv
<1> QED BY <1>1, TypeInvInit, TypeInvStep, PTL DEF Spec

\* No version gets a workbook before the first one has its own: a run that
\* died leaves no workbook with part of the list of changes
\* (createApiChanges).
THEOREM HistoryCompleteCorrect == Spec => []HistoryComplete
<1>1. TypeInv => HistoryComplete
  BY DEF TypeInv
<1> QED BY <1>1, TypeInvInit, TypeInvStep, PTL DEF Spec

-----------------------------------------------------------------------------
(* Numbers                                                                 *)

\* No number of a file has reached the next free one.
IdsBelowLast ==
    \A v \in json : Numbered(v) =>
        \A a \in doc[v].apis : doc[v].apiId[a] \in 1 .. doc[v].lastApiId - 1

\* The next free number only grows with the versions.
LastApiIdGrows ==
    \A v, w \in json : v < w /\ Numbered(v) /\ Numbered(w) =>
        doc[v].lastApiId <= doc[w].lastApiId

OneApi ==
    \A v, w \in json : Numbered(v) /\ Numbered(w) =>
        \A a \in doc[v].apis, b \in doc[w].apis :
            doc[v].apiId[a] = doc[w].apiId[b] => a = b

\* The file to be numbered is the only one without numbers and the highest, and
\* the one below it was numbered last.
FileInProgress ==
    run.pc = "number" =>
        /\ ~Numbered(run.version)
        /\ \A w \in json \ {run.version} : w < run.version /\ Numbered(w)
        /\ recent = IF run.initial THEN 0 ELSE Largest(json \ {run.version})

RecentIsLatest ==
    /\ json = {} => recent = 0
    /\ json # {} /\ (\A w \in json : Numbered(w)) => recent = Largest(json)

\* The inductive invariant, as long as versions come in order
NumberingOk ==
    orderly =>
        IdsBelowLast /\ LastApiIdGrows /\ OneApi /\ FileInProgress /\ RecentIsLatest

\* The first version has one number for each API, all below the next free one.
LEMMA InitialDocNumbers ==
    ASSUME NEW A \in SUBSET Api, NEW f \in Numbering(A, 1)
    PROVE  LET d == InitialDoc(A, f)
           IN  /\ d.lastApiId \in Nat \ {0}
               /\ d.apis = A
               /\ \A a \in A : d.apiId[a] \in 1 .. d.lastApiId - 1
               /\ \A a, b \in A : d.apiId[a] = d.apiId[b] => a = b
<1> DEFINE d == InitialDoc(A, f)
<1>1. Cardinality(A) \in Nat
  BY ApisCounted
<1>2. /\ f \in [A -> 1 .. 1 + Cardinality(A) - 1]
      /\ \A a, b \in A : f[a] = f[b] => a = b
  BY DEF Numbering
<1>3. \A a \in A : d.apiId[a] = f[a]
  BY DEF InitialDoc
<1>4. d.lastApiId = 1 + Cardinality(A) /\ d.apis = A
  BY DEF InitialDoc
<1> HIDE DEF d
<1>5. \A a \in A : d.apiId[a] \in 1 .. d.lastApiId - 1
  BY <1>1, <1>2, <1>3, <1>4
<1>6. QED BY <1>1, <1>2, <1>3, <1>4, <1>5 DEF d

\* A document of the APIs A that keeps the numbers of the previous one and gives
\* the new APIs numbers the previous one had left free
Continues(d, A, prev) ==
    /\ d.lastApiId \in Nat /\ d.lastApiId >= prev.lastApiId
    /\ d.apis = A
    /\ \A a \in A \cap prev.apis : d.apiId[a] = prev.apiId[a]
    /\ \A a \in A \ prev.apis : d.apiId[a] >= prev.lastApiId
    /\ \A a \in A : d.apiId[a] \in 1 .. d.lastApiId - 1
    /\ \A a, b \in A : d.apiId[a] = d.apiId[b] => a = b

\* The numbers of a document are different and below the next free one.
WellNumbered(d) ==
    /\ d.lastApiId # 0
    /\ \A a \in d.apis : d.apiId[a] \in 1 .. d.lastApiId - 1
    /\ \A a, b \in d.apis : d.apiId[a] = d.apiId[b] => a = b

LEMMA NextDocNumbers ==
    ASSUME NEW A \in SUBSET Api, NEW prev \in Document, WellNumbered(prev),
           NEW f \in Numbering(A \ prev.apis, prev.lastApiId)
    PROVE  Continues(NextDoc(A, prev, f), A, prev)
<1> DEFINE d   == NextDoc(A, prev, f)
           new == A \ prev.apis
           n   == prev.lastApiId
<1>1. Cardinality(new) \in Nat /\ n \in Nat \ {0}
  BY ApisCounted DEF Document, WellNumbered
<1>2. /\ f \in [new -> n .. n + Cardinality(new) - 1]
      /\ \A a, b \in new : f[a] = f[b] => a = b
  BY DEF Numbering
<1>3. /\ \A a \in new : d.apiId[a] = f[a]
      /\ \A a \in A \ new : d.apiId[a] = prev.apiId[a]
  BY DEF NextDoc
<1>4. d.lastApiId = n + Cardinality(new) /\ d.apis = A
  BY DEF NextDoc
<1>5. \A a \in A \ new : a \in prev.apis /\ d.apiId[a] \in 1 .. n - 1
  BY <1>3 DEF WellNumbered
<1>6. \A a \in new : d.apiId[a] \in n .. n + Cardinality(new) - 1
  BY <1>2, <1>3
<1>7. A \cap prev.apis = A \ new
  OBVIOUS
<1> HIDE DEF d, new, n
<1>8. /\ d.lastApiId \in Nat /\ d.lastApiId >= n
      /\ \A a \in new : d.apiId[a] >= n
      /\ \A a \in A : d.apiId[a] \in 1 .. d.lastApiId - 1
  BY <1>1, <1>4, <1>5, <1>6
<1>9. \A a, b \in A : d.apiId[a] = d.apiId[b] => a = b
  <2> SUFFICES ASSUME NEW a \in A, NEW b \in A, d.apiId[a] = d.apiId[b]
               PROVE  a = b
    OBVIOUS
  <2>1. CASE a \in new /\ b \in new
    BY <2>1, <1>2, <1>3
  <2>2. CASE a \notin new /\ b \notin new
    BY <2>2, <1>3, <1>5 DEF WellNumbered
  <2>3. CASE a \in new /\ b \notin new
    BY <2>3, <1>1, <1>5, <1>6
  <2>4. CASE a \notin new /\ b \in new
    BY <2>4, <1>1, <1>5, <1>6
  <2> QED BY <2>1, <2>2, <2>3, <2>4
<1> QED BY <1>3, <1>4, <1>7, <1>8, <1>9 DEF d, new, n, Continues

\* The highest version put aside, the previous one is the highest that is left.
LEMMA PreviousIsLatest ==
    ASSUME json \subseteq Version, NEW v \in json, NEW u \in json, u # v,
           \A w \in json \ {v} : w < v
    PROVE  /\ PreviousVersion = Largest(json \ {v})
           /\ PreviousVersion \in json \ {v}
           /\ \A w \in json \ {v} : w <= PreviousVersion
<1>1. Largest(json) \in json /\ \A w \in json : w <= Largest(json)
  BY LargestIsLargest
<1>2. json \subseteq Int
  BY DEF Version
<1>3. Largest(json) = v
  <2>1. v <= Largest(json) /\ v \in Int /\ Largest(json) \in Int
    BY <1>1, <1>2
  <2>2. CASE Largest(json) # v
    <3>1. Largest(json) < v
      BY <1>1, <2>2
    <3> QED BY <2>1, <3>1
  <2> QED BY <2>2
<1>4. json \ {v} # {} /\ json \ {v} \in SUBSET Version
  OBVIOUS
<1> QED BY <1>3, <1>4, LargestIsLargest DEF PreviousVersion

LEMMA NumberingOkInit == Init => NumberingOk
BY DEF Init, NumberingOk, IdsBelowLast, LastApiIdGrows, OneApi, FileInProgress,
       RecentIsLatest, NoRun, Numbered

\* Facts about the documents are about the numbered ones only: a step that
\* leaves these alone leaves the facts alone.
LEMMA NumberedFilesKept ==
    ASSUME json \subseteq json', IdsBelowLast, LastApiIdGrows, OneApi,
           \A v \in json' : Numbered(v)' => Numbered(v) /\ doc'[v] = doc[v]
    PROVE  IdsBelowLast' /\ LastApiIdGrows' /\ OneApi'
<1>1. \A v \in json' : Numbered(v)' => v \in json
  BY DEF Numbered
<1>2. IdsBelowLast'
  BY <1>1 DEF IdsBelowLast
<1>3. LastApiIdGrows'
  BY <1>1 DEF LastApiIdGrows
<1>4. OneApi'
  BY <1>1 DEF OneApi
<1> QED BY <1>2, <1>3, <1>4

\* What a step that numbers a file has to show: the facts about the new
\* document, and how it stands to the earlier ones.
LEMMA FileNumbered ==
    ASSUME TypeInv, orderly, NumberingOk, run.pc = "number",
           NEW d \in Document,
           doc' = [doc EXCEPT ![run.version] = d],
           json' = json, run'.pc = "workbook", recent' = run.version,
           \A a \in d.apis : d.apiId[a] \in 1 .. d.lastApiId - 1,
           \A a, b \in d.apis : d.apiId[a] = d.apiId[b] => a = b,
           \A w \in json \ {run.version} : doc[w].lastApiId <= d.lastApiId,
           \A w \in json \ {run.version} :
               \A a \in d.apis, b \in doc[w].apis :
                   d.apiId[a] = doc[w].apiId[b] => a = b
    PROVE  NumberingOk'
<1> DEFINE v == run.version
<1>1. /\ json \subseteq Version
      /\ doc \in [Version -> Document]
      /\ v \in json /\ v \in Version
  BY DEF TypeInv, TypeOK, Document
<1>2. \A w \in json \ {v} : w < v /\ Numbered(w) /\ doc'[w] = doc[w]
  BY <1>1 DEF NumberingOk, FileInProgress
<1>3. doc'[v] = d
  BY <1>1
<1> HIDE DEF v
<1>4. IdsBelowLast'
  BY <1>2, <1>3 DEF NumberingOk, IdsBelowLast, v
<1>5. LastApiIdGrows'
  <2> SUFFICES ASSUME NEW u \in json, NEW w \in json, u < w
               PROVE  doc'[u].lastApiId <= doc'[w].lastApiId
    BY DEF LastApiIdGrows
  <2>1. u \in Int /\ w \in Int /\ v \in Int
    BY <1>1 DEF Version
  <2>2. CASE w = v
    BY <1>2, <1>3, <2>1, <2>2 DEF v
  <2>3. CASE u = v
    BY <1>2, <2>1, <2>3
  <2>4. CASE u # v /\ w # v
    BY <1>2, <2>4 DEF NumberingOk, LastApiIdGrows
  <2> QED BY <2>2, <2>3, <2>4
<1>6. OneApi'
  <2> SUFFICES ASSUME NEW u \in json, NEW w \in json,
                      NEW a \in doc'[u].apis, NEW b \in doc'[w].apis,
                      doc'[u].apiId[a] = doc'[w].apiId[b]
               PROVE  a = b
    BY DEF OneApi
  <2>1. CASE u = v /\ w = v
    BY <1>3, <2>1
  <2>2. CASE u = v /\ w # v
    BY <1>2, <1>3, <2>2 DEF v
  <2>3. CASE u # v /\ w = v
    BY <1>2, <1>3, <2>3 DEF v
  <2>4. CASE u # v /\ w # v
    BY <1>2, <2>4 DEF NumberingOk, OneApi
  <2> QED BY <2>1, <2>2, <2>3, <2>4
<1>7. RecentIsLatest'
  <2>1. Largest(json) \in json /\ \A w \in json : w <= Largest(json)
    BY <1>1, LargestIsLargest
  <2>2. v \in Int /\ Largest(json) \in Int
    <3>1. json \subseteq Int
      BY <1>1 DEF Version
    <3> QED BY <1>1, <2>1, <3>1
  <2>3. v <= Largest(json)
    BY <1>1, <2>1
  <2>4. CASE Largest(json) # v
    <3>1. Largest(json) < v
      BY <1>2, <2>1, <2>4
    <3> QED BY <2>2, <2>3, <3>1
  <2>5. CASE Largest(json) = v
    BY <1>1, <2>5 DEF RecentIsLatest, Largest, v
  <2> QED BY <2>4, <2>5
<1> QED BY <1>4, <1>5, <1>6, <1>7 DEF NumberingOk, FileInProgress

LEMMA NumberingOkStep ==
    TypeInv /\ NumberingOk /\ [Next]_vars => NumberingOk'
<1> SUFFICES ASSUME TypeInv, NumberingOk, [Next]_vars PROVE NumberingOk'
  OBVIOUS
<1>a. /\ json \subseteq Version
      /\ doc \in [Version -> Document]
      /\ run.pc # "idle" => run.version \in json
  BY DEF TypeInv, TypeOK, Document
<1>1. ASSUME NEW v \in Version, NEW A \in SUBSET Api,
             GenerateSwaggerToJson(v, A)
      PROVE  NumberingOk'
  <2> SUFFICES ASSUME orderly' PROVE NumberingOk'
    BY DEF NumberingOk
  <2>1. orderly /\ \A w \in json : w < v /\ Numbered(w)
    BY <1>1 DEF GenerateSwaggerToJson
  <2>2. /\ json' = json \cup {v} /\ v \notin json /\ recent' = recent
        /\ doc' = [doc EXCEPT ![v] = Raw(A)]
        /\ run' = [pc |-> "number", version |-> v, initial |-> json = {}]
    BY <1>1 DEF GenerateSwaggerToJson
  <2>3. ~Numbered(v)' /\ \A w \in json : doc'[w] = doc[w] /\ Numbered(w)'
    BY <1>a, <2>1, <2>2 DEF Numbered, Raw
  <2>4. IdsBelowLast' /\ LastApiIdGrows' /\ OneApi'
    BY <2>1, <2>2, <2>3, NumberedFilesKept DEF NumberingOk
  <2>5. recent = IF json = {} THEN 0 ELSE Largest(json)
    BY <2>1 DEF NumberingOk, RecentIsLatest
  <2>6. json' \ {v} = json
    BY <2>2
  <2>7. FileInProgress'
    BY <2>1, <2>2, <2>3, <2>5, <2>6 DEF FileInProgress
  <2>8. RecentIsLatest'
    BY <2>2, <2>3 DEF RecentIsLatest
  <2> QED BY <2>4, <2>7, <2>8 DEF NumberingOk
<1>2. CASE NumberInitial
  <2> SUFFICES ASSUME orderly PROVE NumberingOk'
    BY <1>2 DEF NumberInitial, NumberingOk
  <2> DEFINE A == doc[run.version].apis
  <2>1. PICK f \in Numbering(A, 1) :
           doc' = [doc EXCEPT ![run.version] = InitialDoc(A, f)]
    BY <1>2 DEF NumberInitial
  <2>2. A \in SUBSET Api
    BY <1>2, <1>a DEF NumberInitial, Document
  <2>3. json = {run.version}
    BY <1>2 DEF NumberInitial, TypeInv, RunOk
  <2> HIDE DEF A
  <2> DEFINE d == InitialDoc(A, f)
  <2>4. d \in Document
    BY <2>2, InitialDocType
  <2>5. /\ d.apis = A
        /\ \A a \in A : d.apiId[a] \in 1 .. d.lastApiId - 1
        /\ \A a, b \in A : d.apiId[a] = d.apiId[b] => a = b
    BY <2>2, InitialDocNumbers
  <2>6. doc' = [doc EXCEPT ![run.version] = d]
    BY <2>1
  <2>7. run.pc = "number" /\ run'.pc = "workbook" /\ recent' = run.version /\ json' = json
    BY <1>2, <1>a DEF NumberInitial, TypeInv, TypeOK
  <2> HIDE DEF d
  <2> QED BY <2>3, <2>4, <2>5, <2>6, <2>7, FileNumbered
<1>3. CASE NumberNext
  <2> SUFFICES ASSUME orderly PROVE NumberingOk'
    BY <1>3 DEF NumberNext, NumberingOk
  <2> DEFINE A    == doc[run.version].apis
             p    == PreviousVersion
             prev == doc[p]
  <2>1. /\ run.pc = "number" /\ run.version \in json
        /\ \A w \in json \ {run.version} : w < run.version /\ Numbered(w)
        /\ \E u \in json : u # run.version
    BY <1>3, <1>a DEF NumberNext, NumberingOk, FileInProgress, TypeInv, RunOk
  <2>2. p \in json \ {run.version} /\ \A w \in json \ {run.version} : w <= p
    BY <1>a, <2>1, PreviousIsLatest
  <2>3. A \in SUBSET Api /\ prev \in Document
    BY <1>a, <2>1, <2>2 DEF Document
  <2>4. WellNumbered(prev)
    BY <2>1, <2>2 DEF NumberingOk, IdsBelowLast, OneApi, Numbered, Undefined, WellNumbered
  <2>5. PICK f \in Numbering(A \ prev.apis, prev.lastApiId) :
           doc' = [doc EXCEPT ![run.version] = NextDoc(A, prev, f)]
    BY <1>3, <2>4 DEF NumberNext, Undefined, WellNumbered
  <2>6. run'.pc = "workbook" /\ recent' = run.version /\ json' = json
    <3>1. run' = [run EXCEPT !.pc = "workbook"] /\ recent' = run.version /\ json' = json
      BY <1>3, <2>4 DEF NumberNext, Undefined, WellNumbered
    <3> QED BY <3>1 DEF TypeInv, TypeOK
  <2>7. \A w \in json \ {run.version} :
           /\ doc[w] \in Document
           /\ doc[w].lastApiId <= prev.lastApiId
           /\ \A b \in doc[w].apis : doc[w].apiId[b] \in 1 .. doc[w].lastApiId - 1
           /\ \A a \in prev.apis, b \in doc[w].apis :
                 prev.apiId[a] = doc[w].apiId[b] => a = b
    <3> SUFFICES ASSUME NEW w \in json \ {run.version}
                 PROVE  /\ doc[w] \in Document
                        /\ doc[w].lastApiId <= prev.lastApiId
                        /\ \A b \in doc[w].apis :
                              doc[w].apiId[b] \in 1 .. doc[w].lastApiId - 1
                        /\ \A a \in prev.apis, b \in doc[w].apis :
                              prev.apiId[a] = doc[w].apiId[b] => a = b
      OBVIOUS
    <3>1. doc[w] \in Document /\ doc[w].lastApiId \in Nat
      BY <1>a DEF Document
    <3>2. Numbered(w) /\ Numbered(p)
      BY <2>1, <2>2
    <3>3. doc[w].lastApiId <= prev.lastApiId
      <4>1. w \in Int /\ p \in Int /\ w <= p
        BY <1>a, <2>2 DEF Version
      <4>2. CASE w = p
        BY <3>1, <4>2
      <4>3. CASE w < p
        BY <2>2, <3>2, <4>3 DEF NumberingOk, LastApiIdGrows
      <4> HIDE DEF p
      <4> QED BY <4>1, <4>2, <4>3
    <3> QED BY <2>2, <3>1, <3>2, <3>3 DEF NumberingOk, IdsBelowLast, OneApi
  <2> HIDE DEF A, p, prev
  <2> DEFINE d == NextDoc(A, prev, f)
  <2>8. d \in Document
    BY <2>3, NextDocType
  <2>9. Continues(d, A, prev)
    BY <2>3, <2>4, NextDocNumbers
  <2>10. doc' = [doc EXCEPT ![run.version] = d]
    BY <2>5
  <2>11. prev.lastApiId \in Nat
    BY <2>3 DEF Document
  <2> HIDE DEF d
  <2>12. \A w \in json \ {run.version} :
            /\ doc[w].lastApiId <= d.lastApiId
            /\ \A a \in d.apis, b \in doc[w].apis :
                  d.apiId[a] = doc[w].apiId[b] => a = b
    <3> SUFFICES ASSUME NEW w \in json \ {run.version}
                 PROVE  /\ doc[w].lastApiId <= d.lastApiId
                        /\ \A a \in d.apis, b \in doc[w].apis :
                              d.apiId[a] = doc[w].apiId[b] => a = b
      OBVIOUS
    <3>1. doc[w].lastApiId \in Nat
      BY <2>7 DEF Document
    <3>2. doc[w].lastApiId <= d.lastApiId
      BY <2>7, <2>9, <2>11, <3>1 DEF Continues
    <3>3. ASSUME NEW a \in d.apis, NEW b \in doc[w].apis,
                 d.apiId[a] = doc[w].apiId[b]
          PROVE  a = b
      <4>1. CASE a \in prev.apis
        BY <2>7, <2>9, <3>3, <4>1 DEF Continues
      <4>2. CASE a \notin prev.apis
        <5>1. doc[w].apiId[b] \in 1 .. doc[w].lastApiId - 1
          BY <2>7
        <5>2. d.apiId[a] >= prev.lastApiId
          BY <2>9, <4>2 DEF Continues
        <5>3. doc[w].lastApiId <= prev.lastApiId
          BY <2>7
        <5> QED BY <2>11, <3>1, <3>3, <5>1, <5>2, <5>3
      <4> QED BY <4>1, <4>2
    <3> QED BY <3>2, <3>3
  <2> QED BY <2>1, <2>6, <2>8, <2>9, <2>10, <2>12, FileNumbered DEF Continues
<1>4. CASE GenerateExcel
  BY <1>4 DEF GenerateExcel, Exit, NoRun, NumberingOk, IdsBelowLast,
              LastApiIdGrows, OneApi, FileInProgress, RecentIsLatest, Numbered
<1>5. CASE Die
  BY <1>5 DEF Die, Exit, NoRun, NumberingOk, IdsBelowLast, LastApiIdGrows,
              OneApi, FileInProgress, RecentIsLatest, Numbered
<1>6. CASE UNCHANGED vars
  BY <1>6 DEF vars, NumberingOk, IdsBelowLast, LastApiIdGrows, OneApi,
              FileInProgress, RecentIsLatest, Numbered
<1> QED BY <1>1, <1>2, <1>3, <1>4, <1>5, <1>6 DEF Next

\* As long as versions come in order, a number means one API in all versions
\* together (numberingAndSortingOASJsonFile).
THEOREM OneApiPerNumberCorrect == Spec => []OneApiPerNumber
<1>1. NumberingOk => OneApiPerNumber
  BY DEF NumberingOk, OneApi, OneApiPerNumber
<1> QED BY <1>1, TypeInvInit, TypeInvStep, NumberingOkInit, NumberingOkStep,
           PTL DEF Spec

\* As long as versions come in order, an API keeps its number
\* (numberingAndSortingOASJsonFile, the comment at its head).
THEOREM NumberKeptInOrderCorrect == Spec => NumberKeptInOrder
<1>1. TypeInv /\ NumberingOk /\ [Next]_vars => [orderly => KeepsNumbers]_vars
  <2> SUFFICES ASSUME TypeInv, NumberingOk, Next, orderly,
                      run.pc = "number", run'.pc = "workbook", recent # 0
               PROVE  \A a \in doc[recent].apis \cap doc[run.version].apis :
                          doc'[run.version].apiId[a] = doc[recent].apiId[a]
    BY DEF KeepsNumbers
  <2>1. ~run.initial /\ recent = Largest(json \ {run.version})
    BY DEF NumberingOk, FileInProgress
  <2>2. NumberNext /\ run' # NoRun
    <3>1. run' # NoRun
      BY DEF NoRun
    <3>2. ~NumberInitial
      BY <2>1 DEF NumberInitial
    <3>3. ~GenerateExcel /\ ~Die
      BY <3>1 DEF GenerateExcel, Die, Exit
    <3>4. ASSUME NEW v \in Version, NEW A \in SUBSET Api,
                 GenerateSwaggerToJson(v, A)
          PROVE  FALSE
      <4>1. run.pc = "idle"
        BY <3>4 DEF GenerateSwaggerToJson
      <4> QED BY <4>1
    <3> QED BY <3>1, <3>2, <3>3, <3>4 DEF Next
  <2>3. /\ json \subseteq Version /\ run.version \in json
        /\ doc \in [Version -> Document]
        /\ \A w \in json \ {run.version} : w < run.version
        /\ \E u \in json : u # run.version
    BY <2>1 DEF TypeInv, TypeOK, Document, RunOk, NumberingOk, FileInProgress
  <2>4. recent = PreviousVersion
    BY <2>1, <2>3, PreviousIsLatest
  <2>5. PICK f : doc' = [doc EXCEPT ![run.version] =
                           NextDoc(doc[run.version].apis, doc[PreviousVersion], f)]
    BY <2>2 DEF NumberNext, Exit
  <2>6. doc'[run.version] = NextDoc(doc[run.version].apis, doc[recent], f)
    BY <2>3, <2>4, <2>5
  <2>7. doc[run.version].apis \subseteq Api
    BY <2>3 DEF Document
  <2> QED BY <2>6, <2>7 DEF NextDoc
<1> QED BY <1>1, TypeInvInit, TypeInvStep, NumberingOkInit, NumberingOkStep,
           PTL DEF Spec, NumberKeptInOrder
=============================================================================
