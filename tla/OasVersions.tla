----------------------------- MODULE OasVersions -----------------------------
(***************************************************************************)
(* The OpenAPI version tool (version/oas-version-manage.ts).  Each run     *)
(* writes the API document of one version to json/, gives every API a      *)
(* number, and writes a workbook to excel/.  An API that the previous      *)
(* version has keeps its number, a new one gets the next free number,      *)
(* which the file carries along as lastApiId.  The tool knows earlier runs *)
(* by the files they left, and a run may die between any two writes.       *)
(*                                                                         *)
(* Versions are their positions in the semver order.  The layout of the    *)
(* workbook and the list of changes in it are left out.                    *)
(***************************************************************************)
EXTENDS Naturals, FiniteSets

CONSTANTS
    Api,        \* pairs of path and method that may be documented
    MaxVersion  \* bound: versions 1 .. MaxVersion may be generated

ASSUME ApiAssumption     == IsFiniteSet(Api)
ASSUME VersionAssumption == MaxVersion \in Nat

VARIABLES
    json,    \* versions with a file OAS_v*.json
    doc,     \* what the file of each version says
    excel,   \* versions with a workbook API_v*.xlsx
    run,     \* the run in progress
    first,   \* history: the version of the initial run
    recent,  \* history: the version numbered last
    orderly  \* history: every run had the highest version so far, and found
             \* the file of every earlier one numbered

vars == <<json, doc, excel, run, first, recent, orderly>>

-----------------------------------------------------------------------------
Version == 1 .. MaxVersion

\* An apiId or a lastApiId that is undefined; numbers begin at 1.
Undefined == 0

\* a document as generateSwaggerToJson writes it
Raw(A) == [apis |-> A, apiId |-> [a \in Api |-> Undefined], lastApiId |-> Undefined]

Numbered(v) == v \in json /\ doc[v].lastApiId # Undefined

Largest(S) == CHOOSE v \in S : \A w \in S : w <= v

\* mutant: the highest version, the one just written
PreviousVersionLatest == Largest(json)

\* getLatestVersion: the second highest version that has a file, the one just
\* written included
PreviousVersion == Largest(json \ {Largest(json)})

\* mutant: new APIs are numbered by how many there are
NumberingFromCount(A, n) ==
    {f \in [A -> 1 .. Cardinality(A)] : \A a, b \in A : f[a] = f[b] => a = b}

\* The numbers from n on, one for each of the APIs A in the order of the file
Numbering(A, n) ==
    {f \in [A -> n .. n + Cardinality(A) - 1] :
        \A a, b \in A : f[a] = f[b] => a = b}

\* What the numbering of the first version writes.
InitialDoc(A, f) ==
    [apis      |-> A,
     apiId     |-> [a \in Api |-> IF a \in A THEN f[a] ELSE Undefined],
     lastApiId |-> 1 + Cardinality(A)]

\* What the numbering of a later version writes, from the previous one.
NextDoc(A, prev, f) ==
    [apis      |-> A,
     apiId     |-> [a \in Api |-> IF a \in A \ prev.apis THEN f[a]
                                  ELSE IF a \in A THEN prev.apiId[a]
                                  ELSE Undefined],
     lastApiId |-> prev.lastApiId + Cardinality(A \ prev.apis)]

NoRun == [pc |-> "idle", version |-> 0, initial |-> FALSE]

\* The process ends, at its end or by an error that nobody catches.
Exit == run' = NoRun

-----------------------------------------------------------------------------
\* mutant: the file is left to the numbering to write
GenerateWithoutFile(v, A) ==
    /\ run.pc = "idle"
    /\ v \notin json
    /\ doc' = [doc EXCEPT ![v] = Raw(A)]
    /\ run' = [pc |-> "number", version |-> v, initial |-> json = {}]
    /\ first' = IF json = {} THEN v ELSE first
    /\ orderly' = (orderly /\ \A w \in json : w < v /\ Numbered(w))
    /\ UNCHANGED <<json, excel, recent>>

\* mutant: the first run is the one that finds no workbook
GenerateByWorkbooks(v, A) ==
    /\ run.pc = "idle"
    /\ v \notin json
    /\ json' = json \cup {v}
    /\ doc' = [doc EXCEPT ![v] = Raw(A)]
    /\ run' = [pc |-> "number", version |-> v, initial |-> excel = {}]
    /\ first' = IF json = {} THEN v ELSE first
    /\ orderly' = (orderly /\ \A w \in json : w < v /\ Numbered(w))
    /\ UNCHANGED <<excel, recent>>

\* makeApiVersion, up to the file: an existing version is refused, and the
\* first run is the one that finds no file.
GenerateSwaggerToJson(v, A) ==
    /\ run.pc = "idle"
    /\ v \notin json
    /\ json' = json \cup {v}
    /\ doc' = [doc EXCEPT ![v] = Raw(A)]
    /\ run' = [pc |-> "number", version |-> v, initial |-> json = {}]
    /\ first' = IF json = {} THEN v ELSE first
    /\ orderly' = (orderly /\ \A w \in json : w < v /\ Numbered(w))
    /\ UNCHANGED <<excel, recent>>

\* numberingAndSortingOASJsonFile, first run
NumberInitial ==
    /\ run.pc = "number"
    /\ run.initial
    /\ LET A == doc[run.version].apis
       IN  \E f \in Numbering(A, 1) :
              doc' = [doc EXCEPT ![run.version] = InitialDoc(A, f)]
    /\ run' = [run EXCEPT !.pc = "workbook"]
    /\ recent' = run.version
    /\ UNCHANGED <<json, excel, first, orderly>>

\* numberingAndSortingOASJsonFile, later runs.  With no lastApiId to start
\* from, the first new API raises a TypeError and the file stays as it is.
NumberNext ==
    LET A    == doc[run.version].apis
        prev == doc[PreviousVersion]
        new  == A \ prev.apis
    IN  /\ run.pc = "number"
        /\ ~run.initial
        /\ \/ /\ prev.lastApiId = Undefined /\ new # {}
              /\ Exit
              /\ UNCHANGED <<doc, recent>>
           \/ /\ prev.lastApiId = Undefined => new = {}
              /\ \E f \in Numbering(new, prev.lastApiId) :
                    doc' = [doc EXCEPT ![run.version] = NextDoc(A, prev, f)]
              /\ run' = [run EXCEPT !.pc = "workbook"]
              /\ recent' = run.version
        /\ UNCHANGED <<json, excel, first, orderly>>

\* createApiChanges copies the list of changes from the highest earlier
\* workbook, which must exist.
HasHistory == run.initial \/ excel # {}

\* createApiDetails names the sheets after the numbers: no name twice
SheetsDiffer(d) == \A a, b \in d.apis : d.apiId[a] = d.apiId[b] => a = b

\* generateExcelFromSwagger, after the numbering
GenerateExcel ==
    /\ run.pc = "workbook"
    /\ HasHistory
    /\ SheetsDiffer(doc[run.version])
    /\ excel' = excel \cup {run.version}
    /\ Exit
    /\ UNCHANGED <<json, doc, first, recent, orderly>>

\* Any other error, an interrupt, a file that cannot be written
Die ==
    /\ run.pc # "idle"
    /\ Exit
    /\ UNCHANGED <<json, doc, excel, first, recent, orderly>>

-----------------------------------------------------------------------------
Init ==
    /\ json = {}
    /\ doc = [v \in Version |-> Raw({})]
    /\ excel = {}
    /\ run = NoRun
    /\ first = 0
    /\ recent = 0
    /\ orderly = TRUE

Next ==
    \/ \E v \in Version, A \in SUBSET Api : GenerateSwaggerToJson(v, A)
    \/ NumberInitial \/ NumberNext \/ GenerateExcel \/ Die

Spec == Init /\ [][Next]_vars

-----------------------------------------------------------------------------
(* Properties                                                              *)

\* Every variable has its type, and a run in progress has written its file.
TypeOK ==
    /\ json \subseteq Version
    /\ doc \in [Version -> [apis : SUBSET Api, apiId : [Api -> Nat], lastApiId : Nat]]
    /\ excel \subseteq json
    /\ run \in [pc : {"idle", "number", "workbook"}, version : Version \cup {0},
                initial : BOOLEAN]
    /\ run.pc # "idle" => run.version \in json
    /\ first \in Version \cup {0}
    /\ recent \in Version \cup {0}
    /\ orderly \in BOOLEAN

\* As long as versions are generated in order and no run leaves a file
\* without numbers, a number means one API in all versions together: the
\* number of an API that was removed is not given to another.
OneApiPerNumber ==
    orderly =>
        \A v, w \in json : Numbered(v) /\ Numbered(w) =>
            \A a \in doc[v].apis, b \in doc[w].apis :
                doc[v].apiId[a] = doc[w].apiId[b] => a = b

\* Every workbook carries the list of changes from the first version on: as
\* long as the first version has no workbook, no version gets one.
HistoryComplete == excel # {} => first \in excel

\* A run that numbers a file keeps the numbers of the version numbered last.
KeepsNumbers ==
    run.pc = "number" /\ run'.pc = "workbook" /\ recent # 0 =>
        \A a \in doc[recent].apis \cap doc[run.version].apis :
            doc'[run.version].apiId[a] = doc[recent].apiId[a]

\* "The number of an existing API must be kept" (oas-version-manage.ts:919)
\* when a new version is generated: an API that the version numbered last has,
\* has the same number in the new one.
NumberKept == [][KeepsNumbers]_vars

\* As long as versions are generated in order and no run leaves a file
\* without numbers, the number of an API that stays is kept.
NumberKeptInOrder == [][orderly => KeepsNumbers]_vars
=============================================================================
