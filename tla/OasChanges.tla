------------------------------ MODULE OasChanges ------------------------------
(***************************************************************************)
(* The list of changes that the OpenAPI version tool adds to a workbook    *)
(* (createApiChanges in version/oas-version-manage.ts).  The documents of  *)
(* the previous and of the new version are compared by the library         *)
(* deep-diff, and each difference becomes rows that name an API.           *)
(*                                                                         *)
(* A document is reduced to its operations with the names of their         *)
(* parameters, its schemas with the types of their properties and the list *)
(* of required ones, and the rest: entries outside both, such as tags,     *)
(* info and security schemes, which are lists.  The order of the keys of   *)
(* an object is left open: where the code takes the first or the last, any *)
(* may be.                                                                 *)
(***************************************************************************)
EXTENDS Naturals, Sequences, FiniteSets, Functions

CONSTANTS
    Path,       \* url paths
    Method,     \* methods an operation may have, of whatever name
    ParamList,  \* the lists of parameter names an operation may have
    Schema,     \* names of schemas
    SchemaBody, \* the schemas: [type : property -> type, required : properties]
    Rest,       \* entries outside paths and schemas
    RestList,   \* the lists they may be
    Refers,     \* pairs of an operation and a schema one of its responses has
    Within,     \* pairs of schema names, the first a part of the second
    Previous,   \* the documents the previous version may have
    MaxEdits    \* bound: places where the new version differs

Operation == Path \X Method

Document ==
    [params : UNION {[O -> ParamList] : O \in SUBSET Operation},
     schema : UNION {[S -> SchemaBody] : S \in SUBSET Schema},
     rest   : UNION {[R -> RestList] : R \in SUBSET Rest}]

ASSUME ListAssumption     == ParamList \subseteq Seq(STRING) /\ RestList \subseteq Seq(STRING)
ASSUME BodyAssumption     == \A b \in SchemaBody : /\ b.required \subseteq DOMAIN b.type
                                                   /\ IsFiniteSet(b.required)
ASSUME RefersAssumption   == Refers \subseteq Operation \X Schema
ASSUME WithinAssumption   == /\ Within \subseteq Schema \X Schema
                             /\ \A s \in Schema : <<s, s>> \in Within
ASSUME PreviousAssumption == Previous \subseteq Document
ASSUME EditsAssumption    == MaxEdits \in Nat

VARIABLES
    previous,  \* the document of the previous version
    latest,    \* the document of the new version
    pc,        \* "edit" while the application changes, then the run
    edits,     \* places changed so far
    todo,      \* the differences not looked at yet
    rows       \* the rows added to the list: the difference, the API named

vars == <<previous, latest, pc, edits, todo, rows>>

-----------------------------------------------------------------------------
(* The documents                                                           *)

Operations(d) == DOMAIN d.params
Schemas(d)    == DOMAIN d.schema
Entries(d)    == DOMAIN d.rest

\* the operations of a path
Keys(d, path) == {o \in Operations(d) : o[1] = path}

With(f, x, y) == [z \in DOMAIN f \cup {x} |-> IF z = x THEN y ELSE f[z]]

\* documents that differ from d in one operation, schema or other entry
Edited(d) ==
    {[d EXCEPT !.params = Restrict(@, Operations(d) \ {o})] : o \in Operations(d)}
    \cup {[d EXCEPT !.params = With(@, o, l)] : o \in Operation, l \in ParamList}
    \cup {[d EXCEPT !.schema = Restrict(@, Schemas(d) \ {s})] : s \in Schemas(d)}
    \cup {[d EXCEPT !.schema = With(@, s, b)] : s \in Schema, b \in SchemaBody}
    \cup {[d EXCEPT !.rest = Restrict(@, Entries(d) \ {x})] : x \in Entries(d)}
    \cup {[d EXCEPT !.rest = With(@, x, l)] : x \in Rest, l \in RestList}

-----------------------------------------------------------------------------
(* deep-diff: N(ew), D(eleted), E(dited), A(n array grew or shrank), the   *)
(* part of the document, the keys that lead there, an index of an array    *)

Difference(kind, part, at, index) ==
    [kind |-> kind, part |-> part, at |-> at, index |-> index]

PathDifferences(p, n) ==
    {Difference("N", "path", <<x>>, 0) : x \in {y \in Path : Keys(p, y) = {} /\ Keys(n, y) # {}}}
    \cup
    {Difference("D", "path", <<x>>, 0) : x \in {y \in Path : Keys(p, y) # {} /\ Keys(n, y) = {}}}

OperationDifferences(p, n) ==
    {Difference("N", "operation", o, 0) :
        o \in {q \in Operations(n) \ Operations(p) : Keys(p, q[1]) # {}}}
    \cup
    {Difference("D", "operation", o, 0) :
        o \in {q \in Operations(p) \ Operations(n) : Keys(n, q[1]) # {}}}

\* Arrays are compared index by index.
ArrayDifferences(old, new, size, item, at) ==
    {Difference("A", size, at, i) :
        i \in {j \in DOMAIN old \cup DOMAIN new : j > Len(old) \/ j > Len(new)}}
    \cup
    {Difference("E", item, at, i) :
        i \in {j \in DOMAIN old \cap DOMAIN new : old[j] # new[j]}}

ParameterDifferences(p, n) ==
    UNION {ArrayDifferences(p.params[o], n.params[o], "parameters", "name", o) :
              o \in Operations(p) \cap Operations(n)}

RestDifferences(p, n) ==
    {Difference("N", "rest", <<x>>, 0) : x \in Entries(n) \ Entries(p)}
    \cup {Difference("D", "rest", <<x>>, 0) : x \in Entries(p) \ Entries(n)}
    \cup UNION {ArrayDifferences(p.rest[x], n.rest[x], "rest", "rest", <<x>>) :
                   x \in Entries(p) \cap Entries(n)}

\* The list of required properties is there when it is not empty.
RequiredDifferences(s, old, new) ==
    {Difference(IF old = {} THEN "N" ELSE IF new = {} THEN "D"
                ELSE IF Cardinality(old) # Cardinality(new) THEN "A" ELSE "E",
                "required", <<s>>, 0) : x \in {y \in {old} : y # new}}

SchemaDifferences(p, n) ==
    {Difference("N", "schema", <<s>>, 0) : s \in Schemas(n) \ Schemas(p)}
    \cup {Difference("D", "schema", <<s>>, 0) : s \in Schemas(p) \ Schemas(n)}
    \cup UNION {LET old == p.schema[s].type
                    new == n.schema[s].type
                IN  {Difference("N", "properties", <<s, x>>, 0) : x \in DOMAIN new \ DOMAIN old}
                    \cup {Difference("D", "properties", <<s, x>>, 0) : x \in DOMAIN old \ DOMAIN new}
                    \cup {Difference("E", "properties", <<s, x>>, 0) :
                             x \in {y \in DOMAIN old \cap DOMAIN new : old[y] # new[y]}}
                    \cup RequiredDifferences(s, p.schema[s].required, n.schema[s].required)
                : s \in Schemas(p) \cap Schemas(n)}

Differences(p, n) ==
    PathDifferences(p, n) \cup OperationDifferences(p, n)
    \cup ParameterDifferences(p, n) \cup SchemaDifferences(p, n) \cup RestDifferences(p, n)

InSchemas(d) == d.part \in {"schema", "properties", "required"}

\* The methods that the code looks for in the path of a difference
KnownMethod == {"get", "post", "put", "delete"}

\* mutant: any reference will do
ReferencingAny(s) == {o \in Operations(latest) : \E t \in Schema : <<o, t>> \in Refers}

\* extractPathsReferencingSchema: the reference need only contain the name.
Referencing(s) ==
    {o \in Operations(latest) : \E t \in Schema : <<s, t>> \in Within /\ <<o, t>> \in Refers}

-----------------------------------------------------------------------------
(* The application changes; then the run comes to createApiChanges.        *)

Edit ==
    /\ pc = "edit"
    /\ edits < MaxEdits
    /\ edits' = edits + 1
    /\ latest' \in Edited(latest)
    /\ UNCHANGED <<previous, pc, todo, rows>>

Compare ==
    /\ pc = "edit"
    /\ pc' = "list"
    /\ todo' = Differences(previous, latest)
    /\ UNCHANGED <<previous, latest, edits, rows>>

Take(d) == pc = "list" /\ d \in todo /\ todo' = todo \ {d}

\* The rows of a difference share one record: all of them name the API that
\* was written last.
Push(d, o) == rows' = rows \cup {[about |-> d, api |-> o]}

\* mutant: a method is looked up whatever its name
DeadlyOutsidePaths(d) ==
    \/ InSchemas(d) /\ d.kind \in {"D", "A"}
    \/ d.part = "properties" /\ d.kind = "E"
    \/ d.part = "rest" /\ d.kind \in {"D", "A"}

\* Differences that end the run with a TypeError that nobody catches, as they
\* are looked up in `paths` by keys it has not.  For an operation of a path that
\* stays whose method is not listed, the first key of the operation itself is
\* taken for the method.  Kind D takes the second key for a url path wherever it
\* is, kind A too, and kind E below properties: in a schema that is the word
\* schemas, in the rest whatever comes there.
Deadly(d) ==
    \/ d.part = "operation" /\ d.at[2] \notin KnownMethod
    \/ InSchemas(d) /\ d.kind \in {"D", "A"}
    \/ d.part = "properties" /\ d.kind = "E"
    \/ d.part = "rest" /\ d.kind \in {"D", "A"}

\* kind N under paths: the operation itself, or the first key of a new path
AddedApi(d) ==
    /\ Take(d)
    /\ d.kind = "N"
    /\ \/ d.part = "operation" /\ ~Deadly(d) /\ Push(d, d.at)
       \/ d.part = "path" /\ \E o \in Keys(latest, d.at[1]) : Push(d, o)
    /\ UNCHANGED <<previous, latest, pc, edits>>

\* kind N under components.schemas
AddedToSchema(d) ==
    /\ Take(d)
    /\ d.kind = "N"
    /\ InSchemas(d)
    /\ IF Referencing(d.at[1]) = {} THEN UNCHANGED rows
       ELSE \E o \in Referencing(d.at[1]) : Push(d, o)
    /\ UNCHANGED <<previous, latest, pc, edits>>

\* kind N anywhere else is none of the two.
AddedElsewhere(d) ==
    /\ Take(d)
    /\ d.kind = "N"
    /\ d.part = "rest"
    /\ UNCHANGED <<previous, latest, pc, edits, rows>>

\* kind D under paths, with the number from the previous document
RemovedApi(d) ==
    /\ Take(d)
    /\ d.kind = "D"
    /\ \/ d.part = "operation" /\ ~Deadly(d) /\ Push(d, d.at)
       \/ d.part = "path" /\ \E o \in Keys(previous, d.at[1]) : Push(d, o)
    /\ UNCHANGED <<previous, latest, pc, edits>>

\* kind E: a parameter has another name.  The row names the first operation
\* of its path.
ModifiedApi(d) ==
    /\ Take(d)
    /\ d.kind = "E"
    /\ d.part = "name"
    /\ \E o \in Keys(latest, d.at[1]) : Push(d, o)
    /\ UNCHANGED <<previous, latest, pc, edits>>

\* Other changes of kind E are skipped, unless they are below properties.
SkippedEdit(d) ==
    /\ Take(d)
    /\ d.kind = "E"
    /\ d.part \in {"required", "rest"}
    /\ UNCHANGED <<previous, latest, pc, edits, rows>>

\* mutant: the first operation of the path stands for the one that changed
ChangedParamsFirst(d) ==
    /\ Take(d)
    /\ d.kind = "A"
    /\ d.part = "parameters"
    /\ \E o \in Keys(latest, d.at[1]) : Push(d, o)
    /\ UNCHANGED <<previous, latest, pc, edits>>

\* kind A: the operation has more parameters, or fewer.
ChangedParams(d) ==
    /\ Take(d)
    /\ d.kind = "A"
    /\ d.part = "parameters"
    /\ Push(d, d.at)
    /\ UNCHANGED <<previous, latest, pc, edits>>

Die(d) ==
    /\ Take(d)
    /\ Deadly(d)
    /\ pc' = "died"
    /\ UNCHANGED <<previous, latest, edits, rows>>

\* mutant: the list is written at any time
AddRowsEarly ==
    /\ pc = "list"
    /\ pc' = "done"
    /\ UNCHANGED <<previous, latest, edits, todo, rows>>

AddRows ==
    /\ pc = "list"
    /\ todo = {}
    /\ pc' = "done"
    /\ UNCHANGED <<previous, latest, edits, todo, rows>>

-----------------------------------------------------------------------------
Init ==
    /\ previous \in Previous
    /\ latest = previous
    /\ pc = "edit"
    /\ edits = 0
    /\ todo = {}
    /\ rows = {}

Next ==
    \/ Edit \/ Compare \/ AddRows
    \/ \E d \in todo : \/ AddedApi(d) \/ AddedToSchema(d) \/ AddedElsewhere(d)
                       \/ RemovedApi(d)
                       \/ ModifiedApi(d) \/ SkippedEdit(d) \/ ChangedParams(d)
                       \/ Die(d)

Spec == Init /\ [][Next]_vars

-----------------------------------------------------------------------------
(* Properties                                                              *)

\* Every variable has its type, and no difference is left when the list ends.
TypeOK ==
    /\ previous \in Document
    /\ latest \in Document
    /\ pc \in {"edit", "list", "done", "died"}
    /\ edits \in 0 .. MaxEdits
    /\ \A d \in todo : d.kind \in {"N", "D", "E", "A"}
    /\ pc = "done" => todo = {}
    /\ \A r \in rows : r.api \in Operations(previous) \cup Operations(latest)

\* a response of o refers to a schema whose name contains s
MayReturn(o, s) == \E t \in Schema : <<s, t>> \in Within /\ <<o, t>> \in Refers

Lists(test(_)) == \E r \in rows : test(r.api)

\* A list that is complete has a row for everything that happened to the
\* operations: one that names each operation added to a path or removed from
\* one and each that got more or fewer parameters; one that names an operation
\* of each path that came or went, or whose parameters have other names; and
\* one that names an operation that may return it, if there is one, for each
\* schema that is new or got a property.
Reported ==
    pc = "done" =>
        LET old  == Operations(previous)
            new  == Operations(latest)
            Names(o)    == Lists(LAMBDA a : a = o)
            OnPath(x)   == Lists(LAMBDA a : a[1] = x)
        IN  /\ \A o \in (old \ new) \cup (new \ old) :
                  IF Keys(previous, o[1]) # {} /\ Keys(latest, o[1]) # {}
                  THEN Names(o) ELSE OnPath(o[1])
            /\ \A o \in old \cap new :
                  /\ Len(previous.params[o]) # Len(latest.params[o]) => Names(o)
                  /\ previous.params[o] # latest.params[o] => OnPath(o[1])
            /\ \A s \in Schemas(latest) :
                  \/ s \in Schemas(previous) /\ DOMAIN latest.schema[s].type
                                                    \subseteq DOMAIN previous.schema[s].type
                  \/ ~ \E o \in new : <<o, s>> \in Refers
                  \/ Lists(LAMBDA a : a \in new /\ MayReturn(a, s))

\* No row is made up: the API it names has a path where an operation or a
\* parameter changed, or returns a schema whose name contains that of one
\* that grew.
Grounded ==
    \A r \in rows :
        \/ \E o \in Operation : /\ o[1] = r.api[1]
                                /\ \/ (o \in Operations(previous)) # (o \in Operations(latest))
                                   \/ /\ o \in Operations(previous) \cap Operations(latest)
                                      /\ previous.params[o] # latest.params[o]
        \/ \E s \in Schemas(latest) :
              /\ MayReturn(r.api, s)
              /\ s \in Schemas(previous) => latest.schema[s] # previous.schema[s]

\* A schema s of the previous version has only grown: it has all its
\* properties with their types, and its list of required ones, if it had one,
\* has as many.
OnlyGrown(s) ==
    /\ s \in Schemas(latest)
    /\ LET old == previous.schema[s]
           new == latest.schema[s]
       IN  /\ \A x \in DOMAIN old.type : x \in DOMAIN new.type /\ new.type[x] = old.type[x]
           /\ old.required = {} \/ Cardinality(old.required) = Cardinality(new.required)

\* The operations that came to a path, or went from one, that stays
Moved ==
    {o \in (Operations(previous) \ Operations(latest))
           \cup (Operations(latest) \ Operations(previous)) :
        Keys(previous, o[1]) # {} /\ Keys(latest, o[1]) # {}}

\* Two documents whose differences the loop survives: the schemas have only
\* grown, every operation that came or went alone has a listed method, and the
\* entries outside paths and schemas are all there with as many elements.
Survivable ==
    /\ \A s \in Schemas(previous) : OnlyGrown(s)
    /\ \A o \in Moved : o[2] \in KnownMethod
    /\ \A x \in Entries(previous) : /\ x \in Entries(latest)
                                   /\ Len(latest.rest[x]) = Len(previous.rest[x])

\* Which versions have a list of changes: the run dies for two documents that
\* are not survivable and only for them, in whatever order deep-diff reports
\* their differences.  A path that comes or goes whole, a parameter that comes,
\* goes or is renamed, an entry outside paths and schemas that is new or
\* reworded never ends it (oas-version-manage.ts:285-359).
DiesForCause ==
    /\ pc = "died" => ~Survivable
    /\ pc = "done" => Survivable
=============================================================================
