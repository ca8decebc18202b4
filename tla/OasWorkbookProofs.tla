-------------------------- MODULE OasWorkbookProofs --------------------------
(***************************************************************************)
(* Theorems about the workbook of the OpenAPI version tool: the list of    *)
(* changes (OasChanges), for any two documents, whatever their paths,      *)
(* methods, lists of parameters, schemas, references and other entries,    *)
(* and any number of places where the versions differ; and the sheets      *)
(* (OasDetails), for any number of APIs and any schemas, nested, shared or *)
(* circular.                                                               *)
(***************************************************************************)
EXTENDS OasChanges, OasDetails, FiniteSetTheorems, SequenceTheorems, SumTheorems, TLAPS

-----------------------------------------------------------------------------
(* The inductive invariant                                                 *)

Told(d) ==
    /\ d.part \in {"operation", "parameters"} => \E r \in rows : r.api = d.at
    /\ d.part \in {"path", "name"} => \E r \in rows : r.api[1] = d.at[1]
    /\ InSchemas(d) /\ d.kind = "N" =>
          \/ Referencing(d.at[1]) = {}
          \/ \E r \in rows : r.api \in Referencing(d.at[1])

\* A difference that has been looked at has its row, and the run is over when
\* it was a deadly one.
ListOk ==
    /\ todo \subseteq Differences(previous, latest)
    /\ pc = "edit" => todo = {} /\ rows = {}
    /\ pc \in {"list", "done"} =>
          \A d \in Differences(previous, latest) \ todo : Told(d) /\ ~Deadly(d)
    /\ pc = "died" => \E d \in Differences(previous, latest) : Deadly(d)

Inv == TypeOK /\ ListOk /\ Grounded

-----------------------------------------------------------------------------
(* Documents and their differences                                         *)

\* A document has its operations, schemas and entries among those there are.
LEMMA DocumentParts ==
    ASSUME NEW d \in Document
    PROVE  /\ Operations(d) \subseteq Operation
           /\ Schemas(d) \subseteq Schema
           /\ \A o \in Operations(d) : d.params[o] \in ParamList
           /\ \A s \in Schemas(d) : d.schema[s] \in SchemaBody
           /\ \A x \in Entries(d) : d.rest[x] \in RestList
<1>1. PICK O \in SUBSET Operation : d.params \in [O -> ParamList]
  BY DEF Document
<1>2. PICK S \in SUBSET Schema : d.schema \in [S -> SchemaBody]
  BY DEF Document
<1>3. PICK R \in SUBSET Rest : d.rest \in [R -> RestList]
  BY DEF Document
<1> QED BY <1>1, <1>2, <1>3 DEF Operations, Schemas, Entries

LEMMA DocumentFrom ==
    ASSUME NEW O \in SUBSET Operation, NEW f \in [O -> ParamList],
           NEW S \in SUBSET Schema, NEW g \in [S -> SchemaBody],
           NEW R \in SUBSET Rest, NEW h \in [R -> RestList]
    PROVE  [params |-> f, schema |-> g, rest |-> h] \in Document
BY DEF Document

\* What an edit makes of a document is one.
LEMMA EditedDocument ==
    ASSUME NEW d \in Document, NEW e \in Edited(d)
    PROVE  e \in Document
<1>1. PICK O \in SUBSET Operation : d.params \in [O -> ParamList]
  BY DEF Document
<1>2. PICK S \in SUBSET Schema : d.schema \in [S -> SchemaBody]
  BY DEF Document
<1>a. PICK R \in SUBSET Rest : d.rest \in [R -> RestList]
  BY DEF Document
<1>3. \A f : [d EXCEPT !.params = f] = [params |-> f, schema |-> d.schema, rest |-> d.rest]
  BY DEF Document
<1>4. \A g : [d EXCEPT !.schema = g] = [params |-> d.params, schema |-> g, rest |-> d.rest]
  BY DEF Document
<1>b. \A h : [d EXCEPT !.rest = h] = [params |-> d.params, schema |-> d.schema, rest |-> h]
  BY DEF Document
<1> DEFINE E1 == {[d EXCEPT !.params = Restrict(d.params, Operations(d) \ {o})] :
                    o \in Operations(d)}
           E2 == {[d EXCEPT !.params = With(d.params, o, l)] :
                    o \in Operation, l \in ParamList}
           E3 == {[d EXCEPT !.schema = Restrict(d.schema, Schemas(d) \ {s})] :
                    s \in Schemas(d)}
           E4 == {[d EXCEPT !.schema = With(d.schema, s, b)] :
                    s \in Schema, b \in SchemaBody}
           E5 == {[d EXCEPT !.rest = Restrict(d.rest, Entries(d) \ {x})] :
                    x \in Entries(d)}
           E6 == {[d EXCEPT !.rest = With(d.rest, x, l)] :
                    x \in Rest, l \in RestList}
<1>5. e \in E1 \/ e \in E2 \/ e \in E3 \/ e \in E4 \/ e \in E5 \/ e \in E6
  <2>1. Edited(d) = E1 \cup E2 \cup E3 \cup E4 \cup E5 \cup E6
    BY DEF Edited
  <2> HIDE DEF E1, E2, E3, E4, E5, E6
  <2> QED BY <2>1
<1>6. CASE e \in E1
  <2>1. PICK o \in Operations(d) :
          e = [d EXCEPT !.params = Restrict(d.params, Operations(d) \ {o})]
    BY <1>6
  <2>2. Restrict(d.params, Operations(d) \ {o}) \in [O \ {o} -> ParamList]
    BY <1>1 DEF Restrict, Operations
  <2>3. O \ {o} \in SUBSET Operation
    OBVIOUS
  <2>4. e = [params |-> Restrict(d.params, Operations(d) \ {o}), schema |-> d.schema,
             rest |-> d.rest]
    BY <1>3, <2>1
  <2> QED BY <1>2, <1>a, <2>2, <2>3, <2>4, DocumentFrom
<1>7. CASE e \in E2
  <2>1. PICK o \in Operation, l \in ParamList :
          e = [d EXCEPT !.params = With(d.params, o, l)]
    BY <1>7
  <2>2. With(d.params, o, l) \in [O \cup {o} -> ParamList]
    BY <1>1 DEF With
  <2>3. O \cup {o} \in SUBSET Operation
    OBVIOUS
  <2>4. e = [params |-> With(d.params, o, l), schema |-> d.schema,
             rest |-> d.rest]
    BY <1>3, <2>1
  <2> QED BY <1>2, <1>a, <2>2, <2>3, <2>4, DocumentFrom
<1>8. CASE e \in E3
  <2>1. PICK s \in Schemas(d) :
          e = [d EXCEPT !.schema = Restrict(d.schema, Schemas(d) \ {s})]
    BY <1>8
  <2>2. Restrict(d.schema, Schemas(d) \ {s}) \in [S \ {s} -> SchemaBody]
    BY <1>2 DEF Restrict, Schemas
  <2>3. S \ {s} \in SUBSET Schema
    OBVIOUS
  <2>4. e = [params |-> d.params, schema |-> Restrict(d.schema, Schemas(d) \ {s}),
             rest |-> d.rest]
    BY <1>4, <2>1
  <2> QED BY <1>1, <1>a, <2>2, <2>3, <2>4, DocumentFrom
<1>9. CASE e \in E4
  <2>1. PICK s \in Schema, b \in SchemaBody :
          e = [d EXCEPT !.schema = With(d.schema, s, b)]
    BY <1>9
  <2>2. With(d.schema, s, b) \in [S \cup {s} -> SchemaBody]
    BY <1>2 DEF With
  <2>3. S \cup {s} \in SUBSET Schema
    OBVIOUS
  <2>4. e = [params |-> d.params, schema |-> With(d.schema, s, b),
             rest |-> d.rest]
    BY <1>4, <2>1
  <2> QED BY <1>1, <1>a, <2>2, <2>3, <2>4, DocumentFrom
<1>10. CASE e \in E5
  <2>1. PICK x \in Entries(d) :
          e = [d EXCEPT !.rest = Restrict(d.rest, Entries(d) \ {x})]
    BY <1>10
  <2>2. Restrict(d.rest, Entries(d) \ {x}) \in [R \ {x} -> RestList]
    BY <1>a DEF Restrict, Entries
  <2>3. R \ {x} \in SUBSET Rest
    OBVIOUS
  <2>4. e = [params |-> d.params, schema |-> d.schema,
             rest |-> Restrict(d.rest, Entries(d) \ {x})]
    BY <1>b, <2>1
  <2> QED BY <1>1, <1>2, <2>2, <2>3, <2>4, DocumentFrom
<1>11. CASE e \in E6
  <2>1. PICK x \in Rest, l \in RestList :
          e = [d EXCEPT !.rest = With(d.rest, x, l)]
    BY <1>11
  <2>2. With(d.rest, x, l) \in [R \cup {x} -> RestList]
    BY <1>a DEF With
  <2>3. R \cup {x} \in SUBSET Rest
    OBVIOUS
  <2>4. e = [params |-> d.params, schema |-> d.schema, rest |-> With(d.rest, x, l)]
    BY <1>b, <2>1
  <2> QED BY <1>1, <1>2, <2>2, <2>3, <2>4, DocumentFrom
<1> HIDE DEF E1, E2, E3, E4, E5, E6
<1> QED BY <1>5, <1>6, <1>7, <1>8, <1>9, <1>10, <1>11

\* A difference is of one of these forms, and each form is about something that
\* differs.
LEMMA Forms ==
    ASSUME NEW p, NEW n, NEW d \in Differences(p, n)
    PROVE  /\ d.kind \in {"N", "D", "E", "A"}
           /\ \/ d.part = "path" /\ d.kind \in {"N", "D"} /\ d \in PathDifferences(p, n)
              \/ /\ d.part = "operation" /\ d.kind \in {"N", "D"}
                 /\ d \in OperationDifferences(p, n)
              \/ /\ \/ d.part = "parameters" /\ d.kind = "A"
                    \/ d.part = "name" /\ d.kind = "E"
                 /\ d \in ParameterDifferences(p, n)
              \/ InSchemas(d) /\ d \in SchemaDifferences(p, n)
              \/ d.part = "rest" /\ d \in RestDifferences(p, n)
<1>1. CASE d \in PathDifferences(p, n)
  BY <1>1 DEF PathDifferences, Difference
<1>2. CASE d \in OperationDifferences(p, n)
  BY <1>2 DEF OperationDifferences, Difference
<1>3. CASE d \in ParameterDifferences(p, n)
  BY <1>3 DEF ParameterDifferences, ArrayDifferences, Difference
<1>4. CASE d \in SchemaDifferences(p, n)
  BY <1>4 DEF SchemaDifferences, RequiredDifferences, Difference, InSchemas
<1>5. CASE d \in RestDifferences(p, n)
  BY <1>5 DEF RestDifferences, ArrayDifferences, Difference
<1> QED BY <1>1, <1>2, <1>3, <1>4, <1>5 DEF Differences

\* A path came or went.
LEMMA PathMeaning ==
    ASSUME NEW p, NEW n, NEW d \in PathDifferences(p, n)
    PROVE  IF d.kind = "N" THEN Keys(p, d.at[1]) = {} /\ Keys(n, d.at[1]) # {}
                           ELSE Keys(p, d.at[1]) # {} /\ Keys(n, d.at[1]) = {}
BY DEF PathDifferences, Difference

\* So did an operation of a path that stays.
LEMMA OperationMeaning ==
    ASSUME NEW p, NEW n, NEW d \in OperationDifferences(p, n)
    PROVE  /\ IF d.kind = "N" THEN d.at \in Operations(n) \ Operations(p)
                              ELSE d.at \in Operations(p) \ Operations(n)
           /\ Keys(p, d.at[1]) # {} /\ Keys(n, d.at[1]) # {}
<1>1. ASSUME NEW o \in Operations(n) \ Operations(p), Keys(p, o[1]) # {},
             d = Difference("N", "operation", o, 0)
      PROVE  d.kind = "N" /\ d.at = o /\ o \in Keys(n, o[1])
  BY <1>1 DEF Difference, Keys
<1>2. ASSUME NEW o \in Operations(p) \ Operations(n), Keys(n, o[1]) # {},
             d = Difference("D", "operation", o, 0)
      PROVE  d.kind = "D" /\ d.at = o /\ o \in Keys(p, o[1])
  BY <1>2 DEF Difference, Keys
<1> QED BY <1>1, <1>2 DEF OperationDifferences

\* Two lists with a difference are not the same; with one of kind A they are
\* not as long.
LEMMA ArrayMeaning ==
    ASSUME NEW old \in Seq(STRING), NEW new \in Seq(STRING), NEW size, NEW item, NEW at,
           NEW d \in ArrayDifferences(old, new, size, item, at)
    PROVE  /\ d.at = at /\ old # new
           /\ (d.kind = "A" /\ d.part = size) \/ (d.kind = "E" /\ d.part = item)
           /\ d.kind = "A" => Len(old) # Len(new)
<1>1. CASE d \in {Difference("A", size, at, i) :
              i \in {j \in DOMAIN old \cup DOMAIN new : j > Len(old) \/ j > Len(new)}}
  <2>1. \E j \in DOMAIN old \cup DOMAIN new : j > Len(old) \/ j > Len(new)
    BY <1>1
  <2>2. Len(old) # Len(new)
    BY <2>1
  <2> QED BY <1>1, <2>2 DEF Difference
<1>2. CASE d \in {Difference("E", item, at, i) :
              i \in {j \in DOMAIN old \cap DOMAIN new : old[j] # new[j]}}
  BY <1>2 DEF Difference
<1> QED BY <1>1, <1>2 DEF ArrayDifferences

\* Lists that are not as long have a difference of kind A, and lists that are
\* not the same have one.
LEMMA ArrayListed ==
    ASSUME NEW old \in Seq(STRING), NEW new \in Seq(STRING), NEW size, NEW item, NEW at
    PROVE  /\ Len(old) # Len(new) =>
                 \E i : Difference("A", size, at, i) \in ArrayDifferences(old, new, size, item, at)
           /\ old # new =>
                 \E i : \/ Difference("A", size, at, i)
                              \in ArrayDifferences(old, new, size, item, at)
                        \/ Difference("E", item, at, i)
                              \in ArrayDifferences(old, new, size, item, at)
<1>1. \A i \in DOMAIN old \cup DOMAIN new : i > Len(old) \/ i > Len(new) =>
         Difference("A", size, at, i) \in ArrayDifferences(old, new, size, item, at)
  BY DEF ArrayDifferences
<1>2. \A i \in DOMAIN old \cap DOMAIN new : old[i] # new[i] =>
         Difference("E", item, at, i) \in ArrayDifferences(old, new, size, item, at)
  BY DEF ArrayDifferences
<1>3. Len(old) # Len(new) =>
         \E i \in DOMAIN old \cup DOMAIN new : i > Len(old) \/ i > Len(new)
  <2>1. CASE Len(old) < Len(new)
    <3>1. Len(new) \in DOMAIN new /\ Len(new) > Len(old)
      BY <2>1
    <3> QED BY <3>1
  <2>2. CASE Len(new) < Len(old)
    <3>1. Len(old) \in DOMAIN old /\ Len(old) > Len(new)
      BY <2>2
    <3> QED BY <3>1
  <2>3. Len(old) \in Nat /\ Len(new) \in Nat
    OBVIOUS
  <2> QED BY <2>1, <2>2, <2>3
<1>4. Len(old) = Len(new) /\ old # new =>
         \E i \in DOMAIN old \cap DOMAIN new : old[i] # new[i]
  OBVIOUS
<1> QED BY <1>1, <1>2, <1>3, <1>4

\* The parameters of an operation are not what they were.
LEMMA ParameterMeaning ==
    ASSUME NEW p \in Document, NEW n \in Document, NEW d \in ParameterDifferences(p, n)
    PROVE  /\ d.at \in Operations(p) \cap Operations(n)
           /\ p.params[d.at] # n.params[d.at]
<1>1. PICK o \in Operations(p) \cap Operations(n) :
        d \in ArrayDifferences(p.params[o], n.params[o], "parameters", "name", o)
  BY DEF ParameterDifferences
<1>2. p.params[o] \in Seq(STRING) /\ n.params[o] \in Seq(STRING)
  BY DocumentParts, ListAssumption
<1>3. d.at = o /\ p.params[o] # n.params[o]
  BY <1>1, <1>2, ArrayMeaning
<1> QED BY <1>3

\* A schema is new or has grown.
LEMMA SchemaMeaning ==
    ASSUME NEW p, NEW n, NEW d \in SchemaDifferences(p, n), d.kind = "N"
    PROVE  /\ d.at[1] \in Schemas(n)
           /\ d.at[1] \in Schemas(p) => n.schema[d.at[1]] # p.schema[d.at[1]]
<1>1. CASE d \in {Difference("N", "schema", <<s>>, 0) : s \in Schemas(n) \ Schemas(p)}
  BY <1>1 DEF Difference
<1>2. CASE d \in {Difference("D", "schema", <<s>>, 0) : s \in Schemas(p) \ Schemas(n)}
  BY <1>2 DEF Difference
<1>3. ASSUME NEW s \in Schemas(p) \cap Schemas(n),
             \E x \in DOMAIN n.schema[s].type \ DOMAIN p.schema[s].type :
                d = Difference("N", "properties", <<s, x>>, 0)
      PROVE  d.at[1] = s /\ n.schema[s] # p.schema[s]
  BY <1>3 DEF Difference
<1>4. ASSUME NEW s \in Schemas(p) \cap Schemas(n),
             d \in RequiredDifferences(s, p.schema[s].required, n.schema[s].required)
      PROVE  d.at[1] = s /\ n.schema[s] # p.schema[s]
  BY <1>4 DEF RequiredDifferences, Difference
<1>5. ASSUME NEW s \in Schemas(p) \cap Schemas(n),
             \/ \E x : d = Difference("D", "properties", <<s, x>>, 0)
             \/ \E x : d = Difference("E", "properties", <<s, x>>, 0)
      PROVE  FALSE
  BY <1>5 DEF Difference
<1>6. CASE \E s \in Schemas(p) \cap Schemas(n) :
             \/ \E x \in DOMAIN n.schema[s].type \ DOMAIN p.schema[s].type :
                   d = Difference("N", "properties", <<s, x>>, 0)
             \/ d \in RequiredDifferences(s, p.schema[s].required, n.schema[s].required)
             \/ \E x : d = Difference("D", "properties", <<s, x>>, 0)
             \/ \E x : d = Difference("E", "properties", <<s, x>>, 0)
  BY <1>3, <1>4, <1>5, <1>6
<1> QED BY <1>1, <1>2, <1>6 DEF SchemaDifferences

\* A deadly difference of the schemas is a schema that has not only grown.
LEMMA DeadlySchema ==
    ASSUME TypeOK, NEW d \in SchemaDifferences(previous, latest), InSchemas(d), Deadly(d)
    PROVE  \E s \in Schemas(previous) : ~OnlyGrown(s)
<1> DEFINE p == previous
           n == latest
<1>1. /\ d \in SchemaDifferences(p, n)
      /\ d.kind \in {"D", "A"} \/ (d.kind = "E" /\ d.part = "properties")
  BY DEF Deadly, InSchemas
<1>2. CASE d \in {Difference("N", "schema", <<s>>, 0) : s \in Schemas(n) \ Schemas(p)}
  BY <1>1, <1>2 DEF Difference
<1>3. CASE d \in {Difference("D", "schema", <<s>>, 0) : s \in Schemas(p) \ Schemas(n)}
  BY <1>3 DEF OnlyGrown
<1>4. ASSUME NEW s \in Schemas(p) \cap Schemas(n),
             \E x : d = Difference("N", "properties", <<s, x>>, 0)
      PROVE  FALSE
  BY <1>1, <1>4 DEF Difference
<1>5. ASSUME NEW s \in Schemas(p) \cap Schemas(n),
             \E x \in DOMAIN p.schema[s].type : 
                \/ x \notin DOMAIN n.schema[s].type
                \/ p.schema[s].type[x] # n.schema[s].type[x]
      PROVE  ~OnlyGrown(s)
  BY <1>5 DEF OnlyGrown
<1>6. ASSUME NEW s \in Schemas(p) \cap Schemas(n),
             d \in RequiredDifferences(s, p.schema[s].required, n.schema[s].required)
      PROVE  ~OnlyGrown(s)
  <2> DEFINE old == p.schema[s].required
             new == n.schema[s].required
  <2>1. IsFiniteSet(old) /\ IsFiniteSet(new)
    BY DocumentParts, BodyAssumption DEF TypeOK
  <2>2. d.kind = IF old = {} THEN "N" ELSE IF new = {} THEN "D"
                 ELSE IF Cardinality(old) # Cardinality(new) THEN "A" ELSE "E"
    BY <1>6 DEF RequiredDifferences, Difference
  <2>3. d.part = "required"
    BY <1>6 DEF RequiredDifferences, Difference
  <2>4. d.kind \in {"D", "A"}
    BY <1>1, <2>3
  <2>5. old # {} /\ Cardinality(old) # Cardinality(new)
    BY <2>1, <2>2, <2>4, FS_EmptySet
  <2> QED BY <2>5 DEF OnlyGrown
<1>7. CASE \E s \in Schemas(p) \cap Schemas(n) :
             \/ \E x : d = Difference("N", "properties", <<s, x>>, 0)
             \/ \E x \in DOMAIN p.schema[s].type : 
                   \/ x \notin DOMAIN n.schema[s].type
                   \/ p.schema[s].type[x] # n.schema[s].type[x]
             \/ d \in RequiredDifferences(s, p.schema[s].required, n.schema[s].required)
  BY <1>4, <1>5, <1>6, <1>7
<1> QED BY <1>1, <1>2, <1>3, <1>7 DEF SchemaDifferences

\* A deadly difference of the rest is an entry that went or is not as long.
LEMMA DeadlyRest ==
    ASSUME TypeOK, NEW d \in RestDifferences(previous, latest), d.kind \in {"D", "A"}
    PROVE  \E x \in Entries(previous) :
              \/ x \notin Entries(latest)
              \/ Len(latest.rest[x]) # Len(previous.rest[x])
<1>1. CASE d \in {Difference("N", "rest", <<x>>, 0) : x \in Entries(latest) \ Entries(previous)}
  BY <1>1 DEF Difference
<1>2. CASE d \in {Difference("D", "rest", <<x>>, 0) : x \in Entries(previous) \ Entries(latest)}
  BY <1>2
<1>3. ASSUME NEW x \in Entries(previous) \cap Entries(latest),
             d \in ArrayDifferences(previous.rest[x], latest.rest[x], "rest", "rest", <<x>>)
      PROVE  Len(latest.rest[x]) # Len(previous.rest[x])
  <2>1. previous.rest[x] \in Seq(STRING) /\ latest.rest[x] \in Seq(STRING)
    BY DocumentParts, ListAssumption DEF TypeOK
  <2>2. d.kind = "A"
    BY <1>3, <2>1, ArrayMeaning
  <2> QED BY <1>3, <2>1, <2>2, ArrayMeaning
<1> QED BY <1>1, <1>2, <1>3 DEF RestDifferences

\* Where there is a deadly difference the documents are not survivable.
LEMMA DeadlyMeaning ==
    ASSUME TypeOK, NEW d \in Differences(previous, latest), Deadly(d)
    PROVE  ~Survivable
<1>1. CASE d.part = "operation"
  <2>1. d \in OperationDifferences(previous, latest) /\ d.at[2] \notin KnownMethod
    BY <1>1, Forms DEF Deadly, InSchemas
  <2>2. d.at \in Moved
    BY <2>1, OperationMeaning DEF Moved
  <2> QED BY <2>1, <2>2 DEF Survivable
<1>2. CASE InSchemas(d)
  <2>1. d \in SchemaDifferences(previous, latest)
    BY <1>2, Forms DEF InSchemas
  <2> QED BY <1>2, <2>1, DeadlySchema DEF Survivable
<1>3. CASE d.part = "rest"
  <2>1. d \in RestDifferences(previous, latest) /\ d.kind \in {"D", "A"}
    BY <1>3, Forms DEF Deadly, InSchemas
  <2> QED BY <2>1, DeadlyRest DEF Survivable
<1> QED BY <1>1, <1>2, <1>3 DEF Deadly, InSchemas

-----------------------------------------------------------------------------
(* Each step keeps the invariant                                           *)

\* why a row may name the API a
GroundOf(a) ==
    \/ \E o \in Operation : /\ o[1] = a[1]
                            /\ \/ (o \in Operations(previous)) # (o \in Operations(latest))
                               \/ /\ o \in Operations(previous) \cap Operations(latest)
                                  /\ previous.params[o] # latest.params[o]
    \/ \E s \in Schemas(latest) :
          /\ MayReturn(a, s)
          /\ s \in Schemas(previous) => latest.schema[s] # previous.schema[s]

LEMMA GroundedRows == Grounded <=> \A r \in rows : GroundOf(r.api)
BY DEF Grounded, GroundOf

LEMMA InitInv == Init => Inv
<1> SUFFICES ASSUME Init PROVE Inv
  OBVIOUS
<1>1. TypeOK
  BY PreviousAssumption, EditsAssumption DEF Init, TypeOK
<1>2. ListOk /\ Grounded
  BY DEF Init, ListOk, Grounded
<1> QED BY <1>1, <1>2 DEF Inv

LEMMA EditStep == Inv /\ Edit => Inv'
<1> SUFFICES ASSUME Inv, Edit PROVE Inv'
  OBVIOUS
<1>1. /\ pc = "edit" /\ pc' = pc /\ todo = {} /\ todo' = {} /\ rows = {} /\ rows' = {}
      /\ previous' = previous /\ latest' \in Edited(latest)
      /\ edits < MaxEdits /\ edits' = edits + 1
  BY DEF Edit, Inv, ListOk
<1>2. latest' \in Document
  BY <1>1, EditedDocument DEF Inv, TypeOK
<1>3. edits' \in 0 .. MaxEdits
  BY <1>1, EditsAssumption DEF Inv, TypeOK
<1>4. TypeOK'
  BY <1>1, <1>2, <1>3 DEF Inv, TypeOK
<1>5. ListOk' /\ Grounded'
  BY <1>1 DEF ListOk, Grounded
<1> QED BY <1>4, <1>5 DEF Inv

LEMMA CompareStep == Inv /\ Compare => Inv'
<1> SUFFICES ASSUME Inv, Compare PROVE Inv'
  OBVIOUS
<1>1. /\ pc = "edit" /\ pc' = "list" /\ todo' = Differences(previous, latest)
      /\ rows = {} /\ UNCHANGED <<previous, latest, edits, rows>>
  BY DEF Compare, Inv, ListOk
<1>2. Differences(previous, latest)' = Differences(previous, latest)
  BY <1>1
<1>3. \A d \in todo' : d.kind \in {"N", "D", "E", "A"}
  BY <1>1, Forms
<1>4. TypeOK'
  BY <1>1, <1>3 DEF Inv, TypeOK
<1>5. ListOk'
  BY <1>1, <1>2 DEF ListOk
<1>6. Grounded'
  BY <1>1 DEF Grounded
<1> QED BY <1>4, <1>5, <1>6 DEF Inv

\* A difference is looked at: it is told, and the rows it adds have a ground.
LEMMA TakeStep ==
    ASSUME Inv, NEW d, Take(d), UNCHANGED <<previous, latest, pc, edits>>,
           rows \subseteq rows', Told(d)', ~Deadly(d),
           \A r \in rows' \ rows : /\ r.api \in Operations(previous) \cup Operations(latest)
                                   /\ GroundOf(r.api)
    PROVE  Inv'
<1>1. pc = "list" /\ d \in todo /\ todo' = todo \ {d}
  BY DEF Take
<1>2. \A r \in rows' : r.api \in Operations(previous) \cup Operations(latest)
  BY DEF Inv, TypeOK
<1>3. TypeOK'
  BY <1>1, <1>2 DEF Inv, TypeOK
<1>4. \A s : Referencing(s)' = Referencing(s)
  BY DEF Referencing, Operations
<1>5. \A e : Told(e) => Told(e)'
  BY <1>4 DEF Told, InSchemas
<1>6. Differences(previous, latest)' = Differences(previous, latest)
  OBVIOUS
<1>7. \A e : Deadly(e)' = Deadly(e)
  BY DEF Deadly, InSchemas
<1>8. ListOk'
  <2>1. todo' \subseteq Differences(previous, latest)'
    BY <1>1, <1>6 DEF Inv, ListOk
  <2>2. ASSUME NEW e \in Differences(previous, latest) \ todo'
        PROVE  Told(e)' /\ ~Deadly(e)
    BY <1>1, <1>5 DEF Inv, ListOk
  <2> QED BY <1>1, <1>6, <2>1, <2>2 DEF ListOk, Deadly, InSchemas
<1>9. Grounded'
  <2>1. \A a : GroundOf(a)' <=> GroundOf(a)
    BY DEF GroundOf, Operations, Schemas, MayReturn
  <2>2. \A r \in rows' : GroundOf(r.api)
    BY GroundedRows DEF Inv
  <2> QED BY <2>1, <2>2 DEF Grounded, GroundOf, Operations, Schemas, MayReturn
<1> QED BY <1>3, <1>8, <1>9 DEF Inv

\* One row is added.
LEMMA PushStep ==
    ASSUME Inv, NEW d, Take(d), UNCHANGED <<previous, latest, pc, edits>>,
           NEW a, Push(d, a), ~Deadly(d),
           a \in Operations(previous) \cup Operations(latest), GroundOf(a),
           d.part \in {"operation", "parameters"} => a = d.at,
           d.part \in {"path", "name"} => a[1] = d.at[1],
           InSchemas(d) => a \in Referencing(d.at[1])
    PROVE  Inv'
<1> DEFINE row == [about |-> d, api |-> a]
<1>1. rows' = rows \cup {row} /\ row \in rows' /\ row.api = a
  BY DEF Push
<1>2. Referencing(d.at[1])' = Referencing(d.at[1])
  BY DEF Referencing, Operations
<1> HIDE DEF row
<1>3. Told(d)'
  BY <1>1, <1>2 DEF Told, InSchemas
<1>4. \A r \in rows' \ rows : r.api = a
  BY <1>1
<1> QED BY <1>1, <1>3, <1>4, TakeStep

\* No row is added.
LEMMA SkipStep ==
    ASSUME Inv, NEW d, Take(d), UNCHANGED <<previous, latest, pc, edits, rows>>,
           InSchemas(d) \/ d.part = "rest", ~Deadly(d),
           InSchemas(d) /\ d.kind = "N" => Referencing(d.at[1]) = {}
    PROVE  Inv'
<1>1. Told(d)'
  BY DEF Told, InSchemas, Referencing, Operations
<1>2. rows \subseteq rows' /\ rows' \ rows = {}
  OBVIOUS
<1> QED BY <1>1, <1>2, TakeStep

\* The operations that a difference under paths may name.
LEMMA PathGround ==
    ASSUME TypeOK, NEW d \in PathDifferences(previous, latest), NEW a,
           a \in IF d.kind = "N" THEN Keys(latest, d.at[1]) ELSE Keys(previous, d.at[1])
    PROVE  /\ a \in Operations(previous) \cup Operations(latest)
           /\ a[1] = d.at[1] /\ GroundOf(a)
<1>1. \A o \in Operations(previous) \cup Operations(latest) : o \in Operation
  BY DocumentParts DEF TypeOK
<1>2. CASE d.kind = "N"
  <2>1. a \in Operations(latest) /\ a \notin Operations(previous) /\ a[1] = d.at[1]
    BY <1>2, PathMeaning DEF Keys
  <2> QED BY <1>1, <2>1 DEF GroundOf
<1>3. CASE d.kind # "N"
  <2>1. a \in Operations(previous) /\ a \notin Operations(latest) /\ a[1] = d.at[1]
    BY <1>3, PathMeaning DEF Keys
  <2> QED BY <1>1, <2>1 DEF GroundOf
<1> QED BY <1>2, <1>3

LEMMA OperationGround ==
    ASSUME TypeOK, NEW d \in OperationDifferences(previous, latest)
    PROVE  d.at \in Operations(previous) \cup Operations(latest) /\ GroundOf(d.at)
<1>1. \A o \in Operations(previous) \cup Operations(latest) : o \in Operation
  BY DocumentParts DEF TypeOK
<1>2. \/ d.at \in Operations(latest) /\ d.at \notin Operations(previous)
      \/ d.at \in Operations(previous) /\ d.at \notin Operations(latest)
  BY OperationMeaning
<1> QED BY <1>1, <1>2 DEF GroundOf

\* A row on the path of an operation with other parameters has its ground.
LEMMA ParameterGround ==
    ASSUME TypeOK, NEW d \in ParameterDifferences(previous, latest),
           NEW a, a[1] = d.at[1]
    PROVE  GroundOf(a)
<1>1. /\ d.at \in Operations(previous) \cap Operations(latest)
      /\ previous.params[d.at] # latest.params[d.at]
  BY ParameterMeaning DEF TypeOK
<1>2. d.at \in Operation
  BY <1>1, DocumentParts DEF TypeOK
<1> QED BY <1>1, <1>2 DEF GroundOf

LEMMA SchemaGround ==
    ASSUME NEW d \in SchemaDifferences(previous, latest), d.kind = "N",
           NEW a \in Referencing(d.at[1])
    PROVE  a \in Operations(latest) /\ GroundOf(a)
<1>1. a \in Operations(latest) /\ MayReturn(a, d.at[1])
  BY DEF Referencing, MayReturn
<1>2. /\ d.at[1] \in Schemas(latest)
      /\ d.at[1] \in Schemas(previous) => latest.schema[d.at[1]] # previous.schema[d.at[1]]
  BY SchemaMeaning
<1> QED BY <1>1, <1>2 DEF GroundOf

\* The branches of the loop of createApiChanges
LEMMA AddedApiStep ==
    ASSUME Inv, NEW d, AddedApi(d)
    PROVE  Inv'
<1>1. /\ Take(d) /\ d.kind = "N" /\ UNCHANGED <<previous, latest, pc, edits>>
      /\ TypeOK /\ d \in Differences(previous, latest)
  BY DEF AddedApi, Take, Inv, ListOk
<1>2. CASE d.part = "operation" /\ ~Deadly(d) /\ Push(d, d.at)
  <2>1. d \in OperationDifferences(previous, latest) /\ ~InSchemas(d)
    BY <1>1, <1>2, Forms DEF InSchemas
  <2> QED BY <1>1, <1>2, <2>1, OperationGround, PushStep
<1>3. ASSUME d.part = "path", NEW o \in Keys(latest, d.at[1]), Push(d, o)
      PROVE  Inv'
  <2>1. d \in PathDifferences(previous, latest) /\ ~InSchemas(d)
    BY <1>1, <1>3, Forms DEF InSchemas
  <2>2. o \in Operations(previous) \cup Operations(latest) /\ o[1] = d.at[1] /\ GroundOf(o)
    BY <1>1, <1>3, <2>1, PathGround
  <2> QED BY <1>1, <1>3, <2>1, <2>2, PushStep DEF Deadly
<1> QED BY <1>2, <1>3 DEF AddedApi

LEMMA AddedToSchemaStep ==
    ASSUME Inv, NEW d, AddedToSchema(d)
    PROVE  Inv'
<1>1. /\ Take(d) /\ d.kind = "N" /\ InSchemas(d) /\ UNCHANGED <<previous, latest, pc, edits>>
      /\ d \in Differences(previous, latest)
  BY DEF AddedToSchema, Take, Inv, ListOk
<1>2. ~Deadly(d) /\ d \in SchemaDifferences(previous, latest)
  BY <1>1, Forms DEF Deadly, InSchemas
<1>3. CASE Referencing(d.at[1]) = {}
  <2>1. UNCHANGED rows
    BY <1>3 DEF AddedToSchema
  <2> QED BY <1>1, <1>2, <1>3, <2>1, SkipStep
<1>4. CASE Referencing(d.at[1]) # {}
  <2>1. PICK o \in Referencing(d.at[1]) : Push(d, o)
    BY <1>4 DEF AddedToSchema
  <2>2. o \in Operations(latest) /\ GroundOf(o)
    BY <1>1, <1>2, SchemaGround
  <2>3. d.part \notin {"operation", "parameters", "path", "name"}
    BY <1>1 DEF InSchemas
  <2> QED BY <1>1, <1>2, <2>1, <2>2, <2>3, PushStep
<1> QED BY <1>3, <1>4

LEMMA RemovedApiStep ==
    ASSUME Inv, NEW d, RemovedApi(d)
    PROVE  Inv'
<1>1. /\ Take(d) /\ d.kind = "D" /\ UNCHANGED <<previous, latest, pc, edits>>
      /\ TypeOK /\ d \in Differences(previous, latest)
  BY DEF RemovedApi, Take, Inv, ListOk
<1>2. CASE d.part = "operation" /\ ~Deadly(d) /\ Push(d, d.at)
  <2>1. d \in OperationDifferences(previous, latest) /\ ~InSchemas(d)
    BY <1>1, <1>2, Forms DEF InSchemas
  <2> QED BY <1>1, <1>2, <2>1, OperationGround, PushStep
<1>3. ASSUME d.part = "path", NEW o \in Keys(previous, d.at[1]), Push(d, o)
      PROVE  Inv'
  <2>1. d \in PathDifferences(previous, latest) /\ ~InSchemas(d)
    BY <1>1, <1>3, Forms DEF InSchemas
  <2>2. o \in Operations(previous) \cup Operations(latest) /\ o[1] = d.at[1] /\ GroundOf(o)
    BY <1>1, <1>3, <2>1, PathGround
  <2> QED BY <1>1, <1>3, <2>1, <2>2, PushStep DEF Deadly
<1> QED BY <1>2, <1>3 DEF RemovedApi

LEMMA ModifiedApiStep ==
    ASSUME Inv, NEW d, ModifiedApi(d)
    PROVE  Inv'
<1>1. /\ Take(d) /\ d.part = "name" /\ UNCHANGED <<previous, latest, pc, edits>>
      /\ TypeOK /\ d \in Differences(previous, latest)
  BY DEF ModifiedApi, Take, Inv, ListOk
<1>2. PICK o \in Keys(latest, d.at[1]) : Push(d, o)
  BY DEF ModifiedApi
<1>3. o \in Operations(latest) /\ o[1] = d.at[1]
  BY DEF Keys
<1>4. d \in ParameterDifferences(previous, latest) /\ ~InSchemas(d)
  BY <1>1, Forms DEF InSchemas
<1>5. GroundOf(o)
  BY <1>1, <1>3, <1>4, ParameterGround
<1> QED BY <1>1, <1>2, <1>3, <1>4, <1>5, PushStep DEF Deadly

LEMMA ChangedParamsStep ==
    ASSUME Inv, NEW d, ChangedParams(d)
    PROVE  Inv'
<1>1. /\ Take(d) /\ d.kind = "A" /\ d.part = "parameters" /\ Push(d, d.at)
      /\ UNCHANGED <<previous, latest, pc, edits>>
      /\ TypeOK /\ d \in Differences(previous, latest)
  BY DEF ChangedParams, Take, Inv, ListOk
<1>2. d \in ParameterDifferences(previous, latest) /\ ~InSchemas(d)
  BY <1>1, Forms DEF InSchemas
<1>3. d.at \in Operations(latest) /\ GroundOf(d.at)
  BY <1>1, <1>2, ParameterMeaning, ParameterGround DEF TypeOK
<1> QED BY <1>1, <1>2, <1>3, PushStep DEF Deadly

LEMMA AddedElsewhereStep ==
    ASSUME Inv, NEW d, AddedElsewhere(d)
    PROVE  Inv'
BY SkipStep DEF AddedElsewhere, InSchemas, Deadly

LEMMA SkippedEditStep ==
    ASSUME Inv, NEW d, SkippedEdit(d)
    PROVE  Inv'
BY SkipStep DEF SkippedEdit, InSchemas, Deadly

LEMMA DieStep ==
    ASSUME Inv, NEW d, Die(d)
    PROVE  Inv'
<1>1. /\ d \in todo /\ todo' = todo \ {d} /\ pc' = "died"
      /\ UNCHANGED <<previous, latest, edits, rows>>
      /\ d \in Differences(previous, latest) /\ Deadly(d)
  BY DEF Die, Take, Inv, ListOk
<1>2. TypeOK'
  BY <1>1 DEF Inv, TypeOK
<1>3. Differences(previous, latest)' = Differences(previous, latest)
  BY <1>1
<1>4. ListOk'
  BY <1>1, <1>3 DEF Inv, ListOk, Deadly, InSchemas
<1>5. Grounded'
  BY <1>1 DEF Inv, Grounded, Operations, Schemas, MayReturn
<1> QED BY <1>2, <1>4, <1>5 DEF Inv

LEMMA AddRowsStep == Inv /\ AddRows => Inv'
<1> SUFFICES ASSUME Inv, AddRows PROVE Inv'
  OBVIOUS
<1>1. /\ pc = "list" /\ todo = {} /\ pc' = "done"
      /\ UNCHANGED <<previous, latest, edits, todo, rows>>
  BY DEF AddRows
<1>2. TypeOK'
  BY <1>1 DEF Inv, TypeOK
<1>3. Differences(previous, latest)' = Differences(previous, latest)
  BY <1>1
<1>4. \A d : (Told(d)' <=> Told(d)) /\ (Deadly(d)' <=> Deadly(d))
  BY <1>1 DEF Told, Deadly, InSchemas, Referencing, Operations
<1>5. ListOk'
  BY <1>1, <1>3, <1>4 DEF Inv, ListOk, Deadly, InSchemas
<1>6. Grounded'
  BY <1>1 DEF Inv, Grounded, Operations, Schemas, MayReturn
<1> QED BY <1>2, <1>5, <1>6 DEF Inv

LEMMA StepInv == Inv /\ [Next]_vars => Inv'
<1> SUFFICES ASSUME Inv, [Next]_vars PROVE Inv'
  OBVIOUS
<1>1. CASE UNCHANGED vars
  <2>1. UNCHANGED <<previous, latest, pc, edits, todo, rows>>
    BY <1>1 DEF vars
  <2>2. Differences(previous, latest)' = Differences(previous, latest)
    BY <2>1
  <2>3. \A d : (Told(d)' <=> Told(d)) /\ (Deadly(d)' <=> Deadly(d))
    BY <2>1 DEF Told, Deadly, InSchemas, Referencing, Operations
  <2>4. TypeOK' /\ Grounded'
    BY <2>1 DEF Inv, TypeOK, Grounded, Operations, Schemas, MayReturn
  <2>5. ListOk'
    BY <2>1, <2>2, <2>3 DEF Inv, ListOk, Deadly, InSchemas
  <2> QED BY <2>4, <2>5 DEF Inv
<1>2. CASE Edit \/ Compare \/ AddRows
  BY <1>2, EditStep, CompareStep, AddRowsStep
<1>3. ASSUME NEW d \in todo,
             \/ AddedApi(d) \/ AddedToSchema(d) \/ AddedElsewhere(d)
             \/ RemovedApi(d) \/ ModifiedApi(d) \/ SkippedEdit(d) \/ ChangedParams(d) \/ Die(d)
      PROVE  Inv'
  BY <1>3, AddedApiStep, AddedToSchemaStep, AddedElsewhereStep, RemovedApiStep,
     ModifiedApiStep, SkippedEditStep, ChangedParamsStep, DieStep
<1> QED BY <1>1, <1>2, <1>3 DEF Next

\* Every variable has its type, and no difference is left when the list ends.
THEOREM TypeCorrect == Spec => []TypeOK
<1>1. Inv => TypeOK
  BY DEF Inv
<1> QED BY <1>1, InitInv, StepInv, PTL DEF Spec

\* A row names an API on whose path something changed, or one that may return a
\* schema whose name contains that of one that grew (createApiChanges,
\* oas-version-manage.ts:285-359).
THEOREM GroundedCorrect == Spec => []Grounded
<1>1. Inv => Grounded
  BY DEF Inv
<1> QED BY <1>1, InitInv, StepInv, PTL DEF Spec

-----------------------------------------------------------------------------
(* What a complete list says, and what ends a run                          *)

\* Whatever happened to a schema makes a difference.
LEMMA SchemaListed ==
    ASSUME NEW p, NEW n
    PROVE  /\ \A s \in Schemas(n) \ Schemas(p) :
                 Difference("N", "schema", <<s>>, 0) \in Differences(p, n)
           /\ \A s \in Schemas(p) \ Schemas(n) :
                 Difference("D", "schema", <<s>>, 0) \in Differences(p, n)
           /\ \A s \in Schemas(p) \cap Schemas(n) :
                 /\ \A x \in DOMAIN n.schema[s].type \ DOMAIN p.schema[s].type :
                       Difference("N", "properties", <<s, x>>, 0) \in Differences(p, n)
                 /\ \A x \in DOMAIN p.schema[s].type \ DOMAIN n.schema[s].type :
                       Difference("D", "properties", <<s, x>>, 0) \in Differences(p, n)
                 /\ \A x \in DOMAIN p.schema[s].type \cap DOMAIN n.schema[s].type :
                       p.schema[s].type[x] # n.schema[s].type[x] =>
                          Difference("E", "properties", <<s, x>>, 0) \in Differences(p, n)
                 /\ RequiredDifferences(s, p.schema[s].required, n.schema[s].required)
                       \subseteq Differences(p, n)
<1>1. SchemaDifferences(p, n) \subseteq Differences(p, n)
  BY DEF Differences
<1>2. /\ \A s \in Schemas(n) \ Schemas(p) :
            Difference("N", "schema", <<s>>, 0) \in SchemaDifferences(p, n)
      /\ \A s \in Schemas(p) \ Schemas(n) :
            Difference("D", "schema", <<s>>, 0) \in SchemaDifferences(p, n)
  BY DEF SchemaDifferences
<1>3. ASSUME NEW s \in Schemas(p) \cap Schemas(n)
      PROVE  /\ \A x \in DOMAIN n.schema[s].type \ DOMAIN p.schema[s].type :
                   Difference("N", "properties", <<s, x>>, 0) \in SchemaDifferences(p, n)
             /\ \A x \in DOMAIN p.schema[s].type \ DOMAIN n.schema[s].type :
                   Difference("D", "properties", <<s, x>>, 0) \in SchemaDifferences(p, n)
             /\ \A x \in DOMAIN p.schema[s].type \cap DOMAIN n.schema[s].type :
                   p.schema[s].type[x] # n.schema[s].type[x] =>
                      Difference("E", "properties", <<s, x>>, 0) \in SchemaDifferences(p, n)
             /\ RequiredDifferences(s, p.schema[s].required, n.schema[s].required)
                   \subseteq SchemaDifferences(p, n)
  BY DEF SchemaDifferences
<1> QED BY <1>1, <1>2, <1>3

\* So does whatever happened to an operation or its parameters.
LEMMA ApiListed ==
    ASSUME NEW p \in Document, NEW n \in Document
    PROVE  /\ \A o \in Operations(n) \ Operations(p) :
                 IF Keys(p, o[1]) # {}
                 THEN Difference("N", "operation", o, 0) \in Differences(p, n)
                 ELSE Difference("N", "path", <<o[1]>>, 0) \in Differences(p, n)
           /\ \A o \in Operations(p) \ Operations(n) :
                 IF Keys(n, o[1]) # {}
                 THEN Difference("D", "operation", o, 0) \in Differences(p, n)
                 ELSE Difference("D", "path", <<o[1]>>, 0) \in Differences(p, n)
           /\ \A o \in Operations(p) \cap Operations(n) :
                 /\ Len(p.params[o]) # Len(n.params[o]) =>
                       \E i : Difference("A", "parameters", o, i) \in Differences(p, n)
                 /\ p.params[o] # n.params[o] =>
                       \E i : \/ Difference("A", "parameters", o, i) \in Differences(p, n)
                              \/ Difference("E", "name", o, i) \in Differences(p, n)
<1>1. \A o \in Operations(p) \cup Operations(n) : o[1] \in Path
  BY DocumentParts DEF Operation
<1>2. ASSUME NEW o \in Operations(n) \ Operations(p)
      PROVE  IF Keys(p, o[1]) # {}
             THEN Difference("N", "operation", o, 0) \in Differences(p, n)
             ELSE Difference("N", "path", <<o[1]>>, 0) \in Differences(p, n)
  <2>1. CASE Keys(p, o[1]) # {}
    BY <2>1 DEF Differences, OperationDifferences
  <2>2. CASE Keys(p, o[1]) = {}
    <3>1. o \in Keys(n, o[1])
      BY DEF Keys
    <3> QED BY <1>1, <2>2, <3>1 DEF Differences, PathDifferences
  <2> QED BY <2>1, <2>2
<1>3. ASSUME NEW o \in Operations(p) \ Operations(n)
      PROVE  IF Keys(n, o[1]) # {}
             THEN Difference("D", "operation", o, 0) \in Differences(p, n)
             ELSE Difference("D", "path", <<o[1]>>, 0) \in Differences(p, n)
  <2>1. CASE Keys(n, o[1]) # {}
    BY <2>1 DEF Differences, OperationDifferences
  <2>2. CASE Keys(n, o[1]) = {}
    <3>1. o \in Keys(p, o[1])
      BY DEF Keys
    <3> QED BY <1>1, <2>2, <3>1 DEF Differences, PathDifferences
  <2> QED BY <2>1, <2>2
<1>4. ASSUME NEW o \in Operations(p) \cap Operations(n)
      PROVE  /\ Len(p.params[o]) # Len(n.params[o]) =>
                   \E i : Difference("A", "parameters", o, i) \in Differences(p, n)
             /\ p.params[o] # n.params[o] =>
                   \E i : \/ Difference("A", "parameters", o, i) \in Differences(p, n)
                          \/ Difference("E", "name", o, i) \in Differences(p, n)
  <2>1. p.params[o] \in Seq(STRING) /\ n.params[o] \in Seq(STRING)
    BY DocumentParts, ListAssumption
  <2>2. ArrayDifferences(p.params[o], n.params[o], "parameters", "name", o)
           \subseteq Differences(p, n)
    BY DEF Differences, ParameterDifferences
  <2> QED BY <2>1, <2>2, ArrayListed
<1> QED BY <1>2, <1>3, <1>4

\* Of a list that is complete
LEMMA AllTold ==
    ASSUME Inv, pc = "done"
    PROVE  \A d \in Differences(previous, latest) : Told(d) /\ ~Deadly(d)
BY DEF Inv, TypeOK, ListOk

LEMMA OperationsReported ==
    ASSUME Inv, pc = "done",
           NEW o \in (Operations(previous) \ Operations(latest))
                     \cup (Operations(latest) \ Operations(previous))
    PROVE  IF Keys(previous, o[1]) # {} /\ Keys(latest, o[1]) # {}
           THEN \E r \in rows : r.api = o
           ELSE \E r \in rows : r.api[1] = o[1]
<1>1. \A k : /\ Difference(k, "operation", o, 0) \in Differences(previous, latest) =>
                   \E r \in rows : r.api = o
             /\ Difference(k, "path", <<o[1]>>, 0) \in Differences(previous, latest) =>
                   \E r \in rows : r.api[1] = o[1]
  BY AllTold DEF Told, Difference
<1>2. CASE o \in Operations(latest) \ Operations(previous)
  <2>1. IF Keys(previous, o[1]) # {}
        THEN Difference("N", "operation", o, 0) \in Differences(previous, latest)
        ELSE Difference("N", "path", <<o[1]>>, 0) \in Differences(previous, latest)
    BY <1>2, ApiListed DEF Inv, TypeOK
  <2>2. Keys(latest, o[1]) # {}
    BY <1>2 DEF Keys
  <2> QED BY <1>1, <2>1, <2>2
<1>3. CASE o \in Operations(previous) \ Operations(latest)
  <2>1. IF Keys(latest, o[1]) # {}
        THEN Difference("D", "operation", o, 0) \in Differences(previous, latest)
        ELSE Difference("D", "path", <<o[1]>>, 0) \in Differences(previous, latest)
    BY <1>3, ApiListed DEF Inv, TypeOK
  <2>2. Keys(previous, o[1]) # {}
    BY <1>3 DEF Keys
  <2> QED BY <1>1, <2>1, <2>2
<1> QED BY <1>2, <1>3

LEMMA ParametersReported ==
    ASSUME Inv, pc = "done", NEW o \in Operations(previous) \cap Operations(latest)
    PROVE  /\ Len(previous.params[o]) # Len(latest.params[o]) => \E r \in rows : r.api = o
           /\ previous.params[o] # latest.params[o] => \E r \in rows : r.api[1] = o[1]
<1>1. \A i : /\ Difference("A", "parameters", o, i) \in Differences(previous, latest) =>
                   \E r \in rows : r.api = o
             /\ Difference("E", "name", o, i) \in Differences(previous, latest) =>
                   \E r \in rows : r.api[1] = o[1]
  BY AllTold DEF Told, Difference
<1>2. /\ Len(previous.params[o]) # Len(latest.params[o]) =>
            \E i : Difference("A", "parameters", o, i) \in Differences(previous, latest)
      /\ previous.params[o] # latest.params[o] =>
            \E i : \/ Difference("A", "parameters", o, i) \in Differences(previous, latest)
                   \/ Difference("E", "name", o, i) \in Differences(previous, latest)
  BY ApiListed DEF Inv, TypeOK
<1> QED BY <1>1, <1>2

LEMMA SchemasReported ==
    ASSUME Inv, pc = "done", NEW s \in Schemas(latest),
           \/ s \notin Schemas(previous)
           \/ ~(DOMAIN latest.schema[s].type \subseteq DOMAIN previous.schema[s].type),
           NEW o \in Operations(latest), <<o, s>> \in Refers
    PROVE  \E r \in rows : r.api \in Operations(latest) /\ MayReturn(r.api, s)
<1>1. s \in Schema
  BY DocumentParts DEF Inv, TypeOK
<1>2. o \in Referencing(s)
  BY <1>1, WithinAssumption DEF Referencing
<1>3. \E d \in Differences(previous, latest) :
         InSchemas(d) /\ d.kind = "N" /\ d.at[1] = s
  <2>1. CASE s \notin Schemas(previous)
    <3>1. Difference("N", "schema", <<s>>, 0) \in Differences(previous, latest)
      BY <2>1, SchemaListed
    <3> QED BY <3>1 DEF Difference, InSchemas
  <2>2. CASE s \in Schemas(previous)
    <3>1. PICK x \in DOMAIN latest.schema[s].type : x \notin DOMAIN previous.schema[s].type
      BY <2>2
    <3>2. Difference("N", "properties", <<s, x>>, 0) \in Differences(previous, latest)
      BY <2>2, <3>1, SchemaListed
    <3> QED BY <3>2 DEF Difference, InSchemas
  <2> QED BY <2>1, <2>2
<1>4. \E r \in rows : r.api \in Referencing(s)
  BY <1>2, <1>3, AllTold DEF Told
<1> QED BY <1>4 DEF Referencing, MayReturn

\* A complete list says of every operation that came or went, of every one with
\* other parameters and of every schema that is new or has grown what Reported
\* asks for, whatever else changed (createApiChanges,
\* oas-version-manage.ts:271-359).
THEOREM ReportedCorrect == Spec => []Reported
<1>1. Inv => Reported
  <2> SUFFICES ASSUME Inv, pc = "done" PROVE Reported
    BY DEF Reported
  <2>1. \A o \in (Operations(previous) \ Operations(latest))
                 \cup (Operations(latest) \ Operations(previous)) :
           IF Keys(previous, o[1]) # {} /\ Keys(latest, o[1]) # {}
           THEN \E r \in rows : r.api = o
           ELSE \E r \in rows : r.api[1] = o[1]
    BY OperationsReported
  <2>2. \A o \in Operations(previous) \cap Operations(latest) :
           /\ Len(previous.params[o]) # Len(latest.params[o]) => \E r \in rows : r.api = o
           /\ previous.params[o] # latest.params[o] => \E r \in rows : r.api[1] = o[1]
    BY ParametersReported
  <2>3. \A s \in Schemas(latest) :
           \/ s \in Schemas(previous) /\ DOMAIN latest.schema[s].type
                                             \subseteq DOMAIN previous.schema[s].type
           \/ ~ \E o \in Operations(latest) : <<o, s>> \in Refers
           \/ \E r \in rows : r.api \in Operations(latest) /\ MayReturn(r.api, s)
    BY SchemasReported
  <2> QED BY <2>1, <2>2, <2>3 DEF Reported, Lists
<1> QED BY <1>1, InitInv, StepInv, PTL DEF Spec

LEMMA OnlyGrownAtEnd ==
    ASSUME Inv, pc = "done", NEW s \in Schemas(previous)
    PROVE  OnlyGrown(s)
<1> DEFINE p == previous
           n == latest
<1>1. \A d \in Differences(p, n) : ~Deadly(d)
  BY AllTold
<1>2. s \in Schemas(n)
  <2> SUFFICES ASSUME s \notin Schemas(n) PROVE FALSE
    OBVIOUS
  <2>1. Difference("D", "schema", <<s>>, 0) \in Differences(p, n)
    BY SchemaListed
  <2> QED BY <1>1, <2>1 DEF Difference, Deadly, InSchemas
<1>3. ASSUME NEW x \in DOMAIN p.schema[s].type
      PROVE  x \in DOMAIN n.schema[s].type /\ n.schema[s].type[x] = p.schema[s].type[x]
  <2>1. CASE x \notin DOMAIN n.schema[s].type
    <3>1. Difference("D", "properties", <<s, x>>, 0) \in Differences(p, n)
      BY <1>2, <2>1, SchemaListed
    <3> QED BY <1>1, <3>1 DEF Difference, Deadly, InSchemas
  <2>2. CASE /\ x \in DOMAIN n.schema[s].type
             /\ n.schema[s].type[x] # p.schema[s].type[x]
    <3>1. Difference("E", "properties", <<s, x>>, 0) \in Differences(p, n)
      BY <1>2, <2>2, SchemaListed
    <3> QED BY <1>1, <3>1 DEF Difference, Deadly, InSchemas
  <2> QED BY <2>1, <2>2
<1>4. ASSUME p.schema[s].required # {},
             Cardinality(p.schema[s].required) # Cardinality(n.schema[s].required)
      PROVE  FALSE
  <2> DEFINE old == p.schema[s].required
             new == n.schema[s].required
             d == Difference(IF old = {} THEN "N" ELSE IF new = {} THEN "D"
                             ELSE IF Cardinality(old) # Cardinality(new) THEN "A" ELSE "E",
                             "required", <<s>>, 0)
  <2>1. old # new
    BY <1>4
  <2>2. d \in RequiredDifferences(s, old, new)
    BY <2>1 DEF RequiredDifferences
  <2>3. d \in Differences(p, n)
    BY <1>2, <2>2, SchemaListed
  <2>4. d.part = "required" /\ d.kind \in {"D", "A"}
    BY <1>4 DEF Difference
  <2> HIDE DEF d
  <2> QED BY <1>1, <2>3, <2>4 DEF Deadly, InSchemas
<1> QED BY <1>2, <1>3, <1>4 DEF OnlyGrown

\* An operation that came or went alone has a listed method.
LEMMA ListedAtEnd ==
    ASSUME Inv, pc = "done", NEW o \in Moved
    PROVE  o[2] \in KnownMethod
<1>1. \A k : Difference(k, "operation", o, 0) \in Differences(previous, latest) => o[2] \in KnownMethod
  BY AllTold DEF Deadly, Difference
<1>2. CASE o \in Operations(latest) \ Operations(previous)
  <2>1. Difference("N", "operation", o, 0) \in Differences(previous, latest)
    BY <1>2, ApiListed DEF Inv, TypeOK, Moved
  <2> QED BY <1>1, <2>1
<1>3. CASE o \in Operations(previous) \ Operations(latest)
  <2>1. Difference("D", "operation", o, 0) \in Differences(previous, latest)
    BY <1>3, ApiListed DEF Inv, TypeOK, Moved
  <2> QED BY <1>1, <2>1
<1> QED BY <1>2, <1>3 DEF Moved

\* The entries of the rest are there, as long as they were.
LEMMA RestAtEnd ==
    ASSUME Inv, pc = "done", NEW x \in Entries(previous)
    PROVE  x \in Entries(latest) /\ Len(latest.rest[x]) = Len(previous.rest[x])
<1>1. \A d \in RestDifferences(previous, latest) : ~Deadly(d)
  BY AllTold DEF Differences
<1>2. \A k, i : Difference(k, "rest", <<x>>, i) \in RestDifferences(previous, latest)
                  => k \notin {"D", "A"}
  BY <1>1 DEF Deadly, Difference
<1>3. x \in Entries(latest)
  <2> SUFFICES ASSUME x \notin Entries(latest) PROVE FALSE
    OBVIOUS
  <2>1. Difference("D", "rest", <<x>>, 0) \in RestDifferences(previous, latest)
    BY DEF RestDifferences
  <2> QED BY <1>2, <2>1
<1>4. Len(latest.rest[x]) = Len(previous.rest[x])
  <2>1. previous.rest[x] \in Seq(STRING) /\ latest.rest[x] \in Seq(STRING)
    BY <1>3, DocumentParts, ListAssumption DEF Inv, TypeOK
  <2>2. ArrayDifferences(previous.rest[x], latest.rest[x], "rest", "rest", <<x>>)
           \subseteq RestDifferences(previous, latest)
    BY <1>3 DEF RestDifferences
  <2>3. \A i : Difference("A", "rest", <<x>>, i)
                 \notin ArrayDifferences(previous.rest[x], latest.rest[x], "rest", "rest", <<x>>)
    BY <1>2, <2>2
  <2> QED BY <2>1, <2>3, ArrayListed
<1> QED BY <1>3, <1>4

\* Which versions have a list of changes, for any two documents, whatever their
\* methods are called: the run dies when a schema has not only grown, when an
\* operation whose method is none of the four came to or went from a path that
\* stays, when an entry outside both went or changed its length, and comes to
\* its end only when none of it has happened (createApiChanges,
\* oas-version-manage.ts:285-359).
THEOREM DiesForCauseCorrect == Spec => []DiesForCause
<1>1. Inv => DiesForCause
  <2> SUFFICES ASSUME Inv PROVE DiesForCause
    OBVIOUS
  <2>1. pc = "died" => ~Survivable
    BY DeadlyMeaning DEF Inv, ListOk
  <2>2. pc = "done" => Survivable
    BY OnlyGrownAtEnd, ListedAtEnd, RestAtEnd DEF Survivable
  <2> QED BY <2>1, <2>2 DEF DiesForCause
<1> QED BY <1>1, InitInv, StepInv, PTL DEF Spec

-----------------------------------------------------------------------------
(* The sheets: the inductive invariant                                     *)

Sections ==
    {"basic", "header", "params", "query", "body", "responses", "border"}

\* the rows of a sheet, up to the end of each section
BasicRows  == Rows("basic", "heading", 11)
HeaderRows == BasicRows \o Rows("header", "heading", 2)
                        \o Rows("header", "Content-Type", 1)
                        \o Rows("header", "apiKey", IF Current.security THEN 1 ELSE 0)
ParamsRows == HeaderRows \o Rows("params", "heading", 2)
                         \o Rows("params", "param", Current.parameters)
QueryRows  == ParamsRows \o Rows("query", "heading", 2)
                         \o Rows("query", "param", Current.query)
BodyRows   == QueryRows \o Rows("body", "heading", 2)
                        \o Rows("body", "field", Cardinality(DOMAIN gathered))
ResponseRows == BodyRows \o Rows("responses", "heading", 2)
                         \o Rows("responses", "field", Len(fields))

\* The sheet has its sections up to the one that is written next.
RowsOk ==
    /\ stage \in Sections => api \in DOMAIN doc.apis
    /\ stage \in Sections \ {"basic"} => rowNum = Len(sheet)
    /\ stage = "basic" => rowNum = 0 /\ Len(sheet) = 1
    /\ stage = "header" => sheet = BasicRows
    /\ stage = "params" => sheet = HeaderRows
    /\ stage = "query" => sheet = ParamsRows
    /\ stage = "body" => sheet = QueryRows
    /\ stage = "responses" => sheet = BodyRows
    /\ stage = "border" => sheet = ResponseRows

\* An object that is no property keeps its list.
ListsOk == \A n \in Node : Owners(n) = {} => mark[n] = "list"

\* What has been gathered are properties, each under its name.
GatheredOk ==
    \A n \in Node : \A k \in DOMAIN gathered :
        gathered[k] = n =>
            \E p \in Owners(n) : k \in DOMAIN Properties(p) /\ Properties(p)[k] = n

\* What the column Required says of the property n of p.
Said(p, n) == IF Owners(p) = {} THEN Declared(p, n) ELSE "false"

\* The properties of an object are marked as it says, in the body when it was
\* the last, in the responses as long as they are to be walked through.
BodyMarksOk ==
    stage = "body" =>
        \A n \in Range(gathered) : \A p \in Owners(n) :
            last = p /\ Owners(p) = {} => mark[n] = Declared(p, n)

WorkMarksOk ==
    stage = "responses" =>
        \A n \in Node : \A p \in Owners(n) : \A i \in DOMAIN work :
            work[i].node = n => mark[n] = Said(p, n)

\* So are the rows of those that have been.
FieldMarksOk ==
    \A n \in Node : \A i \in DOMAIN fields :
        fields[i].node = n =>
            /\ Owners(n) = {} => fields[i].required = "list"
            /\ \A p \in Owners(n) : fields[i].required = Said(p, n)

TypeInv ==
    /\ doc \in Documents
    /\ SheetTypeOK
    /\ IsFiniteSet(DOMAIN gathered)
    /\ RowsOk

MarksOk == ListsOk /\ GatheredOk /\ BodyMarksOk /\ WorkMarksOk /\ FieldMarksOk

SheetInv == TypeInv /\ MarksOk

-----------------------------------------------------------------------------
(* Rows                                                                    *)

RowSet == [section : SectionName, item : ItemName]

LEMMA RowsType ==
    ASSUME NEW section \in SectionName, NEW item \in ItemName, NEW n \in Nat
    PROVE  Rows(section, item, n) \in Seq(RowSet) /\ Len(Rows(section, item, n)) = n
<1>1. Rows(section, item, n) \in [1 .. n -> RowSet]
  BY DEF Rows, Row, RowSet
<1>2. ASSUME NEW f \in [1 .. n -> RowSet] PROVE f \in Seq(RowSet) /\ Len(f) = n
  <2>1. f \in Seq(RowSet)
    BY SeqDef
  <2> QED BY <2>1, LenProperties
<1> QED BY <1>1, <1>2

\* What is put below the last row, or over all rows, and what is inserted below
\* that, is joined to the rows above.
LEMMA PutBelow ==
    ASSUME NEW s \in Seq(RowSet), NEW h \in Seq(RowSet)
    PROVE  Put(s, Len(s), h) = s \o h
<1>1. Len(s) \in Nat /\ Len(h) \in Nat
  OBVIOUS
<1>2. DOMAIN Put(s, Len(s), h) = 1 .. Len(s) + Len(h)
  BY <1>1 DEF Put
<1>3. ASSUME NEW i \in 1 .. Len(s) + Len(h)
      PROVE  Put(s, Len(s), h)[i] = IF i <= Len(s) THEN s[i] ELSE h[i - Len(s)]
  BY <1>1, <1>2, <1>3 DEF Put
<1>4. Put(s, Len(s), h) = [i \in 1 .. Len(s) + Len(h) |->
                              IF i <= Len(s) THEN s[i] ELSE h[i - Len(s)]]
  <2>1. Put(s, Len(s), h) = [i \in 1 .. Len(s) + Len(h) |-> Put(s, Len(s), h)[i]]
    BY <1>2 DEF Put
  <2> QED BY <1>3, <2>1
<1>5. \A i \in 1 .. Len(s) + Len(h) :
          (IF i <= Len(s) THEN s[i] ELSE h[i - Len(s)]) \in RowSet
  BY <1>1
<1>6. Put(s, Len(s), h) \in [1 .. Len(s) + Len(h) -> RowSet]
  BY <1>4, <1>5
<1>7. Put(s, Len(s), h) \in Seq(RowSet) /\ Len(Put(s, Len(s), h)) = Len(s) + Len(h)
  BY <1>1, <1>6
<1> QED BY <1>3, <1>7, ConcatProperties, SeqEqual

LEMMA PutOver ==
    ASSUME NEW s \in Seq(RowSet), NEW h \in Seq(RowSet), Len(s) <= Len(h)
    PROVE  Put(s, 0, h) = h
<1>1. Len(s) \in Nat /\ Len(h) \in Nat
  OBVIOUS
<1>2. Put(s, 0, h) = [i \in 1 .. Len(h) |-> h[i]]
  BY <1>1 DEF Put
<1> QED BY <1>2

LEMMA InsertBelow ==
    ASSUME NEW s \in Seq(RowSet), NEW rs \in Seq(RowSet)
    PROVE  Insert(s, Len(s), rs) = s \o rs
<1>1. SubSeq(s, 1, Len(s)) = s
  BY SubSeqFull
<1>2. SubSeq(s, Len(s) + 1, Len(s)) = <<>>
  BY SubSeqEmpty
<1>3. (s \o rs) \o <<>> = s \o rs
  BY ConcatProperties, ConcatEmptySeq
<1> QED BY <1>1, <1>2, <1>3 DEF Insert

\* A section is joined to the sections before it.
LEMMA SectionJoins ==
    ASSUME SheetTypeOK, rowNum = Len(sheet),
           NEW section \in SectionName, NEW n \in Nat, NEW rs \in Seq(RowSet),
           Section(section, n, rs)
    PROVE  /\ sheet' = sheet \o Rows(section, "heading", n) \o rs
           /\ sheet' \in Seq(RowSet)
           /\ rowNum' = Len(sheet')
<1> DEFINE h == Rows(section, "heading", n)
<1>1. sheet \in Seq(RowSet)
  BY DEF SheetTypeOK, RowSet
<1>2. h \in Seq(RowSet) /\ Len(h) = n
  <2>1. "heading" \in ItemName
    BY DEF ItemName
  <2> QED BY <2>1, RowsType
<1>3. sheet' = Insert(Put(sheet, rowNum, h), rowNum + n, rs) /\ rowNum' = rowNum + n + Len(rs)
  BY DEF Section
<1> HIDE DEF h
<1>4. Put(sheet, rowNum, h) = sheet \o h
  BY <1>1, <1>2, PutBelow
<1>5. sheet \o h \in Seq(RowSet) /\ Len(sheet \o h) = rowNum + n
  BY <1>1, <1>2, ConcatProperties
<1>6. sheet' = sheet \o h \o rs
  BY <1>3, <1>4, <1>5, InsertBelow
<1>7. sheet \o h \o rs \in Seq(RowSet) /\ Len(sheet \o h \o rs) = rowNum + n + Len(rs)
  BY <1>5, ConcatProperties
<1> QED BY <1>3, <1>6, <1>7 DEF h

-----------------------------------------------------------------------------
(* Documents                                                               *)

LEMMA DocParts ==
    ASSUME doc \in Documents
    PROVE  /\ doc.shape \in [Node -> Shape]
           /\ WellFormed(doc)
           /\ doc.apis \in Seq(Api)
BY DocumentsAssumption

LEMMA ShapeParts ==
    ASSUME doc \in Documents, NEW n \in Node
    PROVE  /\ doc.shape[n].kind \in {"leaf", "$ref", "allOf", "array", "object"}
           /\ doc.shape[n].next \in Seq(Node)
           /\ doc.shape[n].key \in Seq(STRING)
           /\ doc.shape[n].required \in SUBSET STRING
BY DocParts DEF Shape

LEMMA CurrentApi ==
    ASSUME doc \in Documents, api \in DOMAIN doc.apis
    PROVE  /\ Current.parameters \in Nat
           /\ Current.query \in Nat
           /\ Current.body \in Node \cup {NoNode}
           /\ Current.responses \in Seq(Node)
<1>1. doc.apis[api] \in Api
  BY DocParts, LenProperties
<1> QED BY <1>1 DEF Current, Api

\* The properties of an object are what follows it, each by its key.
LEMMA ObjectProperties ==
    ASSUME doc \in Documents, NEW p \in Node, doc.shape[p].kind = "object"
    PROVE  /\ DOMAIN doc.shape[p].key = DOMAIN doc.shape[p].next
           /\ DOMAIN Properties(p) = Range(doc.shape[p].key)
           /\ \A i \in DOMAIN doc.shape[p].next :
                 /\ doc.shape[p].key[i] \in DOMAIN Properties(p)
                 /\ Properties(p)[doc.shape[p].key[i]] = doc.shape[p].next[i]
           /\ \A k \in DOMAIN Properties(p) : \E i \in DOMAIN doc.shape[p].next :
                 k = doc.shape[p].key[i]
           /\ DOMAIN Properties(p) \subseteq STRING
           /\ IsFiniteSet(DOMAIN Properties(p))
<1> DEFINE key == doc.shape[p].key
           next == doc.shape[p].next
<1>1. DOMAIN key = DOMAIN next /\ IsInjective(key)
  BY DocParts DEF WellFormed
<1>2. key \in Seq(STRING)
  BY ShapeParts
<1>3. Properties(p) = [k \in {key[i] : i \in DOMAIN key} |->
                          next[CHOOSE i \in DOMAIN key : key[i] = k]]
  BY DEF Properties
<1>4. DOMAIN Properties(p) = {key[i] : i \in DOMAIN key}
  BY <1>3
<1> HIDE DEF key, next
<1>5. ASSUME NEW i \in DOMAIN next
      PROVE  key[i] \in DOMAIN Properties(p) /\ Properties(p)[key[i]] = next[i]
  <2>1. (CHOOSE j \in DOMAIN key : key[j] = key[i]) = i
    BY <1>1 DEF IsInjective
  <2> QED BY <1>1, <1>3, <1>4, <2>1
<1>6. DOMAIN Properties(p) = Range(key)
  BY <1>4 DEF Range
<1>7. DOMAIN Properties(p) \subseteq STRING
  <2>1. \A i \in DOMAIN key : key[i] \in STRING
    BY <1>2, LenProperties
  <2> QED BY <1>4, <2>1
<1>8. IsFiniteSet(DOMAIN Properties(p))
  <2>1. Len(key) \in Nat /\ DOMAIN key = 1 .. Len(key)
    BY <1>2, LenProperties
  <2>2. IsFiniteSet(DOMAIN key)
    BY <2>1, FS_Interval
  <2>3. key \in Surjection(DOMAIN key, Range(key))
    BY <1>2, <2>1 DEF Range, Surjection
  <2> QED BY <1>6, <2>2, <2>3, FS_Surjection
<1>9. \A k \in DOMAIN Properties(p) : \E i \in DOMAIN next : k = key[i]
  BY <1>1, <1>4
<1> QED BY <1>1, <1>5, <1>6, <1>7, <1>8, <1>9 DEF key, next

LEMMA OneOwner ==
    ASSUME doc \in Documents, NEW n \in Node, NEW p \in Owners(n), NEW q \in Node,
           n \in Range(doc.shape[q].next)
    PROVE  p = q
<1>1. PICK i \in DOMAIN doc.shape[p].next : doc.shape[p].next[i] = n
  BY DEF Owners, Range
<1>2. PICK j \in DOMAIN doc.shape[q].next : doc.shape[q].next[j] = n
  BY DEF Range
<1>3. p \in Node /\ doc.shape[p].kind = "object"
  BY DEF Owners
<1> QED BY <1>1, <1>2, <1>3, DocParts DEF WellFormed

\* A property has one name in its object.
LEMMA OneName ==
    ASSUME doc \in Documents, NEW n \in Node, NEW p \in Owners(n)
    PROVE  /\ NameIn(p, n) \in DOMAIN Properties(p)
           /\ Properties(p)[NameIn(p, n)] = n
           /\ \A k \in DOMAIN Properties(p) : Properties(p)[k] = n => k = NameIn(p, n)
<1>1. PICK i \in DOMAIN doc.shape[p].next : doc.shape[p].next[i] = n
  BY DEF Owners, Range
<1>2. p \in Node /\ doc.shape[p].kind = "object"
  BY DEF Owners
<1>3. \A j \in DOMAIN doc.shape[p].next : doc.shape[p].next[j] = n => j = i
  BY <1>1, <1>2, DocParts DEF WellFormed
<1>4. doc.shape[p].key[i] \in DOMAIN Properties(p) /\ Properties(p)[doc.shape[p].key[i]] = n
  BY <1>1, <1>2, ObjectProperties
<1>5. \A k \in DOMAIN Properties(p) : Properties(p)[k] = n => k = doc.shape[p].key[i]
  BY <1>2, <1>3, ObjectProperties
<1>6. NameIn(p, n) = doc.shape[p].key[i]
  BY <1>2, <1>4, <1>5, ObjectProperties DEF NameIn
<1> QED BY <1>4, <1>5, <1>6

\* A node below one that is no object is no property.
LEMMA BelowUnowned ==
    ASSUME doc \in Documents, NEW h \in Node, doc.shape[h].kind # "object",
           NEW c \in Range(doc.shape[h].next)
    PROVE  c \in Node /\ Owners(c) = {}
<1>1. c \in Node
  BY ShapeParts, RangeOfSeq
<1>2. \A p \in Owners(c) : p = h
  BY <1>1, OneOwner
<1>3. \A p \in Owners(c) : doc.shape[p].kind = "object"
  BY DEF Owners
<1> QED BY <1>1, <1>2, <1>3

\* Bodies and responses are no properties.
LEMMA PlacesUnowned ==
    ASSUME doc \in Documents, api \in DOMAIN doc.apis
    PROVE  /\ Owners(Current.body) = {}
           /\ \A r \in Range(Current.responses) : r \in Node /\ Owners(r) = {}
<1>1. \A n : Owners(n) # {} =>
        n # doc.apis[api].body /\ n \notin Range(doc.apis[api].responses)
  <2> SUFFICES ASSUME NEW n, NEW p \in Owners(n)
               PROVE  n \notin ({doc.apis[api].body} \cup Range(doc.apis[api].responses))
    OBVIOUS
  <2>1. p \in Node /\ doc.shape[p].kind = "object" /\ n \in Range(doc.shape[p].next)
    BY DEF Owners
  <2> QED BY <2>1, DocParts DEF WellFormed
<1>2. Current.responses \in Seq(Node)
  BY CurrentApi
<1>3. \A r \in Range(Current.responses) : r \in Node
  BY <1>2, RangeOfSeq
<1> QED BY <1>1, <1>3 DEF Current

-----------------------------------------------------------------------------
(* Marks                                                                   *)

LEMMA SameShapes ==
    ASSUME doc' = doc
    PROVE  /\ \A n : Owners(n)' = Owners(n)
           /\ \A p : Properties(p)' = Properties(p)
           /\ \A p, n : NameIn(p, n)' = NameIn(p, n)
           /\ \A p, n : Declared(p, n)' = Declared(p, n)
           /\ \A p, n : Said(p, n)' = Said(p, n)
<1>1. ASSUME NEW n PROVE Owners(n)' = Owners(n)
  BY DEF Owners
<1>2. ASSUME NEW p PROVE Properties(p)' = Properties(p)
  BY DEF Properties
<1>3. ASSUME NEW p, NEW n PROVE NameIn(p, n)' = NameIn(p, n)
  BY <1>2 DEF NameIn
<1>4. ASSUME NEW p, NEW n PROVE Declared(p, n)' = Declared(p, n)
  BY <1>3 DEF Declared
<1>5. ASSUME NEW p, NEW n PROVE Said(p, n)' = Said(p, n)
  BY <1>1, <1>4 DEF Said
<1> QED BY <1>1, <1>2, <1>3, <1>4, <1>5

\* Steps outside the walks.
LEMMA MarksSame ==
    ASSUME MarksOk, UNCHANGED <<doc, mark, gathered, last, fields>>,
           stage' \notin {"body", "responses"}
    PROVE  MarksOk'
<1>1. ListsOk'
  BY SameShapes DEF MarksOk, ListsOk
<1>2. GatheredOk'
  BY SameShapes DEF MarksOk, GatheredOk
<1>3. BodyMarksOk' /\ WorkMarksOk'
  BY DEF BodyMarksOk, WorkMarksOk
<1>4. FieldMarksOk'
  BY SameShapes DEF MarksOk, FieldMarksOk
<1> QED BY <1>1, <1>2, <1>3, <1>4 DEF MarksOk

-----------------------------------------------------------------------------
(* The stack of calls                                                      *)

LEMMA FrameParts ==
    ASSUME NEW f \in Frame
    PROVE  /\ f.node \in Node /\ f.name \in Seq(STRING) /\ f.array \in BOOLEAN
           /\ f.answer \in Nat /\ f.way \in Seq(Node) /\ Len(f.way) \in 1 .. MaxCalls
BY DEF Frame

LEMMA HeadIsFrame ==
    ASSUME SheetTypeOK, work # <<>>
    PROVE  /\ Head(work) = work[1]
           /\ 1 \in DOMAIN work
           /\ Head(work) \in Frame
           /\ Head(work).node \in Node
           /\ Head(work).name \in Seq(STRING)
           /\ Head(work).array \in BOOLEAN
           /\ Head(work).answer \in Nat
           /\ Head(work).way \in Seq(Node)
           /\ Len(Head(work).way) \in 1 .. MaxCalls
           /\ Tail(work) \in Seq(Frame)
           /\ \A i \in DOMAIN Tail(work) : i + 1 \in DOMAIN work /\ Tail(work)[i] = work[i + 1]
<1>1. work \in Seq(Frame)
  BY DEF SheetTypeOK
<1>2. Len(work) \in Nat \ {0} /\ DOMAIN work = 1 .. Len(work)
  BY <1>1, EmptySeq, LenProperties
<1>3. Head(work) = work[1]
  BY <1>1
<1>4. Head(work) \in Frame /\ Tail(work) \in Seq(Frame) /\ Len(Tail(work)) = Len(work) - 1
  BY <1>1, HeadTailProperties
<1>5. DOMAIN Tail(work) = 1 .. Len(work) - 1
  BY <1>4, LenProperties
<1>6. \A i \in DOMAIN Tail(work) : Tail(work)[i] = work[i + 1]
  BY <1>1, <1>4, <1>5, HeadTailProperties
<1>7. /\ Head(work).node \in Node /\ Head(work).name \in Seq(STRING)
      /\ Head(work).array \in BOOLEAN /\ Head(work).answer \in Nat
      /\ Head(work).way \in Seq(Node) /\ Len(Head(work).way) \in 1 .. MaxCalls
  <2>1. Head(work) \in Frame
    BY <1>4
  <2> QED BY <2>1, FrameParts
<1> QED BY <1>2, <1>3, <1>4, <1>5, <1>6, <1>7

\* Names for what follows the first node.
Names == [DOMAIN doc.shape[Head(work).node].next -> Seq(STRING)]

LEMMA NamesBelow ==
    ASSUME doc \in Documents, SheetTypeOK, work # <<>>
    PROVE  /\ SameName \in Names
           /\ Visiting("object") => PropertyNames \in Names
<1>1. Head(work).node \in Node /\ Head(work).name \in Seq(STRING)
  BY HeadIsFrame
<1>2. SameName \in Names
  BY <1>1 DEF SameName, Names
<1>3. ASSUME Visiting("object") PROVE PropertyNames \in Names
  <2> DEFINE s == doc.shape[Head(work).node]
  <2>1. DOMAIN s.key = DOMAIN s.next
    BY <1>1, <1>3, ObjectProperties DEF Visiting
  <2>2. \A i \in DOMAIN s.next : s.key[i] \in STRING
    BY <1>1, <2>1, ShapeParts, LenProperties
  <2>3. \A i \in DOMAIN s.next : Append(Head(work).name, s.key[i]) \in Seq(STRING)
    BY <1>1, <2>2, AppendProperties
  <2> QED BY <2>3 DEF PropertyNames, Names
<1> QED BY <1>2, <1>3

LEMMA BelowParts ==
    ASSUME NEW names, NEW array
    PROVE  LET h    == Head(work)
               next == doc.shape[h.node].next
           IN  /\ DOMAIN Below(names, array) = DOMAIN next
               /\ \A i \in DOMAIN next :
                     /\ Below(names, array)[i].node = next[i]
                     /\ Below(names, array)[i].name = names[i]
                     /\ Below(names, array)[i].array = array
                     /\ Below(names, array)[i].answer = h.answer
                     /\ Below(names, array)[i].way = Append(h.way, next[i])
<1> DEFINE h    == Head(work)
           next == doc.shape[h.node].next
           F(i) == [node |-> next[i], name |-> names[i], array |-> array,
                    answer |-> h.answer, way |-> Append(h.way, next[i])]
<1>1. Below(names, array) = [i \in DOMAIN next |-> F(i)]
  BY DEF Below
<1>2. \A i : /\ F(i).node = next[i] /\ F(i).name = names[i] /\ F(i).array = array
             /\ F(i).answer = h.answer /\ F(i).way = Append(h.way, next[i])
  OBVIOUS
<1> HIDE DEF next, F
<1>3. /\ DOMAIN Below(names, array) = DOMAIN next
      /\ \A i \in DOMAIN next : Below(names, array)[i] = F(i)
  BY <1>1
<1> HIDE DEF h
<1> QED BY <1>2, <1>3 DEF next, h

LEMMA FramesBelow ==
    ASSUME doc \in Documents, SheetTypeOK, work # <<>>, Len(Head(work).way) < MaxCalls,
           NEW names \in Names, NEW array \in BOOLEAN
    PROVE  Below(names, array) \in Seq(Frame)
<1> DEFINE next == doc.shape[Head(work).node].next
           F(i) == [node |-> next[i], name |-> names[i], array |-> array,
                    answer |-> Head(work).answer, way |-> Append(Head(work).way, next[i])]
<1>1. /\ Head(work).node \in Node /\ Head(work).answer \in Nat
      /\ Head(work).way \in Seq(Node) /\ Len(Head(work).way) \in 1 .. MaxCalls
  BY HeadIsFrame
<1>2. next \in Seq(Node)
  BY <1>1, ShapeParts
<1>3. Len(next) \in Nat /\ DOMAIN next = 1 .. Len(next) /\ next \in [1 .. Len(next) -> Node]
  BY <1>2, LenProperties
<1>4. \A n \in Node : /\ Append(Head(work).way, n) \in Seq(Node)
                        /\ Len(Append(Head(work).way, n)) \in 1 .. MaxCalls
  <2>1. \A n \in Node : /\ Append(Head(work).way, n) \in Seq(Node)
                          /\ Len(Append(Head(work).way, n)) = Len(Head(work).way) + 1
    BY <1>1, AppendProperties
  <2> QED BY <1>1, <2>1, CallsAssumption
<1>5. Below(names, array) = [i \in DOMAIN next |-> F(i)]
  BY DEF Below
<1>6. \A i \in DOMAIN next : F(i) \in Frame
  <2>1. \A i \in DOMAIN next : next[i] \in Node /\ names[i] \in Seq(STRING)
    BY <1>3 DEF Names
  <2>2. \A i \in DOMAIN next : /\ Append(Head(work).way, next[i]) \in Seq(Node)
                               /\ Len(Append(Head(work).way, next[i])) \in 1 .. MaxCalls
    BY <1>4, <2>1
  <2> HIDE DEF next
  <2> QED BY <1>1, <2>1, <2>2 DEF Frame
<1> HIDE DEF next, F
<1>7. Below(names, array) \in [1 .. Len(next) -> Frame]
  BY <1>3, <1>5, <1>6
<1> QED BY <1>3, <1>7, SeqDef

\* What a call leaves to be walked through.
LEMMA CallType ==
    ASSUME doc \in Documents, SheetTypeOK, work # <<>>,
           NEW names \in Names, NEW array \in BOOLEAN,
           NEW frames, frames = Below(names, array) \/ frames = <<>>, Call(frames)
    PROVE  /\ work' \in Seq(Frame)
           /\ \/ stage' = "died" /\ work' = work
              \/ /\ stage' = stage
                 /\ frames \in Seq(Frame)
                 /\ work' = frames \o Tail(work)
<1>1. Tail(work) \in Seq(Frame) /\ work \in Seq(Frame)
  BY HeadIsFrame DEF SheetTypeOK
<1>2. CASE Len(Head(work).way) >= MaxCalls /\ frames # <<>>
  BY <1>1, <1>2 DEF Call
<1>3. CASE ~(Len(Head(work).way) >= MaxCalls /\ frames # <<>>)
  <2>1. frames \in Seq(Frame)
    <3>1. CASE frames = <<>>
      BY <3>1, EmptySeq
    <3>2. CASE frames # <<>>
      <4>1. Len(Head(work).way) < MaxCalls
        BY <1>3, <3>2, HeadIsFrame, CallsAssumption
      <4> QED BY <3>2, <4>1, FramesBelow
    <3> QED BY <3>1, <3>2
  <2>2. stage' = stage /\ work' = frames \o Tail(work)
    BY <1>3 DEF Call
  <2> QED BY <1>1, <2>1, <2>2, ConcatProperties
<1> QED BY <1>2, <1>3

\* A frame that waits after a call is below the first one, or it waited before.
LEMMA FramesAt ==
    ASSUME doc \in Documents, SheetTypeOK, work # <<>>,
           NEW frames \in Seq(Frame), work' = frames \o Tail(work)
    PROVE  /\ Len(frames) \in Nat /\ DOMAIN frames = 1 .. Len(frames)
           /\ \A i \in DOMAIN work' :
                 /\ i \in Nat
                 /\ i <= Len(frames) => i \in DOMAIN frames /\ work'[i] = frames[i]
                 /\ ~(i <= Len(frames)) =>
                       /\ i - Len(frames) + 1 \in DOMAIN work /\ i - Len(frames) + 1 # 1
                       /\ work'[i] = work[i - Len(frames) + 1]
<1>1. Tail(work) \in Seq(Frame)
  BY HeadIsFrame
<1>2. /\ Len(frames) \in Nat /\ DOMAIN frames = 1 .. Len(frames)
      /\ Len(Tail(work)) \in Nat /\ DOMAIN Tail(work) = 1 .. Len(Tail(work))
  BY <1>1, LenProperties
<1>3. DOMAIN work' = 1 .. Len(frames) + Len(Tail(work))
  BY <1>1, ConcatProperties, LenProperties
<1> SUFFICES ASSUME NEW i \in DOMAIN work'
             PROVE  /\ i \in Nat
                    /\ i <= Len(frames) => i \in DOMAIN frames /\ work'[i] = frames[i]
                    /\ ~(i <= Len(frames)) =>
                          /\ i - Len(frames) + 1 \in DOMAIN work /\ i - Len(frames) + 1 # 1
                          /\ work'[i] = work[i - Len(frames) + 1]
  BY <1>2
<1>4. work'[i] = IF i <= Len(frames) THEN frames[i] ELSE Tail(work)[i - Len(frames)]
  BY <1>1, <1>3, ConcatProperties
<1>5. i \in Nat
  BY <1>2, <1>3
<1>6. CASE i <= Len(frames)
  BY <1>2, <1>3, <1>4, <1>5, <1>6
<1>7. CASE ~(i <= Len(frames))
  <2>1. i - Len(frames) \in DOMAIN Tail(work) /\ i - Len(frames) + 1 # 1
    BY <1>2, <1>3, <1>7
  <2> QED BY <1>4, <1>5, <1>7, <2>1, HeadIsFrame
<1> QED BY <1>6, <1>7

LEMMA FramesAfter ==
    ASSUME doc \in Documents, SheetTypeOK, work # <<>>,
           NEW frames \in Seq(Frame), work' = frames \o Tail(work)
    PROVE  \A i \in DOMAIN work' :
             \/ \E j \in DOMAIN frames : work'[i] = frames[j]
             \/ \E j \in DOMAIN work : j # 1 /\ work'[i] = work[j]
BY FramesAt

-----------------------------------------------------------------------------
(* Types and rows                                                          *)

\* A step of a walk keeps them when what it changes has its type.
LEMMA WalkTypes ==
    ASSUME TypeInv, UNCHANGED <<doc, api, layout>>,
           stage \in {"body", "responses"}, stage' \in {stage, "died"},
           mark' \in [Node -> {"list", "true", "false"}], work' \in Seq(Frame),
           \/ UNCHANGED gathered
           \/ /\ stage = "body" /\ DOMAIN gathered' \subseteq STRING
              /\ Range(gathered') \subseteq Node /\ IsFiniteSet(DOMAIN gathered'),
           last' \in Node \cup {NoNode}, fields' \in Seq(Field)
    PROVE  TypeInv'
<1>1. SheetTypeOK'
  BY DEF TypeInv, SheetTypeOK, layout, Field
<1>2. CASE stage = "body"
  <2>1. RowsOk'
    BY <1>2 DEF TypeInv, RowsOk, layout, QueryRows, ParamsRows, HeaderRows, BasicRows, Rows, Row,
                Current, Sections
  <2> QED BY <1>1, <2>1 DEF TypeInv
<1>3. CASE stage = "responses"
  <2>1. gathered' = gathered
    BY <1>3
  <2>2. BodyRows' = BodyRows
    BY <2>1 DEF BodyRows, QueryRows, ParamsRows, HeaderRows, BasicRows, Rows, Row, Current
  <2>3. RowsOk'
    BY <1>3, <2>2 DEF TypeInv, RowsOk, layout, Sections
  <2> QED BY <1>1, <2>1, <2>3 DEF TypeInv
<1> QED BY <1>2, <1>3

LEMMA SetRequiredType ==
    ASSUME SheetTypeOK, NEW properties, NEW n, SetRequired(properties, n)
    PROVE  mark' \in [Node -> {"list", "true", "false"}]
<1>1. \A m \in Node : mark[m] \in {"list", "true", "false"}
  BY DEF SheetTypeOK
<1> QED BY <1>1 DEF SetRequired

\* A step that begins or ends a sheet.
LEMMA BetweenTypes ==
    ASSUME TypeInv, CreateApiList \/ AddWorksheet \/ CreateOuterBorder
    PROVE  TypeInv'
<1> USE DEF TypeInv, RowsOk, Sections
<1>1. CASE CreateApiList
  <2>1. SheetTypeOK'
    BY <1>1 DEF CreateApiList, SheetTypeOK, Stay, layout, walk
  <2>2. UNCHANGED <<doc, gathered>> /\ stage' \in {"died", "sheet"}
    BY <1>1 DEF CreateApiList, Stay, walk
  <2> QED BY <2>1, <2>2
<1>2. CASE CreateOuterBorder
  <2>1. SheetTypeOK'
    BY <1>2 DEF CreateOuterBorder, SheetTypeOK, Stay, layout, walk
  <2>2. UNCHANGED <<doc, gathered>> /\ stage' = "sheet"
    BY <1>2 DEF CreateOuterBorder, Stay, walk
  <2> QED BY <2>1, <2>2
<1>3. CASE AddWorksheet /\ api < Len(doc.apis)
  <2>1. /\ api' = api + 1 /\ sheet' = <<Row("columns", "heading")>> /\ rowNum' = 0
        /\ stage' = "basic" /\ UNCHANGED <<doc, mark, walk>>
    BY <1>3 DEF AddWorksheet
  <2>2. Len(doc.apis) \in Nat /\ DOMAIN doc.apis = 1 .. Len(doc.apis)
    BY DocParts, LenProperties
  <2>3. api' \in 0 .. Len(doc.apis) /\ api' \in DOMAIN doc.apis
    BY <1>3, <2>1, <2>2 DEF SheetTypeOK
  <2>4. sheet' \in Seq([section : SectionName, item : ItemName]) /\ Len(sheet') = 1
    BY <2>1 DEF Row, SectionName, ItemName
  <2>5. SheetTypeOK'
    BY <2>1, <2>3, <2>4 DEF SheetTypeOK, walk
  <2> QED BY <2>1, <2>3, <2>4, <2>5 DEF walk
<1>4. CASE AddWorksheet /\ ~(api < Len(doc.apis))
  <2>1. stage' = "written" /\ UNCHANGED <<doc, mark, api, layout, walk>>
    BY <1>4 DEF AddWorksheet
  <2>2. SheetTypeOK'
    BY <2>1 DEF SheetTypeOK, layout, walk
  <2> QED BY <2>1, <2>2 DEF walk
<1> QED BY <1>1, <1>2, <1>3, <1>4

LEMMA BasicTypes ==
    ASSUME TypeInv, BasicSection
    PROVE  TypeInv'
<1> DEFINE h == Rows("basic", "heading", 11)
<1>1. rowNum = 0 /\ Len(sheet) = 1 /\ sheet \in Seq(RowSet) /\ api \in DOMAIN doc.apis
  BY DEF BasicSection, TypeInv, RowsOk, Sections, SheetTypeOK, RowSet
<1>2. h \in Seq(RowSet) /\ Len(h) = 11
  BY RowsType DEF SectionName, ItemName
<1>3. /\ sheet' = Insert(Put(sheet, rowNum, h), rowNum + 11, <<>>)
      /\ rowNum' = rowNum + 11 + Len(<<>>) /\ stage' = "header"
      /\ UNCHANGED <<doc, mark, api, walk>>
  BY DEF BasicSection, Section, Stay
<1> HIDE DEF h
<1>4. Put(sheet, 0, h) = h
  BY <1>1, <1>2, PutOver
<1>5. <<>> \in Seq(RowSet) /\ Len(<<>>) = 0
  BY EmptySeq
<1>6. sheet' = Insert(h, Len(h), <<>>) /\ rowNum' = 11
  BY <1>1, <1>2, <1>3, <1>4, <1>5
<1>7. sheet' = h
  BY <1>2, <1>5, <1>6, InsertBelow, ConcatEmptySeq
<1>8. sheet' \in Seq(RowSet) /\ rowNum' \in 0 .. Len(sheet') /\ Len(sheet') = 11
  <2>1. sheet' \in Seq(RowSet) /\ Len(sheet') = 11
    BY <1>2, <1>7
  <2>2. 11 \in 0 .. 11
    OBVIOUS
  <2>3. rowNum' = 11
    BY <1>6
  <2> QED BY <2>1, <2>2, <2>3
<1>9. stage' = "header" /\ UNCHANGED <<doc, mark, api, walk>>
  BY <1>3
<1>10. SheetTypeOK'
  BY <1>8, <1>9 DEF TypeInv, SheetTypeOK, RowSet, walk
<1>11. RowsOk'
  BY <1>1, <1>6, <1>7, <1>8, <1>9 DEF RowsOk, BasicRows, h, Sections
<1> QED BY <1>9, <1>10, <1>11 DEF TypeInv, walk

\* A section below another one.
LEMMA SectionTypes ==
    ASSUME TypeInv, stage \in Sections \ {"basic"}, UNCHANGED <<doc, mark, api, gathered>>,
           NEW section \in SectionName, NEW rs \in Seq(RowSet), Section(section, 2, rs),
           stage' \in Sections \ {"basic"}, work' \in Seq(Frame),
           last' \in Node \cup {NoNode}, fields' \in Seq(Field)
    PROVE  /\ sheet' = sheet \o Rows(section, "heading", 2) \o rs
           /\ SheetTypeOK'
           /\ api' \in DOMAIN doc'.apis
           /\ rowNum' = Len(sheet')
<1>1. SheetTypeOK /\ rowNum = Len(sheet) /\ api \in DOMAIN doc.apis
  BY DEF TypeInv, RowsOk
<1>2. /\ sheet' = sheet \o Rows(section, "heading", 2) \o rs
      /\ sheet' \in Seq(RowSet) /\ rowNum' = Len(sheet')
  BY <1>1, SectionJoins
<1>3. rowNum' \in 0 .. Len(sheet')
  BY <1>2, LenProperties
<1>4. SheetTypeOK'
  BY <1>1, <1>2, <1>3 DEF SheetTypeOK, RowSet, Field, Sections
<1> QED BY <1>1, <1>2, <1>4

\* The sections before stay what they are.
LEMMA RowsStay ==
    ASSUME UNCHANGED <<doc, api>>
    PROVE  /\ BasicRows' = BasicRows /\ HeaderRows' = HeaderRows
           /\ ParamsRows' = ParamsRows /\ QueryRows' = QueryRows
           /\ UNCHANGED gathered => BodyRows' = BodyRows
           /\ UNCHANGED <<gathered, fields>> => ResponseRows' = ResponseRows
<1>1. Current' = Current
  BY DEF Current
<1>2. BasicRows' = BasicRows
  BY DEF BasicRows, Rows, Row
<1>3. HeaderRows' = HeaderRows
  BY <1>1, <1>2 DEF HeaderRows, Rows, Row
<1>4. ParamsRows' = ParamsRows
  BY <1>1, <1>3 DEF ParamsRows, Rows, Row
<1>5. QueryRows' = QueryRows
  BY <1>1, <1>4 DEF QueryRows, Rows, Row
<1>6. UNCHANGED gathered => BodyRows' = BodyRows
  BY <1>5 DEF BodyRows, Rows, Row
<1>7. UNCHANGED <<gathered, fields>> => ResponseRows' = ResponseRows
  BY <1>6 DEF ResponseRows, Rows, Row
<1> QED BY <1>2, <1>3, <1>4, <1>5, <1>6, <1>7

LEMMA HeaderTypes ==
    ASSUME TypeInv, HeaderSection
    PROVE  TypeInv'
<1> DEFINE a == Rows("header", "Content-Type", 1)
           b == Rows("header", "apiKey", IF Current.security THEN 1 ELSE 0)
           h == Rows("header", "heading", 2)
<1>1. /\ stage = "header" /\ stage' = "params" /\ Section("header", 2, a \o b)
      /\ UNCHANGED <<doc, mark, api, walk>>
  BY DEF HeaderSection, Stay
<1>2. a \in Seq(RowSet) /\ b \in Seq(RowSet) /\ h \in Seq(RowSet)
  BY RowsType DEF SectionName, ItemName
<1>3. sheet = BasicRows /\ sheet \in Seq(RowSet)
  BY <1>1 DEF TypeInv, RowsOk, SheetTypeOK, RowSet
<1> HIDE DEF a, b, h
<1>4. a \o b \in Seq(RowSet)
  BY <1>2, ConcatProperties
<1>5. /\ sheet' = sheet \o Rows("header", "heading", 2) \o (a \o b)
      /\ SheetTypeOK' /\ api' \in DOMAIN doc'.apis /\ rowNum' = Len(sheet')
  <2>1. /\ "header" \in SectionName /\ stage \in Sections \ {"basic"}
        /\ stage' \in Sections \ {"basic"} /\ UNCHANGED <<doc, mark, api, gathered>>
        /\ work' \in Seq(Frame) /\ last' \in Node \cup {NoNode} /\ fields' \in Seq(Field)
    BY <1>1 DEF SectionName, Sections, walk, TypeInv, SheetTypeOK, Field
  <2> QED BY <1>1, <1>4, <2>1, SectionTypes
<1>6. (sheet \o h) \o (a \o b) = sheet \o h \o a \o b
  <2>1. sheet \o h \in Seq(RowSet)
    BY <1>2, <1>3, ConcatProperties
  <2>2. \A x \in Seq(RowSet) : (x \o a) \o b = x \o (a \o b)
    BY <1>2, ConcatAssociative
  <2> QED BY <2>1, <2>2
<1>7. sheet' = HeaderRows
  BY <1>3, <1>5, <1>6 DEF HeaderRows, a, b, h
<1>8. sheet' = HeaderRows'
  BY <1>1, <1>7, RowsStay
<1>9. RowsOk'
  BY <1>1, <1>5, <1>8 DEF RowsOk, Sections
<1> QED BY <1>1, <1>5, <1>9 DEF TypeInv, walk

LEMMA ParamsTypes ==
    ASSUME TypeInv, ParamsSection
    PROVE  TypeInv'
<1> DEFINE rs == Rows("params", "param", Current.parameters)
<1>1. /\ stage = "params" /\ stage' = "query" /\ Section("params", 2, rs)
      /\ UNCHANGED <<doc, mark, api, walk>>
  BY DEF ParamsSection, Stay
<1>2. rs \in Seq(RowSet)
  <2>1. api \in DOMAIN doc.apis
    BY <1>1 DEF TypeInv, RowsOk, Sections
  <2> QED BY <2>1, CurrentApi, RowsType DEF SectionName, ItemName, TypeInv
<1> HIDE DEF rs
<1>3. /\ sheet' = sheet \o Rows("params", "heading", 2) \o rs
      /\ SheetTypeOK' /\ api' \in DOMAIN doc'.apis /\ rowNum' = Len(sheet')
  <2>1. /\ "params" \in SectionName /\ stage \in Sections \ {"basic"}
        /\ stage' \in Sections \ {"basic"} /\ UNCHANGED <<doc, mark, api, gathered>>
        /\ work' \in Seq(Frame) /\ last' \in Node \cup {NoNode} /\ fields' \in Seq(Field)
    BY <1>1 DEF SectionName, Sections, walk, TypeInv, SheetTypeOK, Field
  <2> QED BY <1>1, <1>2, <2>1, SectionTypes
<1>4. sheet = HeaderRows
  BY <1>1 DEF TypeInv, RowsOk
<1>5. sheet' = ParamsRows'
  BY <1>1, <1>3, <1>4, RowsStay DEF ParamsRows, rs
<1>6. RowsOk'
  BY <1>1, <1>3, <1>5 DEF RowsOk, Sections
<1> QED BY <1>1, <1>3, <1>6 DEF TypeInv, walk

LEMMA QueryTypes ==
    ASSUME TypeInv, QuerySection
    PROVE  TypeInv'
<1> DEFINE rs == Rows("query", "param", Current.query)
<1>1. /\ stage = "query" /\ stage' = "body" /\ Section("query", 2, rs)
      /\ UNCHANGED <<doc, mark, api, fields>> /\ gathered' = <<>> /\ last' = NoNode
      /\ work' = IF Current.body = NoNode THEN <<>>
                 ELSE <<[node |-> Current.body, name |-> <<>>, array |-> FALSE,
                         answer |-> 0, way |-> <<Current.body>>]>>
  BY DEF QuerySection, Stay
<1>2. Current.query \in Nat /\ Current.body \in Node \cup {NoNode}
  BY <1>1, CurrentApi DEF TypeInv, RowsOk, Sections
<1>3. rs \in Seq(RowSet)
  BY <1>2, RowsType DEF SectionName, ItemName
<1> HIDE DEF rs
<1>4. work' \in Seq(Frame)
  <2>1. CASE Current.body = NoNode
    BY <1>1, <2>1, EmptySeq
  <2>2. CASE Current.body # NoNode
    <3> DEFINE f == [node |-> Current.body, name |-> <<>>, array |-> FALSE,
                   answer |-> 0, way |-> <<Current.body>>]
    <3>1. 1 \in 1 .. MaxCalls /\ <<>> \in Seq(STRING)
      BY CallsAssumption, EmptySeq
    <3>2. <<Current.body>> \in Seq(Node) /\ Len(<<Current.body>>) = 1 /\ 0 \in Nat
      BY <1>2, <2>2
    <3>3. f \in Frame
      BY <1>2, <2>2, <3>1, <3>2 DEF Frame
    <3> HIDE DEF f
    <3>4. <<f>> \in Seq(Frame)
      BY <3>3
    <3> QED BY <1>1, <2>2, <3>4 DEF f
  <2> QED BY <2>1, <2>2
<1>5. DOMAIN gathered' = {} /\ Range(gathered') = {}
  BY <1>1 DEF Range
<1>6. /\ SheetTypeOK /\ rowNum = Len(sheet) /\ api \in DOMAIN doc.apis /\ sheet = ParamsRows
  BY <1>1 DEF TypeInv, RowsOk, Sections
<1>7. /\ sheet' = sheet \o Rows("query", "heading", 2) \o rs
      /\ sheet' \in Seq(RowSet) /\ rowNum' = Len(sheet')
  BY <1>1, <1>3, <1>6, SectionJoins DEF SectionName
<1>8. rowNum' \in 0 .. Len(sheet')
  BY <1>7, LenProperties
<1>9. SheetTypeOK'
  BY <1>1, <1>4, <1>5, <1>6, <1>7, <1>8 DEF SheetTypeOK, RowSet
<1>10. sheet' = QueryRows'
  BY <1>1, <1>6, <1>7, RowsStay DEF QueryRows, rs
<1>11. RowsOk'
  BY <1>1, <1>6, <1>7, <1>10 DEF RowsOk, Sections
<1>12. IsFiniteSet(DOMAIN gathered')
  BY <1>5, FS_EmptySet
<1> QED BY <1>1, <1>9, <1>11, <1>12 DEF TypeInv

LEMMA BodyTypes ==
    ASSUME TypeInv, BodySection
    PROVE  TypeInv'
<1> DEFINE rs == Rows("body", "field", Cardinality(DOMAIN gathered))
           frames == [i \in DOMAIN Current.responses |->
                        [node |-> Current.responses[i], name |-> <<>>, array |-> FALSE,
                         answer |-> i, way |-> <<Current.responses[i]>>]]
<1>1. /\ stage = "body" /\ stage' = "responses" /\ Section("body", 2, rs)
      /\ UNCHANGED <<doc, mark, api, gathered, last>> /\ fields' = <<>> /\ work' = frames
  BY DEF BodySection, Stay
<1>2. rs \in Seq(RowSet)
  BY FS_CardinalityType, RowsType DEF SectionName, ItemName, TypeInv
<1>3. work' \in Seq(Frame)
  <2>1. Current.responses \in Seq(Node)
    BY <1>1, CurrentApi DEF TypeInv, RowsOk, Sections
  <2>2. /\ Len(Current.responses) \in Nat
        /\ DOMAIN Current.responses = 1 .. Len(Current.responses)
        /\ \A i \in DOMAIN Current.responses : Current.responses[i] \in Node
    BY <2>1, LenProperties
  <2>3. 1 \in 1 .. MaxCalls /\ <<>> \in Seq(STRING)
    BY CallsAssumption, EmptySeq
  <2>4. \A n \in Node : <<n>> \in Seq(Node) /\ Len(<<n>>) = 1
    OBVIOUS
  <2>5. \A i \in DOMAIN Current.responses : i \in Nat
    BY <2>2
  <2>6. frames \in [1 .. Len(Current.responses) -> Frame]
    BY <2>2, <2>3, <2>4, <2>5 DEF Frame
  <2> HIDE DEF frames
  <2> QED BY <1>1, <2>2, <2>6, SeqDef
<1> HIDE DEF rs, frames
<1>4. /\ sheet' = sheet \o Rows("body", "heading", 2) \o rs
      /\ SheetTypeOK' /\ api' \in DOMAIN doc'.apis /\ rowNum' = Len(sheet')
  <2>1. fields' \in Seq(Field)
    BY <1>1, EmptySeq
  <2>2. /\ "body" \in SectionName /\ stage \in Sections \ {"basic"}
        /\ stage' \in Sections \ {"basic"} /\ UNCHANGED <<doc, mark, api, gathered>>
        /\ last' \in Node \cup {NoNode}
    BY <1>1 DEF SectionName, Sections, TypeInv, SheetTypeOK
  <2> QED BY <1>1, <1>2, <1>3, <2>1, <2>2, SectionTypes
<1>5. sheet = QueryRows
  BY <1>1 DEF TypeInv, RowsOk
<1>6. sheet' = BodyRows'
  BY <1>1, <1>4, <1>5, RowsStay DEF BodyRows, rs
<1>7. RowsOk'
  BY <1>1, <1>4, <1>6 DEF RowsOk, Sections
<1> QED BY <1>1, <1>4, <1>7 DEF TypeInv

LEMMA ResponseTypes ==
    ASSUME TypeInv, ResponseSection
    PROVE  TypeInv'
<1> DEFINE rs == Rows("responses", "field", Len(fields))
<1>1. /\ stage = "responses" /\ stage' = "border" /\ Section("responses", 2, rs)
      /\ UNCHANGED <<doc, mark, api, walk>>
  BY DEF ResponseSection, Stay
<1>2. rs \in Seq(RowSet)
  <2>1. Len(fields) \in Nat
    BY DEF TypeInv, SheetTypeOK
  <2> QED BY <2>1, RowsType DEF SectionName, ItemName
<1> HIDE DEF rs
<1>3. /\ sheet' = sheet \o Rows("responses", "heading", 2) \o rs
      /\ SheetTypeOK' /\ api' \in DOMAIN doc'.apis /\ rowNum' = Len(sheet')
  <2>1. /\ "responses" \in SectionName /\ stage \in Sections \ {"basic"}
        /\ stage' \in Sections \ {"basic"} /\ UNCHANGED <<doc, mark, api, gathered>>
        /\ work' \in Seq(Frame) /\ last' \in Node \cup {NoNode} /\ fields' \in Seq(Field)
    BY <1>1 DEF SectionName, Sections, walk, TypeInv, SheetTypeOK, Field
  <2> QED BY <1>1, <1>2, <2>1, SectionTypes
<1>4. sheet = BodyRows
  BY <1>1 DEF TypeInv, RowsOk
<1>5. sheet' = ResponseRows
  BY <1>3, <1>4 DEF ResponseRows, rs
<1>6. sheet' = ResponseRows'
  BY <1>1, <1>5, RowsStay DEF walk
<1>7. RowsOk'
  BY <1>1, <1>3, <1>6 DEF RowsOk, Sections
<1> QED BY <1>1, <1>3, <1>7 DEF TypeInv, walk

-----------------------------------------------------------------------------
(* The walks                                                               *)

LEMMA PushTypes ==
    ASSUME SheetTypeOK, NEW f \in Frame, PushField(f) \/ UNCHANGED fields
    PROVE  fields' \in Seq(Field)
<1>1. fields \in Seq(Field)
  BY DEF SheetTypeOK, Field
<1>2. CASE UNCHANGED fields
  BY <1>1, <1>2
<1>3. CASE ~UNCHANGED fields
  <2> DEFINE r == [name |-> f.name, node |-> f.node, required |-> mark[f.node],
                   answer |-> f.answer, way |-> f.way]
  <2>1. fields' = Append(fields, r)
    BY <1>3 DEF PushField
  <2>2. r \in Field
    BY DEF Field, Frame, SheetTypeOK
  <2> HIDE DEF r
  <2> QED BY <1>1, <2>1, <2>2, AppendProperties
<1> QED BY <1>2, <1>3

ResponseWalk == ResponseRef \/ ResponseAllOf \/ ResponseArray \/ ResponseObject \/ ResponseLeaf

LEMMA BodyLeadsOnTypes ==
    ASSUME TypeInv, BodyLeadsOn
    PROVE  TypeInv'
<1>1. /\ stage = "body" /\ work # <<>> /\ Call(Below(SameName, FALSE))
      /\ UNCHANGED <<doc, mark, api, layout, gathered, last, fields>>
  BY DEF BodyLeadsOn, Visiting, Stay
<1>2. work' \in Seq(Frame) /\ stage' \in {stage, "died"}
  BY <1>1, NamesBelow, CallType DEF TypeInv
<1>3. mark' \in [Node -> {"list", "true", "false"}] /\ last' \in Node \cup {NoNode}
      /\ fields' \in Seq(Field)
  BY <1>1 DEF TypeInv, SheetTypeOK, Field
<1> QED BY <1>1, <1>2, <1>3, WalkTypes

LEMMA ResponseWalkTypes ==
    ASSUME TypeInv, ResponseWalk
    PROVE  TypeInv'
<1>1. /\ stage = "responses" /\ work # <<>>
      /\ UNCHANGED <<doc, api, layout, gathered, last>>
  BY DEF ResponseWalk, ResponseRef, ResponseAllOf, ResponseArray, ResponseObject, ResponseLeaf,
         Visiting, Stay
<1>2. Head(work) \in Frame /\ Head(work).array \in BOOLEAN
  BY <1>1, HeadIsFrame DEF TypeInv
<1>3. work' \in Seq(Frame) /\ stage' \in {stage, "died"}
  <2>1. CASE ResponseRef
    BY <1>1, <1>2, <2>1, NamesBelow, CallType DEF TypeInv, ResponseRef
  <2>2. CASE ResponseAllOf
    BY <1>1, <1>2, <2>2, NamesBelow, CallType DEF TypeInv, ResponseAllOf
  <2>3. CASE ResponseArray
    BY <1>1, <2>3, NamesBelow, CallType DEF TypeInv, ResponseArray
  <2>4. CASE ResponseObject /\ UNCHANGED <<mark, work>> /\ stage' = "died"
    BY <2>4 DEF TypeInv, SheetTypeOK
  <2>5. CASE ResponseObject /\ Call(Below(PropertyNames, FALSE)) /\ Visiting("object")
    BY <1>1, <2>5, NamesBelow, CallType DEF TypeInv
  <2>6. CASE ResponseLeaf
    <3>1. SameName \in Names /\ Call(<<>>)
      BY <1>1, <2>6, NamesBelow DEF TypeInv, ResponseLeaf
    <3> QED BY <1>1, <3>1, CallType DEF TypeInv
  <2> QED BY <2>1, <2>2, <2>3, <2>4, <2>5, <2>6 DEF ResponseWalk, ResponseObject
<1>4. mark' \in [Node -> {"list", "true", "false"}]
  <2>1. CASE UNCHANGED mark
    BY <2>1 DEF TypeInv, SheetTypeOK
  <2>2. CASE ~UNCHANGED mark
    <3>1. SetRequired(Properties(Head(work).node), Head(work).node)
      BY <2>2 DEF ResponseWalk, ResponseRef, ResponseAllOf, ResponseArray, ResponseObject,
                  ResponseLeaf, Stay
    <3> QED BY <3>1, SetRequiredType DEF TypeInv
  <2> QED BY <2>1, <2>2
<1>5. fields' \in Seq(Field)
  <2>1. PushField(Head(work)) \/ UNCHANGED fields
    BY DEF ResponseWalk, ResponseRef, ResponseAllOf, ResponseArray, ResponseObject, ResponseLeaf
  <2> QED BY <1>2, <2>1, PushTypes DEF TypeInv
<1>6. last' \in Node \cup {NoNode}
  BY <1>1 DEF TypeInv, SheetTypeOK
<1> QED BY <1>1, <1>3, <1>4, <1>5, <1>6, WalkTypes

\* What is gathered from an object are its properties and nothing else.
LEMMA PropertyOwned ==
    ASSUME doc \in Documents, NEW h \in Node, doc.shape[h].kind = "object",
           NEW k \in DOMAIN Properties(h)
    PROVE  Properties(h)[k] \in Node /\ h \in Owners(Properties(h)[k])
<1>1. PICK i \in DOMAIN doc.shape[h].next : k = doc.shape[h].key[i]
  BY ObjectProperties
<1>2. Properties(h)[k] = doc.shape[h].next[i]
  BY <1>1, ObjectProperties
<1>3. doc.shape[h].next[i] \in Node
  BY ShapeParts, LenProperties
<1> QED BY <1>2, <1>3 DEF Owners, Range

LEMMA BodyObjectTypes ==
    ASSUME TypeInv, BodyObject
    PROVE  TypeInv'
<1> DEFINE h   == Head(work).node
           all == Assign(gathered, Properties(h))
<1>1. /\ stage = "body" /\ work # <<>> /\ doc.shape[h].kind = "object"
      /\ UNCHANGED <<doc, api, layout, fields>>
  BY DEF BodyObject, Visiting
<1>2. /\ SheetTypeOK /\ doc \in Documents /\ h \in Node /\ IsFiniteSet(DOMAIN gathered)
      /\ fields' \in Seq(Field)
  BY <1>1, HeadIsFrame DEF TypeInv, SheetTypeOK, Field
<1>3. CASE UNCHANGED <<mark, work, gathered, last>> /\ stage' = "died"
  <2>1. mark' \in [Node -> {"list", "true", "false"}] /\ last' \in Node \cup {NoNode}
        /\ work' \in Seq(Frame)
    BY <1>2, <1>3 DEF SheetTypeOK
  <2> QED BY <1>1, <1>2, <1>3, <2>1, WalkTypes
<1>4. CASE gathered' = all /\ last' = h /\ SetRequired(all, h) /\ Call(<<>>)
  <2>1. work' \in Seq(Frame) /\ stage' \in {stage, "died"}
    <3>1. SameName \in Names
      BY <1>1, <1>2, NamesBelow
    <3> QED BY <1>1, <1>2, <1>4, <3>1, CallType
  <2>2. mark' \in [Node -> {"list", "true", "false"}]
    BY <1>2, <1>4, SetRequiredType
  <2>3. DOMAIN all = DOMAIN gathered \cup DOMAIN Properties(h)
    BY DEF Assign
  <2>4. DOMAIN all \subseteq STRING /\ IsFiniteSet(DOMAIN all)
    <3>1. DOMAIN Properties(h) \subseteq STRING /\ IsFiniteSet(DOMAIN Properties(h))
      BY <1>1, <1>2, ObjectProperties
    <3>2. DOMAIN gathered \subseteq STRING
      BY <1>2 DEF SheetTypeOK
    <3>3. IsFiniteSet(DOMAIN gathered \cup DOMAIN Properties(h))
      BY <1>2, <3>1, FS_Union
    <3> QED BY <2>3, <3>1, <3>2, <3>3
  <2>5. \A k \in DOMAIN all :
          all[k] = IF k \in DOMAIN Properties(h) THEN Properties(h)[k] ELSE gathered[k]
    BY DEF Assign
  <2>6. \A k \in DOMAIN gathered : gathered[k] \in Node
    BY <1>2 DEF SheetTypeOK, Range
  <2> HIDE DEF all, h
  <2>7. Range(all) \subseteq Node
    BY <1>1, <1>2, <2>3, <2>5, <2>6, PropertyOwned DEF Range
  <2>8. last' \in Node \cup {NoNode}
    BY <1>2, <1>4
  <2> QED BY <1>1, <1>2, <1>4, <2>1, <2>2, <2>4, <2>7, <2>8, WalkTypes
<1> QED BY <1>3, <1>4 DEF BodyObject

\* An object gives its properties the marks it declares, if it has its list.
LEMMA MarkedByObject ==
    ASSUME doc \in Documents, NEW n \in Node, NEW p \in Owners(n),
           NEW properties, SetRequired(properties, p), NameIn(p, n) \in DOMAIN properties,
           \A k \in DOMAIN properties : properties[k] = n <=> k = NameIn(p, n)
    PROVE  mark'[n] = IF mark[p] = "list" THEN Declared(p, n) ELSE "false"
<1>1. {k \in DOMAIN properties : properties[k] = n} = {NameIn(p, n)}
  OBVIOUS
<1>2. RequiredList(p) = IF mark[p] = "list" THEN doc.shape[p].required ELSE {}
  BY DEF RequiredList
<1>3. mark'[n] = IF {NameIn(p, n)} \cap RequiredList(p) # {} THEN "true" ELSE "false"
  BY <1>1 DEF SetRequired
<1> QED BY <1>2, <1>3 DEF Declared

LEMMA Unmarked ==
    ASSUME NEW properties, NEW h, SetRequired(properties, h), NEW n \in Node,
           \A k \in DOMAIN properties : properties[k] # n
    PROVE  mark'[n] = mark[n]
<1>1. {k \in DOMAIN properties : properties[k] = n} = {}
  OBVIOUS
<1> QED BY <1>1 DEF SetRequired

LEMMA BodyLeadsOnMarks ==
    ASSUME SheetInv, BodyLeadsOn
    PROVE  MarksOk'
<1>1. /\ stage = "body" /\ UNCHANGED <<doc, mark, gathered, last, fields>>
      /\ stage' \in {"body", "died"}
  BY DEF BodyLeadsOn, Stay, Call
<1>2. ListsOk'
  BY <1>1, SameShapes DEF SheetInv, MarksOk, ListsOk
<1>3. GatheredOk'
  BY <1>1, SameShapes DEF SheetInv, MarksOk, GatheredOk
<1>4. BodyMarksOk'
  BY <1>1, SameShapes DEF SheetInv, MarksOk, BodyMarksOk
<1>5. WorkMarksOk'
  BY <1>1 DEF WorkMarksOk
<1>6. FieldMarksOk'
  BY <1>1, SameShapes DEF SheetInv, MarksOk, FieldMarksOk
<1> QED BY <1>2, <1>3, <1>4, <1>5, <1>6 DEF MarksOk

LEMMA BodyObjectMarks ==
    ASSUME SheetInv, BodyObject
    PROVE  MarksOk'
<1> DEFINE h   == Head(work).node
           all == Assign(gathered, Properties(h))
<1>1. /\ stage = "body" /\ work # <<>> /\ doc.shape[h].kind = "object"
      /\ UNCHANGED <<doc, api, layout, fields>>
  BY DEF BodyObject, Visiting
<1>2. doc \in Documents /\ h \in Node
  BY <1>1, HeadIsFrame DEF SheetInv, TypeInv
<1>3. CASE UNCHANGED <<mark, work, gathered, last>> /\ stage' = "died"
  BY <1>1, <1>3, MarksSame DEF SheetInv
<1>4. CASE gathered' = all /\ last' = h /\ SetRequired(all, h) /\ Call(<<>>)
  <2>1. stage' = "body"
    BY <1>1, <1>4 DEF Call
  <2>2. DOMAIN all = DOMAIN gathered \cup DOMAIN Properties(h)
    BY DEF Assign
  <2>3. \A k \in DOMAIN all :
          all[k] = IF k \in DOMAIN Properties(h) THEN Properties(h)[k] ELSE gathered[k]
    BY DEF Assign
  <2> HIDE DEF all, h
  <2>4. ASSUME NEW n \in Node, NEW k \in DOMAIN all, all[k] = n
        PROVE  \E p \in Owners(n) : k \in DOMAIN Properties(p) /\ Properties(p)[k] = n
    <3>1. CASE k \in DOMAIN Properties(h)
      BY <1>1, <1>2, <2>3, <2>4, <3>1, PropertyOwned
    <3>2. CASE k \notin DOMAIN Properties(h)
      BY <2>2, <2>3, <2>4, <3>2 DEF SheetInv, MarksOk, GatheredOk
    <3> QED BY <3>1, <3>2
  <2>5. ASSUME NEW n \in Node, Owners(n) = {}
        PROVE  mark'[n] = "list"
    <3>1. \A k \in DOMAIN all : all[k] # n
      BY <2>4, <2>5
    <3>2. mark'[n] = mark[n]
      BY <1>4, <3>1, Unmarked
    <3> QED BY <2>5, <3>2 DEF SheetInv, MarksOk, ListsOk
  <2>6. ASSUME NEW n \in Node, h \in Owners(n), Owners(h) = {}
        PROVE  mark'[n] = Declared(h, n)
    <3>1. mark[h] = "list"
      BY <1>2, <2>6 DEF SheetInv, MarksOk, ListsOk
    <3>2. /\ NameIn(h, n) \in DOMAIN Properties(h) /\ Properties(h)[NameIn(h, n)] = n
          /\ \A k \in DOMAIN Properties(h) : Properties(h)[k] = n => k = NameIn(h, n)
      BY <1>2, <2>6, OneName
    <3>3. NameIn(h, n) \in DOMAIN all /\ all[NameIn(h, n)] = n
      BY <2>2, <2>3, <3>2
    <3>4. ASSUME NEW k \in DOMAIN all, all[k] = n
          PROVE  k = NameIn(h, n)
      <4>1. PICK p \in Owners(n) : k \in DOMAIN Properties(p) /\ Properties(p)[k] = n
        BY <2>4, <3>4
      <4>2. n \in Range(doc.shape[p].next) /\ p \in Node
        BY DEF Owners
      <4>3. p = h
        BY <1>2, <2>6, <4>2, OneOwner
      <4> QED BY <3>2, <4>1, <4>3
    <3> QED BY <1>2, <1>4, <2>6, <3>1, <3>3, <3>4, MarkedByObject
  <2>7. ListsOk'
    BY <1>1, <2>5, SameShapes DEF ListsOk
  <2>8. GatheredOk'
    BY <1>1, <1>4, <2>4, SameShapes DEF GatheredOk
  <2>9. BodyMarksOk'
    <3>1. Range(all) \subseteq Node
      <4>1. TypeInv'
        BY BodyObjectTypes DEF SheetInv
      <4> QED BY <1>4, <4>1 DEF TypeInv, SheetTypeOK
    <3> QED BY <1>1, <1>4, <2>6, <3>1, SameShapes DEF BodyMarksOk
  <2>10. WorkMarksOk'
    BY <2>1 DEF WorkMarksOk
  <2>11. FieldMarksOk'
    BY <1>1, SameShapes DEF SheetInv, MarksOk, FieldMarksOk
  <2> QED BY <2>7, <2>8, <2>9, <2>10, <2>11 DEF MarksOk
<1> QED BY <1>3, <1>4 DEF BodyObject

\* The rows a response gets: that of the first frame is marked as it should be.
LEMMA FieldMarksKept ==
    ASSUME SheetInv, stage = "responses", work # <<>>, doc' = doc,
           PushField(Head(work)) \/ UNCHANGED fields
    PROVE  FieldMarksOk'
<1>1. FieldMarksOk /\ WorkMarksOk /\ fields \in Seq(Field)
  BY DEF SheetInv, MarksOk, TypeInv, SheetTypeOK, Field
<1>2. CASE UNCHANGED fields
  BY <1>1, <1>2, SameShapes DEF FieldMarksOk
<1>3. CASE ~UNCHANGED fields
  <2> DEFINE f == Head(work)
             r == [name |-> f.name, node |-> f.node, required |-> mark[f.node],
                   answer |-> f.answer, way |-> f.way]
  <2>1. f.name # <<>> /\ fields' = Append(fields, r)
    BY <1>3 DEF PushField
  <2>2. f = work[1] /\ 1 \in DOMAIN work /\ f \in Frame
    BY HeadIsFrame DEF SheetInv, TypeInv
  <2>3. r \in Field
    BY <2>2 DEF Field, Frame, SheetInv, TypeInv, SheetTypeOK
  <2>4. ASSUME NEW n \in Node, r.node = n
        PROVE  /\ Owners(n) = {} => r.required = "list"
               /\ \A p \in Owners(n) : r.required = Said(p, n)
    <3>1. f.node = n /\ r.required = mark[n]
      BY <2>4
    <3>2. Owners(n) = {} => mark[n] = "list"
      BY DEF SheetInv, MarksOk, ListsOk
    <3>3. \A p \in Owners(n) : mark[n] = Said(p, n)
      BY <1>1, <2>2, <3>1 DEF WorkMarksOk
    <3> QED BY <3>1, <3>2, <3>3
  <2> HIDE DEF r, f
  <2>5. ASSUME NEW i \in DOMAIN fields'
        PROVE  (i \in DOMAIN fields /\ fields'[i] = fields[i]) \/ fields'[i] = r
    <3>1. /\ Len(fields) \in Nat /\ DOMAIN fields = 1 .. Len(fields)
          /\ fields' \in Seq(Field) /\ Len(fields') = Len(fields) + 1
      BY <1>1, <2>1, <2>3, AppendProperties, LenProperties
    <3>2. DOMAIN fields' = 1 .. Len(fields) + 1
      BY <3>1, LenProperties
    <3>3. /\ \A j \in 1 .. Len(fields) : fields'[j] = fields[j]
          /\ fields'[Len(fields) + 1] = r
      BY <1>1, <2>1, <2>3, AppendProperties
    <3>4. i \in 1 .. Len(fields) \/ i = Len(fields) + 1
      BY <3>1, <3>2
    <3> QED BY <3>1, <3>3, <3>4
  <2>6. ASSUME NEW n \in Node, NEW i \in DOMAIN fields', fields'[i].node = n
        PROVE  /\ Owners(n) = {} => fields'[i].required = "list"
               /\ \A p \in Owners(n) : fields'[i].required = Said(p, n)
    BY <1>1, <2>4, <2>5, <2>6 DEF FieldMarksOk
  <2> QED BY <2>6, SameShapes DEF FieldMarksOk
<1> QED BY <1>2, <1>3

\* $ref, allOf and items lead to nodes that are no properties.
LEMMA NextOwned ==
    ASSUME doc \in Documents, NEW h \in Node, NEW i \in DOMAIN doc.shape[h].next,
           NEW p \in Owners(doc.shape[h].next[i])
    PROVE  p = h /\ doc.shape[h].kind = "object"
<1>1. doc.shape[h].next[i] \in Node /\ doc.shape[h].next[i] \in Range(doc.shape[h].next)
  BY ShapeParts, LenProperties DEF Range
<1>2. p = h
  BY <1>1, OneOwner
<1> QED BY <1>2 DEF Owners

LEMMA StackMarks ==
    ASSUME SheetInv, stage = "responses", work # <<>>, UNCHANGED doc,
           NEW names \in Names, NEW array \in BOOLEAN,
           NEW frames, frames = Below(names, array) \/ frames = <<>>, Call(frames),
           \A n \in Node : \A p \in Owners(n) :
              IF p = Head(work).node /\ doc.shape[p].kind = "object"
              THEN mark'[n] = Said(p, n) ELSE mark'[n] = mark[n]
    PROVE  WorkMarksOk'
<1> DEFINE h == Head(work).node
<1>1. /\ doc \in Documents /\ SheetTypeOK /\ h \in Node
  BY HeadIsFrame DEF SheetInv, TypeInv
<1>2. CASE stage' = "died"
  BY <1>2 DEF WorkMarksOk
<1>3. CASE stage' = stage /\ frames \in Seq(Frame) /\ work' = frames \o Tail(work)
  <2>1. ASSUME NEW n \in Node, NEW p \in Owners(n), NEW i \in DOMAIN work',
               work'[i].node = n
        PROVE  mark'[n] = Said(p, n)
    <3>1. CASE \E j \in DOMAIN frames : work'[i] = frames[j]
      <4>1. PICK j \in DOMAIN frames : work'[i] = frames[j]
        BY <3>1
      <4>2. frames = Below(names, array)
        <5>1. frames # <<>>
          BY <4>1
        <5> QED BY <5>1
      <4>3. j \in DOMAIN doc.shape[h].next /\ n = doc.shape[h].next[j]
        <5>1. DOMAIN frames = DOMAIN doc.shape[h].next
          BY <4>2, BelowParts
        <5>2. frames[j].node = doc.shape[h].next[j]
          BY <4>1, <4>2, <5>1, BelowParts
        <5> QED BY <2>1, <4>1, <5>1, <5>2
      <4>4. p = h /\ doc.shape[h].kind = "object"
        BY <1>1, <4>3, NextOwned
      <4> QED BY <2>1, <4>4
    <3>2. CASE \E j \in DOMAIN work : work'[i] = work[j]
      <4>1. mark[n] = Said(p, n)
        BY <2>1, <3>2 DEF SheetInv, MarksOk, WorkMarksOk
      <4> QED BY <2>1, <4>1
    <3> QED BY <1>1, <1>3, <3>1, <3>2, FramesAfter
  <2> QED BY <2>1, SameShapes DEF WorkMarksOk
<1>4. \/ stage' = "died"
      \/ stage' = stage /\ frames \in Seq(Frame) /\ work' = frames \o Tail(work)
  BY <1>1, CallType
<1> QED BY <1>2, <1>3, <1>4

\* What an object of a response does to the marks.
LEMMA ObjectMarks ==
    ASSUME doc \in Documents, ListsOk, NEW h \in Node, doc.shape[h].kind = "object",
           mark[h] = "true" => doc.shape[h].next = <<>>,
           \A p \in Owners(h) : mark[h] = Said(p, h),
           SetRequired(Properties(h), h)
    PROVE  /\ \A n \in Node : Owners(n) = {} => mark'[n] = mark[n]
           /\ \A n \in Node : \A p \in Owners(n) :
                 IF p = h THEN mark'[n] = Said(p, n) ELSE mark'[n] = mark[n]
<1>1. ASSUME NEW n \in Node, h \notin Owners(n)
      PROVE  mark'[n] = mark[n]
  <2>1. \A k \in DOMAIN Properties(h) : Properties(h)[k] # n
    BY <1>1, PropertyOwned
  <2> QED BY <2>1, Unmarked
<1>2. ASSUME NEW n \in Node, h \in Owners(n)
      PROVE  mark'[n] = Said(h, n)
  <2>1. mark[h] # "true"
    <3>1. DOMAIN <<>> = {}
      OBVIOUS
    <3>2. doc.shape[h].next # <<>>
      BY <1>2, <3>1 DEF Owners, Range
    <3> QED BY <3>2
  <2>2. mark[h] = "list" <=> Owners(h) = {}
    <3>1. \A p \in Owners(h) : Said(p, h) # "list"
      BY DEF Said, Declared
    <3> QED BY <3>1 DEF ListsOk
  <2>3. /\ NameIn(h, n) \in DOMAIN Properties(h)
        /\ \A k \in DOMAIN Properties(h) : Properties(h)[k] = n <=> k = NameIn(h, n)
    BY <1>2, OneName
  <2>4. mark'[n] = IF mark[h] = "list" THEN Declared(h, n) ELSE "false"
    BY <1>2, <2>3, MarkedByObject
  <2> QED BY <2>2, <2>4 DEF Said
<1>3. \A n \in Node : \A p \in Owners(n) : h \in Owners(n) => p = h
  <2>1. \A n \in Node : \A p \in Owners(n) : p \in Node /\ n \in Range(doc.shape[p].next)
    BY DEF Owners
  <2> QED BY <2>1, OneOwner
<1> QED BY <1>1, <1>2, <1>3

LEMMA ResponseWalkMarks ==
    ASSUME SheetInv, ResponseWalk
    PROVE  MarksOk'
<1> DEFINE h == Head(work).node
<1>1. /\ stage = "responses" /\ work # <<>>
      /\ UNCHANGED <<doc, api, layout, gathered, last>>
      /\ PushField(Head(work)) \/ UNCHANGED fields
  BY DEF ResponseWalk, ResponseRef, ResponseAllOf, ResponseArray, ResponseObject, ResponseLeaf,
         Visiting, Stay
<1>2. /\ doc \in Documents /\ SheetTypeOK /\ h \in Node /\ Head(work).array \in BOOLEAN
      /\ ListsOk /\ GatheredOk
  BY <1>1, HeadIsFrame DEF SheetInv, TypeInv, MarksOk
<1>3. stage' \in {"responses", "died"}
  BY <1>1 DEF ResponseWalk, ResponseRef, ResponseAllOf, ResponseArray, ResponseObject, ResponseLeaf,
              Call
<1>4. FieldMarksOk'
  BY <1>1, FieldMarksKept
<1>5. BodyMarksOk'
  BY <1>3 DEF BodyMarksOk
<1>6. GatheredOk'
  BY <1>1, <1>2, SameShapes DEF GatheredOk
<1> HIDE DEF h
<1>7. ListsOk' /\ WorkMarksOk'
  <2>1. CASE UNCHANGED mark /\ stage' = "died"
    <3>1. ListsOk'
      BY <1>1, <1>2, <2>1, SameShapes DEF ListsOk
    <3> QED BY <2>1, <3>1 DEF WorkMarksOk
  <2>2. CASE /\ UNCHANGED mark /\ doc.shape[h].kind # "object"
             /\ \E array \in BOOLEAN : \E frames :
                   /\ frames = Below(SameName, array) \/ frames = <<>>
                   /\ Call(frames)
    <3>1. ListsOk'
      BY <1>1, <1>2, <2>2, SameShapes DEF ListsOk
    <3>2. PICK array \in BOOLEAN :
            \E frames : (frames = Below(SameName, array) \/ frames = <<>>) /\ Call(frames)
      BY <2>2
    <3>3. SameName \in Names
      BY <1>1, <1>2, NamesBelow
    <3>4. PICK frames : (frames = Below(SameName, array) \/ frames = <<>>) /\ Call(frames)
      BY <3>2
    <3> QED BY <1>1, <2>2, <3>1, <3>3, <3>4, StackMarks DEF h
  <2>3. CASE /\ SetRequired(Properties(h), h) /\ doc.shape[h].kind = "object"
             /\ Call(Below(PropertyNames, FALSE))
             /\ mark[h] = "true" => doc.shape[h].next = <<>>
    <3>0. \A p \in Owners(h) : mark[h] = Said(p, h)
      <4>1. WorkMarksOk /\ 1 \in DOMAIN work /\ work[1].node = h
        BY <1>1, <1>2, HeadIsFrame DEF SheetInv, MarksOk, h
      <4> QED BY <1>1, <1>2, <4>1 DEF WorkMarksOk
    <3>1. /\ \A n \in Node : Owners(n) = {} => mark'[n] = mark[n]
          /\ \A n \in Node : \A p \in Owners(n) :
                IF p = h THEN mark'[n] = Said(p, n) ELSE mark'[n] = mark[n]
      BY <1>2, <2>3, <3>0, ObjectMarks
    <3>2. ListsOk'
      BY <1>1, <1>2, <3>1, SameShapes DEF ListsOk
    <3>3. PropertyNames \in Names
      BY <1>1, <1>2, <2>3, NamesBelow DEF Visiting, h
    <3>4. WorkMarksOk'
      BY <1>1, <2>3, <3>1, <3>3, StackMarks DEF h
    <3> QED BY <3>2, <3>4
  <2>4. CASE ResponseObject
    BY <2>1, <2>3, <2>4 DEF ResponseObject, Visiting, h
  <2>5. CASE ResponseLeaf
    <3>1. doc.shape[h].kind # "object" /\ UNCHANGED mark /\ Call(<<>>)
      BY <2>5 DEF ResponseLeaf, Visiting, Stay, h
    <3> QED BY <2>2, <3>1
  <2>6. CASE ResponseRef \/ ResponseAllOf
    <3>1. /\ doc.shape[h].kind # "object" /\ UNCHANGED mark
          /\ Call(Below(SameName, Head(work).array))
      BY <2>6 DEF ResponseRef, ResponseAllOf, Visiting, Stay, h
    <3> QED BY <1>2, <2>2, <3>1
  <2>7. CASE ResponseArray
    <3>1. doc.shape[h].kind # "object" /\ UNCHANGED mark /\ Call(Below(SameName, TRUE))
      BY <2>7 DEF ResponseArray, Visiting, Stay, h
    <3> QED BY <2>2, <3>1
  <2> QED BY <2>4, <2>5, <2>6, <2>7 DEF ResponseWalk
<1> QED BY <1>4, <1>5, <1>6, <1>7 DEF MarksOk

\* A walk begins with nothing gathered, or at nodes that are no properties.
LEMMA WalkBegins ==
    ASSUME SheetInv, QuerySection \/ BodySection
    PROVE  MarksOk'
<1>1. /\ UNCHANGED <<doc, mark>> /\ ListsOk /\ GatheredOk /\ FieldMarksOk
  BY DEF QuerySection, BodySection, Stay, SheetInv, MarksOk
<1>2. ListsOk'
  BY <1>1, SameShapes DEF ListsOk
<1>3. CASE QuerySection
  <2>1. stage' = "body" /\ gathered' = <<>> /\ UNCHANGED fields
    BY <1>3 DEF QuerySection
  <2>2. DOMAIN gathered' = {} /\ Range(gathered') = {}
    BY <2>1 DEF Range
  <2>3. GatheredOk' /\ BodyMarksOk' /\ WorkMarksOk'
    BY <2>1, <2>2 DEF GatheredOk, BodyMarksOk, WorkMarksOk
  <2>4. FieldMarksOk'
    BY <1>1, <2>1, SameShapes DEF FieldMarksOk
  <2> QED BY <1>2, <2>3, <2>4 DEF MarksOk
<1>4. CASE BodySection
  <2>1. /\ stage' = "responses" /\ UNCHANGED gathered /\ fields' = <<>>
        /\ \A i \in DOMAIN work' : work'[i].node \in Range(Current.responses)
    BY <1>4 DEF BodySection, Range
  <2>2. GatheredOk'
    BY <1>1, <2>1, SameShapes DEF GatheredOk
  <2>3. BodyMarksOk' /\ WorkMarksOk'
    <3>1. doc \in Documents /\ api \in DOMAIN doc.apis
      BY <1>4 DEF BodySection, SheetInv, TypeInv, RowsOk, Sections
    <3>2. \A i \in DOMAIN work' : Owners(work'[i].node) = {}
      BY <2>1, <3>1, PlacesUnowned
    <3> QED BY <1>1, <2>1, <3>2, SameShapes DEF BodyMarksOk, WorkMarksOk
  <2>4. DOMAIN fields' = {}
    BY <2>1
  <2>5. FieldMarksOk'
    BY <2>4 DEF FieldMarksOk
  <2> QED BY <1>2, <2>2, <2>3, <2>5 DEF MarksOk
<1> QED BY <1>3, <1>4

-----------------------------------------------------------------------------
(* The invariant and what follows from it                                  *)

LEMMA SheetInitInv == SheetInit => SheetInv
<1> SUFFICES ASSUME SheetInit PROVE SheetInv
  OBVIOUS
<1>1. doc \in Documents
  BY DEF SheetInit
<1>2. /\ DOMAIN gathered = {} /\ Range(gathered) = {} /\ DOMAIN work = {} /\ DOMAIN fields = {}
      /\ sheet = <<>> /\ rowNum = 0 /\ api = 0 /\ work = <<>> /\ fields = <<>>
  BY DEF SheetInit, Range
<1>3. Len(doc.apis) \in Nat /\ doc.shape \in [Node -> Shape] /\ doc.apis \in Seq(Api)
  BY <1>1, DocParts, LenProperties
<1>4. SheetTypeOK
  <2>1. sheet \in Seq([section : SectionName, item : ItemName]) /\ Len(sheet) = 0
    BY <1>2, EmptySeq
  <2>2. work \in Seq(Frame)
    BY <1>2, EmptySeq
  <2>3. fields \in Seq([name : Seq(STRING), node : Node, required : {"list", "true", "false"}])
    BY <1>2, EmptySeq
  <2>4. mark \in [Node -> {"list", "true", "false"}] /\ last = NoNode /\ stage = "list"
    BY DEF SheetInit
  <2>5. 0 \in 0 .. Len(doc.apis) /\ rowNum \in 0 .. Len(sheet)
    BY <1>2, <1>3, <2>1
  <2> QED BY <1>2, <1>3, <2>1, <2>2, <2>3, <2>4, <2>5 DEF SheetTypeOK
<1>5. RowsOk
  BY DEF SheetInit, RowsOk, Sections
<1>6. IsFiniteSet(DOMAIN gathered)
  BY <1>2, FS_EmptySet
<1>7. MarksOk
  <2>1. ListsOk
    BY DEF SheetInit, ListsOk
  <2>2. GatheredOk /\ FieldMarksOk
    BY <1>2 DEF GatheredOk, FieldMarksOk
  <2>3. BodyMarksOk /\ WorkMarksOk
    BY DEF SheetInit, BodyMarksOk, WorkMarksOk
  <2> QED BY <2>1, <2>2, <2>3 DEF MarksOk
<1> QED BY <1>1, <1>4, <1>5, <1>6, <1>7 DEF SheetInv, TypeInv

LEMMA SheetStepInv == SheetInv /\ [SheetNext]_sheetVars => SheetInv'
<1> SUFFICES ASSUME SheetInv, [SheetNext]_sheetVars PROVE SheetInv'
  OBVIOUS
<1>1. CASE CreateApiList \/ AddWorksheet \/ CreateOuterBorder
  <2>1. UNCHANGED <<doc, mark, walk>> /\ stage' \notin {"body", "responses"}
    BY <1>1 DEF CreateApiList, AddWorksheet, CreateOuterBorder, Stay
  <2> QED BY <1>1, <2>1, BetweenTypes, MarksSame DEF SheetInv, walk
<1>2. CASE BasicSection \/ HeaderSection \/ ParamsSection \/ ResponseSection
  <2>1. UNCHANGED <<doc, mark, walk>> /\ stage' \notin {"body", "responses"}
    BY <1>2 DEF BasicSection, HeaderSection, ParamsSection, ResponseSection, Stay
  <2>2. MarksOk'
    BY <2>1, MarksSame DEF SheetInv, walk
  <2> QED BY <1>2, <2>2, BasicTypes, HeaderTypes, ParamsTypes, ResponseTypes DEF SheetInv
<1>3. CASE QuerySection \/ BodySection
  BY <1>3, QueryTypes, BodyTypes, WalkBegins DEF SheetInv
<1>4. CASE BodyLeadsOn
  BY <1>4, BodyLeadsOnTypes, BodyLeadsOnMarks DEF SheetInv
<1>5. CASE BodyObject
  BY <1>5, BodyObjectTypes, BodyObjectMarks DEF SheetInv
<1>6. CASE ResponseWalk
  BY <1>6, ResponseWalkTypes, ResponseWalkMarks DEF SheetInv
<1>7. CASE UNCHANGED sheetVars
  <2>1. UNCHANGED <<doc, mark, stage, api, sheet, rowNum, work, gathered, last, fields>>
    BY <1>7 DEF sheetVars
  <2>2. SheetTypeOK'
    BY <2>1 DEF SheetInv, TypeInv, SheetTypeOK
  <2>3. RowsOk'
    BY <2>1, RowsStay DEF SheetInv, TypeInv, RowsOk
  <2>4. ListsOk' /\ GatheredOk'
    BY <2>1, SameShapes DEF SheetInv, MarksOk, ListsOk, GatheredOk
  <2>5. BodyMarksOk'
    BY <2>1, SameShapes DEF SheetInv, MarksOk, BodyMarksOk
  <2>6. WorkMarksOk'
    BY <2>1, SameShapes DEF SheetInv, MarksOk, WorkMarksOk
  <2>7. FieldMarksOk'
    BY <2>1, SameShapes DEF SheetInv, MarksOk, FieldMarksOk
  <2> QED BY <2>1, <2>2, <2>3, <2>4, <2>5, <2>6, <2>7 DEF SheetInv, TypeInv, MarksOk
<1> QED BY <1>1, <1>2, <1>3, <1>4, <1>5, <1>6, <1>7 DEF SheetNext, ResponseWalk

\* Every variable of the workbook keeps its type, and the end of a section is a
\* row of the sheet.
THEOREM SheetTypeCorrect == SheetSpec => []SheetTypeOK
<1>1. SheetInv => SheetTypeOK
  BY DEF SheetInv, TypeInv
<1> QED BY <1>1, SheetInitInv, SheetStepInv, PTL DEF SheetSpec

\* Each section begins below the one before, so a sheet that is framed has
\* every row of every section, in order, and ends where the frame does.
THEOREM SheetCompleteCorrect == SheetSpec => []SheetComplete
<1>1. SheetInv => SheetComplete
  <2> SUFFICES ASSUME SheetInv, stage = "border" PROVE SheetComplete
    BY DEF SheetComplete
  <2>1. rowNum = Len(sheet) /\ sheet = ResponseRows
    BY DEF SheetInv, TypeInv, RowsOk, Sections
  <2> QED BY <2>1 DEF SheetComplete, ResponseRows, BodyRows, QueryRows, ParamsRows, HeaderRows,
                      BasicRows
<1> QED BY <1>1, SheetInitInv, SheetStepInv, PTL DEF SheetSpec

-----------------------------------------------------------------------------
(* The walks as ways through the schemas: the inductive invariant          *)

IsWay(w) ==
    /\ w \in Seq(Node) /\ w # <<>>
    /\ \A i \in 1 .. Len(w) - 1 : w[i + 1] \in Range(doc.shape[w[i]].next)

Answers == DOMAIN Current.responses

ResponseWays(a) == {w \in Seq(Node) : IsWay(w) /\ w[1] = Current.responses[a]}

Named(w) == NamesOn(w) # {}

\* no array since some name
Clear(w) ==
    \E j \in NamesOn(w) : \A i \in j .. Len(w) - 1 : doc.shape[w[i]].kind # "array"

\* a way that ends at a field
Listed(w) ==
    LET kind == doc.shape[w[Len(w)]].kind
    IN  /\ Named(w)
        /\ kind \in {"leaf", "array", "allOf"}
        /\ kind # "array" => Clear(w)

\* The frame f is at the end of the way w and has its names.
AtEnd(f, w) ==
    /\ f.node = w[Len(w)] /\ f.way = w
    /\ NamedBy(f.name, w)
    /\ f.name # <<>> <=> Named(w)
    /\ Named(w) => (f.array <=> ~Clear(w))

\* The call or row g is where the call f is, or further on the same way.
Begins(f, g) ==
    /\ f.answer = g.answer /\ Len(f.way) <= Len(g.way)
    /\ \A i \in 1 .. Len(f.way) : f.way[i] = g.way[i]

Apart(s) == \A i, j \in DOMAIN s : Begins(s[i], s[j]) => i = j

\* There is a circle below.
Endless(n) ==
    \E S \in SUBSET Node :
        n \in S /\ \A m \in S : \E c \in S : c \in Range(doc.shape[m].next)

\* The calls of the walks are made along ways.  Bodies do not lead to properties,
\* and the marks of properties that wait in a response come from their objects.
BodyCallsOk ==
    stage = "body" =>
        /\ last # NoNode => Owners(last) = {}
        /\ \A f \in Range(work) :
              Owners(f.node) = {} /\ IsWay(f.way) /\ f.way[Len(f.way)] = f.node

ResponseCallsOk ==
    stage = "responses" =>
        \A f \in Range(work) :
            f.answer \in Answers /\ \E w \in ResponseWays(f.answer) : AtEnd(f, w)

TrueMarksOk ==
    stage = "responses" =>
        \A n \in Node : \A p \in Owners(n) : \A f \in Range(work) :
            f.node = n /\ mark[n] = "true" => Declared(p, n) = "true"

\* A field has a way that leads to it, and where a way leads to a field there is
\* one, unless a call on the way is still to come.
FieldsOk ==
    stage \in {"responses", "border"} =>
        \A g \in Range(fields) :
            /\ g.answer \in Answers /\ g.way \in ResponseWays(g.answer)
            /\ Listed(g.way) /\ g.node = g.way[Len(g.way)] /\ NamedBy(g.name, g.way)

ToCome(a, w) ==
    /\ stage = "responses"
    /\ \E k \in 1 .. Len(w) : \E f \in Range(work) : f.answer = a /\ AtEnd(f, SubSeq(w, 1, k))

WaysOk ==
    stage \in {"responses", "border"} =>
        \A a \in Answers : \A w \in ResponseWays(a) :
            \/ Listed(w) => \E g \in Range(fields) : g.answer = a /\ g.way = w
            \/ ToCome(a, w)

\* No two fields are at the same place, no call waits above another one or above
\* a field.
ApartOk ==
    /\ stage \in {"responses", "border"} =>
          \A i, j \in DOMAIN fields :
              fields[i].answer = fields[j].answer /\ fields[i].way = fields[j].way => i = j
    /\ stage = "responses" =>
          /\ Apart(work)
          /\ \A i \in DOMAIN work : \A j \in DOMAIN fields : ~Begins(work[i], fields[j])

\* A walk does not end before a circle.
CirclesOk ==
    stage = "responses" =>
        \A r \in Range(Current.responses) :
            Endless(r) => \E f \in Range(work) : Endless(f.node)

\* the APIs whose responses have been walked through
Finished == 1 .. (IF stage \in {"sheet", "border", "written"} THEN api ELSE api - 1)

FinishedOk ==
    /\ stage # "died" =>
          \A a \in Finished : \A r \in Range(doc.apis[a].responses) : ~Endless(r)
    /\ stage = "written" => api = Len(doc.apis)
    /\ stage = "list" => api = 0

DeathOk ==
    stage = "died" =>
        \/ \E i \in DOMAIN doc.apis : ~doc.apis[i].domain
        \/ \E n \in Node : Cyclic(n)
        \/ \E n \in Node : /\ doc.shape[n].kind = "object"
                           /\ \E p \in Owners(n) : Declared(p, n) = "true"

CallsOk == BodyCallsOk /\ ResponseCallsOk /\ TrueMarksOk

CoverOk == FieldsOk /\ WaysOk /\ ApartOk /\ CirclesOk

WalkInv == SheetInv /\ CallsOk /\ CoverOk /\ FinishedOk /\ DeathOk

-----------------------------------------------------------------------------
(* Ways                                                                    *)

LEMMA WayParts ==
    ASSUME NEW w, IsWay(w)
    PROVE  /\ w \in Seq(Node) /\ Len(w) \in Nat \ {0} /\ DOMAIN w = 1 .. Len(w)
           /\ \A i \in 1 .. Len(w) : w[i] \in Node
BY EmptySeq, LenProperties DEF IsWay

LEMMA WayOfOne ==
    ASSUME NEW n \in Node
    PROVE  IsWay(<<n>>) /\ Len(<<n>>) = 1 /\ <<n>>[1] = n
BY DEF IsWay

\* A way goes on to what follows its last node.
LEMMA WayExtends ==
    ASSUME NEW w, IsWay(w), NEW c \in Node, c \in Range(doc.shape[w[Len(w)]].next)
    PROVE  /\ IsWay(Append(w, c))
           /\ Len(Append(w, c)) = Len(w) + 1
           /\ Append(w, c)[Len(w) + 1] = c
           /\ \A i \in 1 .. Len(w) : Append(w, c)[i] = w[i]
<1>1. w \in Seq(Node) /\ Len(w) \in Nat \ {0}
  BY WayParts
<1>2. /\ Append(w, c) \in Seq(Node) /\ Append(w, c) # <<>>
      /\ Len(Append(w, c)) = Len(w) + 1
      /\ Append(w, c)[Len(w) + 1] = c
      /\ \A i \in 1 .. Len(w) : Append(w, c)[i] = w[i]
  BY <1>1, AppendProperties
<1> DEFINE v == Append(w, c)
<1> HIDE DEF v
<1>3. ASSUME NEW i \in 1 .. Len(v) - 1
      PROVE  v[i + 1] \in Range(doc.shape[v[i]].next)
  <2>1. i \in 1 .. Len(w) /\ v[i] = w[i]
    BY <1>1, <1>2 DEF v
  <2>2. CASE i = Len(w)
    BY <1>2, <2>1, <2>2 DEF v
  <2>3. CASE i # Len(w)
    <3>1. i \in 1 .. Len(w) - 1 /\ i + 1 \in 1 .. Len(w)
      BY <1>1, <2>1, <2>3
    <3> QED BY <1>2, <2>1, <3>1 DEF IsWay, v
  <2> QED BY <2>2, <2>3
<1> QED BY <1>2, <1>3 DEF IsWay, v

\* The beginning of a way is one.
LEMMA WayPrefix ==
    ASSUME NEW w, IsWay(w), NEW k \in 1 .. Len(w)
    PROVE  /\ IsWay(SubSeq(w, 1, k))
           /\ Len(SubSeq(w, 1, k)) = k
           /\ \A i \in 1 .. k : SubSeq(w, 1, k)[i] = w[i]
<1>1. Len(w) \in Nat \ {0} /\ \A i \in 1 .. Len(w) : w[i] \in Node
  BY WayParts
<1>2. k \in Int /\ 1 <= k /\ \A i \in 1 .. k : i \in 1 .. Len(w)
  BY <1>1
<1>3. /\ SubSeq(w, 1, k) \in Seq(Node) /\ Len(SubSeq(w, 1, k)) = k - 1 + 1
      /\ \A i \in 1 .. k - 1 + 1 : SubSeq(w, 1, k)[i] = w[1 + i - 1]
  BY <1>1, <1>2, SubSeqProperties
<1> DEFINE v == SubSeq(w, 1, k)
<1> HIDE DEF v
<1>4. v \in Seq(Node) /\ Len(v) = k /\ \A i \in 1 .. k : v[i] = w[i]
  <2>1. ASSUME NEW i \in 1 .. k PROVE v[i] = w[i]
    <3>1. i \in 1 .. k - 1 + 1 /\ 1 + i - 1 = i
      BY <1>2
    <3> QED BY <1>3, <3>1 DEF v
  <2> QED BY <1>2, <1>3, <2>1 DEF v
<1>5. v # <<>>
  BY <1>2, <1>4
<1>6. ASSUME NEW i \in 1 .. Len(v) - 1
      PROVE  v[i + 1] \in Range(doc.shape[v[i]].next)
  <2>1. /\ i \in 1 .. k /\ i + 1 \in 1 .. k /\ i \in 1 .. Len(w) - 1
    BY <1>1, <1>4
  <2> QED BY <1>4, <2>1 DEF IsWay
<1> QED BY <1>4, <1>5, <1>6 DEF IsWay, v

\* A beginning grows by the node that comes next.
LEMMA PrefixGrows ==
    ASSUME NEW w, IsWay(w), NEW k \in 1 .. Len(w) - 1
    PROVE  SubSeq(w, 1, k + 1) = Append(SubSeq(w, 1, k), w[k + 1])
<1>1. w \in Seq(Node) /\ Len(w) \in Nat \ {0} /\ w[k + 1] \in Node
  BY WayParts
<1>2. k \in 1 .. Len(w) /\ k + 1 \in 1 .. Len(w)
  BY <1>1
<1>3. /\ SubSeq(w, 1, k) \in Seq(Node) /\ Len(SubSeq(w, 1, k)) = k
      /\ \A i \in 1 .. k : SubSeq(w, 1, k)[i] = w[i]
  BY <1>2, WayPrefix DEF IsWay
<1>4. /\ SubSeq(w, 1, k + 1) \in Seq(Node) /\ Len(SubSeq(w, 1, k + 1)) = k + 1
      /\ \A i \in 1 .. k + 1 : SubSeq(w, 1, k + 1)[i] = w[i]
  BY <1>2, WayPrefix DEF IsWay
<1>5. /\ Append(SubSeq(w, 1, k), w[k + 1]) \in Seq(Node)
      /\ Len(Append(SubSeq(w, 1, k), w[k + 1])) = k + 1
      /\ \A i \in 1 .. k : Append(SubSeq(w, 1, k), w[k + 1])[i] = w[i]
      /\ Append(SubSeq(w, 1, k), w[k + 1])[k + 1] = w[k + 1]
  BY <1>1, <1>3, AppendProperties
<1>6. \A i \in 1 .. k + 1 : i \in 1 .. k \/ i = k + 1
  BY <1>2
<1>7. \A i \in 1 .. k + 1 : SubSeq(w, 1, k + 1)[i] = Append(SubSeq(w, 1, k), w[k + 1])[i]
  BY <1>4, <1>5, <1>6
<1> QED BY <1>4, <1>5, <1>7, SeqEqual

\* The ways of up to i steps from r, without recursion
WaysFrom(r, i) == {w \in Seq(Node) : IsWay(w) /\ w[1] = r /\ Len(w) <= i + 1}

Further(ways) ==
    ways \cup UNION {{Append(w, n) : n \in Range(doc.shape[w[Len(w)]].next)} : w \in ways}

LEMMA WaysFromZero ==
    ASSUME NEW r \in Node
    PROVE  WaysFrom(r, 0) = {<<r>>}
<1>1. <<r>> \in WaysFrom(r, 0)
  <2>1. <<r>> \in Seq(Node) /\ IsWay(<<r>>) /\ <<r>>[1] = r /\ Len(<<r>>) <= 0 + 1
    BY WayOfOne
  <2> QED BY <2>1 DEF WaysFrom
<1>2. ASSUME NEW w \in WaysFrom(r, 0)
      PROVE  w = <<r>>
  <2>1. w \in Seq(Node) /\ IsWay(w) /\ w[1] = r /\ Len(w) <= 0 + 1
    BY DEF WaysFrom
  <2>2. Len(w) \in Nat \ {0}
    BY <2>1, WayParts
  <2>3. Len(w) = 1
    BY <2>1, <2>2
  <2> QED BY <2>1, <2>3
<1> QED BY <1>1, <1>2

LEMMA WaysFromNext ==
    ASSUME doc \in Documents, NEW r \in Node, NEW i \in Nat
    PROVE  WaysFrom(r, i + 1) = Further(WaysFrom(r, i))
<1>1. ASSUME NEW w \in WaysFrom(r, i)
      PROVE  w \in WaysFrom(r, i + 1)
  <2>1. w \in Seq(Node) /\ IsWay(w) /\ w[1] = r /\ Len(w) <= i + 1
    BY DEF WaysFrom
  <2>2. Len(w) <= i + 1 + 1
    BY <2>1, WayParts
  <2> QED BY <2>1, <2>2 DEF WaysFrom
<1>2. ASSUME NEW w \in WaysFrom(r, i), NEW n \in Range(doc.shape[w[Len(w)]].next)
      PROVE  Append(w, n) \in WaysFrom(r, i + 1)
  <2>1. IsWay(w) /\ w[1] = r /\ Len(w) <= i + 1
    BY DEF WaysFrom
  <2>2. Len(w) \in Nat \ {0} /\ w[Len(w)] \in Node
    BY <2>1, WayParts
  <2>3. n \in Node
    <3>1. doc.shape[w[Len(w)]].next \in Seq(Node)
      BY <2>2, ShapeParts
    <3> QED BY <3>1, RangeOfSeq
  <2>4. /\ IsWay(Append(w, n)) /\ Len(Append(w, n)) = Len(w) + 1
        /\ \A j \in 1 .. Len(w) : Append(w, n)[j] = w[j]
    BY <1>2, <2>1, <2>3, WayExtends
  <2>5. Append(w, n)[1] = r /\ Len(Append(w, n)) <= i + 1 + 1
    BY <2>1, <2>2, <2>4
  <2>6. Append(w, n) \in Seq(Node)
    BY <2>4 DEF IsWay
  <2> QED BY <2>4, <2>5, <2>6 DEF WaysFrom
<1>3. ASSUME NEW w \in WaysFrom(r, i + 1), w \notin WaysFrom(r, i)
      PROVE  \E v \in WaysFrom(r, i) : \E n \in Range(doc.shape[v[Len(v)]].next) : w = Append(v, n)
  <2>1. w \in Seq(Node) /\ IsWay(w) /\ w[1] = r /\ Len(w) <= i + 1 + 1 /\ ~ Len(w) <= i + 1
    BY <1>3 DEF WaysFrom
  <2>2. Len(w) \in Nat \ {0}
    BY <2>1, WayParts
  <2>3. i + 1 \in 1 .. Len(w) /\ i + 1 \in 1 .. Len(w) - 1 /\ i + 1 + 1 = Len(w) /\ 1 \in 1 .. i + 1
    BY <2>1, <2>2
  <2> DEFINE v == SubSeq(w, 1, i + 1)
  <2>4. IsWay(v) /\ Len(v) = i + 1 /\ v[1] = r /\ v[Len(v)] = w[i + 1]
    <3>1. i + 1 \in 1 .. i + 1
      BY <2>3
    <3> QED BY <2>1, <2>3, <3>1, WayPrefix
  <2>5. w[i + 1 + 1] \in Range(doc.shape[w[i + 1]].next)
    BY <2>1, <2>3 DEF IsWay
  <2>6. w = Append(v, w[i + 1 + 1])
    <3>1. SubSeq(w, 1, Len(w)) = w
      BY <2>1, SubSeqFull
    <3> QED BY <2>1, <2>3, <3>1, PrefixGrows
  <2> HIDE DEF v
  <2>7. v \in WaysFrom(r, i)
    <3>1. v \in Seq(Node)
      BY <2>4 DEF IsWay
    <3> QED BY <2>4, <3>1 DEF WaysFrom
  <2> QED BY <2>4, <2>5, <2>6, <2>7
<1> DEFINE S == WaysFrom(r, i)
           T == WaysFrom(r, i + 1)
<1>4. /\ \A w \in S : w \in T
      /\ \A w \in S : \A n \in Range(doc.shape[w[Len(w)]].next) : Append(w, n) \in T
      /\ \A w \in T :
            w \in S \/ \E v \in S : \E n \in Range(doc.shape[v[Len(v)]].next) : w = Append(v, n)
  BY <1>1, <1>2, <1>3
<1> HIDE DEF S, T
<1>5. ASSUME NEW w \in T PROVE w \in Further(S)
  <2>1. CASE w \in S
    BY <2>1 DEF Further
  <2>2. CASE \E v \in S : \E n \in Range(doc.shape[v[Len(v)]].next) : w = Append(v, n)
    <3>1. PICK v \in S : \E n \in Range(doc.shape[v[Len(v)]].next) : w = Append(v, n)
      BY <2>2
    <3>2. w \in {Append(v, n) : n \in Range(doc.shape[v[Len(v)]].next)}
      BY <3>1
    <3> QED BY <3>1, <3>2, Zenon DEF Further
  <2> QED BY <1>4, <2>1, <2>2
<1>6. ASSUME NEW w \in Further(S) PROVE w \in T
  <2>1. w \in S \/ \E v \in S : \E n \in Range(doc.shape[v[Len(v)]].next) : w = Append(v, n)
    BY <1>6, Zenon DEF Further
  <2> QED BY <1>4, <2>1
<1>7. T = Further(S)
  BY <1>5, <1>6
<1> QED BY <1>7 DEF S, T

\* Ways are what they are meant to be.
LEMMA WaysAre ==
    ASSUME doc \in Documents, NEW r \in Node, NEW k \in Nat
    PROVE  Ways(r, k) = WaysFrom(r, k)
<1> DEFINE Fn(g) == g = [i \in 0 .. k |-> IF i = 0 THEN {<<r>>} ELSE Further(g[i - 1])]
           ways  == CHOOSE g : Fn(g)
           exact == [i \in 0 .. k |-> WaysFrom(r, i)]
<1>1. Ways(r, k) = ways[k]
  BY DEF Ways, Further
<1>2. Fn(exact)
  <2>1. ASSUME NEW i \in 0 .. k
        PROVE  WaysFrom(r, i) = IF i = 0 THEN {<<r>>} ELSE Further(exact[i - 1])
    <3>1. CASE i = 0
      BY <3>1, WaysFromZero
    <3>2. CASE i # 0
      <4>1. i - 1 \in Nat /\ i - 1 \in 0 .. k /\ i - 1 + 1 = i
        BY <3>2
      <4>2. WaysFrom(r, i - 1 + 1) = Further(WaysFrom(r, i - 1))
        BY <4>1, WaysFromNext
      <4>3. exact[i - 1] = WaysFrom(r, i - 1)
        BY <4>1
      <4> QED BY <3>2, <4>1, <4>2, <4>3
    <3> QED BY <3>1, <3>2
  <2> HIDE DEF exact
  <2>2. exact = [i \in 0 .. k |-> WaysFrom(r, i)]
    BY DEF exact
  <2> QED BY <2>1, <2>2
<1>3. Fn(ways)
  BY <1>2
<1> HIDE DEF ways, exact
<1> DEFINE B == {i \in Nat : i <= k => ways[i] = WaysFrom(r, i)}
<1>4. 0 \in B
  <2>1. ways[0] = {<<r>>}
    BY <1>3
  <2> QED BY <2>1, WaysFromZero
<1>5. ASSUME NEW i \in B
      PROVE  i + 1 \in B
  <2>1. CASE i + 1 <= k
    <3>1. ways[i + 1] = Further(ways[i + 1 - 1])
      <4>1. \A j \in 1 .. k : j \in 0 .. k /\ j # 0
        OBVIOUS
      <4>2. \A j \in 1 .. k : ways[j] = Further(ways[j - 1])
        BY <1>3, <4>1
      <4>3. i + 1 \in 1 .. k
        BY <2>1
      <4> HIDE DEF Fn
      <4> QED BY <4>2, <4>3
    <3>2. i + 1 - 1 = i /\ ways[i] = WaysFrom(r, i)
      BY <2>1
    <3>3. WaysFrom(r, i + 1) = Further(WaysFrom(r, i))
      BY WaysFromNext
    <3> QED BY <3>1, <3>2, <3>3
  <2> QED BY <2>1
<1>6. B = Nat
  <2> HIDE DEF B
  <2>1. B \in SUBSET Nat
    BY DEF B
  <2> QED BY <1>4, <1>5, <2>1, NatCases
<1> QED BY <1>1, <1>6

\* A way of more nodes than there are meets one of them again.
LEMMA MeetsAgain ==
    ASSUME NEW w, IsWay(w), Len(w) > Cardinality(Node)
    PROVE  \E i, j \in 1 .. Len(w) : i < j /\ w[i] = w[j]
<1>1. Len(w) \in Nat \ {0} /\ \A i \in 1 .. Len(w) : w[i] \in Node
  BY WayParts
<1>2. IsFiniteSet(1 .. Len(w)) /\ Cardinality(1 .. Len(w)) = Len(w)
  BY <1>1, FS_Interval
<1> DEFINE f == [i \in 1 .. Len(w) |-> w[i]]
<1>3. f \in [1 .. Len(w) -> Node]
  BY <1>1
<1>4. \E i, j \in 1 .. Len(w) : i # j /\ f[i] = f[j]
  <2> HIDE DEF f
  <2> QED BY <1>1, <1>2, <1>3, FS_PigeonHole, NodeAssumption
<1>5. PICK i, j \in 1 .. Len(w) : i # j /\ w[i] = w[j]
  BY <1>4
<1> QED BY <1>1, <1>5

\* Such a way has a circle.
LEMMA LongWay ==
    ASSUME NEW w, IsWay(w), Len(w) > Cardinality(Node)
    PROVE  Endless(w[1])
<1>1. /\ Len(w) \in Nat \ {0} /\ \A i \in 1 .. Len(w) : w[i] \in Node
      /\ \A i \in 1 .. Len(w) - 1 : w[i + 1] \in Range(doc.shape[w[i]].next)
  BY WayParts DEF IsWay
<1>2. PICK i, j \in 1 .. Len(w) : i < j /\ w[i] = w[j]
  BY MeetsAgain
<1> DEFINE S == {w[m] : m \in 1 .. j}
<1>3. S \in SUBSET Node /\ w[1] \in S
  BY <1>1, <1>2
<1>4. ASSUME NEW m \in 1 .. j
      PROVE  \E c \in S : c \in Range(doc.shape[w[m]].next)
  <2>1. CASE m < j
    <3>1. m \in 1 .. Len(w) - 1 /\ m + 1 \in 1 .. j
      BY <1>1, <2>1
    <3>2. w[m + 1] \in S
      BY <3>1
    <3> QED BY <1>1, <3>1, <3>2
  <2>2. CASE m = j
    <3>1. i \in 1 .. Len(w) - 1 /\ i + 1 \in 1 .. j
      BY <1>1, <1>2
    <3>2. w[i + 1] \in S
      BY <3>1
    <3> QED BY <1>1, <1>2, <2>2, <3>1, <3>2
  <2> QED BY <2>1, <2>2
<1>5. \A s \in S : \E c \in S : c \in Range(doc.shape[s].next)
  BY <1>4
<1> HIDE DEF S
<1> QED BY <1>3, <1>5 DEF Endless

LEMMA NodeCount == Cardinality(Node) \in Nat
BY NodeAssumption, FS_CardinalityType

\* There is a circle below a node with a way that is too long, and there is
\* such a way below one that a way leads further than there are nodes.
LEMMA CyclicEndless ==
    ASSUME doc \in Documents, NEW r \in Node, Cyclic(r)
    PROVE  Endless(r)
<1>1. Ways(r, Cardinality(Node)) = WaysFrom(r, Cardinality(Node))
  BY NodeCount, WaysAre
<1>2. PICK w \in WaysFrom(r, Cardinality(Node)) : Len(w) > Cardinality(Node)
  BY <1>1 DEF Cyclic
<1>3. IsWay(w) /\ w[1] = r
  BY DEF WaysFrom
<1> QED BY <1>2, <1>3, LongWay

LEMMA WayCyclic ==
    ASSUME doc \in Documents, NEW w, IsWay(w), Len(w) > Cardinality(Node)
    PROVE  w[1] \in Node /\ Cyclic(w[1])
<1>1. Len(w) \in Nat \ {0} /\ w[1] \in Node
  BY WayParts
<1> DEFINE k == Cardinality(Node) + 1
           v == SubSeq(w, 1, k)
<1>2. k \in 1 .. Len(w) /\ 1 \in 1 .. k
  BY <1>1, NodeCount
<1>3. IsWay(v) /\ Len(v) = k /\ v[1] = w[1]
  <2> HIDE DEF k
  <2> QED BY <1>2, WayPrefix
<1> HIDE DEF v
<1>4. v \in WaysFrom(w[1], Cardinality(Node))
  <2>1. v \in Seq(Node) /\ Len(v) <= Cardinality(Node) + 1
    BY <1>3, NodeCount DEF IsWay
  <2> QED BY <1>3, <2>1 DEF WaysFrom
<1>5. Ways(w[1], Cardinality(Node)) = WaysFrom(w[1], Cardinality(Node))
  BY <1>1, NodeCount, WaysAre
<1>6. Len(v) > Cardinality(Node)
  BY <1>3, NodeCount
<1> QED BY <1>1, <1>4, <1>5, <1>6 DEF Cyclic

-----------------------------------------------------------------------------
(* Calls along a way                                                       *)

LEMMA SameWays ==
    ASSUME doc' = doc
    PROVE  /\ \A w : IsWay(w)' <=> IsWay(w)
           /\ \A w : Named(w)' <=> Named(w)
           /\ \A w : Listed(w)' <=> Listed(w)
           /\ \A name, w : NamedBy(name, w)' <=> NamedBy(name, w)
           /\ \A f, w : AtEnd(f, w)' <=> AtEnd(f, w)
           /\ UNCHANGED api => \A a : ResponseWays(a)' = ResponseWays(a)
           /\ \A n : Endless(n)' <=> Endless(n)
<1>1. ASSUME NEW w PROVE IsWay(w)' <=> IsWay(w)
  BY DEF IsWay
<1>2. ASSUME NEW w PROVE NamesOn(w)' = NamesOn(w)
  BY DEF NamesOn
<1>3. ASSUME NEW w PROVE (Named(w)' <=> Named(w)) /\ (Clear(w)' <=> Clear(w))
  BY <1>2 DEF Named, Clear
<1>4. ASSUME NEW w PROVE Listed(w)' <=> Listed(w)
  BY <1>3 DEF Listed
<1>5. ASSUME NEW name, NEW w PROVE NamedBy(name, w)' <=> NamedBy(name, w)
  BY <1>2, SameShapes DEF NamedBy
<1>6. ASSUME NEW f, NEW w PROVE AtEnd(f, w)' <=> AtEnd(f, w)
  BY <1>3, <1>5 DEF AtEnd
<1>7. ASSUME UNCHANGED api, NEW a PROVE ResponseWays(a)' = ResponseWays(a)
  BY <1>1, <1>7 DEF ResponseWays, Current
<1>8. ASSUME NEW n PROVE Endless(n)' <=> Endless(n)
  BY DEF Endless
<1> QED BY <1>1, <1>3, <1>4, <1>5, <1>6, <1>7, <1>8

\* The call f is made by the call h.
Follows(h, f) ==
    LET kind == doc.shape[h.node].kind
    IN  /\ f.node \in Range(doc.shape[h.node].next)
        /\ f.answer = h.answer /\ f.way = Append(h.way, f.node)
        /\ f.name = IF kind = "object" THEN Append(h.name, NameIn(h.node, f.node)) ELSE h.name
        /\ f.array <=> kind = "array" \/ (kind \in {"$ref", "allOf"} /\ h.array)

\* The call h lists its node.
ListsNode(h) ==
    LET kind == doc.shape[h.node].kind
    IN  /\ h.name # <<>>
        /\ kind \in {"leaf", "array", "allOf"}
        /\ kind # "array" => ~h.array

LEMMA ListsListed ==
    ASSUME NEW h, NEW w, AtEnd(h, w), h.array \in BOOLEAN
    PROVE  ListsNode(h) <=> Listed(w)
<1> DEFINE kind == doc.shape[w[Len(w)]].kind
<1>1. h.node = w[Len(w)] /\ (h.name # <<>> <=> Named(w)) /\ (Named(w) => (h.array <=> ~Clear(w)))
  BY DEF AtEnd
<1>2. ListsNode(h) <=> /\ h.name # <<>> /\ kind \in {"leaf", "array", "allOf"}
                       /\ (kind # "array" => ~h.array)
  BY <1>1 DEF ListsNode
<1>3. Listed(w) <=> Named(w) /\ kind \in {"leaf", "array", "allOf"} /\ (kind # "array" => Clear(w))
  BY DEF Listed
<1> HIDE DEF kind
<1> QED BY <1>1, <1>2, <1>3

\* The names on a way that is one node longer.
LEMMA NamesAfter ==
    ASSUME NEW w, IsWay(w), NEW c \in Node, c \in Range(doc.shape[w[Len(w)]].next)
    PROVE  NamesOn(Append(w, c)) =
               NamesOn(w) \cup (IF doc.shape[w[Len(w)]].kind = "object" THEN {Len(w) + 1} ELSE {})
<1> DEFINE v    == Append(w, c)
           l    == Len(w)
           kind == doc.shape[w[l]].kind
<1>1. /\ l \in Nat \ {0} /\ Len(v) = l + 1
      /\ \A i \in 1 .. l : v[i] = w[i]
  BY WayParts, WayExtends
<1>2. \A i \in 2 .. l + 1 : i - 1 \in 1 .. l /\ v[i - 1] = w[i - 1]
  BY <1>1
<1> HIDE DEF v, l
<1>3. NamesOn(v) = {i \in 2 .. l + 1 : doc.shape[w[i - 1]].kind = "object"}
  BY <1>1, <1>2 DEF NamesOn
<1>4. NamesOn(w) = {i \in 2 .. l : doc.shape[w[i - 1]].kind = "object"}
  BY DEF NamesOn, l
<1> DEFINE Entered(i) == doc.shape[w[i - 1]].kind = "object"
<1>5. /\ \A i \in 2 .. l + 1 : i \in 2 .. l \/ i = l + 1
      /\ \A i \in 2 .. l : i \in 2 .. l + 1
      /\ l + 1 \in 2 .. l + 1
  BY <1>1
<1>6. Entered(l + 1) <=> kind = "object"
  <2>1. l + 1 - 1 = l
    BY <1>1
  <2> QED BY <1>1, <2>1
<1>7. /\ NamesOn(v) = {i \in 2 .. l + 1 : Entered(i)}
      /\ NamesOn(w) = {i \in 2 .. l : Entered(i)}
  BY <1>3, <1>4
<1> HIDE DEF Entered, kind
<1>8. \A i : i \in NamesOn(v) <=> i \in NamesOn(w) \/ (i = l + 1 /\ kind = "object")
  BY <1>5, <1>6, <1>7, Zenon
<1>9. NamesOn(v) = NamesOn(w) \cup (IF kind = "object" THEN {l + 1} ELSE {})
  BY <1>8
<1> QED BY <1>9 DEF v, l, kind

LEMMA NamesGrow ==
    ASSUME NEW w, IsWay(w), NEW c \in Node, c \in Range(doc.shape[w[Len(w)]].next)
    PROVE  LET v    == Append(w, c)
               kind == doc.shape[w[Len(w)]].kind
           IN  /\ Named(v) <=> Named(w) \/ kind = "object"
               /\ kind = "object" => Clear(v)
               /\ kind = "array" => ~Clear(v)
               /\ kind \notin {"array", "object"} => (Clear(v) <=> Clear(w))
<1> DEFINE v    == Append(w, c)
           l    == Len(w)
           kind == doc.shape[w[l]].kind
<1>1. /\ l \in Nat \ {0} /\ Len(v) = l + 1
      /\ \A i \in 1 .. l : v[i] = w[i]
  BY WayParts, WayExtends
<1>2. \A i \in 2 .. l + 1 : i - 1 \in 1 .. l /\ v[i - 1] = w[i - 1]
  BY <1>1
<1> HIDE DEF v, l
<1>3. NamesOn(v) = {i \in 2 .. l + 1 : doc.shape[w[i - 1]].kind = "object"}
  BY <1>1, <1>2 DEF NamesOn
<1>4. NamesOn(w) = {i \in 2 .. l : doc.shape[w[i - 1]].kind = "object"}
  BY DEF NamesOn, l
<1>5. \A i : i \in NamesOn(v) <=> i \in NamesOn(w) \/ (i = l + 1 /\ kind = "object")
  <2> DEFINE Entered(i) == doc.shape[w[i - 1]].kind = "object"
  <2>1. /\ \A i \in 2 .. l + 1 : i \in 2 .. l \/ i = l + 1
        /\ \A i \in 2 .. l : i \in 2 .. l + 1
        /\ l + 1 \in 2 .. l + 1
    BY <1>1
  <2>2. Entered(l + 1) <=> kind = "object"
    <3>1. l + 1 - 1 = l
      BY <1>1
    <3> QED BY <1>1, <3>1
  <2>3. /\ NamesOn(v) = {i \in 2 .. l + 1 : Entered(i)}
        /\ NamesOn(w) = {i \in 2 .. l : Entered(i)}
    BY <1>3, <1>4
  <2> HIDE DEF Entered, kind
  <2> QED BY <2>1, <2>2, <2>3, Zenon
<1>6. \A j \in NamesOn(w) : j \in 2 .. l
  BY <1>4
<1>7. Named(v) <=> Named(w) \/ kind = "object"
  BY <1>5 DEF Named
<1>8. Clear(v) <=> \E j \in NamesOn(v) : \A i \in j .. l : doc.shape[w[i]].kind # "array"
  <2>1. \A j \in NamesOn(v) : j \in 2 .. l + 1
    BY <1>3
  <2>2. \A j \in NamesOn(v) : \A i \in j .. l : i \in 1 .. l /\ v[i] = w[i]
    BY <1>1, <2>1
  <2>3. Len(v) - 1 = l
    BY <1>1
  <2> QED BY <2>2, <2>3 DEF Clear
<1>9. ASSUME kind = "object" PROVE Clear(v)
  <2>1. l + 1 \in NamesOn(v) /\ \A i \in l + 1 .. l : FALSE
    BY <1>1, <1>5, <1>9
  <2> QED BY <1>8, <2>1
<1>10. ASSUME kind = "array" PROVE ~Clear(v)
  <2>1. \A j \in NamesOn(v) : l \in j .. l
    BY <1>1, <1>5, <1>6, <1>10
  <2> QED BY <1>8, <1>10, <2>1
<1>11. ASSUME kind \notin {"array", "object"} PROVE Clear(v) <=> Clear(w)
  <2>1. NamesOn(v) = NamesOn(w)
    BY <1>5, <1>11
  <2>2. \A j \in NamesOn(w) : \A i : i \in j .. l <=> i \in j .. l - 1 \/ i = l
    BY <1>1, <1>6
  <2>3. Clear(w) <=> \E j \in NamesOn(w) : \A i \in j .. l - 1 : doc.shape[w[i]].kind # "array"
    BY DEF Clear, l
  <2> QED BY <1>8, <1>11, <2>1, <2>2, <2>3
<1> QED BY <1>7, <1>9, <1>10, <1>11 DEF v, l

\* A name is empty if there is none on the way.
LEMMA NamesFinite ==
    ASSUME NEW w, IsWay(w)
    PROVE  /\ NamesOn(w) \subseteq 2 .. Len(w)
           /\ IsFiniteSet(NamesOn(w)) /\ Cardinality(NamesOn(w)) \in Nat
           /\ NamesOn(w) = {} <=> Cardinality(NamesOn(w)) = 0
<1>1. NamesOn(w) \subseteq 2 .. Len(w)
  BY DEF NamesOn
<1>2. IsFiniteSet(2 .. Len(w))
  <2>1. Len(w) \in Int /\ 2 \in Int
    BY WayParts
  <2> QED BY <2>1, FS_Interval
<1>3. IsFiniteSet(NamesOn(w))
  BY <1>1, <1>2, FS_Subset
<1> QED BY <1>1, <1>3, FS_CardinalityType, FS_EmptySet

LEMMA NamedEmpty ==
    ASSUME NEW w, IsWay(w), NEW name \in Seq(STRING), NamedBy(name, w)
    PROVE  name # <<>> <=> Named(w)
<1>1. Len(name) = Cardinality(NamesOn(w))
  BY DEF NamedBy
<1>2. name # <<>> <=> Len(name) # 0
  BY EmptySeq
<1> QED BY <1>1, <1>2, NamesFinite DEF Named

\* A name grows with the way.
LEMMA NameGrows ==
    ASSUME NEW w, IsWay(w), NEW c \in Node, c \in Range(doc.shape[w[Len(w)]].next),
           NEW name \in Seq(STRING), NamedBy(name, w), NEW k \in STRING, k = NameIn(w[Len(w)], c),
           doc.shape[w[Len(w)]].kind = "object"
    PROVE  NamedBy(Append(name, k), Append(w, c))
<1> DEFINE v    == Append(w, c)
           l    == Len(w)
<1>1. /\ l \in Nat \ {0} /\ Len(v) = l + 1 /\ v[l + 1] = c
      /\ \A i \in 1 .. l : v[i] = w[i]
  BY WayParts, WayExtends
<1>2. NamesOn(w) \subseteq 2 .. l /\ IsFiniteSet(NamesOn(w))
  BY NamesFinite
<1>3. Len(name) = Cardinality(NamesOn(w))
      /\ \A i \in NamesOn(w) : name[Cardinality(NamesOn(w) \cap 1 .. i)] = NameIn(w[i - 1], w[i])
  BY DEF NamedBy
<1>4. \A i \in 2 .. l : i - 1 \in 1 .. l /\ i \in 1 .. l
  BY <1>1
<1>5. \A i \in NamesOn(w) : v[i - 1] = w[i - 1] /\ v[i] = w[i]
  BY <1>1, <1>2, <1>4
<1>6. NamesOn(v) = NamesOn(w) \cup {l + 1}
  BY NamesAfter
<1> HIDE DEF v, l
<1>7. NamesOn(v) = NamesOn(w) \cup {l + 1} /\ l + 1 \notin NamesOn(w)
  <2>1. l + 1 \notin 2 .. l
    BY <1>1
  <2> QED BY <1>2, <1>6, <2>1
<1>8. Cardinality(NamesOn(v)) = Cardinality(NamesOn(w)) + 1
  BY <1>2, <1>7, FS_AddElement
<1>9. /\ Len(name) \in Nat /\ Len(Append(name, k)) = Len(name) + 1
      /\ Append(name, k)[Len(name) + 1] = k
      /\ \A i \in 1 .. Len(name) : Append(name, k)[i] = name[i]
  BY AppendProperties, LenProperties
<1>10. ASSUME NEW i \in NamesOn(w)
      PROVE  Append(name, k)[Cardinality(NamesOn(v) \cap 1 .. i)] = NameIn(v[i - 1], v[i])
  <2>1. i \in 2 .. l
    BY <1>2
  <2>2. l + 1 \notin 1 .. i /\ i \in 1 .. i
    BY <1>1, <2>1
  <2>3. NamesOn(v) \cap 1 .. i = NamesOn(w) \cap 1 .. i
    BY <1>7, <2>2
  <2>4. Cardinality(NamesOn(w) \cap 1 .. i) \in 1 .. Len(name)
    <3>1. /\ IsFiniteSet(NamesOn(w) \cap 1 .. i)
          /\ Cardinality(NamesOn(w) \cap 1 .. i) <= Cardinality(NamesOn(w))
      <4>1. NamesOn(w) \cap 1 .. i \subseteq NamesOn(w)
        OBVIOUS
      <4> QED BY <1>2, <4>1, FS_Subset
    <3>2. NamesOn(w) \cap 1 .. i # {}
      BY <2>2
    <3>3. /\ Cardinality(NamesOn(w) \cap 1 .. i) \in Nat
          /\ Cardinality(NamesOn(w) \cap 1 .. i) # 0
      BY <3>1, <3>2, FS_CardinalityType, FS_EmptySet
    <3> QED BY <1>3, <1>9, <3>1, <3>3
  <2> QED BY <1>3, <1>5, <1>9, <2>3, <2>4
<1>11. Append(name, k)[Cardinality(NamesOn(v) \cap 1 .. l + 1)]
             = NameIn(v[(l + 1) - 1], v[l + 1])
  <2>1. NamesOn(v) \subseteq 1 .. l + 1
    <3>1. \A i \in 2 .. l : i \in 1 .. l + 1
      BY <1>1
    <3>2. l + 1 \in 1 .. l + 1
      BY <1>1
    <3> QED BY <1>2, <1>7, <3>1, <3>2
  <2>2. NamesOn(v) \cap 1 .. l + 1 = NamesOn(v)
    BY <2>1
  <2>3. v[(l + 1) - 1] = w[l] /\ v[l + 1] = c
    <3>1. (l + 1) - 1 = l /\ l \in 1 .. l
      BY <1>1
    <3> QED BY <1>1, <3>1
  <2>4. k = NameIn(w[l], c)
    BY DEF l
  <2> QED BY <1>3, <1>8, <1>9, <2>2, <2>3, <2>4
<1>12. \A i \in NamesOn(v) :
        Append(name, k)[Cardinality(NamesOn(v) \cap 1 .. i)] = NameIn(v[i - 1], v[i])
  <2> DEFINE Right(i) == Append(name, k)[Cardinality(NamesOn(v) \cap 1 .. i)]
                            = NameIn(v[i - 1], v[i])
  <2>1. Right(l + 1)
    BY <1>11
  <2>2. \A i \in NamesOn(w) : Right(i)
    BY <1>10
  <2> HIDE DEF Right
  <2>3. \A i \in NamesOn(v) : Right(i)
    BY <1>7, <2>1, <2>2
  <2> QED BY <2>3 DEF Right
<1>13. NamedBy(Append(name, k), v)
  BY <1>3, <1>8, <1>9, <1>12 DEF NamedBy
<1> QED BY <1>13 DEF v, l

LEMMA NameStays ==
    ASSUME NEW w, IsWay(w), NEW c \in Node, c \in Range(doc.shape[w[Len(w)]].next),
           NEW name \in Seq(STRING), NamedBy(name, w), doc.shape[w[Len(w)]].kind # "object"
    PROVE  NamedBy(name, Append(w, c))
<1>1. NamesOn(Append(w, c)) = NamesOn(w)
  BY NamesAfter
<1>2. /\ NamesOn(w) \subseteq 2 .. Len(w) /\ Len(w) \in Nat
      /\ \A i \in 1 .. Len(w) : Append(w, c)[i] = w[i]
  BY WayParts, WayExtends, NamesFinite
<1>3. \A i \in NamesOn(w) : i - 1 \in 1 .. Len(w) /\ i \in 1 .. Len(w)
  BY <1>2
<1>4. \A i \in NamesOn(w) : Append(w, c)[i - 1] = w[i - 1] /\ Append(w, c)[i] = w[i]
  BY <1>2, <1>3
<1> QED BY <1>1, <1>4 DEF NamedBy

\* The properties of an object are named by their keys.
LEMMA KeyIsName ==
    ASSUME doc \in Documents, NEW p \in Node, doc.shape[p].kind = "object",
           NEW i \in DOMAIN doc.shape[p].next
    PROVE  /\ NameIn(p, doc.shape[p].next[i]) = doc.shape[p].key[i]
           /\ doc.shape[p].key[i] \in STRING
<1>1. doc.shape[p].next[i] \in Node /\ doc.shape[p].next[i] \in Range(doc.shape[p].next)
  BY ShapeParts, LenProperties DEF Range
<1>2. p \in Owners(doc.shape[p].next[i])
  BY <1>1 DEF Owners
<1>3. /\ doc.shape[p].key[i] \in DOMAIN Properties(p)
      /\ Properties(p)[doc.shape[p].key[i]] = doc.shape[p].next[i]
      /\ DOMAIN Properties(p) \subseteq STRING
  BY ObjectProperties
<1> QED BY <1>1, <1>2, <1>3, OneName

\* A call that follows is at the end of a way that is one node longer.
LEMMA AtEndFollows ==
    ASSUME doc \in Documents, NEW w, IsWay(w), NEW h, h.array \in BOOLEAN,
           h.name \in Seq(STRING), AtEnd(h, w),
           NEW f, f.node \in Node, f.array \in BOOLEAN, f.name \in Seq(STRING), Follows(h, f)
    PROVE  IsWay(Append(w, f.node)) /\ AtEnd(f, Append(w, f.node))
<1> DEFINE v    == Append(w, f.node)
           kind == doc.shape[w[Len(w)]].kind
<1>1. /\ h.node = w[Len(w)] /\ h.way = w /\ NamedBy(h.name, w) /\ (h.name # <<>> <=> Named(w))
      /\ (Named(w) => (h.array <=> ~Clear(w)))
  BY DEF AtEnd
<1>2. /\ f.node \in Range(doc.shape[w[Len(w)]].next) /\ f.way = v
      /\ f.name = IF kind = "object" THEN Append(h.name, NameIn(w[Len(w)], f.node)) ELSE h.name
      /\ (f.array <=> kind = "array" \/ (kind \in {"$ref", "allOf"} /\ h.array))
  BY <1>1 DEF Follows
<1>3. IsWay(v) /\ Len(v) = Len(w) + 1 /\ v[Len(w) + 1] = f.node
  BY <1>2, WayExtends
<1>4. /\ Named(v) <=> Named(w) \/ kind = "object"
      /\ kind = "object" => Clear(v)
      /\ kind = "array" => ~Clear(v)
      /\ kind \notin {"array", "object"} => (Clear(v) <=> Clear(w))
  BY <1>2, NamesGrow
<1>5. w[Len(w)] \in Node /\ Len(w) \in Nat \ {0}
  BY WayParts
<1>6. kind \in {"$ref", "allOf", "array", "object"}
  <2>1. kind \in {"leaf", "$ref", "allOf", "array", "object"}
    BY <1>5, ShapeParts
  <2>2. kind # "leaf"
    <3>1. DOMAIN <<>> = {}
      OBVIOUS
    <3>2. doc.shape[w[Len(w)]].next # <<>>
      BY <1>2, <3>1 DEF Range
    <3> QED BY <1>5, <3>2, DocParts DEF WellFormed
  <2> QED BY <2>1, <2>2
<1>7. NamedBy(f.name, v)
  <2>1. CASE kind = "object"
    <3>1. PICK i \in DOMAIN doc.shape[w[Len(w)]].next : f.node = doc.shape[w[Len(w)]].next[i]
      BY <1>2 DEF Range
    <3>2. NameIn(w[Len(w)], f.node) \in STRING
      BY <1>5, <2>1, <3>1, KeyIsName
    <3> QED BY <1>1, <1>2, <2>1, <3>2, NameGrows
  <2>2. CASE kind # "object"
    <3>1. NamedBy(h.name, v)
      BY <1>1, <1>2, <2>2, NameStays
    <3> QED BY <1>2, <2>2, <3>1
  <2> QED BY <2>1, <2>2
<1> HIDE DEF v, kind
<1>8. f.name # <<>> <=> Named(v)
  BY <1>3, <1>7, NamedEmpty
<1>9. Named(v) => (f.array <=> ~Clear(v))
  BY <1>1, <1>2, <1>4, <1>6
<1>10. f.node = v[Len(v)]
  BY <1>3
<1>11. AtEnd(f, v)
  BY <1>2, <1>7, <1>8, <1>9, <1>10 DEF AtEnd
<1> QED BY <1>3, <1>11 DEF v

\* A call leaves the calls that waited and those it makes.
LEMMA StackAfter ==
    ASSUME doc \in Documents, SheetTypeOK, work # <<>>,
           NEW frames \in Seq(Frame), work' = frames \o Tail(work)
    PROVE  /\ \A f \in Range(work') : f \in Range(work) \/ f \in Range(frames)
           /\ \A f \in Range(work) : f = Head(work) \/ f \in Range(work')
           /\ Range(frames) \subseteq Range(work')
<1>1. Tail(work) \in Seq(Frame) /\ work \in Seq(Frame) /\ Head(work) = work[1]
  BY HeadIsFrame DEF SheetTypeOK
<1>2. /\ Len(frames) \in Nat /\ DOMAIN frames = 1 .. Len(frames)
      /\ Len(Tail(work)) \in Nat /\ DOMAIN Tail(work) = 1 .. Len(Tail(work))
      /\ Len(work) \in Nat \ {0} /\ DOMAIN work = 1 .. Len(work) /\ Len(Tail(work)) = Len(work) - 1
  BY <1>1, LenProperties, HeadTailProperties, EmptySeq
<1>3. DOMAIN work' = 1 .. Len(frames) + Len(Tail(work))
  BY <1>1, ConcatProperties, LenProperties
<1>4. \A i \in DOMAIN work' :
        work'[i] = IF i <= Len(frames) THEN frames[i] ELSE Tail(work)[i - Len(frames)]
  BY <1>1, <1>3, ConcatProperties
<1>5. ASSUME NEW f \in Range(work')
      PROVE  f \in Range(work) \/ f \in Range(frames)
  <2>1. PICK i \in DOMAIN work' : f = work'[i]
    BY DEF Range
  <2> QED BY <2>1, FramesAfter DEF Range
<1>6. ASSUME NEW j \in DOMAIN frames
      PROVE  frames[j] \in Range(work')
  <2>1. j \in DOMAIN work' /\ work'[j] = frames[j]
    BY <1>2, <1>3, <1>4
  <2> QED BY <2>1 DEF Range
<1>7. ASSUME NEW f \in Range(work), f # Head(work)
      PROVE  f \in Range(work')
  <2>1. PICK i \in DOMAIN work : f = work[i]
    BY DEF Range
  <2>2. i # 1
    BY <1>1, <1>7, <2>1
  <2>3. /\ i - 1 \in DOMAIN Tail(work)
        /\ Len(frames) + (i - 1) \in DOMAIN work'
    BY <1>2, <1>3, <2>2
  <2>4. Tail(work)[i - 1] = work[i]
    <3>1. Tail(work)[i - 1] = work[(i - 1) + 1] /\ (i - 1) + 1 = i
      BY <1>2, <2>3, HeadIsFrame
    <3> QED BY <3>1
  <2>5. work'[Len(frames) + (i - 1)] = Tail(work)[i - 1]
    <3> DEFINE m == Len(frames) + (i - 1)
    <3>1. ~(m <= Len(frames)) /\ m - Len(frames) = i - 1
      BY <1>2, <2>3
    <3> HIDE DEF m
    <3> QED BY <1>4, <2>3, <3>1 DEF m
  <2> QED BY <2>1, <2>3, <2>4, <2>5 DEF Range
<1> QED BY <1>5, <1>6, <1>7 DEF Range

\* The calls that a call makes lead on, and no two of them to the same node.
LEMMA BeginsFollows ==
    ASSUME NEW h, h.way \in Seq(Node), NEW f, f.node \in Node, Follows(h, f)
    PROVE  /\ \A g : g.way \in Seq(Node) /\ Begins(f, g) => Begins(h, g)
           /\ \A g : g.way \in Seq(Node) /\ Begins(g, f) => Begins(g, h) \/ Begins(h, g)
           /\ \A g : g.way = h.way => ~Begins(f, g)
           /\ \A g : Follows(h, g) /\ g.node \in Node /\ Begins(f, g) => g.node = f.node
<1>1. /\ f.answer = h.answer /\ Len(h.way) \in Nat
      /\ Len(f.way) = Len(h.way) + 1 /\ f.way[Len(h.way) + 1] = f.node
      /\ \A i \in 1 .. Len(h.way) : f.way[i] = h.way[i]
  BY AppendProperties, LenProperties DEF Follows
<1>2. ASSUME NEW g, g.way \in Seq(Node)
      PROVE  /\ Begins(f, g) => Begins(h, g)
             /\ Begins(g, f) => Begins(g, h) \/ Begins(h, g)
  <2>1. Len(g.way) \in Nat
    BY <1>2, LenProperties
  <2>2. ASSUME Begins(f, g) PROVE Begins(h, g)
    <3>1. /\ f.answer = g.answer /\ Len(f.way) <= Len(g.way)
          /\ \A i \in 1 .. Len(f.way) : f.way[i] = g.way[i]
      BY <2>2 DEF Begins
    <3>2. \A i \in 1 .. Len(h.way) : i \in 1 .. Len(f.way)
      BY <1>1
    <3> QED BY <1>1, <2>1, <3>1, <3>2 DEF Begins
  <2>3. ASSUME Begins(g, f) PROVE Begins(g, h) \/ Begins(h, g)
    <3>1. /\ f.answer = g.answer /\ Len(g.way) <= Len(f.way)
          /\ \A i \in 1 .. Len(g.way) : g.way[i] = f.way[i]
      BY <2>3 DEF Begins
    <3>2. CASE Len(g.way) <= Len(h.way)
      <4>1. \A i \in 1 .. Len(g.way) : i \in 1 .. Len(h.way)
        BY <1>1, <2>1, <3>2
      <4> QED BY <1>1, <3>1, <3>2, <4>1 DEF Begins
    <3>3. CASE ~(Len(g.way) <= Len(h.way))
      <4>1. Len(h.way) <= Len(g.way) /\ \A i \in 1 .. Len(h.way) : i \in 1 .. Len(g.way)
        BY <1>1, <2>1, <3>3
      <4> QED BY <1>1, <3>1, <4>1 DEF Begins
    <3> QED BY <3>2, <3>3
  <2> QED BY <2>2, <2>3
<1>3. ASSUME NEW g, g.way = h.way PROVE ~Begins(f, g)
  BY <1>1, <1>3 DEF Begins
<1>4. ASSUME NEW g, Follows(h, g), g.node \in Node, Begins(f, g)
      PROVE  g.node = f.node
  <2>1. g.way[Len(h.way) + 1] = g.node
    BY <1>4, AppendProperties, LenProperties DEF Follows
  <2>2. Len(h.way) + 1 \in 1 .. Len(f.way)
    BY <1>1
  <2> QED BY <1>1, <1>4, <2>1, <2>2 DEF Begins
<1> QED BY <1>2, <1>3, <1>4

LEMMA ApartAfter ==
    ASSUME doc \in Documents, SheetTypeOK, work # <<>>, Apart(work),
           NEW frames \in Seq(Frame), work' = frames \o Tail(work),
           \A a \in DOMAIN frames : Follows(Head(work), frames[a]),
           \A a, b \in DOMAIN frames : frames[a].node = frames[b].node => a = b
    PROVE  Apart(work')
<1> DEFINE h == Head(work)
           l == Len(frames)
<1>1. /\ h = work[1] /\ 1 \in DOMAIN work /\ h.way \in Seq(Node)
      /\ \A i \in DOMAIN work : work[i].way \in Seq(Node)
  <2>1. work \in Seq(Frame)
    BY DEF SheetTypeOK
  <2>2. \A i \in DOMAIN work : work[i] \in Frame
    BY <2>1, LenProperties
  <2> QED BY <2>2, HeadIsFrame, FrameParts
<1>2. \A a \in DOMAIN frames : frames[a].node \in Node
  <2>1. \A a \in DOMAIN frames : frames[a] \in Frame
    BY LenProperties
  <2> QED BY <2>1, FrameParts
<1>3. /\ l \in Nat
      /\ \A i \in DOMAIN work' :
            /\ i \in Nat
            /\ i <= l => i \in DOMAIN frames /\ work'[i] = frames[i]
            /\ ~(i <= l) =>
                  /\ i - l + 1 \in DOMAIN work /\ i - l + 1 # 1
                  /\ work'[i] = work[i - l + 1]
  BY FramesAt
<1>4. \A m \in DOMAIN work : m # 1 => ~Begins(h, work[m]) /\ ~Begins(work[m], h)
  BY <1>1 DEF Apart
<1> HIDE DEF h, l
<1>5. ASSUME NEW i \in DOMAIN work', NEW j \in DOMAIN work', Begins(work'[i], work'[j])
      PROVE  i = j
  <2>1. CASE i <= l /\ j <= l
    <3>1. /\ i \in DOMAIN frames /\ work'[i] = frames[i] /\ Follows(h, frames[i])
          /\ j \in DOMAIN frames /\ work'[j] = frames[j] /\ Follows(h, frames[j])
      BY <1>3, <2>1 DEF h
    <3>2. frames[j].node = frames[i].node
      BY <1>1, <1>2, <1>5, <3>1, BeginsFollows
    <3> QED BY <3>1, <3>2
  <2>2. CASE i <= l /\ ~(j <= l)
    <3>1. i \in DOMAIN frames /\ work'[i] = frames[i] /\ Follows(h, frames[i])
      BY <1>3, <2>2 DEF h
    <3>2. PICK m \in DOMAIN work : m # 1 /\ work'[j] = work[m]
      BY <1>3, <2>2
    <3>3. Begins(h, work[m])
      BY <1>1, <1>2, <1>5, <3>1, <3>2, BeginsFollows
    <3> QED BY <1>4, <3>2, <3>3
  <2>3. CASE ~(i <= l) /\ j <= l
    <3>1. j \in DOMAIN frames /\ work'[j] = frames[j] /\ Follows(h, frames[j])
      BY <1>3, <2>3 DEF h
    <3>2. PICK m \in DOMAIN work : m # 1 /\ work'[i] = work[m]
      BY <1>3, <2>3
    <3>3. Begins(work[m], h) \/ Begins(h, work[m])
      BY <1>1, <1>2, <1>5, <3>1, <3>2, BeginsFollows
    <3> QED BY <1>4, <3>2, <3>3
  <2>4. CASE ~(i <= l) /\ ~(j <= l)
    <3>1. PICK m \in DOMAIN work : m = i - l + 1 /\ work'[i] = work[m]
      BY <1>3, <2>4
    <3>2. PICK k \in DOMAIN work : k = j - l + 1 /\ work'[j] = work[k]
      BY <1>3, <2>4
    <3>3. m = k
      BY <1>5, <3>1, <3>2 DEF Apart
    <3>4. i \in Nat /\ j \in Nat
      BY <1>3
    <3> QED BY <1>3, <3>1, <3>2, <3>3, <3>4
  <2> QED BY <2>1, <2>2, <2>3, <2>4
<1> QED BY <1>5 DEF Apart

\* The calls a call makes follow it, one for each node below.
LEMMA CallsFollow ==
    ASSUME doc \in Documents, SheetTypeOK, work # <<>>,
           NEW names, NEW array,
           LET h    == Head(work)
               next == doc.shape[h.node].next
               kind == doc.shape[h.node].kind
           IN  /\ \A i \in DOMAIN next :
                     names[i] = IF kind = "object" THEN Append(h.name, NameIn(h.node, next[i]))
                                ELSE h.name
               /\ array <=> kind = "array" \/ (kind \in {"$ref", "allOf"} /\ h.array)
    PROVE  LET frames == Below(names, array)
           IN  /\ \A i \in DOMAIN frames : Follows(Head(work), frames[i])
               /\ \A i, j \in DOMAIN frames : frames[i].node = frames[j].node => i = j
               /\ \A c \in Range(doc.shape[Head(work).node].next) :
                     \E f \in Range(frames) : f.node = c
<1> DEFINE h      == Head(work)
           next   == doc.shape[h.node].next
           frames == Below(names, array)
<1>1. /\ DOMAIN frames = DOMAIN next
      /\ \A i \in DOMAIN next :
            /\ frames[i].node = next[i] /\ frames[i].name = names[i] /\ frames[i].array = array
            /\ frames[i].answer = h.answer /\ frames[i].way = Append(h.way, next[i])
  BY BelowParts
<1> HIDE DEF frames
<1>2. ASSUME NEW i \in DOMAIN next
      PROVE  Follows(h, frames[i])
  <2>1. frames[i].node \in Range(next)
    BY <1>1 DEF Range
  <2> QED BY <1>1, <2>1 DEF Follows
<1>3. IsInjective(next)
  BY HeadIsFrame, DocParts DEF WellFormed
<1>4. \A c \in Range(next) : \E f \in Range(frames) : f.node = c
  BY <1>1 DEF Range
<1> HIDE DEF next
<1>5. \A i, j \in DOMAIN frames : frames[i].node = frames[j].node => i = j
  BY <1>1, <1>3 DEF IsInjective
<1> QED BY <1>1, <1>2, <1>4, <1>5 DEF frames, next

\* The response walk makes the calls that follow, if the stack has room.
GoesOn(h) ==
    /\ stage' = stage
    /\ \A i \in DOMAIN work' :
          Follows(h, work'[i]) \/ \E j \in DOMAIN work : j # 1 /\ work'[i] = work[j]
    /\ \A f \in Range(work) : f = h \/ f \in Range(work')
    /\ \A c \in Range(doc.shape[h.node].next) :
          \E f \in Range(work') : f.node = c /\ Follows(h, f)
    /\ Apart(work) => Apart(work')

TooDeep(h) == stage' = "died" /\ Len(h.way) >= MaxCalls /\ doc.shape[h.node].next # <<>>

LEMMA CallGoesOn ==
    ASSUME doc \in Documents, SheetTypeOK, work # <<>>,
           NEW names \in Names, NEW array \in BOOLEAN,
           LET h    == Head(work)
               next == doc.shape[h.node].next
               kind == doc.shape[h.node].kind
           IN  /\ \A i \in DOMAIN next :
                     names[i] = IF kind = "object" THEN Append(h.name, NameIn(h.node, next[i]))
                                ELSE h.name
               /\ array <=> kind = "array" \/ (kind \in {"$ref", "allOf"} /\ h.array),
           Call(Below(names, array))
    PROVE  GoesOn(Head(work)) \/ TooDeep(Head(work))
<1> DEFINE h == Head(work)
           frames == Below(names, array)
<1>1. /\ \A i \in DOMAIN frames : Follows(h, frames[i])
      /\ \A i, j \in DOMAIN frames : frames[i].node = frames[j].node => i = j
      /\ \A c \in Range(doc.shape[h.node].next) : \E f \in Range(frames) : f.node = c
  BY CallsFollow
<1>2. CASE Len(h.way) >= MaxCalls /\ frames # <<>>
  <2>1. stage' = "died"
    BY <1>2 DEF Call
  <2>2. doc.shape[h.node].next # <<>>
    <3>1. DOMAIN frames = DOMAIN doc.shape[h.node].next /\ Len(<<>>) = 0 /\ DOMAIN <<>> = {}
      BY DEF Below
    <3>2. ASSUME doc.shape[h.node].next = <<>> PROVE FALSE
      <4>1. frames = [i \in {} |-> {}]
        BY <3>1, <3>2 DEF Below
      <4> QED BY <1>2, <4>1
    <3> QED BY <3>2
  <2> QED BY <1>2, <2>1, <2>2 DEF TooDeep
<1>3. CASE ~(Len(h.way) >= MaxCalls /\ frames # <<>>)
  <2>1. frames \in Seq(Frame)
    <3>1. CASE frames = <<>>
      BY <3>1, EmptySeq
    <3>2. CASE frames # <<>>
      <4>1. Len(Head(work).way) < MaxCalls
        BY <1>3, <3>2, HeadIsFrame, CallsAssumption
      <4> QED BY <3>2, <4>1, FramesBelow
    <3> QED BY <3>1, <3>2
  <2>2. stage' = stage /\ work' = frames \o Tail(work)
    BY <1>3 DEF Call
  <2> HIDE DEF frames
  <2>3. /\ \A f \in Range(work) : f = Head(work) \/ f \in Range(work')
        /\ Range(frames) \subseteq Range(work')
    BY <2>1, <2>2, StackAfter
  <2>4. \A i \in DOMAIN work' :
          \/ \E j \in DOMAIN frames : work'[i] = frames[j]
          \/ \E j \in DOMAIN work : j # 1 /\ work'[i] = work[j]
    BY <2>1, <2>2, FramesAfter
  <2>5. Apart(work) => Apart(work')
    BY <1>1, <2>1, <2>2, ApartAfter
  <2>6. \A f \in Range(frames) : Follows(h, f)
    BY <1>1 DEF Range
  <2> HIDE DEF h
  <2>7. GoesOn(h)
    BY <1>1, <2>2, <2>3, <2>4, <2>5, <2>6 DEF GoesOn, h
  <2> QED BY <2>7 DEF h
<1> QED BY <1>2, <1>3

\* What a call does to the list of fields.
IsRow(h, g) == g.node = h.node /\ g.name = h.name /\ g.answer = h.answer /\ g.way = h.way

LEMMA PushLists ==
    ASSUME SheetTypeOK, NEW h \in Frame,
           IF ListsNode(h) THEN PushField(h) ELSE UNCHANGED fields
    PROVE  /\ \A i \in DOMAIN fields' :
                 \/ i \in DOMAIN fields /\ fields'[i] = fields[i]
                 \/ i = Len(fields) + 1 /\ IsRow(h, fields'[i]) /\ ListsNode(h)
           /\ Range(fields) \subseteq Range(fields')
           /\ ListsNode(h) => \E g \in Range(fields') : IsRow(h, g)
<1>1. CASE ~ListsNode(h)
  BY <1>1
<1>2. CASE ListsNode(h)
  <2> DEFINE r == [name |-> h.name, node |-> h.node, required |-> mark[h.node],
                   answer |-> h.answer, way |-> h.way]
  <2>1. fields' = Append(fields, r)
    BY <1>2 DEF PushField, ListsNode
  <2>2. fields \in Seq(Field) /\ r \in Field /\ IsRow(h, r)
    <3>1. r \in Field
      <4>1. h.node \in Node /\ h.name \in Seq(STRING) /\ h.answer \in Nat /\ h.way \in Seq(Node)
        BY FrameParts
      <4> QED BY <4>1 DEF SheetTypeOK, Field
    <3> QED BY <3>1 DEF SheetTypeOK, IsRow
  <2> HIDE DEF r
  <2>3. /\ Len(fields) \in Nat /\ DOMAIN fields = 1 .. Len(fields)
        /\ fields' \in Seq(Field) /\ Len(fields') = Len(fields) + 1
        /\ fields'[Len(fields) + 1] = r
        /\ \A i \in 1 .. Len(fields) : fields'[i] = fields[i]
    BY <2>1, <2>2, LenProperties, AppendProperties
  <2>4. DOMAIN fields' = 1 .. Len(fields) + 1
    BY <2>3, LenProperties
  <2>5. ASSUME NEW i \in DOMAIN fields'
        PROVE  \/ i \in DOMAIN fields /\ fields'[i] = fields[i]
               \/ i = Len(fields) + 1 /\ fields'[i] = r
    BY <2>3, <2>4
  <2>6. r \in Range(fields')
    <3>1. Len(fields) + 1 \in DOMAIN fields'
      BY <2>3, <2>4
    <3> QED BY <2>3, <3>1 DEF Range
  <2>7. Range(fields) \subseteq Range(fields')
    <3>1. \A i \in DOMAIN fields : i \in DOMAIN fields' /\ fields'[i] = fields[i]
      BY <2>3, <2>4
    <3> QED BY <3>1 DEF Range
  <2> QED BY <1>2, <2>2, <2>5, <2>6, <2>7
<1> QED BY <1>1, <1>2

\* A call of the walk through the responses
LEMMA ResponseCall ==
    ASSUME SheetInv, ResponseWalk
    PROVE  LET h == Head(work)
           IN  /\ stage = "responses" /\ UNCHANGED <<doc, api>>
               /\ h \in Frame /\ h \in Range(work) /\ 1 \in DOMAIN work /\ h = work[1]
               /\ \/ GoesOn(h)
                  \/ TooDeep(h)
                  \/ /\ stage' = "died" /\ doc.shape[h.node].kind = "object"
                     /\ mark[h.node] = "true"
               /\ IF ListsNode(h) THEN PushField(h) ELSE UNCHANGED fields
               /\ doc.shape[h.node].kind # "object" => UNCHANGED mark
               /\ GoesOn(h) /\ doc.shape[h.node].kind = "object"
                     => SetRequired(Properties(h.node), h.node)
<1> DEFINE h    == Head(work)
           kind == doc.shape[h.node].kind
<1>1. stage = "responses" /\ UNCHANGED <<doc, api>> /\ work # <<>>
  BY DEF ResponseWalk, ResponseRef, ResponseAllOf, ResponseArray, ResponseObject, ResponseLeaf,
         Visiting, Stay
<1>2. /\ doc \in Documents /\ SheetTypeOK /\ h \in Frame /\ h = work[1] /\ 1 \in DOMAIN work
      /\ h.array \in BOOLEAN /\ h.node \in Node /\ h.name \in Seq(STRING)
  BY <1>1, HeadIsFrame DEF SheetInv, TypeInv
<1>3. h \in Range(work)
  BY <1>2 DEF Range
<1>4. SameName \in Names /\ \A i \in DOMAIN doc.shape[h.node].next : SameName[i] = h.name
  BY <1>1, <1>2, NamesBelow DEF SameName
<1>5. CASE ResponseRef
  <2>1. kind = "$ref" /\ Call(Below(SameName, h.array)) /\ UNCHANGED <<mark, fields>>
    BY <1>5 DEF ResponseRef, Visiting, Stay
  <2>2. GoesOn(h) \/ TooDeep(h)
    BY <1>1, <1>2, <1>4, <2>1, CallGoesOn
  <2>3. ~ListsNode(h)
    BY <2>1 DEF ListsNode
  <2> QED BY <1>1, <1>2, <1>3, <2>1, <2>2, <2>3
<1>6. CASE ResponseAllOf
  <2>1. /\ kind = "allOf" /\ Call(Below(SameName, h.array)) /\ UNCHANGED mark
        /\ IF h.array THEN UNCHANGED fields ELSE PushField(h)
    BY <1>6 DEF ResponseAllOf, Visiting, Stay
  <2>2. GoesOn(h) \/ TooDeep(h)
    BY <1>1, <1>2, <1>4, <2>1, CallGoesOn
  <2>3. IF ListsNode(h) THEN PushField(h) ELSE UNCHANGED fields
    BY <2>1 DEF ListsNode, PushField
  <2> QED BY <1>1, <1>2, <1>3, <2>1, <2>2, <2>3
<1>7. CASE ResponseArray
  <2>1. kind = "array" /\ Call(Below(SameName, TRUE)) /\ UNCHANGED mark /\ PushField(h)
    BY <1>7 DEF ResponseArray, Visiting, Stay
  <2>2. GoesOn(h) \/ TooDeep(h)
    BY <1>1, <1>2, <1>4, <2>1, CallGoesOn
  <2>3. IF ListsNode(h) THEN PushField(h) ELSE UNCHANGED fields
    BY <2>1 DEF ListsNode, PushField
  <2> QED BY <1>1, <1>2, <1>3, <2>1, <2>2, <2>3
<1>8. CASE ResponseLeaf
  <2>1. /\ kind = "leaf" /\ Call(<<>>) /\ UNCHANGED mark
        /\ IF h.array THEN UNCHANGED fields ELSE PushField(h)
    BY <1>8 DEF ResponseLeaf, Visiting, Stay
  <2>2. doc.shape[h.node].next = <<>>
    BY <1>2, <2>1, DocParts DEF WellFormed
  <2>3. Below(SameName, FALSE) = <<>>
    <3>1. DOMAIN doc.shape[h.node].next = {}
      BY <2>2
    <3>2. Below(SameName, FALSE) = [i \in {} |-> {}]
      BY <3>1 DEF Below
    <3>3. [i \in {} |-> {}] = <<>>
      OBVIOUS
    <3> QED BY <3>2, <3>3
  <2>4. GoesOn(h) \/ TooDeep(h)
    BY <1>1, <1>2, <1>4, <2>1, <2>3, CallGoesOn
  <2>5. IF ListsNode(h) THEN PushField(h) ELSE UNCHANGED fields
    BY <2>1 DEF ListsNode, PushField
  <2> QED BY <1>1, <1>2, <1>3, <2>1, <2>4, <2>5
<1>9. CASE ResponseObject
  <2>1. /\ kind = "object" /\ UNCHANGED fields
        /\ \/ stage' = "died" /\ mark[h.node] = "true"
           \/ SetRequired(Properties(h.node), h.node) /\ Call(Below(PropertyNames, FALSE))
    BY <1>9 DEF ResponseObject, Visiting
  <2>2. ~ListsNode(h)
    BY <2>1 DEF ListsNode
  <2>3. CASE stage' = "died" /\ mark[h.node] = "true"
    BY <1>1, <1>2, <1>3, <2>1, <2>2, <2>3 DEF GoesOn
  <2>4. CASE SetRequired(Properties(h.node), h.node) /\ Call(Below(PropertyNames, FALSE))
    <3>1. PropertyNames \in Names
      BY <1>1, <1>2, <2>1, NamesBelow DEF Visiting
    <3>2. \A i \in DOMAIN doc.shape[h.node].next :
            PropertyNames[i] = Append(h.name, NameIn(h.node, doc.shape[h.node].next[i]))
      <4>1. \A i \in DOMAIN doc.shape[h.node].next :
              PropertyNames[i] = Append(h.name, doc.shape[h.node].key[i])
        BY DEF PropertyNames
      <4>2. \A i \in DOMAIN doc.shape[h.node].next :
              NameIn(h.node, doc.shape[h.node].next[i]) = doc.shape[h.node].key[i]
        BY <1>2, <2>1, KeyIsName
      <4> QED BY <4>1, <4>2
    <3>3. GoesOn(h) \/ TooDeep(h)
      BY <1>1, <1>2, <2>1, <2>4, <3>1, <3>2, CallGoesOn
    <3> QED BY <1>1, <1>2, <1>3, <2>1, <2>2, <2>4, <3>3
  <2> QED BY <2>1, <2>3, <2>4
<1> QED BY <1>5, <1>6, <1>7, <1>8, <1>9 DEF ResponseWalk

\* A call of the walk through the body
BodyWalk == BodyLeadsOn \/ BodyObject

LEMMA BodyCall ==
    ASSUME SheetInv, BodyWalk
    PROVE  LET h == Head(work)
           IN  /\ stage = "body" /\ UNCHANGED <<doc, api, fields>>
               /\ h \in Range(work) /\ h \in Frame
               /\ \/ /\ stage' = stage /\ last' \in {last, h.node}
                     /\ \A f \in Range(work') :
                           \/ f \in Range(work)
                           \/ /\ f.node \in Range(doc.shape[h.node].next)
                              /\ f.way = Append(h.way, f.node)
                              /\ doc.shape[h.node].kind # "object"
                  \/ TooDeep(h)
                  \/ stage' = "died" /\ mark[h.node] = "true"
<1> DEFINE h == Head(work)
<1>1. stage = "body" /\ UNCHANGED <<doc, api, fields>> /\ work # <<>>
  BY DEF BodyWalk, BodyLeadsOn, BodyObject, Visiting, Stay
<1>2. doc \in Documents /\ SheetTypeOK /\ h \in Frame /\ h = work[1] /\ 1 \in DOMAIN work
  BY <1>1, HeadIsFrame DEF SheetInv, TypeInv
<1>3. h \in Range(work)
  BY <1>2 DEF Range
<1>4. CASE BodyLeadsOn
  <2> DEFINE frames == Below(SameName, FALSE)
             next   == doc.shape[h.node].next
  <2>1. doc.shape[h.node].kind # "object" /\ Call(frames) /\ last' = last
    BY <1>4 DEF BodyLeadsOn, Visiting
  <2>2. /\ DOMAIN frames = DOMAIN next
        /\ \A i \in DOMAIN next : frames[i].node = next[i] /\ frames[i].way = Append(h.way, next[i])
    <3> DEFINE F(i) == [node |-> next[i], name |-> SameName[i], array |-> FALSE,
                        answer |-> h.answer, way |-> Append(h.way, next[i])]
    <3>1. frames = [i \in DOMAIN next |-> F(i)]
      BY DEF Below
    <3>2. \A i : F(i).node = next[i] /\ F(i).way = Append(h.way, next[i])
      OBVIOUS
    <3> HIDE DEF frames, F, next, h
    <3> QED BY <3>1, <3>2
  <2>3. \A f \in Range(frames) : f.node \in Range(next) /\ f.way = Append(h.way, f.node)
    <3> HIDE DEF next, h, frames
    <3> QED BY <2>2 DEF Range
  <2>4. CASE stage' = "died" /\ work' = work
    <3>1. Len(h.way) >= MaxCalls /\ frames # <<>>
      BY <1>1, <2>1, <2>4 DEF Call
    <3>2. next # <<>>
      <4>1. ASSUME next = <<>> PROVE FALSE
        <5>1. DOMAIN next = {}
          BY <4>1
        <5>2. frames = [i \in {} |-> {}]
          BY <5>1 DEF Below
        <5>3. [i \in {} |-> {}] = <<>>
          OBVIOUS
        <5> QED BY <3>1, <5>2, <5>3
      <4> QED BY <4>1
    <3> QED BY <1>1, <1>2, <1>3, <2>4, <3>1, <3>2 DEF TooDeep
  <2>5. CASE stage' = stage /\ frames \in Seq(Frame) /\ work' = frames \o Tail(work)
    <3>1. \A f \in Range(work') : f \in Range(work) \/ f \in Range(frames)
      BY <1>1, <1>2, <2>5, StackAfter
    <3> QED BY <1>1, <1>2, <1>3, <2>1, <2>3, <2>5, <3>1
  <2>6. SameName \in Names
    BY <1>1, <1>2, NamesBelow
  <2> QED BY <1>1, <1>2, <2>1, <2>4, <2>5, <2>6, CallType
<1>5. CASE BodyObject
  <2>1. \/ stage' = "died" /\ mark[h.node] = "true"
        \/ Call(<<>>) /\ last' = h.node
    BY <1>5 DEF BodyObject
  <2>2. CASE Call(<<>>) /\ last' = h.node
    <3>1. stage' = stage /\ work' = <<>> \o Tail(work) /\ <<>> \in Seq(Frame)
      BY <2>2, EmptySeq DEF Call
    <3>2. \A f \in Range(work') : f \in Range(work) \/ f \in Range(<<>>)
      BY <1>1, <1>2, <3>1, StackAfter
    <3>3. Range(<<>>) = {}
      BY DEF Range
    <3> QED BY <1>1, <1>2, <1>3, <2>2, <3>1, <3>2, <3>3
  <2> QED BY <1>1, <1>2, <1>3, <2>1, <2>2
<1> QED BY <1>4, <1>5 DEF BodyWalk

-----------------------------------------------------------------------------
(* The invariant is kept                                                   *)

WalkParts == CallsOk /\ CoverOk /\ FinishedOk /\ DeathOk

LEMMA SameCircles ==
    ASSUME doc' = doc
    PROVE  \A n : Cyclic(n)' <=> Cyclic(n)
BY DEF Cyclic, Ways

\* The end of a run needs a reason only.
LEMMA Dead ==
    ASSUME stage' = "died", UNCHANGED doc,
           \/ \E i \in DOMAIN doc.apis : ~doc.apis[i].domain
           \/ \E n \in Node : Cyclic(n)
           \/ \E n \in Node : /\ doc.shape[n].kind = "object"
                              /\ \E p \in Owners(n) : Declared(p, n) = "true"
    PROVE  WalkParts'
<1>1. CallsOk' /\ CoverOk' /\ FinishedOk'
  BY DEF CallsOk, BodyCallsOk, ResponseCallsOk, TrueMarksOk, CoverOk, FieldsOk, WaysOk, ApartOk,
         CirclesOk, FinishedOk
<1>2. DeathOk'
  BY SameCircles, SameShapes DEF DeathOk
<1> QED BY <1>1, <1>2 DEF WalkParts

\* A call as deep as there are nodes comes from a circle.
LEMMA DeepDeath ==
    ASSUME doc \in Documents, NEW n \in Node, doc.shape[n].next # <<>>,
           NEW w, IsWay(w), Len(w) >= MaxCalls, w[Len(w)] = n
    PROVE  \E m \in Node : Cyclic(m)
<1>1. doc.shape[n].next \in Seq(Node)
  BY ShapeParts
<1>2. PICK c \in Node : c \in Range(doc.shape[n].next)
  <2>1. Len(doc.shape[n].next) \in Nat \ {0}
    BY <1>1, EmptySeq, LenProperties
  <2>2. 1 \in DOMAIN doc.shape[n].next /\ doc.shape[n].next[1] \in Node
    BY <1>1, <2>1, LenProperties
  <2> QED BY <2>2 DEF Range
<1>3. IsWay(Append(w, c)) /\ Len(Append(w, c)) = Len(w) + 1
  BY <1>2, WayExtends
<1>4. Len(w) >= Cardinality(Node) /\ Len(w) \in Nat
  BY NodeCount, CallsAssumption, WayParts
<1>5. Len(Append(w, c)) > Cardinality(Node)
  BY <1>3, <1>4, NodeCount
<1> HIDE DEF Cyclic
<1> QED BY <1>3, <1>5, WayCyclic

LEMMA BodyWalkKeeps ==
    ASSUME SheetInv, WalkParts, BodyWalk
    PROVE  WalkParts'
<1> DEFINE h == Head(work)
<1>1. /\ stage = "body" /\ UNCHANGED <<doc, api, fields>> /\ h \in Range(work) /\ h \in Frame
      /\ \/ /\ stage' = stage /\ last' \in {last, h.node}
            /\ \A f \in Range(work') :
                  \/ f \in Range(work)
                  \/ /\ f.node \in Range(doc.shape[h.node].next)
                     /\ f.way = Append(h.way, f.node)
                     /\ doc.shape[h.node].kind # "object"
         \/ TooDeep(h)
         \/ stage' = "died" /\ mark[h.node] = "true"
  BY BodyCall
<1>2. doc \in Documents /\ h.node \in Node /\ ListsOk
  BY <1>1 DEF SheetInv, TypeInv, MarksOk, Frame
<1>3. /\ Owners(h.node) = {} /\ IsWay(h.way) /\ h.way[Len(h.way)] = h.node
      /\ last # NoNode => Owners(last) = {}
  BY <1>1 DEF WalkParts, CallsOk, BodyCallsOk
<1> HIDE DEF h
<1>4. CASE TooDeep(h)
  <2>1. \E n \in Node : Cyclic(n)
    BY <1>2, <1>3, <1>4, DeepDeath DEF TooDeep
  <2> QED BY <1>1, <1>4, <2>1, Dead DEF TooDeep
<1>5. CASE stage' = "died" /\ mark[h.node] = "true"
  <2>1. mark[h.node] = "list"
    BY <1>2, <1>3 DEF ListsOk
  <2> QED BY <1>5, <2>1
<1>6. CASE /\ stage' = stage /\ last' \in {last, h.node}
           /\ \A f \in Range(work') :
                 \/ f \in Range(work)
                 \/ /\ f.node \in Range(doc.shape[h.node].next)
                    /\ f.way = Append(h.way, f.node)
                    /\ doc.shape[h.node].kind # "object"
  <2>1. ASSUME NEW f \in Range(work')
        PROVE  Owners(f.node) = {} /\ IsWay(f.way) /\ f.way[Len(f.way)] = f.node
    <3>1. CASE f \in Range(work)
      BY <1>1, <3>1 DEF WalkParts, CallsOk, BodyCallsOk
    <3>2. CASE /\ f.node \in Range(doc.shape[h.node].next) /\ f.way = Append(h.way, f.node)
               /\ doc.shape[h.node].kind # "object"
      <4>1. f.node \in Node /\ Owners(f.node) = {}
        BY <1>2, <3>2, BelowUnowned
      <4>2. /\ IsWay(f.way) /\ Len(f.way) = Len(h.way) + 1 /\ f.way[Len(h.way) + 1] = f.node
        BY <1>3, <3>2, <4>1, WayExtends
      <4> QED BY <4>1, <4>2
    <3> QED BY <1>6, <3>1, <3>2
  <2>2. BodyCallsOk'
    <3>1. last' # NoNode => Owners(last') = {}
      BY <1>3, <1>6
    <3> QED BY <1>1, <2>1, <3>1, SameWays, SameShapes DEF BodyCallsOk
  <2>3. ResponseCallsOk' /\ TrueMarksOk' /\ CoverOk' /\ DeathOk'
    BY <1>1, <1>6
       DEF ResponseCallsOk, TrueMarksOk, CoverOk, FieldsOk, WaysOk, ApartOk, CirclesOk, DeathOk
  <2>4. FinishedOk'
    BY <1>1, <1>6, SameWays DEF WalkParts, FinishedOk, Finished
  <2> QED BY <2>2, <2>3, <2>4 DEF WalkParts, CallsOk
<1> QED BY <1>1, <1>4, <1>5, <1>6

\* The calls of the response walk that go on, part by part
Walks(h) ==
    /\ SheetInv /\ WalkParts /\ stage = "responses" /\ UNCHANGED <<doc, api>>
    /\ h \in Frame /\ 1 \in DOMAIN work /\ h = work[1] /\ GoesOn(h) /\ work' \in Seq(Frame)
    /\ IF ListsNode(h) THEN PushField(h) ELSE UNCHANGED fields
    /\ doc.shape[h.node].kind # "object" => UNCHANGED mark
    /\ doc.shape[h.node].kind = "object" => SetRequired(Properties(h.node), h.node)

LEMMA WalksFacts ==
    ASSUME NEW h, Walks(h)
    PROVE  /\ doc \in Documents /\ SheetTypeOK /\ stage' = "responses" /\ h \in Range(work)
           /\ Answers' = Answers /\ \A a : ResponseWays(a)' = ResponseWays(a)
           /\ \A f \in Range(work') : f \in Range(work) \/ Follows(h, f)
           /\ \A f \in Range(work') : f \in Frame
           /\ h.answer \in Answers /\ h.way \in ResponseWays(h.answer) /\ AtEnd(h, h.way)
<1>1. /\ SheetInv /\ WalkParts /\ stage = "responses" /\ UNCHANGED <<doc, api>>
      /\ work' \in Seq(Frame) /\ stage' = stage /\ 1 \in DOMAIN work /\ h = work[1]
      /\ \A i \in DOMAIN work' :
            Follows(h, work'[i]) \/ \E j \in DOMAIN work : j # 1 /\ work'[i] = work[j]
  BY DEF Walks, GoesOn
<1>2. h \in Range(work)
  BY <1>1 DEF Range
<1>3. Answers' = Answers /\ \A a : ResponseWays(a)' = ResponseWays(a)
  BY <1>1, SameWays DEF Answers, Current
<1>4. \A f \in Range(work') : f \in Frame
  BY <1>1, RangeOfSeq
<1>5. ASSUME NEW f \in Range(work') PROVE f \in Range(work) \/ Follows(h, f)
  <2>1. PICK i \in DOMAIN work' : f = work'[i]
    BY DEF Range
  <2> QED BY <1>1, <2>1 DEF Range
<1>6. h.answer \in Answers /\ \E w \in ResponseWays(h.answer) : AtEnd(h, w)
  BY <1>1, <1>2 DEF WalkParts, CallsOk, ResponseCallsOk
<1>7. h.way \in ResponseWays(h.answer) /\ AtEnd(h, h.way)
  BY <1>6 DEF AtEnd
<1>8. doc \in Documents /\ SheetTypeOK
  BY <1>1 DEF SheetInv, TypeInv
<1> QED BY <1>1, <1>2, <1>3, <1>4, <1>5, <1>6, <1>7, <1>8

\* A way that goes on with a call goes on with the calls it makes.
LEMMA WayFollows ==
    ASSUME NEW h, Walks(h), NEW f \in Range(work'), Follows(h, f)
    PROVE  f.answer = h.answer /\ f.way \in ResponseWays(h.answer) /\ AtEnd(f, f.way)
<1>1. /\ IsWay(h.way) /\ h.way[1] = Current.responses[h.answer]
      /\ doc \in Documents /\ AtEnd(h, h.way)
  BY WalksFacts DEF ResponseWays
<1>2. h \in Frame /\ f \in Frame /\ f.way = Append(h.way, f.node) /\ f.answer = h.answer
  BY WalksFacts DEF Walks, Follows
<1>3. /\ h.array \in BOOLEAN /\ h.name \in Seq(STRING)
      /\ f.node \in Node /\ f.array \in BOOLEAN /\ f.name \in Seq(STRING)
  BY <1>2, FrameParts
<1>4. IsWay(f.way) /\ AtEnd(f, f.way)
  BY <1>1, <1>2, <1>3, AtEndFollows
<1>5. f.way[1] = h.way[1] /\ f.way \in Seq(Node)
  <2>1. h.way \in Seq(Node) /\ Len(h.way) \in Nat \ {0} /\ 1 \in 1 .. Len(h.way)
    BY <1>1, WayParts
  <2> QED BY <1>2, <1>3, <2>1, AppendProperties
<1> QED BY <1>1, <1>2, <1>4, <1>5 DEF ResponseWays

LEMMA WalksCalls ==
    ASSUME NEW h, Walks(h)
    PROVE  ResponseCallsOk'
<1>1. /\ doc' = doc /\ UNCHANGED api /\ stage = "responses"
      /\ Answers' = Answers /\ \A a : ResponseWays(a)' = ResponseWays(a)
      /\ \A f \in Range(work') : f \in Range(work) \/ Follows(h, f)
  BY WalksFacts DEF Walks
<1>2. ASSUME NEW f \in Range(work')
      PROVE  f.answer \in Answers /\ \E w \in ResponseWays(f.answer) : AtEnd(f, w)
  <2>1. CASE f \in Range(work)
    BY <1>1, <2>1 DEF Walks, WalkParts, CallsOk, ResponseCallsOk
  <2>2. CASE Follows(h, f)
    BY <2>2, WalksFacts, WayFollows
  <2> QED BY <1>1, <2>1, <2>2
<1> QED BY <1>1, <1>2, SameWays DEF ResponseCallsOk

\* An object marks its properties as it declares them, if it still has its list.
LEMMA WalksTrueMarks ==
    ASSUME NEW h, Walks(h)
    PROVE  TrueMarksOk'
<1> DEFINE g == h.node
<1>1. /\ doc' = doc /\ doc \in Documents /\ g \in Node /\ stage = "responses" /\ TrueMarksOk
      /\ \A f \in Range(work') : f \in Range(work) \/ Follows(h, f)
  BY WalksFacts, FrameParts DEF Walks, WalkParts, CallsOk
<1>2. ASSUME NEW n \in Node, NEW p \in Owners(n), NEW f \in Range(work'),
             f.node = n, mark'[n] = "true"
      PROVE  Declared(p, n) = "true"
  <2>1. p \in Node /\ doc.shape[p].kind = "object" /\ n \in Range(doc.shape[p].next)
    BY DEF Owners
  <2>2. CASE p = g
    <3>1. SetRequired(Properties(g), g)
      BY <2>1, <2>2 DEF Walks
    <3> DEFINE names == {k \in DOMAIN Properties(g) : Properties(g)[k] = n}
    <3>2. names = {NameIn(p, n)}
      BY <1>1, <2>2, OneName
    <3>3. mark'[n] = IF names = {} THEN mark[n]
                     ELSE IF names \cap RequiredList(g) # {} THEN "true" ELSE "false"
      BY <3>1 DEF SetRequired
    <3> HIDE DEF names
    <3>4. NameIn(p, n) \in RequiredList(g)
      BY <1>2, <3>2, <3>3
    <3>5. RequiredList(g) \subseteq doc.shape[g].required
      BY DEF RequiredList
    <3> QED BY <2>2, <3>4, <3>5 DEF Declared
  <2>3. CASE p # g
    <3>1. n \notin Range(doc.shape[g].next)
      BY <1>1, <2>3, OneOwner
    <3>2. f \in Range(work)
      BY <1>1, <1>2, <3>1 DEF Follows
    <3>3. mark'[n] = mark[n]
      <4>1. CASE doc.shape[g].kind # "object"
        BY <4>1 DEF Walks
      <4>2. CASE doc.shape[g].kind = "object"
        <5>1. SetRequired(Properties(g), g)
          BY <4>2 DEF Walks
        <5>2. \A k \in DOMAIN Properties(g) : Properties(g)[k] # n
          <6>1. \A k \in DOMAIN Properties(g) : g \in Owners(Properties(g)[k])
            BY <1>1, <4>2, PropertyOwned
          <6> QED BY <3>1, <6>1 DEF Owners
        <5> QED BY <5>1, <5>2, Unmarked
      <4> QED BY <4>1, <4>2
    <3> QED BY <1>1, <1>2, <3>2, <3>3 DEF TrueMarksOk
  <2> QED BY <2>2, <2>3
<1> QED BY <1>1, <1>2, SameShapes DEF TrueMarksOk

\* What a call lists is the end of its way.
LEMMA WalksRows ==
    ASSUME NEW h, Walks(h)
    PROVE  /\ \A i \in DOMAIN fields' :
                 \/ i \in DOMAIN fields /\ fields'[i] = fields[i]
                 \/ i = Len(fields) + 1 /\ IsRow(h, fields'[i]) /\ Listed(h.way)
           /\ Range(fields) \subseteq Range(fields')
           /\ Listed(h.way) => \E g \in Range(fields') : g.answer = h.answer /\ g.way = h.way
<1>1. /\ SheetTypeOK /\ h \in Frame /\ AtEnd(h, h.way)
      /\ IF ListsNode(h) THEN PushField(h) ELSE UNCHANGED fields
  BY WalksFacts DEF Walks
<1>2. ListsNode(h) <=> Listed(h.way)
  BY <1>1, FrameParts, ListsListed
<1>3. /\ \A i \in DOMAIN fields' :
            \/ i \in DOMAIN fields /\ fields'[i] = fields[i]
            \/ i = Len(fields) + 1 /\ IsRow(h, fields'[i]) /\ ListsNode(h)
      /\ Range(fields) \subseteq Range(fields')
      /\ ListsNode(h) => \E g \in Range(fields') : IsRow(h, g)
  BY <1>1, PushLists
<1> QED BY <1>2, <1>3 DEF IsRow

LEMMA WalksFields ==
    ASSUME NEW h, Walks(h)
    PROVE  FieldsOk'
<1>1. /\ doc' = doc /\ stage = "responses" /\ FieldsOk
      /\ Answers' = Answers /\ \A a : ResponseWays(a)' = ResponseWays(a)
      /\ h.answer \in Answers /\ h.way \in ResponseWays(h.answer) /\ AtEnd(h, h.way)
  BY WalksFacts DEF Walks, WalkParts, CoverOk
<1>2. ASSUME NEW g \in Range(fields')
      PROVE  /\ g.answer \in Answers /\ g.way \in ResponseWays(g.answer)
             /\ Listed(g.way) /\ g.node = g.way[Len(g.way)] /\ NamedBy(g.name, g.way)
  <2>1. PICK i \in DOMAIN fields' : g = fields'[i]
    BY DEF Range
  <2>2. CASE i \in DOMAIN fields /\ fields'[i] = fields[i]
    <3>1. g \in Range(fields)
      BY <2>1, <2>2 DEF Range
    <3> QED BY <1>1, <3>1 DEF FieldsOk
  <2>3. CASE IsRow(h, g) /\ Listed(h.way)
    BY <1>1, <2>3 DEF IsRow, AtEnd
  <2> QED BY <2>1, <2>2, <2>3, WalksRows
<1> QED BY <1>1, <1>2, SameWays DEF FieldsOk

\* A way with a call on it still has one, or its last node has been listed.
LEMMA WalksWays ==
    ASSUME NEW h, Walks(h)
    PROVE  WaysOk'
<1>1. /\ doc' = doc /\ stage = "responses" /\ WaysOk /\ doc \in Documents
      /\ stage' = "responses" /\ AtEnd(h, h.way)
      /\ Answers' = Answers /\ \A a : ResponseWays(a)' = ResponseWays(a)
      /\ \A f \in Range(work) : f = h \/ f \in Range(work')
      /\ \A c \in Range(doc.shape[h.node].next) :
            \E f \in Range(work') : f.node = c /\ Follows(h, f)
  BY WalksFacts DEF Walks, WalkParts, CoverOk, GoesOn
<1>2. /\ Range(fields) \subseteq Range(fields')
      /\ Listed(h.way) => \E g \in Range(fields') : g.answer = h.answer /\ g.way = h.way
  BY WalksRows
<1>3. ASSUME NEW a \in Answers, NEW w \in ResponseWays(a)
      PROVE  \/ Listed(w) => \E g \in Range(fields') : g.answer = a /\ g.way = w
             \/ \E k \in 1 .. Len(w) : \E f \in Range(work') :
                   f.answer = a /\ AtEnd(f, SubSeq(w, 1, k))
  <2>0. IsWay(w) /\ w \in Seq(Node) /\ Len(w) \in Nat \ {0}
    BY WayParts DEF ResponseWays
  <2>1. CASE Listed(w) => \E g \in Range(fields) : g.answer = a /\ g.way = w
    BY <1>2, <2>1
  <2>2. CASE ToCome(a, w)
    <3>1. PICK k \in 1 .. Len(w) : \E f \in Range(work) : f.answer = a /\ AtEnd(f, SubSeq(w, 1, k))
      BY <2>2 DEF ToCome
    <3>2. PICK f \in Range(work) : f.answer = a /\ AtEnd(f, SubSeq(w, 1, k))
      BY <3>1
    <3>3. CASE f # h
      BY <1>1, <3>2, <3>3
    <3>4. CASE f = h /\ k = Len(w)
      <4>1. SubSeq(w, 1, k) = w
        BY <2>0, <3>4, SubSeqFull
      <4>2. h.way = w
        BY <3>2, <3>4, <4>1 DEF AtEnd
      <4> QED BY <1>2, <3>2, <3>4, <4>2
    <3>5. CASE f = h /\ k # Len(w)
      <4> DEFINE v == SubSeq(w, 1, k)
      <4>1. k \in 1 .. Len(w) - 1 /\ k + 1 \in 1 .. Len(w) /\ k \in 1 .. k
        BY <2>0, <3>5
      <4>2. IsWay(v) /\ Len(v) = k /\ v[k] = w[k]
        BY <2>0, <4>1, WayPrefix
      <4>3. SubSeq(w, 1, k + 1) = Append(v, w[k + 1])
        BY <2>0, <4>1, PrefixGrows
      <4> HIDE DEF v
      <4>4. h.way = v /\ h.node = w[k] /\ h.answer = a
        BY <3>2, <3>5, <4>2 DEF AtEnd, v
      <4>5. w[k + 1] \in Range(doc.shape[h.node].next)
        BY <2>0, <4>1, <4>4 DEF IsWay
      <4>6. PICK c \in Range(work') : c.node = w[k + 1] /\ Follows(h, c)
        BY <1>1, <4>5
      <4>7. c.answer = a /\ AtEnd(c, c.way) /\ c.way = SubSeq(w, 1, k + 1)
        BY <4>3, <4>4, <4>6, WayFollows DEF Follows
      <4> QED BY <4>1, <4>7
    <3> QED BY <3>2, <3>3, <3>4, <3>5
  <2> QED BY <1>1, <2>1, <2>2 DEF WaysOk
<1>4. \A a, w : ToCome(a, w)' <=> \E k \in 1 .. Len(w) : \E f \in Range(work') :
                                     f.answer = a /\ AtEnd(f, SubSeq(w, 1, k))
  BY <1>1, SameWays DEF ToCome
<1> QED BY <1>1, <1>3, <1>4, SameWays DEF WaysOk

\* The calls a call makes are further on its way, and its own place is left.
LEMMA WalksApart ==
    ASSUME NEW h, Walks(h)
    PROVE  ApartOk'
<1>1. /\ stage = "responses" /\ ApartOk /\ SheetTypeOK /\ h \in Frame /\ work' \in Seq(Frame)
      /\ 1 \in DOMAIN work /\ h = work[1]
      /\ \A i \in DOMAIN work' :
            Follows(h, work'[i]) \/ \E j \in DOMAIN work : j # 1 /\ work'[i] = work[j]
      /\ Apart(work) => Apart(work')
  BY WalksFacts DEF Walks, WalkParts, CoverOk, GoesOn
<1>2. /\ \A i, j \in DOMAIN fields :
            fields[i].answer = fields[j].answer /\ fields[i].way = fields[j].way => i = j
      /\ Apart(work)
      /\ \A i \in DOMAIN work : \A j \in DOMAIN fields : ~Begins(work[i], fields[j])
  BY <1>1 DEF ApartOk
<1>3. \A i \in DOMAIN fields' :
        \/ i \in DOMAIN fields /\ fields'[i] = fields[i]
        \/ i = Len(fields) + 1 /\ fields'[i].answer = h.answer /\ fields'[i].way = h.way
  BY WalksRows DEF IsRow
<1>4. /\ h.way \in Seq(Node) /\ Len(h.way) \in Nat
      /\ \A i \in DOMAIN fields : fields[i].way \in Seq(Node)
      /\ \A i \in DOMAIN work' : work'[i].node \in Node
  <2>1. \A i \in DOMAIN fields : fields[i] \in Field
    BY <1>1, LenProperties DEF SheetTypeOK
  <2>2. \A i \in DOMAIN work' : work'[i] \in Frame
    BY <1>1, LenProperties
  <2> QED BY <1>1, <2>1, <2>2, FrameParts, LenProperties DEF Field
<1>5. \A j \in DOMAIN fields : ~(fields[j].answer = h.answer /\ fields[j].way = h.way)
  BY <1>1, <1>2, <1>4 DEF Begins
<1>6. ASSUME NEW i \in DOMAIN fields', NEW j \in DOMAIN fields',
             fields'[i].answer = fields'[j].answer, fields'[i].way = fields'[j].way
      PROVE  i = j
  BY <1>2, <1>3, <1>5, <1>6
<1>7. ASSUME NEW i \in DOMAIN work', NEW j \in DOMAIN fields', Begins(work'[i], fields'[j])
      PROVE  FALSE
  <2>1. CASE j \in DOMAIN fields /\ fields'[j] = fields[j]
    <3>1. CASE Follows(h, work'[i])
      <4>1. Begins(h, fields[j])
        BY <1>4, <1>7, <2>1, <3>1, BeginsFollows
      <4> QED BY <1>1, <1>2, <2>1, <4>1
    <3>2. CASE \E k \in DOMAIN work : k # 1 /\ work'[i] = work[k]
      BY <1>2, <1>7, <2>1, <3>2
    <3> QED BY <1>1, <3>1, <3>2
  <2>2. CASE fields'[j].answer = h.answer /\ fields'[j].way = h.way
    <3>1. CASE Follows(h, work'[i])
      BY <1>4, <1>7, <2>2, <3>1, BeginsFollows
    <3>2. CASE \E k \in DOMAIN work : k # 1 /\ work'[i] = work[k]
      <4>1. PICK k \in DOMAIN work : k # 1 /\ work'[i] = work[k]
        BY <3>2
      <4>2. Begins(work[k], work[1])
        BY <1>1, <1>7, <2>2, <4>1 DEF Begins
      <4> QED BY <1>1, <1>2, <4>1, <4>2 DEF Apart
    <3> QED BY <1>1, <3>1, <3>2
  <2> QED BY <1>3, <2>1, <2>2
<1> QED BY <1>1, <1>2, <1>6, <1>7 DEF ApartOk

\* A circle is below the call or below one that it makes.
LEMMA WalksCircles ==
    ASSUME NEW h, Walks(h)
    PROVE  CirclesOk'
<1>1. /\ doc' = doc /\ UNCHANGED api /\ stage = "responses" /\ CirclesOk
      /\ \A f \in Range(work) : f = h \/ f \in Range(work')
      /\ \A c \in Range(doc.shape[h.node].next) : \E f \in Range(work') : f.node = c
  BY DEF Walks, WalkParts, CoverOk, GoesOn
<1>2. ASSUME NEW r \in Range(Current.responses), Endless(r)
      PROVE  \E f \in Range(work') : Endless(f.node)
  <2>1. PICK f \in Range(work) : Endless(f.node)
    BY <1>1, <1>2 DEF CirclesOk
  <2>2. CASE f # h
    BY <1>1, <2>1, <2>2
  <2>3. CASE f = h
    <3>1. PICK S \in SUBSET Node :
            h.node \in S /\ \A m \in S : \E c \in S : c \in Range(doc.shape[m].next)
      BY <2>1, <2>3 DEF Endless
    <3>2. PICK c \in S : c \in Range(doc.shape[h.node].next)
      BY <3>1
    <3>3. Endless(c)
      BY <3>1 DEF Endless
    <3>4. PICK e \in Range(work') : e.node = c
      BY <1>1, <3>2
    <3> QED BY <3>3, <3>4
  <2> QED BY <2>2, <2>3
<1>3. Current' = Current
  BY <1>1 DEF Current
<1> QED BY <1>1, <1>2, <1>3, SameWays DEF CirclesOk

LEMMA ResponseWalkKeeps ==
    ASSUME SheetInv, WalkParts, ResponseWalk
    PROVE  WalkParts'
<1> DEFINE h == Head(work)
<1>1. /\ stage = "responses" /\ UNCHANGED <<doc, api>> /\ h \in Frame
      /\ h \in Range(work) /\ 1 \in DOMAIN work /\ h = work[1]
      /\ \/ GoesOn(h)
         \/ TooDeep(h)
         \/ /\ stage' = "died" /\ doc.shape[h.node].kind = "object"
            /\ mark[h.node] = "true"
      /\ IF ListsNode(h) THEN PushField(h) ELSE UNCHANGED fields
      /\ doc.shape[h.node].kind # "object" => UNCHANGED mark
      /\ GoesOn(h) /\ doc.shape[h.node].kind = "object"
            => SetRequired(Properties(h.node), h.node)
  BY ResponseCall
<1>2. doc \in Documents /\ h.node \in Node /\ ListsOk
  BY <1>1 DEF SheetInv, TypeInv, MarksOk, Frame
<1>3. work' \in Seq(Frame)
  BY ResponseWalkTypes DEF SheetInv, TypeInv, SheetTypeOK
<1> HIDE DEF h
<1>4. CASE TooDeep(h)
  <2>1. PICK w \in ResponseWays(h.answer) : AtEnd(h, w)
    BY <1>1 DEF WalkParts, CallsOk, ResponseCallsOk
  <2>2. IsWay(w) /\ w = h.way /\ w[Len(w)] = h.node
    BY <2>1 DEF ResponseWays, AtEnd
  <2>3. \E n \in Node : Cyclic(n)
    BY <1>2, <1>4, <2>2, DeepDeath DEF TooDeep
  <2> QED BY <1>1, <1>4, <2>3, Dead DEF TooDeep
<1>5. CASE stage' = "died" /\ doc.shape[h.node].kind = "object" /\ mark[h.node] = "true"
  <2>1. PICK p \in Owners(h.node) : TRUE
    BY <1>2, <1>5 DEF ListsOk
  <2>2. Declared(p, h.node) = "true"
    BY <1>1, <1>2, <1>5 DEF WalkParts, CallsOk, TrueMarksOk
  <2> QED BY <1>1, <1>2, <1>5, <2>2, Dead
<1>6. CASE GoesOn(h)
  <2>1. Walks(h)
    BY <1>1, <1>3, <1>6 DEF Walks
  <2>2. stage' = "responses"
    BY <1>1, <1>6 DEF GoesOn
  <2>3. BodyCallsOk' /\ DeathOk'
    BY <2>2 DEF BodyCallsOk, DeathOk
  <2>4. FinishedOk'
    BY <1>1, <2>2, SameWays DEF WalkParts, FinishedOk, Finished
  <2> QED BY <2>1, <2>3, <2>4, WalksCalls, WalksTrueMarks, WalksFields, WalksWays, WalksApart,
              WalksCircles
          DEF WalkParts, CallsOk, CoverOk
<1> QED BY <1>1, <1>4, <1>5, <1>6

\* The walk through the body begins.
LEMMA QueryKeeps ==
    ASSUME SheetInv, WalkParts, QuerySection
    PROVE  WalkParts'
<1>1. /\ stage = "query" /\ stage' = "body" /\ last' = NoNode /\ UNCHANGED <<doc, api, fields>>
      /\ work' = IF Current.body = NoNode THEN <<>>
                 ELSE <<[node |-> Current.body, name |-> <<>>, array |-> FALSE,
                         answer |-> 0, way |-> <<Current.body>>]>>
  BY DEF QuerySection, Stay
<1>2. doc \in Documents /\ api \in DOMAIN doc.apis
  BY <1>1 DEF SheetInv, TypeInv, RowsOk, Sections
<1>3. Current.body \in Node \cup {NoNode} /\ Owners(Current.body) = {}
  BY <1>2, CurrentApi, PlacesUnowned
<1>4. ASSUME NEW f \in Range(work')
      PROVE  Owners(f.node) = {} /\ IsWay(f.way) /\ f.way[Len(f.way)] = f.node
  <2>1. Current.body # NoNode /\ f.node = Current.body /\ f.way = <<Current.body>>
    <3>1. CASE Current.body = NoNode
      BY <1>1, <3>1 DEF Range
    <3>2. CASE Current.body # NoNode
      <4> DEFINE e == [node |-> Current.body, name |-> <<>>, array |-> FALSE,
                       answer |-> 0, way |-> <<Current.body>>]
      <4>1. e.node = Current.body /\ e.way = <<Current.body>>
        OBVIOUS
      <4> HIDE DEF e
      <4>2. work' = <<e>>
        BY <1>1, <3>2 DEF e
      <4>3. f = e
        BY <4>2 DEF Range
      <4> QED BY <3>2, <4>1, <4>3
    <3> QED BY <3>1, <3>2
  <2>2. f.node \in Node
    BY <1>3, <2>1
  <2>3. IsWay(<<f.node>>) /\ Len(<<f.node>>) = 1 /\ <<f.node>>[1] = f.node
    BY <2>2, WayOfOne
  <2> QED BY <1>3, <2>1, <2>3
<1>5. BodyCallsOk'
  BY <1>1, <1>4, SameWays, SameShapes DEF BodyCallsOk
<1>6. ResponseCallsOk' /\ TrueMarksOk' /\ CoverOk' /\ DeathOk'
  BY <1>1 DEF ResponseCallsOk, TrueMarksOk, CoverOk, FieldsOk, WaysOk, ApartOk, CirclesOk, DeathOk
<1>7. FinishedOk'
  BY <1>1, SameWays DEF WalkParts, FinishedOk, Finished
<1> QED BY <1>5, <1>6, <1>7 DEF WalkParts, CallsOk

\* The walk through the responses begins, with a call for each of them.
LEMMA BodyKeeps ==
    ASSUME SheetInv, WalkParts, BodySection
    PROVE  WalkParts'
<1> DEFINE F(i) == [node |-> Current.responses[i], name |-> <<>>, array |-> FALSE,
                    answer |-> i, way |-> <<Current.responses[i]>>]
<1>1. /\ stage = "body" /\ stage' = "responses" /\ UNCHANGED <<doc, api>> /\ fields' = <<>>
      /\ work' = [i \in DOMAIN Current.responses |-> F(i)]
  BY DEF BodySection, Stay
<1>2. doc \in Documents /\ api \in DOMAIN doc.apis
  BY <1>1 DEF SheetInv, TypeInv, RowsOk, Sections
<1>3. /\ \A r \in Range(Current.responses) : r \in Node /\ Owners(r) = {}
      /\ Current' = Current
  BY <1>1, <1>2, PlacesUnowned DEF Current
<1>4. \A i : /\ F(i).node = Current.responses[i] /\ F(i).name = <<>>
             /\ F(i).answer = i /\ F(i).way = <<Current.responses[i]>>
  OBVIOUS
<1> HIDE DEF F
<1>5. /\ DOMAIN work' = Answers
      /\ \A i \in Answers :
            /\ work'[i].node = Current.responses[i] /\ work'[i].name = <<>>
            /\ work'[i].answer = i /\ work'[i].way = <<Current.responses[i]>>
            /\ Current.responses[i] \in Range(Current.responses)
  BY <1>1, <1>4 DEF Answers, Range
<1>6. /\ \A f \in Range(work') :
            /\ f.node \in Range(Current.responses) /\ f.name = <<>> /\ f.answer \in Answers
            /\ f.node = Current.responses[f.answer] /\ f.way = <<f.node>>
      /\ \A r \in Range(Current.responses) : \E f \in Range(work') : f.node = r
  <2>1. \A f \in Range(work') : \E i \in Answers : f = work'[i]
    BY <1>5 DEF Range
  <2>2. \A r \in Range(Current.responses) : \E i \in Answers : r = Current.responses[i]
    BY DEF Range, Answers
  <2>3. \A i \in Answers : work'[i] \in Range(work')
    BY <1>5 DEF Range
  <2> QED BY <1>5, <2>1, <2>2, <2>3
<1>7. ASSUME NEW f \in Range(work')
      PROVE  /\ f.answer \in Answers /\ <<f.node>> \in ResponseWays(f.answer)
             /\ AtEnd(f, <<f.node>>)
  <2>1. /\ f.node \in Node /\ f.name = <<>> /\ f.answer \in Answers
        /\ f.node = Current.responses[f.answer] /\ f.way = <<f.node>>
    BY <1>3, <1>6
  <2>2. /\ IsWay(<<f.node>>) /\ <<f.node>> \in Seq(Node) /\ Len(<<f.node>>) = 1
        /\ <<f.node>>[1] = f.node
    BY <2>1, WayOfOne
  <2>3. NamesOn(<<f.node>>) = {}
    BY <2>2 DEF NamesOn
  <2>4. NamedBy(<<>>, <<f.node>>)
    <3>1. Len(<<>>) = 0
      OBVIOUS
    <3> QED BY <2>3, <3>1, FS_EmptySet DEF NamedBy
  <2>5. AtEnd(f, <<f.node>>)
    BY <2>1, <2>2, <2>3, <2>4 DEF AtEnd, Named
  <2>6. <<f.node>> \in ResponseWays(f.answer)
    BY <2>1, <2>2 DEF ResponseWays
  <2> QED BY <2>1, <2>5, <2>6
<1>8. Answers' = Answers /\ \A a : ResponseWays(a)' = ResponseWays(a)
  BY <1>1, <1>3, SameWays DEF Answers
<1>9. BodyCallsOk' /\ DeathOk'
  BY <1>1 DEF BodyCallsOk, DeathOk
<1>10. ResponseCallsOk'
  BY <1>1, <1>7, <1>8, SameWays DEF ResponseCallsOk
<1>11. TrueMarksOk'
  <2>1. \A f \in Range(work') : Owners(f.node) = {}
    BY <1>3, <1>6
  <2> QED BY <1>1, <2>1, SameShapes DEF TrueMarksOk
<1>12. FieldsOk'
  <2>1. Range(fields') = {}
    BY <1>1 DEF Range
  <2> QED BY <2>1 DEF FieldsOk
<1>13. WaysOk'
  <2>1. ASSUME NEW a \in Answers, NEW w \in ResponseWays(a)
        PROVE  \E k \in 1 .. Len(w) : \E f \in Range(work') :
                  f.answer = a /\ AtEnd(f, SubSeq(w, 1, k))
    <3>1. /\ IsWay(w) /\ w \in Seq(Node) /\ Len(w) \in Nat \ {0} /\ 1 \in 1 .. Len(w)
          /\ w[1] = Current.responses[a]
      BY WayParts DEF ResponseWays
    <3>2. PICK f \in Range(work') : f.answer = a /\ f.node = w[1]
      <4>1. work'[a] \in Range(work') /\ work'[a].answer = a /\ work'[a].node = w[1]
        BY <1>5, <3>1 DEF Range
      <4> QED BY <4>1
    <3>3. SubSeq(w, 1, 1) = <<w[1]>>
      <4> DEFINE v == SubSeq(w, 1, 1)
      <4>1. v \in Seq(Node) /\ Len(v) = 1 /\ v[1] = w[1]
        BY <3>1, WayPrefix DEF IsWay
      <4> HIDE DEF v
      <4>2. v = <<w[1]>>
        BY <4>1
      <4> QED BY <4>2 DEF v
    <3> QED BY <1>7, <3>1, <3>2, <3>3
  <2>2. \A a, w : ToCome(a, w)' <=> \E k \in 1 .. Len(w) : \E f \in Range(work') :
                                       f.answer = a /\ AtEnd(f, SubSeq(w, 1, k))
    BY <1>1, SameWays DEF ToCome
  <2> QED BY <1>8, <2>1, <2>2 DEF WaysOk
<1>14. ApartOk'
  <2>1. DOMAIN fields' = {}
    BY <1>1
  <2>2. \A i, j \in DOMAIN work' : Begins(work'[i], work'[j]) => i = j
    BY <1>5 DEF Begins
  <2> QED BY <2>1, <2>2 DEF ApartOk, Apart
<1>15. CirclesOk'
  BY <1>1, <1>3, <1>6, SameWays DEF CirclesOk
<1>16. FinishedOk'
  BY <1>1, SameWays DEF WalkParts, FinishedOk, Finished
<1> QED BY <1>9, <1>10, <1>11, <1>12, <1>13, <1>14, <1>15, <1>16 DEF WalkParts, CallsOk, CoverOk

\* The walk through the responses ends: no call is left.
LEMMA ResponseKeeps ==
    ASSUME SheetInv, WalkParts, ResponseSection
    PROVE  WalkParts'
<1>1. /\ stage = "responses" /\ stage' = "border" /\ UNCHANGED <<doc, api, fields>> /\ work = <<>>
  BY DEF ResponseSection, Stay, walk
<1>2. Range(work) = {} /\ api \in DOMAIN doc.apis /\ doc \in Documents
  BY <1>1 DEF Range, SheetInv, TypeInv, RowsOk, Sections
<1>3. Current' = Current
  BY <1>1 DEF Current
<1>4. Answers' = Answers /\ \A a : ResponseWays(a)' = ResponseWays(a)
  BY <1>1, <1>3, SameWays DEF Answers
<1>5. CallsOk' /\ CirclesOk' /\ DeathOk'
  BY <1>1 DEF CallsOk, BodyCallsOk, ResponseCallsOk, TrueMarksOk, CirclesOk, DeathOk
<1>6. FieldsOk'
  BY <1>1, <1>4, SameWays DEF WalkParts, CoverOk, FieldsOk
<1>7. WaysOk' /\ ApartOk'
  <2>1. \A a, w : ~ToCome(a, w)
    BY <1>2 DEF ToCome
  <2>2. WaysOk'
    BY <1>1, <1>4, <2>1, SameWays DEF WalkParts, CoverOk, WaysOk
  <2>3. ApartOk'
    BY <1>1 DEF WalkParts, CoverOk, ApartOk
  <2> QED BY <2>2, <2>3
<1>8. FinishedOk'
  <2>1. \A r \in Range(doc.apis[api].responses) : ~Endless(r)
    BY <1>1, <1>2 DEF WalkParts, CoverOk, CirclesOk, Current
  <2>2. \A a \in 1 .. api - 1 : \A r \in Range(doc.apis[a].responses) : ~Endless(r)
    BY <1>1 DEF WalkParts, FinishedOk, Finished
  <2>3. \A a \in 1 .. api : a \in 1 .. api - 1 \/ a = api
    <3>1. api \in Nat
      BY DEF SheetInv, TypeInv, SheetTypeOK
    <3> QED BY <3>1
  <2>4. \A a \in 1 .. api : \A r \in Range(doc.apis[a].responses) : ~Endless(r)
    BY <2>1, <2>2, <2>3
  <2> QED BY <1>1, <2>4, SameWays DEF FinishedOk, Finished
<1> QED BY <1>5, <1>6, <1>7, <1>8 DEF WalkParts, CoverOk

\* Outside the walks only the APIs that are finished matter.
LEMMA BetweenKeeps ==
    ASSUME UNCHANGED doc, stage' \notin {"body", "responses", "border", "died"}, FinishedOk'
    PROVE  WalkParts'
BY DEF WalkParts, CallsOk, BodyCallsOk, ResponseCallsOk, TrueMarksOk, CoverOk, FieldsOk, WaysOk,
       ApartOk, CirclesOk, DeathOk

LEMMA SectionsKeep ==
    ASSUME SheetInv, WalkParts, BasicSection \/ HeaderSection \/ ParamsSection
    PROVE  WalkParts'
<1>1. /\ UNCHANGED <<doc, api>> /\ stage \in {"basic", "header", "params"}
      /\ stage' \in {"header", "params", "query"}
  BY DEF BasicSection, HeaderSection, ParamsSection, Stay
<1>2. FinishedOk'
  BY <1>1, SameWays DEF WalkParts, FinishedOk, Finished
<1> QED BY <1>1, <1>2, BetweenKeeps

LEMMA SheetsKeep ==
    ASSUME SheetInv, WalkParts, CreateApiList \/ AddWorksheet \/ CreateOuterBorder
    PROVE  WalkParts'
<1>1. doc' = doc
  BY DEF CreateApiList, AddWorksheet, CreateOuterBorder, Stay
<1>2. api \in 0 .. Len(doc.apis) /\ Len(doc.apis) \in Nat
  <2>1. doc.apis \in Seq(Api)
    BY DEF SheetInv, TypeInv, SheetTypeOK
  <2> QED BY <2>1, LenProperties DEF SheetInv, TypeInv, SheetTypeOK
<1>3. CASE CreateApiList
  <2>1. stage = "list" /\ api' = api /\ api = 0
    BY <1>3 DEF CreateApiList, Stay, WalkParts, FinishedOk
  <2>2. CASE \E i \in DOMAIN doc.apis : ~doc.apis[i].domain
    <3>1. stage' = "died"
      BY <1>3, <2>2 DEF CreateApiList
    <3> QED BY <1>1, <2>2, <3>1, Dead
  <2>3. CASE ~ \E i \in DOMAIN doc.apis : ~doc.apis[i].domain
    <3>1. stage' = "sheet"
      BY <1>3, <2>3 DEF CreateApiList
    <3>2. Finished' = {}
      BY <2>1, <3>1 DEF Finished
    <3>3. FinishedOk'
      BY <3>1, <3>2 DEF FinishedOk
    <3> QED BY <1>1, <3>1, <3>3, BetweenKeeps
  <2> QED BY <2>2, <2>3
<1>4. CASE AddWorksheet
  <2>1. /\ stage = "sheet"
        /\ \/ stage' = "basic" /\ api' = api + 1
           \/ stage' = "written" /\ api' = api /\ ~(api < Len(doc.apis))
    BY <1>4 DEF AddWorksheet
  <2>2. Finished' = Finished
    BY <1>2, <2>1 DEF Finished
  <2>3. stage' = "written" => api' = Len(doc'.apis)
    BY <1>1, <1>2, <2>1
  <2>4. FinishedOk'
    BY <1>1, <2>1, <2>2, <2>3, SameWays DEF WalkParts, FinishedOk
  <2> QED BY <1>1, <2>1, <2>4, BetweenKeeps
<1>5. CASE CreateOuterBorder
  <2>1. stage = "border" /\ stage' = "sheet" /\ api' = api
    BY <1>5 DEF CreateOuterBorder, Stay
  <2>2. FinishedOk'
    BY <1>1, <2>1, SameWays DEF WalkParts, FinishedOk, Finished
  <2> QED BY <1>1, <2>1, <2>2, BetweenKeeps
<1> QED BY <1>3, <1>4, <1>5

LEMMA WalkInitInv == SheetInit => WalkInv
<1> SUFFICES ASSUME SheetInit PROVE WalkInv
  OBVIOUS
<1>1. SheetInv
  BY SheetInitInv
<1>2. stage = "list" /\ api = 0
  BY DEF SheetInit
<1>3. Finished = {}
  BY <1>2 DEF Finished
<1> QED BY <1>1, <1>2, <1>3
        DEF WalkInv, CallsOk, BodyCallsOk, ResponseCallsOk, TrueMarksOk, CoverOk, FieldsOk, WaysOk,
            ApartOk, CirclesOk, DeathOk, FinishedOk

LEMMA WalkStepInv == WalkInv /\ [SheetNext]_sheetVars => WalkInv'
<1> SUFFICES ASSUME WalkInv, [SheetNext]_sheetVars PROVE WalkInv'
  OBVIOUS
<1>1. SheetInv' /\ SheetInv /\ WalkParts
  BY SheetStepInv DEF WalkInv, WalkParts
<1>2. WalkParts'
  <2>1. CASE CreateApiList \/ AddWorksheet \/ CreateOuterBorder
    BY <1>1, <2>1, SheetsKeep
  <2>2. CASE BasicSection \/ HeaderSection \/ ParamsSection
    BY <1>1, <2>2, SectionsKeep
  <2>3. CASE QuerySection
    BY <1>1, <2>3, QueryKeeps
  <2>4. CASE BodyLeadsOn \/ BodyObject
    BY <1>1, <2>4, BodyWalkKeeps DEF BodyWalk
  <2>5. CASE BodySection
    BY <1>1, <2>5, BodyKeeps
  <2>6. CASE ResponseWalk
    BY <1>1, <2>6, ResponseWalkKeeps
  <2>7. CASE ResponseSection
    BY <1>1, <2>7, ResponseKeeps
  <2>8. CASE UNCHANGED sheetVars
    <3>1. UNCHANGED <<doc, mark, stage, api, work, last, fields>>
      BY <2>8 DEF sheetVars
    <3>2. Current' = Current
      BY <3>1 DEF Current
    <3>3. Answers' = Answers /\ \A a : ResponseWays(a)' = ResponseWays(a)
      BY <3>1, <3>2, SameWays DEF Answers
    <3>4. CallsOk'
      <4>1. BodyCallsOk'
        BY <1>1, <3>1, SameWays, SameShapes DEF WalkParts, CallsOk, BodyCallsOk
      <4>2. ResponseCallsOk'
        BY <1>1, <3>1, <3>3, SameWays DEF WalkParts, CallsOk, ResponseCallsOk
      <4>3. TrueMarksOk'
        BY <1>1, <3>1, SameShapes DEF WalkParts, CallsOk, TrueMarksOk
      <4> QED BY <4>1, <4>2, <4>3 DEF CallsOk
    <3>5. \A a, w : ToCome(a, w)' <=> ToCome(a, w)
      BY <3>1, SameWays DEF ToCome
    <3>6. FieldsOk' /\ WaysOk' /\ ApartOk'
      <4>1. FieldsOk' /\ WaysOk'
        BY <1>1, <3>1, <3>3, <3>5, SameWays DEF WalkParts, CoverOk, FieldsOk, WaysOk
      <4>2. ApartOk'
        BY <1>1, <3>1 DEF WalkParts, CoverOk, ApartOk
      <4> QED BY <4>1, <4>2
    <3>7. CirclesOk'
      BY <1>1, <3>1, <3>2, SameWays DEF WalkParts, CoverOk, CirclesOk
    <3>8. FinishedOk'
      BY <1>1, <3>1, SameWays DEF WalkParts, FinishedOk, Finished
    <3>9. DeathOk'
      BY <1>1, <3>1, SameCircles, SameShapes DEF WalkParts, DeathOk
    <3> QED BY <3>4, <3>6, <3>7, <3>8, <3>9 DEF WalkParts, CoverOk
  <2> QED BY <2>1, <2>2, <2>3, <2>4, <2>5, <2>6, <2>7, <2>8 DEF SheetNext, ResponseWalk
<1> QED BY <1>1, <1>2 DEF WalkInv, WalkParts

\* A run dies for a url without a domain, for schemas in a circle or for an
\* object that its own object requires; and it is not completed when the
\* responses have a circle.
THEOREM DiesForReasonCorrect == SheetSpec => []DiesForReason
<1>1. WalkInv => DiesForReason
  <2> SUFFICES ASSUME WalkInv PROVE DiesForReason
    OBVIOUS
  <2>1. doc \in Documents /\ Len(doc.apis) \in Nat /\ DOMAIN doc.apis = 1 .. Len(doc.apis)
    <3>1. doc \in Documents
      BY DEF WalkInv, SheetInv, TypeInv
    <3> QED BY <3>1, DocParts, LenProperties
  <2>2. ASSUME stage = "written", NEW i \in DOMAIN doc.apis, NEW r \in Range(doc.apis[i].responses)
        PROVE  ~Cyclic(r)
    <3>1. i \in Finished
      BY <2>1, <2>2 DEF WalkInv, FinishedOk, Finished
    <3>2. ~Endless(r)
      BY <2>2, <3>1 DEF WalkInv, FinishedOk
    <3>3. r \in Node
      <4>1. doc.apis[i] \in Api
        BY <2>1, DocParts, LenProperties
      <4>2. doc.apis[i].responses \in Seq(Node)
        BY <4>1 DEF Api
      <4> QED BY <4>2, RangeOfSeq
    <3> QED BY <2>1, <3>2, <3>3, CyclicEndless
  <2> QED BY <2>2 DEF DiesForReason, WalkInv, DeathOk
<1> QED BY <1>1, WalkInitInv, WalkStepInv, PTL DEF SheetSpec

\* The fields of a sheet are those of its responses: there is one for every way
\* that leads to a field, with the names on that way, and there are no others.
THEOREM FieldsListedCorrect == SheetSpec => []FieldsListed
<1>1. WalkInv => FieldsListed
  <2> SUFFICES ASSUME WalkInv, stage = "border" PROVE FieldsListed
    BY DEF FieldsListed
  <2>1. doc \in Documents /\ api \in DOMAIN doc.apis
    BY DEF WalkInv, SheetInv, TypeInv, RowsOk, Sections
  <2>2. \A r \in Range(Current.responses) : r \in Node /\ ~Endless(r)
    <3>1. api \in Finished
      <4>1. Len(doc.apis) \in Nat /\ api \in 1 .. Len(doc.apis)
        BY <2>1, DocParts, LenProperties
      <4> QED BY <4>1 DEF Finished
    <3>2. \A r \in Range(Current.responses) : ~Endless(r)
      BY <3>1 DEF WalkInv, FinishedOk, Current
    <3> QED BY <2>1, <3>2, PlacesUnowned
  <2>3. ASSUME NEW a \in Answers, NEW w
        PROVE  w \in Ways(Current.responses[a], Cardinality(Node)) <=> w \in ResponseWays(a)
    <3> DEFINE r == Current.responses[a]
    <3>1. r \in Node /\ ~Endless(r)
      BY <2>2 DEF Answers, Range
    <3>2. Ways(r, Cardinality(Node)) = WaysFrom(r, Cardinality(Node))
      BY <2>1, <3>1, NodeCount, WaysAre
    <3>3. ASSUME w \in ResponseWays(a) PROVE w \in WaysFrom(r, Cardinality(Node))
      <4>1. IsWay(w) /\ w \in Seq(Node) /\ w[1] = r /\ Len(w) \in Nat \ {0}
        BY <3>3, WayParts DEF ResponseWays
      <4>2. ~(Len(w) > Cardinality(Node))
        BY <3>1, <4>1, LongWay
      <4>3. Len(w) <= Cardinality(Node) + 1
        BY <4>1, <4>2, NodeCount
      <4> QED BY <4>1, <4>3 DEF WaysFrom
    <3>4. ASSUME w \in WaysFrom(r, Cardinality(Node)) PROVE w \in ResponseWays(a)
      BY <3>4 DEF WaysFrom, ResponseWays
    <3> QED BY <3>2, <3>3, <3>4
  <2>4. \A w : IsField(w) <=> Listed(w)
    BY DEF IsField, Listed, Named, Clear
  <2>5. ASSUME NEW i \in DOMAIN fields
        PROVE  /\ fields[i].answer \in Answers /\ fields[i].way \in ResponseWays(fields[i].answer)
               /\ IsField(fields[i].way) /\ fields[i].node = fields[i].way[Len(fields[i].way)]
               /\ NamedBy(fields[i].name, fields[i].way)
    <3>1. fields[i] \in Range(fields)
      BY DEF Range
    <3> QED BY <2>4, <3>1 DEF WalkInv, CoverOk, FieldsOk
  <2>6. ASSUME NEW a \in Answers, NEW w \in ResponseWays(a), IsField(w)
        PROVE  \E i \in DOMAIN fields : fields[i].answer = a /\ fields[i].way = w
    <3>1. ~ToCome(a, w)
      BY DEF ToCome
    <3>2. \E g \in Range(fields) : g.answer = a /\ g.way = w
      BY <2>4, <2>6, <3>1 DEF WalkInv, CoverOk, WaysOk
    <3> QED BY <3>2 DEF Range
  <2> DEFINE came == [i \in DOMAIN fields |-> <<fields[i].answer, fields[i].way>>]
             To(a) == {<<a, w>> : w \in {v \in Ways(Current.responses[a], Cardinality(Node)) :
                                            IsField(v)}}
  <2>7. IsInjective(came)
    <3>1. \A i, j \in DOMAIN fields :
            fields[i].answer = fields[j].answer /\ fields[i].way = fields[j].way => i = j
      BY DEF WalkInv, CoverOk, ApartOk
    <3> QED BY <3>1 DEF IsInjective
  <2>8. \A x : x \in Range(came) <=>
                 \E i \in DOMAIN fields : x = <<fields[i].answer, fields[i].way>>
    BY DEF Range
  <2>9. \A a \in Answers : \A x :
          x \in To(a) <=> \E w \in ResponseWays(a) : IsField(w) /\ x = <<a, w>>
    BY <2>3
  <2> HIDE DEF came, To
  <2>10. \A x : x \in Range(came) <=> \E a \in Answers : x \in To(a)
    <3>1. ASSUME NEW x \in Range(came) PROVE \E a \in Answers : x \in To(a)
      BY <2>5, <2>8, <2>9
    <3>2. ASSUME NEW a \in Answers, NEW x \in To(a) PROVE x \in Range(came)
      <4>1. PICK w \in ResponseWays(a) : IsField(w) /\ x = <<a, w>>
        BY <2>9
      <4>2. PICK i \in DOMAIN fields : fields[i].answer = a /\ fields[i].way = w
        BY <2>6, <4>1
      <4> QED BY <2>8, <4>1, <4>2
    <3> QED BY <3>1, <3>2
  <2>11. Range(came) = UNION {To(a) : a \in Answers}
    BY <2>10, Zenon
  <2> QED BY <2>5, <2>7, <2>11 DEF FieldsListed, came, To, Answers
<1> QED BY <1>1, WalkInitInv, WalkStepInv, PTL DEF SheetSpec

\* The column Required of a property says what the object that declares it says,
\* or that it is not required when that object is a property itself; and what is
\* listed in place of a property, because the property refers to it, shows no
\* mark.  This is so though all sheets and sections mark the same schemas.
THEOREM MarksRightCorrect == SheetSpec => []MarksRight
<1>1. WalkInv => MarksRight
  <2> SUFFICES ASSUME WalkInv PROVE MarksRight
    OBVIOUS
  <2>1. \A i \in DOMAIN fields : fields[i].node \in Node
    <3>1. fields \in Seq(Field)
      BY DEF WalkInv, SheetInv, TypeInv, SheetTypeOK
    <3>2. \A i \in DOMAIN fields : fields[i] \in Field
      BY <3>1, LenProperties
    <3> QED BY <3>2 DEF Field
  <2>2. ASSUME NEW i \in DOMAIN fields
        PROVE  /\ Owners(fields[i].node) = {} => fields[i].required = "list"
               /\ \A p \in Owners(fields[i].node) :
                     fields[i].required = Said(p, fields[i].node)
    BY <2>1 DEF WalkInv, SheetInv, MarksOk, FieldMarksOk
  <2>3. ASSUME stage = "body", NEW n \in Range(gathered), last \in Owners(n)
        PROVE  mark[n] = Declared(last, n)
    <3>1. last # NoNode
      BY <2>3, NodeAssumption DEF Owners
    <3>2. Owners(last) = {}
      BY <2>3, <3>1 DEF WalkInv, CallsOk, BodyCallsOk
    <3> QED BY <2>3, <3>2 DEF WalkInv, SheetInv, MarksOk, BodyMarksOk
  <2> QED BY <2>2, <2>3 DEF MarksRight, Said
<1> QED BY <1>1, WalkInitInv, WalkStepInv, PTL DEF SheetSpec
=============================================================================
