------------------------------ MODULE OasDetails ------------------------------
(***************************************************************************)
(* The workbook of the OpenAPI version tool: the list of APIs and one      *)
(* sheet per API (createApiList and createApiDetails in                    *)
(* version/oas-version-manage.ts).  A sheet is written section by section, *)
(* each from the row the one before it ended at.  For the body and for the *)
(* responses the schemas are walked through, and the walks write into the  *)
(* schemas: every property gets an attribute `required`, which takes the   *)
(* place of the list of required properties when the property is an object *)
(* of its own.  All sheets share the schemas.                              *)
(*                                                                         *)
(* A schema is a graph of nodes.  The texts of the cells are left out,     *)
(* but for the names of fields and the column Required.  Calls and fields  *)
(* say which response they are in (answer) and which calls led there       *)
(* (way); the code has neither, but its call stack is as deep as the way   *)
(* is long.  The names of this specification are its own, so that          *)
(* OasWorkbookProofs can extend both this module and OasChanges.           *)
(***************************************************************************)
EXTENDS Naturals, Sequences, FiniteSets, Functions

CONSTANTS
    Node,       \* places in a document where a schema may stand
    NoNode,     \* no request body
    Documents,  \* the documents to write
    MaxCalls    \* nested calls the stack has room for

\* next: the target of a $ref, the members of an allOf, the items of an array
\* or the properties of an object, whose names are in key
Shape ==
    [kind     : {"leaf", "$ref", "allOf", "array", "object"},
     next     : Seq(Node),
     key      : Seq(STRING),
     required : SUBSET STRING]

Api ==
    [domain     : BOOLEAN,           \* the url has one
     parameters : Nat,               \* how many in the path
     query      : Nat,
     security   : BOOLEAN,
     body       : Node \cup {NoNode},
     responses  : Seq(Node)]         \* those with a status 2xx and a content

\* There is nothing below a leaf, and no place is twice below another.  The
\* properties of an object have names, no two alike, and stand in that object
\* only: references lead to components, and bodies and responses have places
\* of their own.
WellFormed(d) ==
    \A m \in Node :
        /\ d.shape[m].kind = "leaf" => d.shape[m].next = <<>>
        /\ IsInjective(d.shape[m].next)
        /\ d.shape[m].kind = "object" =>
              /\ DOMAIN d.shape[m].key = DOMAIN d.shape[m].next
              /\ IsInjective(d.shape[m].key)
              /\ \A n \in Node : \A i \in DOMAIN d.shape[m].next : \A j \in DOMAIN d.shape[n].next :
                    d.shape[n].next[j] = d.shape[m].next[i] => n = m /\ j = i
              /\ \A a \in DOMAIN d.apis :
                    ({d.apis[a].body} \cup Range(d.apis[a].responses))
                        \cap Range(d.shape[m].next) = {}

ASSUME NodeAssumption      == NoNode \notin Node /\ IsFiniteSet(Node)
ASSUME DocumentsAssumption ==
    \A d \in Documents : /\ d.shape \in [Node -> Shape]
                         /\ d.apis \in Seq(Api)
                         /\ WellFormed(d)
\* the stack has room for a call at each node
ASSUME CallsAssumption     == MaxCalls \in Nat \ {0} /\ MaxCalls >= Cardinality(Node)

VARIABLES
    doc,       \* the document being written
    mark,      \* the attribute `required` of each node
    stage,     \* what is written next
    api,       \* index of the API whose sheet is open
    sheet,     \* the rows of that sheet, each named after its section
    rowNum,    \* the row the last section ended at
    work,      \* the nodes still to be walked through, with their names; way:
               \* the calls that lead there, answer: the response it is in
    gathered,  \* the walk through the body: property -> node
    last,      \* history: the last object on that walk
    fields     \* the walk through the responses: the rows to write

sheetVars == <<doc, mark, stage, api, sheet, rowNum, work, gathered, last, fields>>

layout == <<sheet, rowNum>>
walk   == <<work, gathered, last, fields>>

-----------------------------------------------------------------------------
(* Rows                                                                    *)

Row(section, item) == [section |-> section, item |-> item]

Rows(section, item, n) == [i \in 1 .. n |-> Row(section, item)]

\* getCell(r + 1).value = ... and so on
Put(s, r, rows) ==
    [i \in 1 .. (IF Len(s) > r + Len(rows) THEN Len(s) ELSE r + Len(rows)) |->
        IF i > r /\ i <= r + Len(rows) THEN rows[i - r] ELSE s[i]]

\* insertRow(r + 1, ...) and so on: what is below moves down.
Insert(s, r, rows) == SubSeq(s, 1, r) \o rows \o SubSeq(s, r + 1, Len(s))

\* mutant: the rows begin at the last row of the heading
SectionOverlapping(section, headings, rows) ==
    /\ sheet' = Insert(Put(sheet, rowNum, Rows(section, "heading", headings)),
                       rowNum + headings - 1, rows)
    /\ rowNum' = rowNum + headings - 1 + Len(rows)

\* A section: its headings, then its rows
Section(section, headings, rows) ==
    /\ sheet' = Insert(Put(sheet, rowNum, Rows(section, "heading", headings)),
                       rowNum + headings, rows)
    /\ rowNum' = rowNum + headings + Len(rows)

Current == doc.apis[api]

Stay == UNCHANGED <<doc, mark, api>>

-----------------------------------------------------------------------------
(* createApiList, and the sections that do not look at schemas             *)

\* exportDomainFromUrl ends the process for a url without a domain.
CreateApiList ==
    /\ stage = "list"
    /\ stage' = IF \E i \in DOMAIN doc.apis : ~doc.apis[i].domain THEN "died" ELSE "sheet"
    /\ Stay
    /\ UNCHANGED <<layout, walk>>

\* A new sheet, whose columns have headers in row 1
AddWorksheet ==
    /\ stage = "sheet"
    /\ IF api < Len(doc.apis)
       THEN /\ api' = api + 1
            /\ sheet' = <<Row("columns", "heading")>>
            /\ rowNum' = 0
            /\ stage' = "basic"
       ELSE /\ stage' = "written"
            /\ UNCHANGED <<api, layout>>
    /\ UNCHANGED <<doc, mark, walk>>

\* createApiDetailBasicSection writes over the column headers.
BasicSection ==
    /\ stage = "basic"
    /\ Section("basic", 11, <<>>)
    /\ stage' = "header"
    /\ Stay
    /\ UNCHANGED walk

\* mutant: the row of the key is counted although it is not written
HeaderSectionCounted ==
    /\ stage = "header"
    /\ sheet' = Put(sheet, rowNum, Rows("header", "heading", 2)
                                   \o Rows("header", "Content-Type", 1)
                                   \o Rows("header", "apiKey", IF Current.security THEN 1 ELSE 0))
    /\ rowNum' = rowNum + 4
    /\ stage' = "params"
    /\ Stay
    /\ UNCHANGED walk

HeaderSection ==
    /\ stage = "header"
    /\ Section("header", 2, Rows("header", "Content-Type", 1)
                            \o Rows("header", "apiKey", IF Current.security THEN 1 ELSE 0))
    /\ stage' = "params"
    /\ Stay
    /\ UNCHANGED walk

ParamsSection ==
    /\ stage = "params"
    /\ Section("params", 2, Rows("params", "param", Current.parameters))
    /\ stage' = "query"
    /\ Stay
    /\ UNCHANGED walk

\* parsingRequestBodyParams starts at the schema of the first media type.
QuerySection ==
    /\ stage = "query"
    /\ Section("query", 2, Rows("query", "param", Current.query))
    /\ stage' = "body"
    /\ gathered' = <<>>
    /\ last' = NoNode
    /\ work' = IF Current.body = NoNode THEN <<>>
               ELSE <<[node |-> Current.body, name |-> <<>>, array |-> FALSE,
                        answer |-> 0, way |-> <<Current.body>>]>>
    /\ Stay
    /\ UNCHANGED fields

-----------------------------------------------------------------------------
(* extractProperties, of the body and of the responses                     *)

Visiting(kind) == work # <<>> /\ doc.shape[Head(work).node].kind = kind

\* The nodes that follow the first one take its place; the call stack ends
\* a walk that goes too deep.
Call(frames) ==
    IF Len(Head(work).way) >= MaxCalls /\ frames # <<>>
    THEN stage' = "died" /\ UNCHANGED work
    ELSE work' = frames \o Tail(work) /\ UNCHANGED stage

\* the frames for the nodes next of the first one, given their names
Below(names, array) ==
    LET s == doc.shape[Head(work).node]
    IN  [i \in DOMAIN s.next |->
            [node |-> s.next[i], name |-> names[i], array |-> array,
             answer |-> Head(work).answer, way |-> Append(Head(work).way, s.next[i])]]

SameName == [i \in DOMAIN doc.shape[Head(work).node].next |-> Head(work).name]

\* mutant: key without parentKey
PropertyNamesShort ==
    LET s == doc.shape[Head(work).node]
    IN  [i \in DOMAIN s.next |-> <<s.key[i]>>]

\* `${parentKey}.${key}`
PropertyNames ==
    LET s == doc.shape[Head(work).node]
    IN  [i \in DOMAIN s.next |-> Append(Head(work).name, s.key[i])]

\* obj.required || []: a mark that is true has no `includes`.
RequiredList(n) == IF mark[n] = "list" THEN doc.shape[n].required ELSE {}

\* the properties of a node by name
Properties(n) ==
    LET s == doc.shape[n]
    IN  [k \in {s.key[i] : i \in DOMAIN s.key} |->
            s.next[CHOOSE i \in DOMAIN s.key : s.key[i] = k]]

\* Object.assign
Assign(target, source) ==
    [k \in DOMAIN target \cup DOMAIN source |->
        IF k \in DOMAIN source THEN source[k] ELSE target[k]]

\* required is set for every one of the properties, from the list of node n.
SetRequired(properties, n) ==
    mark' = [m \in Node |->
        LET names == {k \in DOMAIN properties : properties[k] = m}
        IN  IF names = {} THEN mark[m]
            ELSE IF names \cap RequiredList(n) # {} THEN "true" ELSE "false"]

\* $ref, allOf and items lead on, everything else has no properties.
BodyLeadsOn ==
    /\ stage = "body"
    /\ Visiting("$ref") \/ Visiting("allOf") \/ Visiting("array") \/ Visiting("leaf")
    /\ Call(Below(SameName, FALSE))
    /\ Stay
    /\ UNCHANGED <<layout, gathered, last, fields>>

\* The properties join those gathered before, and the marks of all of them
\* are set from the list of this object.
BodyObject ==
    LET n   == Head(work).node
        all == Assign(gathered, Properties(n))
    IN  /\ stage = "body"
        /\ Visiting("object")
        /\ IF mark[n] = "true" /\ DOMAIN all # {}
           THEN /\ stage' = "died"
                /\ UNCHANGED <<mark, work, gathered, last>>
           ELSE /\ gathered' = all
                /\ last' = n
                /\ SetRequired(all, n)
                /\ Call(<<>>)
        /\ UNCHANGED <<doc, api, layout, fields>>

\* createApiDetailBodySection writes the rows; parsingResponseParams begins.
BodySection ==
    /\ stage = "body"
    /\ work = <<>>
    /\ Section("body", 2, Rows("body", "field", Cardinality(DOMAIN gathered)))
    /\ stage' = "responses"
    /\ fields' = <<>>
    /\ work' = [i \in DOMAIN Current.responses |->
                   [node |-> Current.responses[i], name |-> <<>>, array |-> FALSE,
                    answer |-> i, way |-> <<Current.responses[i]>>]]
    /\ Stay
    /\ UNCHANGED <<gathered, last>>

\* a row for the first node, if it has a name
PushField(f) ==
    IF f.name = <<>> THEN UNCHANGED fields
    ELSE fields' = Append(fields, [name |-> f.name, node |-> f.node, required |-> mark[f.node],
                                   answer |-> f.answer, way |-> f.way])

\* mutant: a component that has been listed is not walked through again
ResponseRefOnce ==
    /\ stage = "responses"
    /\ Visiting("$ref")
    /\ LET target == doc.shape[Head(work).node].next[1]
       IN  Call(IF \E i \in DOMAIN fields : target \in Range(fields[i].way)
                THEN <<>> ELSE Below(SameName, Head(work).array))
    /\ Stay
    /\ UNCHANGED <<layout, gathered, last, fields>>

ResponseRef ==
    /\ stage = "responses"
    /\ Visiting("$ref")
    /\ Call(Below(SameName, Head(work).array))
    /\ Stay
    /\ UNCHANGED <<layout, gathered, last, fields>>

\* The members of an allOf carry its name: one of them that is a leaf is
\* listed like a field of its own.
ResponseAllOf ==
    /\ stage = "responses"
    /\ Visiting("allOf")
    /\ IF Head(work).array THEN UNCHANGED fields ELSE PushField(Head(work))
    /\ Call(Below(SameName, Head(work).array))
    /\ Stay
    /\ UNCHANGED <<layout, gathered, last>>

ResponseArray ==
    /\ stage = "responses"
    /\ Visiting("array")
    /\ PushField(Head(work))
    /\ Call(Below(SameName, TRUE))
    /\ Stay
    /\ UNCHANGED <<layout, gathered, last>>

\* mutant: the marks are taken as the body left them
ResponseObjectUnmarked ==
    /\ stage = "responses"
    /\ Visiting("object")
    /\ Call(Below(PropertyNames, FALSE))
    /\ Stay
    /\ UNCHANGED <<layout, gathered, last, fields>>

\* mutant: a mark that is false has no `includes` either (?? for ||)
ResponseObjectNullish ==
    LET n == Head(work).node
    IN  /\ stage = "responses"
        /\ Visiting("object")
        /\ IF mark[n] # "list" /\ doc.shape[n].next # <<>>
           THEN stage' = "died" /\ UNCHANGED <<mark, work>>
           ELSE /\ SetRequired(Properties(n), n)
                /\ Call(Below(PropertyNames, FALSE))
        /\ UNCHANGED <<doc, api, layout, gathered, last, fields>>

\* The properties of an object get their marks, then they are walked through.
ResponseObject ==
    LET n == Head(work).node
    IN  /\ stage = "responses"
        /\ Visiting("object")
        /\ IF mark[n] = "true" /\ doc.shape[n].next # <<>>
           THEN stage' = "died" /\ UNCHANGED <<mark, work>>
           ELSE /\ SetRequired(Properties(n), n)
                /\ Call(Below(PropertyNames, FALSE))
        /\ UNCHANGED <<doc, api, layout, gathered, last, fields>>

ResponseLeaf ==
    /\ stage = "responses"
    /\ Visiting("leaf")
    /\ IF Head(work).array THEN UNCHANGED fields ELSE PushField(Head(work))
    /\ Call(<<>>)
    /\ Stay
    /\ UNCHANGED <<layout, gathered, last>>

ResponseSection ==
    /\ stage = "responses"
    /\ work = <<>>
    /\ Section("responses", 2, Rows("responses", "field", Len(fields)))
    /\ stage' = "border"
    /\ Stay
    /\ UNCHANGED walk

\* The sheet is framed down to rowNum.
CreateOuterBorder ==
    /\ stage = "border"
    /\ stage' = "sheet"
    /\ Stay
    /\ UNCHANGED <<layout, walk>>

-----------------------------------------------------------------------------
SheetInit ==
    /\ doc \in Documents
    /\ mark = [n \in Node |-> "list"]
    /\ stage = "list"
    /\ api = 0
    /\ sheet = <<>>
    /\ rowNum = 0
    /\ work = <<>>
    /\ gathered = <<>>
    /\ last = NoNode
    /\ fields = <<>>

SheetNext ==
    \/ CreateApiList \/ AddWorksheet \/ BasicSection \/ HeaderSection
    \/ ParamsSection \/ QuerySection
    \/ BodyLeadsOn \/ BodyObject \/ BodySection
    \/ ResponseRef \/ ResponseAllOf \/ ResponseArray \/ ResponseObject \/ ResponseLeaf
    \/ ResponseSection \/ CreateOuterBorder

SheetSpec == SheetInit /\ [][SheetNext]_sheetVars

-----------------------------------------------------------------------------
(* Properties                                                              *)

SectionName == {"columns", "basic", "header", "params", "query", "body", "responses"}

ItemName == {"heading", "Content-Type", "apiKey", "param", "field"}

Frame ==
    [node : Node, name : Seq(STRING), array : BOOLEAN, answer : Nat,
     way : {w \in Seq(Node) : Len(w) \in 1 .. MaxCalls}]

Field ==
    [name : Seq(STRING), node : Node, required : {"list", "true", "false"}, answer : Nat,
     way : Seq(Node)]

\* Every variable has its type, and the end of a section is a row of the sheet.
SheetTypeOK ==
    /\ doc.shape \in [Node -> Shape]
    /\ doc.apis \in Seq(Api)
    /\ mark \in [Node -> {"list", "true", "false"}]
    /\ stage \in {"list", "sheet", "basic", "header", "params", "query", "body",
              "responses", "border", "written", "died"}
    /\ api \in 0 .. Len(doc.apis)
    /\ sheet \in Seq([section : SectionName, item : ItemName])
    /\ rowNum \in 0 .. Len(sheet)
    /\ work \in Seq(Frame)
    /\ DOMAIN gathered \subseteq STRING
    /\ Range(gathered) \subseteq Node
    /\ last \in Node \cup {NoNode}
    /\ fields \in Seq(Field)

\* the objects of which a node is a property, and its name there
Owners(n) ==
    {p \in Node : doc.shape[p].kind = "object" /\ n \in Range(doc.shape[p].next)}

NameIn(p, n) == CHOOSE k \in Range(doc.shape[p].key) : Properties(p)[k] = n

Declared(p, n) == IF NameIn(p, n) \in doc.shape[p].required THEN "true" ELSE "false"

\* The column Required says of a field what the object that declares it says,
\* whatever sheets and sections were written before: of the properties of a
\* response, and of the fields of a body that come from the last of its
\* objects.  In a response that is not so of two kinds of field.  A property of
\* an object that is a property itself is never required: the list of that
\* object is lost.  And a field that is no property, but what the reference, the
\* allOf or the array in the property's place leads to, shows what is written
\* there under `required` (as a rule nothing), not what the object says of the
\* property.
MarksRight ==
    /\ \A i \in DOMAIN fields :
          /\ Owners(fields[i].node) = {} => fields[i].required = "list"
          /\ \A p \in Owners(fields[i].node) :
                fields[i].required =
                    IF Owners(p) = {} THEN Declared(p, fields[i].node) ELSE "false"
    /\ stage = "body" /\ work = <<>> =>
          \A n \in Range(gathered) : last \in Owners(n) => mark[n] = Declared(last, n)

\* A sheet is complete and in order when it is framed: no row of a section is
\* written over, there is one for every parameter and field, and the frame
\* ends at the last row.
SheetComplete ==
    stage = "border" =>
        /\ rowNum = Len(sheet)
        /\ sheet = Rows("basic", "heading", 11)
                   \o Rows("header", "heading", 2) \o Rows("header", "Content-Type", 1)
                   \o Rows("header", "apiKey", IF Current.security THEN 1 ELSE 0)
                   \o Rows("params", "heading", 2) \o Rows("params", "param", Current.parameters)
                   \o Rows("query", "heading", 2) \o Rows("query", "param", Current.query)
                   \o Rows("body", "heading", 2)
                   \o Rows("body", "field", Cardinality(DOMAIN gathered))
                   \o Rows("responses", "heading", 2)
                   \o Rows("responses", "field", Len(fields))

\* the ways from node to node through the schemas, up to k steps from r
Ways(r, k) ==
    LET way[i \in 0 .. k] ==
            IF i = 0 THEN {<<r>>}
            ELSE way[i - 1] \cup UNION {{Append(w, n) : n \in Range(doc.shape[w[Len(w)]].next)} :
                                            w \in way[i - 1]}
    IN  way[k]

\* where on a way a node is entered by its name
NamesOn(w) == {i \in 2 .. Len(w) : doc.shape[w[i - 1]].kind = "object"}

\* The way ends at a field: there is a name on it, and its end is not below an
\* array, whose items have the array's name.
IsField(w) ==
    /\ NamesOn(w) # {}
    /\ doc.shape[w[Len(w)]].kind \in {"leaf", "array", "allOf"}
    /\ doc.shape[w[Len(w)]].kind # "array" =>
          \E j \in NamesOn(w) : \A i \in j .. Len(w) - 1 : doc.shape[w[i]].kind # "array"

\* The name of a field is made of the names on the way, in their order.
NamedBy(name, w) ==
    /\ Len(name) = Cardinality(NamesOn(w))
    /\ \A i \in NamesOn(w) :
          name[Cardinality(NamesOn(w) \cap 1 .. i)] = NameIn(w[i - 1], w[i])

\* Every field that an answer can have is listed, as often as ways lead to it in
\* all of the answers, each time with the names on the way; nothing else is.
FieldsListed ==
    stage = "border" =>
        LET came == [i \in DOMAIN fields |-> <<fields[i].answer, fields[i].way>>]
        IN  /\ IsInjective(came)
            /\ Range(came) =
                  UNION {{<<a, w>> : w \in {v \in Ways(Current.responses[a], Cardinality(Node)) :
                                                IsField(v)}} :
                            a \in DOMAIN Current.responses}
            /\ \A i \in DOMAIN fields :
                  /\ fields[i].node = fields[i].way[Len(fields[i].way)]
                  /\ NamedBy(fields[i].name, fields[i].way)

Cyclic(n) == \E w \in Ways(n, Cardinality(Node)) : Len(w) > Cardinality(Node)

\* What ends the run: a url without a domain, schemas that refer to each other
\* in a circle, an object that is a property its own object requires.
DiesForReason ==
    /\ stage = "died" =>
          \/ \E i \in DOMAIN doc.apis : ~doc.apis[i].domain
          \/ \E n \in Node : Cyclic(n)
          \/ \E n \in Node : /\ doc.shape[n].kind = "object"
                             /\ \E p \in Owners(n) : Declared(p, n) = "true"
    /\ stage = "written" =>
          \A i \in DOMAIN doc.apis : \A r \in Range(doc.apis[i].responses) : ~Cyclic(r)
=============================================================================
