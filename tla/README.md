# libcitygml: verification project

libcitygml reads CityGML documents, which are large XML files that describe
cities, into a tree of objects with geometries and appearances. This directory
holds TLA+ models of its parser and of the objects it builds, the TLC
configurations that check them on small instances, and TLAPS proofs of the
properties that matter most. Beside the parser they cover what is done with the
tree: postprocessing and tesselation, the change of its reference system, the serializer
that writes it back, and the OpenSceneGraph plugin that draws it. Paths below are relative to `src/sources/`, if not
said otherwise; the "map" of `PROJECT.json` names the lines every definition
stands for.

## 1. Inventory

| Component | State | Operations | Interacts with |
|---|---|---|---|
| **Xerces binding and load** (`src/parser/parserxercesc.cpp`) | whether Xerces is initialised; the SAX reader | `load`, `parse`; SAX callbacks that convert names and attributes | calls the document parser for every tag; a `load` may run in several threads |
| **Document parser** (`src/parser/citygmldocumentparser.cpp`, `elementparser.cpp`) | stack of element parsers, name and depth of the element being skipped, root model | `startElement`, `endElement`, `startDocument`, `endDocument`, `setCurrentElementParser`, `removeCurrentElementParser` | hands tags to the parser on top; closes the factory and finishes the model at the end |
| **Generic element parsers** (`citygmlelementparser.cpp`, `delayedchoiceelementparser.cpp`, `sequenceparser.cpp`, `skipelementparser.cpp`) | the node the parser is bound to; its choices; its depth | `startElement`, `endElement` | push and pop themselves and others on the document parser's stack |
| **Element parsers** (the other `src/parser/*parser.cpp`) | the object under construction, the callback that takes it | the four template methods `parseElementStartTag` ... `parseChildElementEndTag` | create objects through the factory, hand them to the parser around them by callback |
| **Node types** (`src/parser/nodetypes.cpp`) | maps of nodes by name, filled at first use | `initializeNodeTypes`, `getXMLNodeFor` | read by the document parser for every tag |
| **Factory and managers** (`src/citygml/citygmlfactory.cpp`, `polygonmanager.cpp`, `geometrymanager.cpp`, `appearancemanager.cpp`, `appearancetarget.cpp`) | objects by id, requests for objects by id, target definitions by id, themes | `create...`, `request...`, `shareGeometry`, `closeFactory` | called by element parsers; `closeFactory` joins what documents only name |
| **City model and postprocessing** (`citymodel.cpp`, `cityobject.cpp`, `geometry.cpp`, `polygon.cpp`, `linearring.cpp`) | the object tree, `m_finished`, vertices, texture coordinates by theme | the `finish` methods, `addTargetDefinitionsOf` | called by the document parser when the factory is closed; uses the tesselator |
| **Tesselator** (`tesselatorbase.cpp`, `tesselator.cpp`) | vertices, lists of texture coordinates, queue of contours, indices | `init`, `addContour`, `compute`, the callbacks | called by polygons, one after the other; calls the GLU library, which calls back |
| **Coordinate transformer** (`geocoordinatetransformer.cpp`) | the source system in force, what was transformed already | `transformToDestinationSRS` | called when the model is finished; goes through it; calls GDAL |
| **Serializer** (`src/serializer/*.cpp`) | the DOM document, current element, element stack and error latch of `XMLWriter`; namespaces in use | `serialize`, the `serialize...` functions, `startElement`, `endElement`, `writeAttribute`, `saveToFile` | goes through a model; calls the DOM of Xerces-C, each call of which may fail |
| **OpenSceneGraph plugin** (`src/osgplugin/ReaderWriterCityGML.cpp` of the repository) | redirected streams, the data path, a global map of material arrays, the textures loaded, the batch of polygons | `readNode`, `readCity` and what they call | calls `load`, makes a scene graph |
| **Vectors, attributes, loggers, test programs** | data only | conversions, output | not modelled |

What is hard in this code, and what makes each part correct:

* *The parser stack.* Sixteen element parsers push, pop and replace each other
  while the tags of a document arrive; each recognises its own end tag by the
  node alone, and tables of start and end tags are kept by hand in two
  methods. One mistake leaves a parser on the stack or pops one too many, and
  the rest of the document goes to the wrong parsers. It is correct if the
  stack mirrors the open elements, if unknown elements are skipped up to their
  own end tag, if every end tag finds a parser, and if the stack is empty when
  the root element ends.
* *References.* Documents name polygons, geometries and surface data before or
  after they define them, define an id twice, or never. Three managers collect
  names and join them when the document ends, one after the other; one of them
  holds raw pointers. It is correct if the result does not depend on where
  things are defined and nothing is used after it was destroyed.
* *Appearances.* Several definitions compete for one theme and side of a target;
  geometries hand theirs down; polygons can be shared by geometries, and are
  finished once. It is correct if the first definition of the document wins,
  if a geometry's definitions reach all its parts, and if every texture that
  can be asked for has its coordinates.
* *Parallel lists.* Vertices, their texture coordinates for every theme and their indices
  live in lists that have to stay in step while duplicates are erased, contours are
  appended, GLU makes new vertices, and one tesselator serves all polygons. It is correct
  if every index is one of a vertex and each vertex of a finished polygon has its own
  coordinate in every theme.
* *Reference systems.* Each part of a model may name its own system, or a name nobody
  knows; geometries share polygons. It is correct if coordinates are transformed once,
  from the system that applies to them, and names change with them.
* *Writing.* The serialize functions call a writer whose every call may fail, and look at no
  result. It is correct if elements lie where they belong whatever fails, if `true`
  is not returned for a document that is incomplete, and if nothing is written after a failure.
* *Drawing.* Polygons are gathered in batches until the texture changes; globals and
  streams are changed for the time of a call. It is correct if every polygon is
  drawn whole, with its own texture, and nothing is left for the next call.
* *Lazy initialisation.* Node types, five tables of the element parsers and
  Xerces are initialised at first use, with double-checked flags that are plain
  `bool`s, and once with a mutex that is locked by hand.
* *Failures.* Every exception over a document ends the load; in a release build
  what was parsed until then may be returned.

`PROJECT.json` lists these as hazards, each at its line, with the properties
that cover it.

## 2. Modules

| Module | What it is |
|---|---|
| `DocumentParser` | The document parser and the generic element parsers, for any tables of element parsers (the constants `Binds`, `ChildStart`, `ChildEnd`). |
| `ElementOwnership` | What the stack promises: who is in charge of an element is settled when it is opened and does not change until it is closed. `DocumentParser` is checked to implement it. |
| `ElementParsers` | The tables themselves: for each concrete parser what its four template methods accept, reject, throw and push. |
| `MCDocumentParser`, `MCWellBehaved` | Instances with the real tables and a content model after the CityGML schema; the latter assumes (so TLC evaluates it) that the tables keep to the rules the theorems need. |
| `DocumentParser_proofs` | Theorems about `DocumentParser`: skips, the stack of parsers, and that it implements `ElementOwnership`. |
| `ReferenceManager` | `PolygonManager` and `GeometryManager`, which are the same code. |
| `AppearanceManager` | The appearance manager and appearance targets. |
| `CityGMLFactory` | Composes two reference managers and the appearance manager with the callbacks of the element parsers that build the object tree, and `closeFactory`. |
| `ModelFinish` | Extends `CityGMLFactory` by the postprocessing of the model; holds the properties of both. |
| `MCReferences` | Instances of `ModelFinish`. |
| `ModelFinish_proofs` | Theorems about `ModelFinish`: shared objects, appearances, then references. |
| `LazyInit` | Threads that load at once, and what they initialise at first use. |
| `LazyInit_proofs` | Theorems about `LazyInit`. |
| `Tesselator` | The tesselator: its state, and each method and callback as an operator. |
| `PolygonTesselation` | Extends it by `Polygon::finish`: the rings, the removal of duplicate vertices, the contours, GLU's callbacks in any order it may make them. |
| `MCTesselation` | An instance with rings of every kind. |
| `PolygonTesselation_proofs` | Theorems about both. |
| `GeoCoordinateTransformer` | The transformer over any city models. |
| `MCTransformer` | An instance in which every part of a building may name any system. |
| `GeoCoordinateTransformer_proofs` | Theorems about it. |
| `XMLWriter` | The writer: its state, and each method as an operator that may fail. |
| `CityGMLSerializer` | Extends it by the serialize functions and the use of one serializer for several documents. |
| `MCSerializer` | Instances with city models of several kinds. |
| `CityGMLSerializer_proofs` | Theorems about both. |
| `OsgReader` | The plugin: `readNode`, with everything it calls. |
| `MCOsgReader` | An instance with three documents. |
| `OsgReader_proofs` | Theorems about what it draws and leaves behind. |
| `SequenceLemmas` | Lemmas about sequences, flattened ones and folds, and about trees, which the proofs share. |

`DocumentParser` delivers a stream of callbacks to `CityGMLFactory`, whose model
`ModelFinish` finishes; `PolygonTesselation` is what it does to one polygon.
The transformer, the serializer and the plugin start from a finished model, a constant of
their modules, so they do not extend `ModelFinish`.

### The parser (`DocumentParser`, `ElementParsers`)

`open` is the stack of names of open elements, which is the document's state;
`stack` is `m_parserStack`, with a record per parser: its type, its kind or
choices, the node it is bound to and (auxiliary) the depth at which it was bound or
made current. `skip` is `m_unkownElementOrUnexpectedElementName` with its depth.
`StartElement` and `EndElement` are the SAX handlers; each is the whole handler,
with the call of the element parser, and the parser it makes current, in it. A
document is nondeterministic: any child that `Content` allows, with or without an
xlink. An exception is the status "aborted". `XmlFatalError` is an XML error, or a
conversion of text that throws; it can happen at every point.

Element parsers are data: `ChildStart(kind, node, xlink)` is the set of possible
outcomes of `parseChildElementStartTag` (accept, reject or throw, and what is
pushed). A few outcomes depend on texts the model does not have, e.g. the LOD of
a relief, and are nondeterministic. `ElementParsers` translates the chains of `if`s
of sixteen parsers into these tables.

### Shared objects and appearances (`CityGMLFactory` and what it instantiates)

Objects are numbered in the order of their creation; 0 stands for the model.
`path` has the objects whose parsers are on the stack: that is what the parser's
properties above establish, so the composition needs no more of it. At a start
tag an object is created, at its end tag the callback hands it to the object around
it. `polygons`, `geometries`, `implicits` and `children` are the vectors of that
name; `sharedPolygons`, `polygonRequests` and so on are the managers' maps.
`links` and `within` are auxiliary, for the properties.

A polygon or line string that is the value of a geometry property gets a geometry
made for it at its end tag, with the id of the property element: `EndLonePolygon`,
`EndLineString`. `closeFactory` resolves polygons, then geometries, then assigns
materials, then textures, one request or definition per step.

A `slot` of a target is the place for one definition in one of its four maps:
material or texture, front or back, for one theme.

### Postprocessing (`ModelFinish`)

The recursion of the `finish` methods is the stack `calls`, in the order of the code. A
call knows the geometry whose definitions are handed down just before it, as these
are read then and not when the loop began. `texCoords` has the texture slots for which
`createIndicesWithTesselation` filled the maps of texture coordinates. The model assumes
that a polygon has vertices; without any, nothing is stored for it.

### Rings and tesselation (`PolygonTesselation`, `Tesselator`)

A vertex is the set of places (ring and position in the document) it is made of: one for a vertex
that was parsed, several for one GLU makes where edges cross; a texture coordinate likewise, and
the empty set is (0, 0). So whether a vertex has its own coordinate is an
equation between sets. A list of texture coordinates may be shorter or longer than its ring
(`TexturePlacesOf` has the places beyond it). `RemoveNext` is a round of the loop of
`removeDuplicateVertices`, `Cleaned` the fold of as many rounds as the ring has vertices, and
`eraseCoordinate` takes the coordinate for a vertex out of a list that has one.
`GluCombine`, `GluBegin`, `GluVertex` and `GluEnd` are external: any callbacks GLU may
make over the vertices it knows, and `known` and `primitives` are its side of the call; a vertex may
come twice in a primitive. `OfContour` are the indices `processContours` reads that are within
the vectors; for a contour of less than three points it reads the next contour's, or past the end.

### Reference systems (`GeoCoordinateTransformer`)

The recursive functions pass a `GeoTransform` down; the stack `calls` has the calls to
come, each with the one it gets. Coordinates are abstracted to `from`, the systems they
were transformed from, in order; `sourceURN` is the two maps of shared objects.
`setSourceSRS` keeps the old name when the new one is not understood, as in the code.

### Writing (`XMLWriter`, `CityGMLSerializer`)

`elements` are all elements made so far, with their parents, so the document is a tree; `of` is
auxiliary. `todo` is what the serialize functions on the C++ stack still have to call: as they look at
no result, their calls are a sequence that depends on the model alone, and
`ObjectCalls`, `GeometryCalls` and so on are these sequences, written like the
functions, with every part that is optional. `startElement`, `endElement` and `writeContent` each succeed, fail and set
the latch, or return at once because of it. `createDocument` can fail before there is a new
document, or (`DeclarationsFail`) with the new root already open. Every material and texture of
`MCSerializer` has an image or an id, as `AppearancesSaved` tells them apart by it.

### Drawing (`OsgReader`)

`calls` is again the recursion; a polygon is one step, as the loop over them starts
drawables in the middle. A drawable, or material array, is a record with `of`, the polygons put
into it; a vertex is a polygon and a number, so `Corners` is comparable with the
polygons' own triangles. `cout`, `dataPath` and `ma` outlive a call; `thrown` counts the calls that an
exception left, which only debug builds let through.

### Lazy initialisation (`LazyInit`)

Independent of the other modules: here a document is only a sequence of lookups. A thread
calls `load`, passes the flag of Xerces, then for each tag the flag of the node types
(`getXMLNodeFor`), and after it those of the tables its parser looks at, in any order.
The code of all of these is the same six steps: read the flag (`ReadFlag`), lock (`Lock`), read it
again (`CheckAgain`), `Fill`, set it (`Publish`), `Unlock`. Only `initXerces` locks by hand, and
only there an exception (`InitializeFails`) ends the load without unlocking. Locking
a mutex one holds is undefined: it blocks or throws (`LockThrows`).

The first read is not synchronised with the write, which in C++ is a data race: a build may
let a thread see the flag before what it guards. `storesReordered` is the build, and either at the
start; where it is true a flag may be visible while the table is still being filled (`Publish`).
`UsedWhenFull` is about builds where it is false; what holds in both, and is proved, is
`RacesWithFiller` and `FilledOnce`. `Initialize` cannot fail after the flag was set, as the
store is reached only when it returns.

## 3. What is checked

| Run | Question | Bounds |
|---|---|---|
| `Documents` | The whole parser with documents of city objects, addresses, reliefs, vegetation, external references, appearances, implicit geometries, and geometries with sequences, choices and rings, among them the elements whose end tags are reported as unknown by mistake: types, skips, alignment of the stack, a parser for every end tag that expected its element, nothing left open, and that the stack implements `ElementOwnership`. | nine levels of elements |
| `References` | Types; every reference is resolved, wherever the target is defined; no target of an appearance has been destroyed; definitions are handed down to all parts, none is ever replaced, and unshared polygons get all texture coordinates. | four objects, two ids, two xlinks, one surface datum, two targets, one theme |
| `SurfaceData` | The first definition wins; the list of themes is complete. | three objects, two surface data, two targets, two themes, both sides, both orientations |
| `Loads` | Nobody passes a flag before what it guards is complete, or, in builds that show it early, only while the thread that holds the mutex is filling it; everything is initialised once, by one thread alone; waiting for a mutex ends, unless a failed initialisation left it locked. | three threads, Xerces, the nodes and one table; flags visible early or not |
| `Tesselation` | Types; indices and texture coordinates stay parallel to the vertices; duplicates are removed with their coordinates; a finished polygon has its own vertices, coordinates and triangles. | two polygons with the same tesselator, up to two rings of at most four points, up to three themes, a list of coordinates longer than its ring, one vertex made by GLU, four vertices emitted by it (`MCTesselation`) |
| `Transform` | Types; shared coordinates are transformed once; from the system that applies; names change with coordinates. | two objects, one implicit geometry, three geometries, a shared polygon and line string, six names of three systems |
| `Saving` | Types; open elements lie in each other; everything lies in what holds it; `true` means complete; prefixes are declared; appearances are written in every theme; nothing is written after a failure. | two documents with one serializer, every call of which may fail |
| `Scenes` | Types; polygons are drawn whole, as often as the geometries list them; one texture for each drawable; nothing is left behind. | three calls of `readNode`, all combinations of its switches, three documents, any of them left by an exception |
| `EndTags`, `GeoRef`, `XlinkContainer`, `Orientation` | Statements of the repository that the code does not keep, section 5. | |

*Bounds.* The parser's runs use each element that makes a parser behave
differently from the others; names that only run through the same branch of the
same method are represented by one or two. Eight or nine levels are enough for each parser
inside each other one that can hold it, and for a namesake inside a skipped
element; the theorems cover any depth and table. Four objects are a city object, two geometries (nested,
or one within an implicit geometry) and a polygon, or a geometry and two
polygons of the same id; two xlinks are one forward and one backward, or two to the
same polygon. Two themes and two definitions are a conflict in one slot and
another slot besides. Line strings, and so on, are counted as objects as well.
Ids are symmetric, and so are themes.

Two documents, polygons or calls, one after the other, are what it takes for state of the first
one to reach the second; the third call of `readNode` is for one after an exception and a return.
The models of `MCSerializer`, `MCTransformer` and `MCOsgReader` have each kind of
part inside each that can hold it, an empty one, and one that is shared.

Of the tables of the element parsers, which do not depend on each other, `Loads` has one;
with three threads, one fills while one waits and one passes the flag.

*Deadlock* is not checked: a parse, and every walk over a model, ends, and `LazyInit` has the
deadlock of section 5.
*Fairness* is assumed of the threads of `LazyInit` (weak, for each step but calling `load`
and the failure of `Initialize`: the system schedules threads, and a mutex that is free
is given to the one that waits). That suffices: once a flag is set no thread starts to
wait. The other modules state no liveness: what drives the parser is the document, and a
document that ends in the middle is one of the cases modelled (`XmlFatalError`). The loops of
`closeFactory` and `finish` consume finite lists.

## 4. What is proved

The proofs hold for every value of the constants that satisfies the named
assumptions of the modules.

* `DocumentParser_proofs`: `TypeCorrect` (the type invariant) and `SkippedToItsEnd`
  (`SkipBalanced`: the depth counter of the skip is the number of open namesakes inside
  the skipped element), for every table of element parsers whatsoever. The type
  invariant is inductive; `SkipBalanced` is inductive relative to it, by counting
  the namesakes with and without the innermost element.
* There too: `ParserStackAligned`, `EndTagParserThere`, `RootEndsParsing` and
  `ExpectedToTheEnd` (`EndTagsExpected`) under the assumption `WellBehaved`. It
  says what a table of element parsers has to keep to: parsers are pushed
  only at accepted start tags, a sequence is bound to its container, no parser
  accepts a child of a node it is bound to itself unless documents never nest
  it. TLC evaluates it for the real tables, the elements whose end tags are rejected
  included, as `ASSUME` of `MCWellBehaved`; only georeferenced textures, which do push a parser at an end
  tag, are left out there. Nothing is assumed of the lists of end tags. `StackAligned` alone
  is not inductive: whether a parser pops itself at the right end tag depends on
  which elements lie between it and the parser above. `StackInv` therefore
  says of each parser (`InCharge`) that it gets the end tags of the elements
  deeper than its own, up to the parser above it, and that these are elements it
  expected and none of its own node; that a sequence gets the end tag of its
  container only; that a skip parser is on top and its depth is the number of open
  elements of its node; besides that parsers are bound to open elements at strictly
  growing depths and only the top waits (`Placed`), and that the root parser is at the
  bottom (`RootBelow`). There is a lemma for each branch of the handlers: a start
  tag `Lands` in an aligned stack, an end tag `Leaves` one. `OwnersStayInCharge` is the
  refinement: under `WellBehaved`, `Spec` implies `OwnersStable`, which is `ElementOwnership` with the
  parsers in charge of the open elements for its owners. An aligned stack determines who is in
  charge of an element (`CallChain`), so a start tag adds one entry, an end tag takes off the last, and
  every other step stutters.
* `ModelFinish_proofs`: `DefinitionsKept` (`SlotsKept`: the definition of a slot
  is never replaced, in any step), and `TargetsStayAlive` (`TargetsAlive`). For the
  latter the inductive invariant `BuildInv` says that each polygon is held by a geometry
  or is still on the path, which needs that nothing is opened inside a polygon
  (`PolygonOnTop`): the reference the polygon manager drops in `finish` is never the last one.
  Both are for documents of any size, with any number of links and definitions.
* There too: `TypeCorrect`, `EveryThemeListed` (`ThemesListed`), `FirstDefinitionWins`
  (`FirstDefinitionAssigned`), `EveryoneInherits` (`AppearancesInherited`) and `TexCoordsForAll`
  (`UnsharedHaveTexCoords`), for all documents too. Types are `TypeInv`: what a list, a manager or
  a call of the walk refers to is of the kind expected there, with `BuildInv` for the room the geometry made for a
  lone polygon needs. `ThemesInv` says that a slot that is taken has a theme that is known
  already while appearances are assigned, so before the model gets its list. `AssignInv` says what
  makes the first definition win: a target is the last object of its name (`TargetsLast`); each
  queue is in the order of the document and a definition that has left it came before those
  that wait (`QueuesOrdered`); nothing is assigned before the references are resolved (`NothingAssigned`); a
  slot of a target has the first of the fitting definitions that left their queue
  (`AssignedFirst`), and of all when the targets are forgotten (`AssignedForGood`), which
  the walk over the model keeps because it fills free slots only (`SlotsStay`).
  That everybody inherits needs the shape of the model, `TreeInv`: the objects on the path are nested
  in the order they were made, every closed object but a polygon is part of an older one (`InTree`), and a geometry that
  is a child of a geometry is held once (`OneHolder`), for only implicit geometries share
  whole geometries (`SharedHeld`). `WalkInv` says of the calls to come that a child geometry is called once and by its
  holder (`CallsOK`, `CalledOnce`), which is finished by then (`ParentFinished`); that who is
  finished has handed its definitions down, or the call that will is still to come
  (`HandedDown`); and that who was visited has finished or called its parts (`Walked`). When no call is left, the oldest
  geometry that was missed would be part of an older object that was not (`LeastNumber`).
  A polygon that is part of one geometry only is called once, by that geometry, before it is finished
  (`SoleCalls`), so nothing reaches it after its texture coordinates were computed (`SoleFinished`).
* And `EveryReferenceResolved` (`ReferencesResolved`): in every document a geometry gets the polygons of its
  element in their order, then those of its xlinks in theirs. The invariant `ReferenceInv` says what
  the end tags and the managers have done so far. While the document is parsed, the objects that are
  closed are listed, in order, where they are defined (`ClosedListed`): objects end in another order than they begin,
  so this needs that what is created after an open object is inside it (`Nested`), and that a lone
  polygon moves into the geometry made for it. The managers have the last object of each id, for shared
  geometries the last that has ended (`LastShared`). Which objects the ids stand for is not known yet, so
  `RequestsLinked` is about all assignments of objects to ids: with any of them the requests
  give an object what its links give. When the document has ended, what an object has and what
  its open requests will still give it is what it should have (`PolygonsDue`, `GeometriesDue`), and a turn of the loop in
  `finish()` moves one object from the second part to the first (`ResolvesOne`), or nothing when there is none.
  That the list of an object is *the* ordered one is an induction over the number of objects (`OrderedIs`).
* `LazyInit_proofs`: `IncompleteOnlyInRace` (`RacesWithFiller`) and `FillIsExclusive` (`FilledOnce`), for any
  number of threads and tables, and whether or not flags are visible early. The invariant `IInv` says
  that who is between lock and unlock holds the mutex, that who fills finds nothing there, that what is there has
  its flag set or its filler about to set it, that a flag that is set says that something is there or being
  filled, and that who is past a flag saw it set or set it.

* `GeoCoordinateTransformer_proofs`: `TypeCorrect`, `SharedTransformedOnce`
  (`TransformedOnce`) and `NamesAndCoordinatesMatch` (`NamesMatchCoordinates`), for city
  models of any shape with parts as typed in `ModelsAssumption`. The invariant is their conjunction: that a polygon
  is transformed once needs that a `GeoTransform` that is valid has the system its name stands
  for, so that the map never gets an empty name, which would mean "not yet"; this is in `TypeOK`.
  `SourceSystemsApply` (`SourceApplies`: whatever is moved is moved from the system of the nearest part around
  it that names one) needs `TreeAssumption` as well: parts other than polygons and line strings are held once, as
  the `unique_ptr`s and the parsers make them, and all in the end by the model. Which system applies is handed
  down this tree, by recursive functions whose values the provers cannot compute; `PassedDownExists` and `PassedDownUnique`
  show, by induction along the tree, that there is one such function, and `AppliesIs` that it
  is the property's. The invariant `Walk` says which parts have been visited (a set `V` closed upward), that the
  calls to make are those of the parts below `V`, each once and with the system of its
  holder, and that what was visited, and only that, was moved from the system that applies to it.
* `CityGMLSerializer_proofs`: `TypeCorrect`, `OpenElementsStayNested`, `ElementsPlacedInOwner` (`PlacedInOwner`),
  `SavedPrefixesDeclared` (`PrefixesDeclared`) and the action property `WritingStopped`
  (`ErrorStopsWriting`), for every well-formed city model, number of documents, set of options and pattern of failures.
  `WriterInv` needs nothing of `todo`: the writer keeps its documents well formed whatever calls are made; it adds
  that elements are records with all their fields, which a write of contents needs to leave parents alone.
  The others rest on what the serialize functions call. A sequence of calls is a walk over stacks of open
  elements (`Runs`), in which an element may start only inside what holds its part of the model, in
  an allowed namespace, and an id is that of the open part (`Turns`). Each function's calls end
  with the stack they began with (`Stays`: one lemma for each, from `TextElementStays` to `ObjectCallsStay`),
  the appearances among them, whose recursive collection yields definitions only (`CollectsTyped`, by
  induction over the rank that `Descends` gives). So what recurs can be put in front of the rest
  (`WillRunMore`), and `CallsInv` is inductive: unless a call has failed, what is left to write is such a walk
  from the elements that are open to the one save (`WillRun`), and what was written is where it belongs
  (`ElementsFit`, `ElementsNamed`).
  `CityModelsAssumption` says that a city model is finite, that its parts are typed, and that no object or geometry is part of
  itself: what the parser makes, and without which the serializer does not return.
* `OsgReader_proofs`: `NothingIsLeft` (`NothingLeft`), for any documents and number of calls. `IInv` says
  that the directories on the path are those of the calls an exception left and of the
  one that runs, that `coutsb` is the console while a call runs if none was left before, and that
  there are arrays only in a call that makes a single object. `TypeCorrect` and `PolygonsKept`
  (`DrawablesOfPolygons`: `TrianglesOfPolygons` and `OneTextureEach`) add `SceneInv`: of the batch, each material
  array and each drawable, that it is `Whole` (it draws the triangles of its polygons, in their order) and
  that its polygons have one texture; that a batch is open only between the polygons of one
  geometry (`BatchOpen`); and that those in an array have the texture that is its key. Appending a
  polygon moves its indices behind those there, which is an induction over the list of polygons.
  `PolygonsAllDrawn` (`EveryPolygonDrawn`: nothing is lost or drawn twice) counts: `Balanced` says that after
  each step the drawables, with the batch, have a polygon in as many places (`SlotsOf`) as the drawing has
  passed (`Passed`). A geometry visited twice would break that, so `Ordered` says of the calls to make that each
  is of another node, of one that was not opened before, and that what holds a node was opened before it is
  called. This needs `TreeAssumption`: no object or geometry is in the lists twice, which
  the vectors of `unique_ptr`s they are kept in see to (citymodel.h:21, cityobject.h:129 and 131, geometry.cpp:66-68).
  `UrlAssumption` says that no image is named like the keys "roof" and "wall" or the
  sentinel the code starts with: with such a name polygons of two textures would share a drawable.
* `PolygonTesselation_proofs`: all invariants of the run `Tesselation`, for polygons of any size,
  any number of themes and lists, and whatever GLU does. `BufferInv` gives `TypeCorrect` and `IndicesStayInVertices`
  (`IndicesInVertices`): the buffers are typed, as long as each other, and empty in the phases before they are
  used (`PhaseInv`), without which the queue of one polygon could reach into the next one's vertices.
  `TrianglesAsDrawn` (`TrianglesOfPrimitives`) compares the loop of `endCallback`, which keeps two vertices and turns
  every second triangle, with what OpenGL draws for the primitive (`TrianglesDrawn`, by induction over the
  rounds), and flattens the primitives. `DuplicatesRemoved` (`RingsCleaned`) rests on the loop invariant
  `LoopInv`: what is before the loop's vertex has no equal neighbours, every point of the ring is still
  there, and the lists have lost the same places; `Progress` says that every round
  removes a vertex or passes one, so the loop has ended after as many rounds as there were vertices.
  `CoordinatesGiven` (`OwnTexCoords`) follows the coordinates from the lists (`RingsMatch`) to the
  buffers (`CoordsGiven`); a vertex GLU makes has those of the vertices it is made of.
  `VerticesAreOwn` (`OwnVertices`) needs that `addRing` keeps each ring once, an exterior one first
  (`RingsAddedOnce`, by induction over the rings), and that a cleaned ring has no vertex twice (`ContourType`). Then
  `OwnInv` is inductive: the rings still to be added are as they were parsed or cleaned (`RingsOwn`), the vertices are the
  contours so far, without repetition (`VerticesOwn`), and GLU's lie between at least two of them
  (`MadeOwn`). The last part is why `OwnInv` has to say that no vertex is there twice: two contour vertices of the
  same place would make a new one of a single place. Fans and strips give three indices for each
  triangle, so the indices are whole triangles (`WholeTriangles`).
* `SequenceLemmas` has what these need of sequences: induction over their length
  (`SeqInduct`), `FlattenSeq`, removal of an element, and what the folds of
  the community modules compute (`FoldExists`, `FoldSteps`): the results of the rounds are
  a function on the numbers of rounds, about which one proves things with `NatInduct`. Its last part is about
  trees: a tree is a set that no smaller one with the root and all parts of its elements equals (`TreeOf`),
  which is induction over it in a form the provers can use.

Only model-checked: liveness (`WaitsEnd`), which is out of the prover's reach;
`TrueMeansComplete` and `AppearancesSaved` of the serializer, which say of
a whole document how often, or that, something was written in it, where the walks of the proof know
only what is open. The prover has no induction theorem that it can
instantiate; `NatInduct` is one for sets of numbers, which is enough where what is to be shown can
be written as such a set.

## 5. Where code and documentation differ

With a run that finds it:

* `EndTags`: some parsers accept start tags (`veg:lodNGeometry`, `dem:extent`, `core:mimeType`, the
  children of external references) whose end tags they then report as unknown, with the message "Please check the
  parser implementation" (citygmldocumentparser.cpp:112-114). The stack stays aligned all the same
  (run `Documents`, theorem `ExpectedToTheEnd`).
* `GeoRef`: the parser of georeferenced textures pushes a skip parser at the
  *end* tags of its children; it takes the tags that follow, and the texture's parser
  is still on the stack when its element is closed.
* `XlinkContainer`: properties that hold city objects or geometries make a parser current
  without looking for an xlink; for an empty element with one the load ends with an exception.
* `Orientation`: the negative orientation of a surface is applied before its xlinked
  base surface is known.

Stated as definitions, with no run of their own; TLC finds each violated when it replaces the
properties of a configuration (`References`, `Loads`, `Tesselation`, `Scenes` or `Saving`, whichever is of its module):

* `AllHaveTexCoords` of `ModelFinish`: a polygon that two geometries share is finished with the definitions of
  the first one; those of the second one reach it, but without texture coordinates (polygon.cpp:234; polygon.h:76
  promises an empty list only "if there are no texture coordinates for this theme and side").
  `AppearancesInherited` and `UnsharedHaveTexCoords` are what does hold.
* `LockSkippedWhenInitialized` of `LazyInit`: the flags of the double-checked locks are plain `bool`s
  (nodetypes.cpp:79; the comment of line 78 has the lock skipped "when the node types are already
  intialized"). `RacesWithFiller` is what does hold.
* `FlagCheckedAgain` of `LazyInit`: an exception of `XMLPlatformUtils::Initialize` leaves the mutex locked
  (parserxercesc.cpp:258-269); the threads that wait for it, and every later load, wait for ever, although
  the comment of line 259 has them "Check xerces_initialized again". `WaitsEnd` says that nothing else does that.
* `ContoursAdded` of `PolygonTesselation`: a contour of less than three vertices is queued although nothing was
  appended for it (tesselator.cpp:66-68); its indices are those of the next contour, or past the end (81-91). GLU
  drops it.
* `StreamsRestored` of `OsgReader`: in a debug build an exception of the parser leaves the streams redirected and
  the directory on the path (ReaderWriterCityGML.cpp:257-274, with the comment "Restore cout/cerr streams").
* `TrueMeansWritten` of `CityGMLSerializer`: neither the result of `DOMLSSerializer::write` nor the state of the
  stream is looked at; a file cut short is reported as success.
* `TargetsSaved` of `CityGMLSerializer`: a material or texture is written once in a theme, with the first of its
  targets; its other targets are lost.
* `HighestLodDrawn` of `OsgReader`: `getHighestLodForObject` is to "check for the highest LODs of Children"
  (ReaderWriterCityGML.cpp:917) but assigns the maximum the wrong way round (921).
* `DescribedByOwn` of `OsgReader`: a batch is described by the polygon that ends it (593-600),
  the first of the next batch, and gets its material and texture too; the option is to store
  "the citygml id of geometry objects in the corresponding osg::Geometry object" (175).

Met while modelling; the modules follow the code:

* The parameter `tesselate` is ignored (citymodel.cpp:118-122, against citygml.h:58), and
  `optimize` does no more than remove duplicate vertices (citygml.h:56).
* Without `keepVertices` rings are emptied; with it, ring vertices are not transformed to the
  destination system, under whose name the serializer writes them.
* A geometry whose system is unknown is left without its child geometries, also those
  that name a known system; the `srsName` of geometries is not updated.
* A generic attribute whose name is that of a registered element is written as that element
  (elementserializer.cpp:68): "class" becomes `luse:class`, whose prefix is declared only when the model
  has a land use. `PrefixesDeclared` is stated for models without such attributes (`ModulesCover`).
* The appearance of objects is written in the object's own element, and serialization of implicit
  geometries is commented out.
* The options `destSRS` and `appearanceTheme` of the plugin are declared as supported
  (ReaderWriterCityGML.cpp:172, 174) but not parsed (99-122). A texture that cannot be loaded ends the
  polygons of its geometry (718, 728).

## 6. What is not modelled

Coordinates, colours, texts and numbers are data that no property tells apart; so are attributes,
vectors, matrices and envelopes. Well-formedness is the XML parser's, triangulation GLU's,
projection GDAL's. `TextureAssociationElementParser` is
never created. The order of events, and which exceptions end a load, are
modelled with the document parser; what `load` then returns (in a release build an
exception in `endDocument` delivers a model that was not postprocessed) is not. Indices without a
tesselator, the index of city objects by type, and implicit geometries of the
serializer, which the code does not write, are left out. Of the plugin, two threads that read at
once and share the global map of arrays are not modelled, nor the parsing of its option
string. Test programs are users of the library.

## 7. What remains

1. `load`: what is returned after an exception, in debug and release builds; the
   composition of parser and factory, which replaces the assumption on `path`.
2. Proofs: what a saved document is complete in (`TrueMeansComplete`, `AppearancesSaved`).
3. Two threads with one plugin; several threads with one model that is only read.
