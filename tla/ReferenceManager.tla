-------------------------- MODULE ReferenceManager --------------------------
(***************************************************************************)
(* PolygonManager and GeometryManager: two classes with the same code.     *)
(* While the document is parsed they collect the objects that may be       *)
(* shared, by id, and the requests of those that refer to one; finish()    *)
(* adds the objects to those that asked for them.                          *)
(***************************************************************************)
EXTENDS Integers, Sequences

CONSTANTS
  Id,     \* ids a document gives to objects
  NoId    \* an id the parser generates, which nothing refers to

VARIABLES
  shared,    \* m_sharedPolygons, m_sharedGeometries; 0 where there is none
  requests,  \* m_polygonRequests, m_geometryRequests, as far as not processed
  parts      \* m_polygons of the geometries, m_geometries of the implicit ones

AddFirstWins(d, o) ==  \* mutant: map::insert instead of operator[]
  /\ shared' = IF d = NoId \/ shared[d] # 0 THEN shared ELSE [shared EXCEPT ![d] = o]
  /\ UNCHANGED requests

(* addPolygon, addSharedGeometry: a later definition overwrites.           *)
Add(d, o) ==
  /\ shared' = IF d = NoId THEN shared ELSE [shared EXCEPT ![d] = o]
  /\ UNCHANGED requests

(* requestSharedPolygonForGeometry, requestSharedGeometryForImplicitGeometry *)
Request(target, d) ==
  /\ requests' = Append(requests, [target |-> target, id |-> d])
  /\ UNCHANGED <<shared, parts>>

ResolveNextStops ==  \* mutant: break instead of continue at a missing object
  /\ requests # <<>>
  /\ LET r == Head(requests) IN
       IF shared[r.id] = 0
       THEN UNCHANGED parts /\ requests' = <<>>
       ELSE /\ parts' = [parts EXCEPT ![r.target] = Append(@, shared[r.id])]
            /\ requests' = Tail(requests)
  /\ UNCHANGED shared

(* One turn of the loop in finish(): a request for an object that does not *)
(* exist is dropped.                                                       *)
ResolveNext ==
  /\ requests # <<>>
  /\ LET r == Head(requests) IN
       parts' = IF shared[r.id] = 0 THEN parts
                ELSE [parts EXCEPT ![r.target] = Append(@, shared[r.id])]
  /\ requests' = Tail(requests)
  /\ UNCHANGED shared

(* The end of finish().                                                    *)
Clear ==
  /\ requests = <<>>
  /\ shared' = [d \in Id |-> 0]
  /\ UNCHANGED <<requests, parts>>
=============================================================================
