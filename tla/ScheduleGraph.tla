---------------------------- MODULE ScheduleGraph ----------------------------
(***************************************************************************)
(* The cycle analysis of the schedule projection                             *)
(* (src/src/skdashboard/dashboard_schedule.py, _cycles): a depth-first search  *)
(* with an explicit stack, over the edges whose direction is known and whose  *)
(* target is not hidden.  Edges come in the order of their serialisation,     *)
(* which says nothing about their ends: any order is possible.               *)
(***************************************************************************)
EXTENDS Naturals, Sequences, FiniteSets

CONSTANT Items  \* the number of items, 1..Items in the order of their ids

Item == 1..Items
Edge == {e \in Item \X Item : e[1] # e[2]}

\* What else makes the critical path unavailable, in the words of the code.
Reason == {"unknown_edge_direction", "inaccessible_required_node",
           "missing_required_dates", "conflicting_blackout"}

VARIABLES
  edges,    \* the known edges
  others,   \* the other reasons, which do not depend on the search
  path,     \* the stack, which is also the path to its top
  rest,     \* the targets each item on the path has not followed yet
  visited,  \* the items whose targets are all followed
  cyclic,   \* the items found on a cycle
  done

vars == <<edges, others, path, rest, visited, cyclic, done>>

Init ==
  /\ edges \in SUBSET Edge
  /\ others \in {{}} \cup {{reason} : reason \in Reason}
  /\ path = <<>> /\ rest = [i \in Item |-> {}]
  /\ visited = {} /\ cyclic = {} /\ done = FALSE

OnPath(i) == \E k \in 1..Len(path) : path[k] = i
Top == path[Len(path)]
Push(i) ==
  /\ path' = Append(path, i)
  /\ rest' = [rest EXCEPT ![i] = {e[2] : e \in {d \in edges : d[1] = i}}]

\* The next root: the first item not visited, or the end.
Root ==
  /\ path = <<>> /\ ~done
  /\ IF visited = Item
     THEN done' = TRUE /\ UNCHANGED <<path, rest>>
     ELSE \E i \in Item \ visited :
            /\ \A j \in Item \ visited : i <= j
            /\ Push(i) /\ UNCHANGED done
  /\ UNCHANGED <<edges, others, visited, cyclic>>

\* All the targets of the top are followed.
Pop ==
  /\ path # <<>> /\ rest[Top] = {}
  /\ visited' = visited \cup {Top}
  /\ path' = SubSeq(path, 1, Len(path) - 1)
  /\ UNCHANGED <<edges, others, rest, cyclic, done>>

\* The part of the path from its item i on.
CycleTo(i) == {path[k] : k \in {m \in 1..Len(path) : \E l \in 1..m : path[l] = i}}

\* Mutant: any visited target closes a cycle.
FollowToVisited ==
  /\ path # <<>>
  /\ \E i \in rest[Top] :
       \/ /\ OnPath(i)
          /\ cyclic' = cyclic \cup CycleTo(i)
          /\ rest' = [rest EXCEPT ![Top] = @ \ {i}] /\ UNCHANGED path
       \/ /\ ~OnPath(i) /\ i \in visited
          /\ cyclic' = cyclic \cup {Top, i}
          /\ rest' = [rest EXCEPT ![Top] = @ \ {i}] /\ UNCHANGED path
       \/ /\ ~OnPath(i) /\ i \notin visited
          /\ path' = Append(path, i)
          /\ rest' = [rest EXCEPT ![Top] = @ \ {i},
                                  ![i] = {e[2] : e \in {d \in edges : d[1] = i}}]
          /\ UNCHANGED cyclic
  /\ UNCHANGED <<edges, others, visited, done>>

\* One target of the top: on the path, visited, or new.
Follow ==
  /\ path # <<>>
  /\ \E i \in rest[Top] :
       \/ /\ OnPath(i)
          /\ cyclic' = cyclic \cup CycleTo(i)
          /\ rest' = [rest EXCEPT ![Top] = @ \ {i}] /\ UNCHANGED path
       \/ /\ ~OnPath(i) /\ i \in visited
          /\ rest' = [rest EXCEPT ![Top] = @ \ {i}] /\ UNCHANGED <<path, cyclic>>
       \/ /\ ~OnPath(i) /\ i \notin visited
          /\ path' = Append(path, i)
          /\ rest' = [rest EXCEPT ![Top] = @ \ {i},
                                  ![i] = {e[2] : e \in {d \in edges : d[1] = i}}]
          /\ UNCHANGED cyclic
  /\ UNCHANGED <<edges, others, visited, done>>

Next == Root \/ Pop \/ Follow

Spec == Init /\ [][Next]_vars

\* _critical_path_reasons; with a reason the critical path is unavailable.
CriticalPathReasons ==
  (IF cyclic = {} THEN {} ELSE {"dependency_cycle"}) \cup others

\* The state of an edge in the projection.
CycleState(e) == IF e[1] \in cyclic /\ e[2] \in cyclic THEN "cycle_member" ELSE "acyclic"

-----------------------------------------------------------------------------
(* Properties.                                                              *)

\* Reference: an item is on a cycle if some closed walk passes through it.
Closed(walk, n) == \A k \in 1..n : <<walk[k], walk[IF k = n THEN 1 ELSE k + 1]>> \in edges
OnCycle == {i \in Item : \E n \in 1..Items : \E walk \in [1..n -> Item] :
                           walk[1] = i /\ Closed(walk, n)}

\* The search is right about whether there is a cycle, which is what closes the
\* critical path, and every item it names is on one.
CyclesAreReal ==
  /\ cyclic \subseteq OnCycle
  /\ done /\ OnCycle # {} => "dependency_cycle" \in CriticalPathReasons

\* src/tests/test_control_plane_schedule_projection_provider.py:407: "cycles
\* remain explicit": no edge of a cycle is called acyclic.  An item whose cycle
\* returns through an item already visited is missed.
CyclesAreExplicit ==
  done => \A e \in edges :
    (\E n \in 1..Items : \E walk \in [1..n -> Item] :
        Closed(walk, n) /\ n > 1 /\ walk[1] = e[1] /\ walk[2] = e[2]) =>
      CycleState(e) = "cycle_member"
=============================================================================
