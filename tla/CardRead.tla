------------------------------ MODULE CardRead ------------------------------
(***************************************************************************)
(* AuthorizedCardScheduleSource of live_control_plane.py: the schedule reads     *)
(* the cards an owner's entry shows one file after another, twice, and takes     *)
(* the second reading when nothing it compares has changed.  Other processes    *)
(* write cards between any two of these reads.                               *)
(***************************************************************************)
EXTENDS Naturals, FiniteSets

CONSTANTS
  Cards,
  MaxEdits   \* bound: how often a card's log grows

VARIABLES
  card,     \* the cards as the store folds them; updated_at grows with each edit
  edge,     \* dependencies between cards: <<card, target>>
  entry,    \* whether the owner's entry, the decision and the request agree and are current
  history,  \* every value the store has had since the read began
  read      \* step of the read

vars == <<card, edge, entry, history, read>>

Card == [done : BOOLEAN, archived : BOOLEAN, updated : 0..MaxEdits]
Store == <<card, edge>>

Idle == [pc |-> "idle"]

Init ==
  /\ card \in [Cards -> [done : BOOLEAN, archived : {FALSE}, updated : {0}]]
  /\ edge \in SUBSET {e \in Cards \X Cards : e[1] # e[2]}
  /\ entry = TRUE
  /\ history = {}
  /\ read = Idle

\* What a pass of _fold has of a card: _card_facts.
Facts(c) == [card |-> card[c], to |-> {d \in Cards : <<c, d>> \in edge}]

\* read and project: binding, tenant, scope and dates of the entry.
Begin ==
  /\ read.pc = "idle"
  /\ IF entry
       THEN /\ read' = [pc |-> "before", left |-> Cards, before |-> <<>>, after |-> <<>>]
            /\ history' = {Store}
       ELSE read' = [pc |-> "refused"] /\ UNCHANGED history
  /\ UNCHANGED <<card, edge, entry>>

\* One card of a pass.  A card that is gone refuses the whole read.
FoldCard(pass) ==
  /\ read.pc = pass
  /\ \E c \in read.left :
       LET facts == [d \in DOMAIN read[pass] \cup {c} |-> IF d = c THEN Facts(c) ELSE read[pass][d]]
           left == read.left \ {c} IN
       read' = IF left # {} THEN [read EXCEPT ![pass] = facts, !.left = left]
               ELSE [read EXCEPT ![pass] = facts, !.left = Cards,
                                 !.pc = IF pass = "before" THEN "after" ELSE "compare"]
  /\ UNCHANGED <<card, edge, entry, history>>

Missing ==
  /\ read.pc \in {"before", "after"}
  /\ read' = [pc |-> "refused"]
  /\ UNCHANGED <<card, edge, entry, history>>

\* _dependencies: edges between the cards shown, blocking unless the target is done.
EdgesOf(facts, shown) ==
  {[from |-> e[1], to |-> e[2], blocking |-> ~facts[e[2]].card.done] :
     e \in {p \in shown \X shown : p[2] \in facts[p[1]].to}}

\* _item and the projection: archived cards are left out, with their edges.
Projected(facts) ==
  LET shown == {c \in Cards : ~facts[c].card.archived} IN
  [items |-> {[id |-> c, done |-> facts[c].card.done] : c \in shown},
   edges |-> EdgesOf(facts, shown)]

\* Mutant: the second reading is taken as it is.
ReleaseUncompared ==
  /\ read.pc = "compare"
  /\ read' = [pc |-> "released", projection |-> Projected(read.after)]
  /\ UNCHANGED <<card, edge, entry, history>>
Release ==
  /\ read.pc = "compare"
  /\ read' = IF read.before = read.after
               THEN [pc |-> "released", projection |-> Projected(read.after)]
               ELSE [pc |-> "refused"]
  /\ UNCHANGED <<card, edge, entry, history>>

-----------------------------------------------------------------------------
\* External: another process appends to a card's log.
Edit(c) ==
  /\ card[c].updated < MaxEdits
  /\ \E done, archived \in BOOLEAN :
       card' = [card EXCEPT ![c] = [done |-> done, archived |-> archived, updated |-> @.updated + 1]]
  /\ edge' \in {edge, {e \in edge : e[1] # c}}
  /\ history' = IF read.pc \in {"before", "after", "compare"} THEN history \cup {Store'} ELSE history
  /\ UNCHANGED <<entry, read>>

\* External: the owner's entry lapses.
Lapse ==
  /\ entry
  /\ entry' = FALSE
  /\ UNCHANGED <<card, edge, history, read>>

Next ==
  \/ Begin \/ FoldCard("before") \/ FoldCard("after") \/ Missing \/ Release
  \/ \E c \in Cards : Edit(c)
  \/ Lapse

Spec == Init /\ [][Next]_vars

-----------------------------------------------------------------------------
\* The facts a store would give if it were read in one instant.
FactsIn(store) ==
  [c \in Cards |-> [card |-> store[1][c], to |-> {d \in Cards : <<c, d>> \in store[2]}]]

(* A schedule that is released is the projection of one state the card store had    *)
(* while it was read: no edge blocks by a card of another moment.                *)
ScheduleIsOneInstant ==
  read.pc = "released" => \E store \in history : read.projection = Projected(FactsIn(store))

=============================================================================
