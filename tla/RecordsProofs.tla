---------------------------- MODULE RecordsProofs ----------------------------
(* What holds of the components that MCRecords puts side by side, for any number *)
(* of composers, cards, nodes and items and any limits: of the usage index, the    *)
(* schedule's two passes, the gateway's answers and its limit, and the cycles.    *)
EXTENDS MCRecords, FiniteSetTheorems, SequenceTheorems, TLAPS

-----------------------------------------------------------------------------
(* UsageIndex                                                                *)

Rows == Usage!Lanes \X Usage!Version

\* What a run of compose and a read hold at each of their steps.
UsageRun ==
  [pc : {"idle", "refused", "published", "dead"}]
    \cup [pc : {"validated"}, gateway : Usage!Version]
    \cup [pc : {"retained", "stored"}, harness : Usage!Version, gateway : Usage!Version]
UsageReader ==
  [pc : {"idle"}]
    \cup [pc : {"index", "sources", "confirm"}, attempt : Nat, seen : Usage!Generation,
          rows : SUBSET Rows]
    \cup [pc : {"answered"}, status : {"current", "degraded", "empty"}, rows : SUBSET Rows]

UsageTypes ==
  /\ usage \in Usage!Generation /\ sent \in Usage!Generation
  /\ composer \in [Composers -> UsageRun]
  /\ reader \in UsageReader

\* What a run is about to name is in place: its own observation from the moment the
\* sources are written, the one it retains from the moment it read the index.
SourcesInPlace ==
  /\ Usage!Named(usage) \subseteq observed
  /\ \A c \in Composers :
       /\ composer[c].pc \in {"retained", "stored"} /\ composer[c].harness > 0
            => <<"harness", composer[c].harness>> \in observed
       /\ composer[c].pc = "stored" => <<"gateway", composer[c].gateway>> \in observed

OneOfALane(rows) == \A a, b \in rows : a[1] = b[1] => a = b

\* A read holds rows of the one generation it saw.
RowsAreOfOneGeneration ==
  /\ reader.pc = "confirm" => reader.rows \subseteq Usage!Named(reader.seen)
  /\ reader.pc = "answered" => OneOfALane(reader.rows)

UsageInv == UsageTypes /\ SourcesInPlace /\ RowsAreOfOneGeneration

-----------------------------------------------------------------------------
(* The operators of the reader                                               *)

\* A generation names one observation of a lane at most.
LEMMA NamedIsOneOfALane ==
  ASSUME NEW g \in Usage!Generation
  PROVE  Usage!Named(g) \subseteq Rows /\ OneOfALane(Usage!Named(g))
BY VersionAssumption DEF Usage!Named, Usage!Generation, Rows, OneOfALane, Usage!Version

\* So do the acknowledged snapshots.
LEMMA AcknowledgedIsOneOfALane ==
  ASSUME sent \in Usage!Generation
  PROVE  Usage!Acknowledged \subseteq Rows /\ OneOfALane(Usage!Acknowledged)
BY VersionAssumption DEF Usage!Acknowledged, Usage!Generation, Rows, OneOfALane, Usage!Version

\* The fallback adds to a lane only what the lane has nothing of.
LEMMA FilledIsOneOfALane ==
  ASSUME sent \in Usage!Generation, NEW rows \in SUBSET Rows, OneOfALane(rows)
  PROVE  Usage!Filled(rows) \subseteq Rows /\ OneOfALane(Usage!Filled(rows))
BY AcknowledgedIsOneOfALane DEF Usage!Filled, OneOfALane

-----------------------------------------------------------------------------
(* The writers                                                               *)

\* Each step of compose keeps what it names in place.
LEMMA ComposerStep ==
  ASSUME UsageInv, NEW c \in Composers,
         Usage!ReadProducer(c) \/ Usage!ReadCurrent(c) \/ Usage!WriteSources(c) \/
           Usage!Publish(c) \/ Usage!ComposerDies(c)
  PROVE  UsageTypes' /\ SourcesInPlace' /\ UNCHANGED reader
<1>. USE DEF UsageInv, UsageTypes, SourcesInPlace
<1>1. \A pc \in {"idle", "refused", "published", "dead"} : Usage!At(pc) \in UsageRun
  BY DEF Usage!At, UsageRun
<1>2. CASE Usage!ReadProducer(c)
  <2>1. \E v \in UsageRun : /\ v.pc \in {"validated", "refused"}
                            /\ composer' = [composer EXCEPT ![c] = v]
    BY <1>1, <1>2 DEF Usage!ReadProducer, UsageRun, Usage!At
  <2>. QED BY <1>2, <2>1 DEF Usage!ReadProducer, Usage!Named
<1>3. CASE Usage!ReadCurrent(c)
  <2>. DEFINE v ==
         [pc |-> "retained", harness |-> usage["harness"], gateway |-> composer[c].gateway]
  <2>1. composer[c] \in [pc : {"validated"}, gateway : Usage!Version]
    BY <1>3 DEF Usage!ReadCurrent, UsageRun
  <2>2. v \in UsageRun /\ v.pc = "retained" /\ v.harness = usage["harness"]
    BY <2>1 DEF UsageRun, Usage!Generation, Usage!Lanes
  <2>3. usage["harness"] > 0 => <<"harness", usage["harness"]>> \in observed
    BY DEF Usage!Named, Usage!Lanes
  <2>4. CASE composer' = [composer EXCEPT ![c] = v]
    BY <1>3, <2>2, <2>3, <2>4 DEF Usage!ReadCurrent, Usage!Named
  <2>5. CASE composer' = [composer EXCEPT ![c] = Usage!At("refused")]
    BY <1>1, <1>3, <2>5 DEF Usage!ReadCurrent, Usage!Named, Usage!At
  <2>. QED BY <1>3, <2>4, <2>5 DEF Usage!ReadCurrent
<1>4. CASE Usage!WriteSources(c)
  <2>. DEFINE v == [composer[c] EXCEPT !.pc = "stored"]
  <2>1. composer[c] \in [pc : {"retained"}, harness : Usage!Version, gateway : Usage!Version]
    BY <1>4 DEF Usage!WriteSources, UsageRun
  <2>2. /\ v \in UsageRun /\ v.pc = "stored"
        /\ v.harness = composer[c].harness /\ v.gateway = composer[c].gateway
    BY <2>1 DEF UsageRun
  <2>3. \/ /\ composer' = [composer EXCEPT ![c] = v]
           /\ observed' = observed \cup {<<"gateway", composer[c].gateway>>}
        \/ /\ composer' = [composer EXCEPT ![c] = Usage!At("refused")]
           /\ observed' = observed
    BY <1>4 DEF Usage!WriteSources
  <2>4. UNCHANGED <<usage, sent, reader>>
    BY <1>4 DEF Usage!WriteSources
  <2>. HIDE DEF v
  <2>5. CASE composer' = [composer EXCEPT ![c] = v] /\
          observed' = observed \cup {<<"gateway", composer[c].gateway>>}
    BY <2>1, <2>2, <2>4, <2>5 DEF Usage!Named
  <2>6. CASE composer' = [composer EXCEPT ![c] = Usage!At("refused")] /\ observed' = observed
    BY <1>1, <2>4, <2>6 DEF Usage!Named, Usage!At
  <2>. QED BY <2>3, <2>5, <2>6
<1>5. CASE Usage!Publish(c)
  <2>1. composer[c] \in [pc : {"stored"}, harness : Usage!Version, gateway : Usage!Version]
    BY <1>5 DEF Usage!Publish, UsageRun
  <2>2. \A lane \in Usage!Lanes :
          /\ usage'[lane] = composer[c][lane]
          /\ composer[c][lane] \in Usage!Version
          /\ composer[c][lane] > 0 => <<lane, composer[c][lane]>> \in observed
    BY <1>5, <2>1 DEF Usage!Publish, Usage!Lanes
  <2>. DEFINE g == [lane \in Usage!Lanes |-> composer[c][lane]]
  <2>3. g \in Usage!Generation
    BY <2>2 DEF Usage!Generation
  <2>4. usage' = g
    BY <1>5 DEF Usage!Publish
  <2>. HIDE DEF g
  <2>5. Usage!Named(g) \subseteq observed
    BY <2>2, <2>4 DEF Usage!Named
  <2>6. Usage!Named(usage)' = Usage!Named(g)
    BY <2>4 DEF Usage!Named
  <2>7. \A d \in Composers : d # c => composer'[d] = composer[d]
    BY <1>5 DEF Usage!Publish
  <2>8. composer' \in [Composers -> UsageRun] /\ composer'[c] = Usage!At("published")
    BY <1>1, <1>5 DEF Usage!Publish
  <2>9. composer'[c].pc = "published" /\ observed' = observed /\ UNCHANGED <<sent, reader>>
    BY <1>5, <2>8 DEF Usage!Publish, Usage!At
  <2>10. UsageTypes'
    BY <2>3, <2>4, <2>8, <2>9
  <2>11. SourcesInPlace'
    BY <2>5, <2>6, <2>7, <2>9
  <2>. QED BY <2>9, <2>10, <2>11
<1>6. CASE Usage!ComposerDies(c)
  BY <1>1, <1>6 DEF Usage!ComposerDies, Usage!Named, Usage!At
<1>. QED BY <1>2, <1>3, <1>4, <1>5, <1>6
         DEF Usage!ReadProducer, Usage!ReadCurrent, Usage!WriteSources, Usage!Publish,
                                          Usage!ComposerDies

\* So does a publication of an edge.
LEMMA EdgeStep ==
  ASSUME UsageInv, Usage!PublishHarness \/ \E lane \in Usage!Lanes : Usage!Acknowledge(lane)
  PROVE  UsageTypes' /\ SourcesInPlace' /\ UNCHANGED reader
<1>. USE DEF UsageInv, UsageTypes, SourcesInPlace
<1>1. CASE Usage!PublishHarness
  <2>1. /\ usage' \in Usage!Generation
        /\ \A lane \in Usage!Lanes :
             usage'[lane] = IF lane = "harness" THEN sent["harness"] ELSE usage[lane]
    BY <1>1 DEF Usage!PublishHarness, Usage!Generation, Usage!Lanes
  <2>2. \A lane \in Usage!Lanes : usage'[lane] > 0 => <<lane, usage'[lane]>> \in observed'
    BY <1>1, <2>1 DEF Usage!PublishHarness, Usage!Named
  <2>. QED BY <1>1, <2>1, <2>2 DEF Usage!PublishHarness, Usage!Named
<1>2. ASSUME NEW lane \in Usage!Lanes, Usage!Acknowledge(lane)
      PROVE UsageTypes' /\ SourcesInPlace' /\ UNCHANGED reader
  BY <1>2, VersionAssumption DEF Usage!Acknowledge, Usage!Generation, Usage!Version, Usage!Named
<1>. QED BY <1>1, <1>2

-----------------------------------------------------------------------------
(* The reader                                                                *)

\* Each step of a read keeps its rows to one generation.
LEMMA ReaderStep ==
  ASSUME UsageInv, Usage!BeginRead \/ Usage!ReadIndex \/ Usage!ReadSources \/ Usage!Confirm
  PROVE  reader' \in UsageReader /\ RowsAreOfOneGeneration'
<1>. USE DEF UsageInv, UsageTypes, RowsAreOfOneGeneration
<1>1. Usage!NoIndex \in Usage!Generation
  BY VersionAssumption DEF Usage!NoIndex, Usage!Generation, Usage!Version
<1>2. \A n \in Nat : Usage!Reading("index", n, Usage!NoIndex, {}) \in UsageReader
  BY <1>1 DEF Usage!Reading, UsageReader
<1>3. \A status \in {"current", "degraded", "empty"}, rows \in SUBSET Rows :
        Usage!Answer(status, rows) \in UsageReader
  BY DEF Usage!Answer, UsageReader
<1>4. OneOfALane({})
  BY DEF OneOfALane
<1>5. CASE Usage!BeginRead
  BY <1>2, <1>5 DEF Usage!BeginRead, Usage!Reading
<1>6. CASE Usage!ReadIndex
  <2>1. CASE reader' = Usage!Answer(IF Usage!Acknowledged = {} THEN "degraded" ELSE "current",
          Usage!Acknowledged)
    BY <1>3, <2>1, AcknowledgedIsOneOfALane DEF Usage!Answer
  <2>2. CASE reader' = [reader EXCEPT !.pc = "sources", !.seen = usage]
    BY <1>6, <2>2 DEF Usage!ReadIndex, UsageReader
  <2>3. CASE reader' = Usage!Answer("degraded", {})
    BY <1>3, <1>4, <2>3 DEF Usage!Answer
  <2>. QED BY <1>6, <2>1, <2>2, <2>3 DEF Usage!ReadIndex
<1>7. CASE Usage!ReadSources
  <2>1. reader.pc = "sources" /\ reader.seen \in Usage!Generation
    BY <1>7 DEF Usage!ReadSources, UsageReader
  <2>2. PICK rows \in SUBSET (Usage!Named(reader.seen) \cap observed) :
          reader' = [reader EXCEPT !.pc = "confirm", !.rows = rows]
    BY <1>7 DEF Usage!ReadSources
  <2>3. rows \in SUBSET Rows
    BY <2>1, NamedIsOneOfALane
  <2>. QED BY <2>1, <2>2, <2>3 DEF UsageReader
<1>8. CASE Usage!Confirm
  <2>1. /\ reader.seen \in Usage!Generation /\ reader.rows \in SUBSET Rows /\
          reader.attempt \in Nat
        /\ reader.rows \subseteq Usage!Named(reader.seen)
    BY <1>8 DEF Usage!Confirm, UsageReader
  <2>2. OneOfALane(reader.rows)
    BY <2>1, NamedIsOneOfALane DEF OneOfALane
  <2>3. CASE reader' = Usage!Answer(Usage!Status(reader.rows, reader.seen),
          Usage!Filled(reader.rows))
    <3>1. Usage!Status(reader.rows, reader.seen) \in {"current", "degraded", "empty"}
      BY DEF Usage!Status
    <3>. QED BY <1>3, <2>1, <2>2, <2>3, <3>1, FilledIsOneOfALane DEF Usage!Answer
  <2>4. CASE reader' = Usage!Retry(reader.attempt)
    BY <1>2, <1>3, <1>4, <2>1, <2>4 DEF Usage!Retry, Usage!Reading, Usage!Answer
  <2>. QED BY <1>8, <2>3, <2>4 DEF Usage!Confirm
<1>. QED BY <1>5, <1>6, <1>7, <1>8

-----------------------------------------------------------------------------
(* The component                                                             *)

\* A run retains of the other lane what the index said when it read it, and what the
\* index says now when no other publication of that lane overtook it.
RetainedIsCurrent ==
  /\ base \in [Composers -> Usage!Version]
  /\ \A c \in Usage!Retaining :
       /\ composer[c].harness = base[c]
       /\ c \notin overlap => composer[c].harness = usage["harness"]

UsageInvariant == UsageInv /\ RetainedIsCurrent

\* Every step of the component keeps both.
LEMMA UsageKeeps == UsageInvariant /\ Usage!Next => UsageInvariant'
<1>. SUFFICES ASSUME UsageInvariant, Usage!Next PROVE UsageInvariant'
  OBVIOUS
<1>. USE DEF UsageInvariant, RetainedIsCurrent, Usage!Retaining
<1>0. UsageInv /\ composer \in [Composers -> UsageRun]
  BY DEF UsageInv, UsageTypes
<1>1. ASSUME UNCHANGED reader, UsageTypes', SourcesInPlace' PROVE UsageInv'
  BY <1>0, <1>1 DEF UsageInv, RowsAreOfOneGeneration
<1>2. CASE Usage!BeginRead \/ Usage!ReadIndex \/ Usage!ReadSources \/ Usage!Confirm
  <2>1. UNCHANGED <<usage, observed, sent, composer, overlap, base>>
    BY <1>2 DEF Usage!BeginRead, Usage!ReadIndex, Usage!ReadSources, Usage!Confirm
  <2>2. reader' \in UsageReader /\ RowsAreOfOneGeneration'
    BY <1>0, <1>2, ReaderStep
  <2>3. UsageTypes' /\ SourcesInPlace'
    BY <1>0, <2>1, <2>2 DEF UsageInv, UsageTypes, SourcesInPlace, Usage!Named
  <2>. QED BY <2>1, <2>2, <2>3 DEF UsageInv
<1>3. ASSUME NEW c \in Composers,
             \/ Usage!ReadProducer(c) \/ Usage!ReadCurrent(c) \/ Usage!WriteSources(c)
             \/ Usage!Publish(c) \/ Usage!ComposerDies(c)
      PROVE  UsageInvariant'
  <2>1. UsageInv'
    BY <1>0, <1>1, <1>3, ComposerStep
  <2>2. CASE Usage!ReadProducer(c) \/ Usage!ReadCurrent(c) \/ Usage!WriteSources(c) \/
          Usage!ComposerDies(c)
    <3>1. usage' = usage /\ overlap' = overlap
      BY <2>2 DEF Usage!ReadProducer, Usage!ReadCurrent, Usage!WriteSources, Usage!ComposerDies
    <3>2. \A d \in Composers : d # c => composer'[d] = composer[d]
      BY <1>0, <2>2
      DEF Usage!ReadProducer, Usage!ReadCurrent, Usage!WriteSources, Usage!ComposerDies
    <3>3. \/ composer'[c].pc \notin {"retained", "stored"} /\ base' = base
          \/ /\ composer'[c].harness = usage["harness"]
             /\ base' = [base EXCEPT ![c] = usage["harness"]]
          \/ /\ composer[c].pc = "retained" /\ composer'[c].harness = composer[c].harness
             /\ base' = base
      BY <1>0, <2>2 DEF Usage!ReadProducer, Usage!ReadCurrent, Usage!WriteSources,
                        Usage!ComposerDies, Usage!At, UsageRun
    <3>4. usage["harness"] \in Usage!Version
      BY DEF UsageInv, UsageTypes, Usage!Generation, Usage!Lanes
    <3>5. RetainedIsCurrent'
      BY <3>1, <3>2, <3>3, <3>4
    <3>. QED BY <2>1, <3>5
  <2>3. CASE Usage!Publish(c)
    <3>1. /\ \A d \in Composers : d # c => composer'[d] = composer[d]
          /\ composer'[c].pc = "published"
          /\ usage'["harness"] = composer[c].harness
          /\ base' = base
      <4>1. composer[c] \in [pc : {"stored"}, harness : Usage!Version, gateway : Usage!Version]
        BY <1>0, <2>3 DEF Usage!Publish, UsageRun
      <4>. QED BY <1>0, <2>3, <4>1 DEF Usage!Publish, Usage!At, Usage!Lanes
    <3>2. \/ overlap' = overlap /\ usage'["harness"] = usage["harness"]
          \/ overlap' = overlap \cup Usage!Retaining
      BY <2>3, <3>1 DEF Usage!Publish
    <3>3. RetainedIsCurrent'
      BY <3>1, <3>2
    <3>. QED BY <2>1, <3>3
  <2>. QED BY <1>3, <2>2, <2>3
<1>4. CASE Usage!PublishHarness \/ \E lane \in Usage!Lanes : Usage!Acknowledge(lane)
  <2>1. UsageInv'
    BY <1>0, <1>1, <1>4, EdgeStep
  <2>2. RetainedIsCurrent'
    BY <1>4 DEF Usage!PublishHarness, Usage!Acknowledge
  <2>. QED BY <2>1, <2>2
<1>. QED BY <1>2, <1>3, <1>4 DEF Usage!Next

\* At first nothing runs, and an index that is there names an observation in place.
LEMMA UsageInitial == MCInit => UsageInvariant
<1>. SUFFICES ASSUME MCInit PROVE UsageInvariant
  OBVIOUS
<1>1. /\ Usage!Init
      /\ usage \in {Usage!NoIndex, [lane \in Usage!Lanes |-> IF lane = "harness" THEN 1 ELSE 0]}
  BY DEF MCInit, Usage!Init
<1>2. /\ usage \in Usage!Generation /\ sent \in Usage!Generation
  BY <1>1, VersionAssumption
  DEF Usage!Init, Usage!NoIndex, Usage!Generation, Usage!Version, Usage!Lanes
<1>3. UsageTypes
  BY <1>1, <1>2 DEF Usage!Init, UsageTypes, UsageRun, UsageReader, Usage!At
<1>4. SourcesInPlace /\ RowsAreOfOneGeneration /\ Usage!Retaining = {}
  BY <1>1 DEF Usage!Init, SourcesInPlace, RowsAreOfOneGeneration, Usage!Retaining, Usage!Named,
              Usage!At
<1>5. RetainedIsCurrent
  BY <1>1, <1>4, VersionAssumption DEF Usage!Init, RetainedIsCurrent, Usage!Version
<1>. QED BY <1>3, <1>4, <1>5 DEF UsageInvariant, UsageInv

\* The usage part of every reachable state: the observations that the index and the runs
\* of compose name are in place, and a run nobody overtook has the lane as it is.
THEOREM UsageInvariance == MCSpec => []UsageInvariant
<1>1. UsageInvariant /\ [MCNext]_MCvars => UsageInvariant'
  <2>. SUFFICES ASSUME UsageInvariant, [MCNext]_MCvars PROVE UsageInvariant'
    OBVIOUS
  <2>1. CASE UsageStep
    BY <2>1, UsageKeeps DEF UsageStep
  <2>2. CASE UNCHANGED usageVars
    BY <2>2 DEF usageVars, UsageInvariant, RetainedIsCurrent, Usage!Retaining, UsageInv,
                UsageTypes,
                SourcesInPlace, RowsAreOfOneGeneration, Usage!Named
  <2>. QED BY <2>1, <2>2 DEF MCNext, MCvars, SnapshotStep, CardStep, GatewayStep, GraphStep
<1>. QED BY UsageInitial, <1>1, PTL DEF MCSpec

\* compose writes its sources before it renames the index, and no file goes: the index
\* names observations in place only, and an answer counts a lane once.
THEOREM IndexIsAlwaysWhole == MCSpec => []IndexIsWhole
<1>1. UsageInvariant => IndexIsWhole
  BY DEF UsageInvariant, UsageInv, IndexIsWhole, Usage!IndexIsWhole, UsageTypes, SourcesInPlace,
         RowsAreOfOneGeneration, OneOfALane
<1>. QED BY <1>1, UsageInvariance, PTL

\* compose merges: the lane it does not transport goes back to an older generation only
\* through a run whose lane was replaced between its read and its rename, and then to
\* the generation which that run had read.
THEOREM LanesAreKept == MCSpec => OtherLaneKept
<1>. DEFINE Overtaken ==
       usage'["harness"] < usage["harness"] =>
         \E c \in overlap : /\ composer[c].pc = "stored" /\ composer'[c].pc = "published"
                            /\ usage'["harness"] = base[c]
<1>1. UsageInvariant /\ Usage!Next => Overtaken
  <2>. SUFFICES ASSUME UsageInvariant, Usage!Next, usage'["harness"] < usage["harness"]
                PROVE  \E c \in overlap :
                         /\ composer[c].pc = "stored" /\ composer'[c].pc = "published"
                         /\ usage'["harness"] = base[c]
    OBVIOUS
  <2>0. composer \in [Composers -> UsageRun] /\ usage["harness"] \in Nat /\
          sent["harness"] \in Nat
    BY DEF UsageInvariant, UsageInv, UsageTypes, Usage!Generation, Usage!Version, Usage!Lanes
  <2>1. usage'["harness"] # usage["harness"]
    BY <2>0
  <2>2. ~Usage!PublishHarness
    <3>. SUFFICES ASSUME Usage!PublishHarness PROVE FALSE
      OBVIOUS
    <3>1. usage'["harness"] = sent["harness"] /\ usage["harness"] < sent["harness"]
      BY DEF Usage!PublishHarness, UsageInvariant, UsageInv, UsageTypes, Usage!Generation,
             Usage!Lanes
    <3>. QED BY <2>0, <3>1
  <2>3. PICK c \in Composers : Usage!Publish(c)
    BY <2>1, <2>2 DEF Usage!Next, Usage!ReadProducer, Usage!ReadCurrent, Usage!WriteSources,
       Usage!ComposerDies, Usage!Acknowledge, Usage!BeginRead, Usage!ReadIndex,
       Usage!ReadSources, Usage!Confirm
  <2>4. composer[c].pc = "stored" /\ composer'[c].pc = "published"
    BY <2>0, <2>3 DEF Usage!Publish, Usage!At
  <2>5. composer[c] \in [pc : {"stored"}, harness : Usage!Version, gateway : Usage!Version]
    BY <2>0, <2>4 DEF UsageRun
  <2>6. usage'["harness"] = composer[c].harness
    BY <2>3, <2>5 DEF Usage!Publish, Usage!Lanes
  <2>7. c \in overlap /\ composer[c].harness = base[c]
    BY <2>1, <2>4, <2>6 DEF UsageInvariant, RetainedIsCurrent, Usage!Retaining
  <2>. QED BY <2>4, <2>6, <2>7
<1>2. UsageInvariant /\ [MCNext]_MCvars => [Overtaken]_(Usage!vars)
  BY <1>1 DEF MCNext, MCvars, usageVars, Usage!vars, SnapshotStep, UsageStep, CardStep,
              GatewayStep, GraphStep
<1>. QED BY <1>2, UsageInvariance, PTL DEF MCSpec, OtherLaneKept, Usage!OtherLaneKept

-----------------------------------------------------------------------------
(* CardRead                                                                  *)

Facts == [card : Schedule!Card, to : SUBSET Cards]

\* A state of the store, and the passes of a read: a pass has the facts of the cards it
\* has not left.
CardStore == [Cards -> Schedule!Card] \X SUBSET (Cards \X Cards)
Pass == UNION {[S -> Facts] : S \in SUBSET Cards}
CardRead ==
  [pc : {"idle", "refused"}]
    \cup [pc : {"before"}, left : SUBSET Cards, before : Pass,
          after : {<<>>}]
    \cup [pc : {"after", "compare"}, left : SUBSET Cards, before : [Cards -> Facts],
          after : Pass]
    \cup [pc : {"released"},
      projection : {Schedule!Projected(Schedule!FactsIn(s)) : s \in history}]

\* The facts of a card were read from this state of the store, or the card has been
\* edited since.
UpTo(facts, s, c) == facts = Schedule!FactsIn(s)[c] \/ facts.card.updated < s[1][c].updated

CardTypes ==
  /\ card \in [Cards -> Schedule!Card] /\ edge \in SUBSET (Cards \X Cards)
  /\ history \subseteq CardStore
  /\ read \in CardRead
  /\ read.pc \in {"before", "after", "compare"} => Schedule!Store \in history

\* The first pass: what it has of a card is present, or the card was edited.
FirstPass ==
  read.pc = "before" =>
    /\ DOMAIN read.before = Cards \ read.left
    /\ \A c \in Cards \ read.left : UpTo(read.before[c], Schedule!Store, c)

\* The second pass: there was a moment, the end of the first, before which the first
\* pass read each card and after which the second does.
SecondPass ==
  read.pc \in {"after", "compare"} =>
    /\ DOMAIN read.after = IF read.pc = "after" THEN Cards \ read.left ELSE Cards
    /\ \E s \in history :
         \A c \in Cards :
           /\ UpTo(read.before[c], s, c)
           /\ s[1][c].updated <= card[c].updated
           /\ c \in DOMAIN read.after => s[1][c].updated <= read.after[c].card.updated

CardInv == CardTypes /\ FirstPass /\ SecondPass

\* A card's facts are what one look at the present store gives.
LEMMA FactsNow ==
  ASSUME CardInv
  PROVE  /\ \A c \in Cards : Schedule!Facts(c) = Schedule!FactsIn(Schedule!Store)[c]
         /\ \A c \in Cards : Schedule!Facts(c) \in Facts
         /\ \A c \in Cards : Schedule!Store[1][c] = card[c]
BY DEF Schedule!Facts, Schedule!FactsIn, Schedule!Store, Facts, CardInv, CardTypes, FirstPass,
       SecondPass

\* The facts of some of the cards are a pass.
LEMMA PassOf ==
  ASSUME NEW S \in SUBSET Cards, NEW f \in [S -> Facts]
  PROVE  f \in Pass
BY DEF Pass

\* A pass that has read nothing.
LEMMA NothingRead == <<>> \in Pass /\ DOMAIN (<<>>) = {}
<1>1. <<>> \in Seq(Facts) /\ Len(<<>>) = 0 /\ 1..0 = {}
  BY EmptySeq
<1>2. <<>> \in [1..Len(<<>>) -> Facts]
  BY <1>1, LenProperties
<1>. QED BY <1>1, <1>2, PassOf

\* A record with fields of smaller ranges.
LEMMA NarrowCard ==
  ASSUME NEW D, NEW A, NEW B \in SUBSET A, NEW U, NEW V \in SUBSET U,
         NEW k \in [done : D, archived : B, updated : V]
  PROVE  k \in [done : D, archived : A, updated : U]
OBVIOUS

\* At first nothing is read and no card was edited.
LEMMA CardInitial == MCInit => CardInv
<1>. SUFFICES ASSUME MCInit PROVE CardInv
  OBVIOUS
<1>1. /\ card \in [Cards -> [done : BOOLEAN, archived : {FALSE}, updated : {0}]]
      /\ edge \in SUBSET {e \in Cards \X Cards : e[1] # e[2]}
      /\ read = [pc |-> "idle"] /\ history = {}
  BY DEF MCInit, Schedule!Init, Schedule!Idle
<1>2. ASSUME NEW k \in [done : BOOLEAN, archived : {FALSE}, updated : {0}]
      PROVE k \in Schedule!Card
  <2>1. {0} \subseteq 0..MaxEdits
    BY EditsAssumption
  <2>2. {FALSE} \subseteq BOOLEAN
    OBVIOUS
  <2>. QED BY <1>2, <2>1, <2>2, NarrowCard DEF Schedule!Card
<1>3. card \in [Cards -> Schedule!Card]
  BY <1>1, <1>2
<1>. QED BY <1>1, <1>3 DEF CardInv, CardTypes, FirstPass, SecondPass, CardRead

\* A card of the first pass; the last one ends it.
LEMMA FoldBefore == CardInv /\ Schedule!FoldCard("before") => CardInv'
<1>. SUFFICES ASSUME CardInv, Schedule!FoldCard("before") PROVE CardInv'
  OBVIOUS
<1>1. PICK c \in read.left :
        LET facts == [d \in DOMAIN read.before \cup {c} |->
                        IF d = c THEN Schedule!Facts(c) ELSE read.before[d]]
            left == read.left \ {c} IN
        read' = IF left # {} THEN [read EXCEPT !.before = facts, !.left = left]
                ELSE [read EXCEPT !.before = facts, !.left = Cards, !.pc = "after"]
  BY DEF Schedule!FoldCard
<1>2. /\ read.pc = "before" /\ UNCHANGED <<card, edge, entry, history>>
  BY DEF Schedule!FoldCard
<1>3. /\ read.left \in SUBSET Cards /\ DOMAIN read.before = Cards \ read.left
      /\ read \in [pc : {"before"}, left : SUBSET Cards,
                   before : Pass, after : {<<>>}]
  BY <1>2 DEF CardInv, CardTypes, FirstPass, SecondPass, CardRead
<1>. DEFINE S == (Cards \ read.left) \cup {c}
            facts == [d \in S |-> IF d = c THEN Schedule!Facts(c) ELSE read.before[d]]
            left == read.left \ {c}
<1>4. /\ facts \in [S -> Facts] /\ S \in SUBSET Cards /\ S = Cards \ left
      /\ \A d \in S : facts[d] = IF d = c THEN Schedule!Facts(c) ELSE read.before[d]
  <2>1. \A d \in Cards \ read.left : read.before[d] \in Facts
    BY <1>3 DEF Pass
  <2>. QED BY <1>3, <2>1, FactsNow
<1>5. \A d \in S : UpTo(facts[d], Schedule!Store, d)
  BY <1>2, <1>3, <1>4, FactsNow DEF CardInv, CardTypes, FirstPass, SecondPass, UpTo
<1>6. DOMAIN read.before \cup {c} = S
  BY <1>3
<1>7. CASE left # {}
  <2>0. facts \in Pass
    BY <1>4, PassOf
  <2>1. /\ read'.pc = "before" /\ read'.left = left /\ read'.before = facts
        /\ read' \in [pc : {"before"}, left : SUBSET Cards,
                      before : Pass, after : {<<>>}]
    BY <1>1, <1>3, <1>6, <1>7, <2>0
  <2>. HIDE DEF facts, left, S
  <2>2. Schedule!Store' = Schedule!Store
    BY <1>2 DEF Schedule!Store
  <2>. QED BY <1>2, <1>4, <1>5, <2>1, <2>2
           DEF CardInv, CardTypes, FirstPass, SecondPass, CardRead, UpTo
<1>8. CASE left = {}
  <2>1. /\ read'.pc = "after" /\ read'.left = Cards /\ read'.before = facts /\ read'.after = <<>>
        /\ read' \in [pc : {"after"}, left : {Cards}, before : {facts}, after : {<<>>}]
    BY <1>1, <1>3, <1>6, <1>8
  <2>2. S = Cards
    BY <1>4, <1>8
  <2>. HIDE DEF facts, left, S
  <2>3. <<>> \in Pass /\ DOMAIN (<<>>) = {}
    BY NothingRead
  <2>4. read' \in CardRead'
    BY <1>4, <2>1, <2>2, <2>3 DEF CardRead
  <2>5. \A d \in Cards : UpTo(facts[d], Schedule!Store, d) /\
          Schedule!Store[1][d].updated <= card[d].updated
    BY <1>5, <2>2, FactsNow DEF CardInv, CardTypes, FirstPass, SecondPass, Schedule!Card
  <2>6. Schedule!Store \in history /\ Schedule!Store' = Schedule!Store
    BY <1>2 DEF CardInv, CardTypes, FirstPass, SecondPass, Schedule!Store
  <2>. QED BY <1>2, <2>1, <2>3, <2>4, <2>5, <2>6
           DEF CardInv, CardTypes, FirstPass, SecondPass, UpTo
<1>. QED BY <1>7, <1>8

\* A card of the second pass: it has not gone back since the first pass ended.
LEMMA FoldAfter == CardInv /\ Schedule!FoldCard("after") => CardInv'
<1>. SUFFICES ASSUME CardInv, Schedule!FoldCard("after") PROVE CardInv'
  OBVIOUS
<1>1. PICK c \in read.left :
        LET facts == [d \in DOMAIN read.after \cup {c} |->
                        IF d = c THEN Schedule!Facts(c) ELSE read.after[d]]
            left == read.left \ {c} IN
        read' = IF left # {} THEN [read EXCEPT !.after = facts, !.left = left]
                ELSE [read EXCEPT !.after = facts, !.left = Cards, !.pc = "compare"]
  BY DEF Schedule!FoldCard
<1>2. /\ read.pc = "after" /\ UNCHANGED <<card, edge, entry, history>>
  BY DEF Schedule!FoldCard
<1>3. /\ read.left \in SUBSET Cards /\ DOMAIN read.after = Cards \ read.left
      /\ read \in [pc : {"after", "compare"}, left : SUBSET Cards, before : [Cards -> Facts],
                   after : Pass]
  BY <1>2 DEF CardInv, CardTypes, FirstPass, SecondPass, CardRead
<1>. DEFINE S == (Cards \ read.left) \cup {c}
            facts == [d \in S |-> IF d = c THEN Schedule!Facts(c) ELSE read.after[d]]
            left == read.left \ {c}
<1>4. /\ facts \in [S -> Facts] /\ S \in SUBSET Cards /\ S = Cards \ left
      /\ \A d \in S : facts[d] = IF d = c THEN Schedule!Facts(c) ELSE read.after[d]
  <2>1. \A d \in Cards \ read.left : read.after[d] \in Facts
    BY <1>3 DEF Pass
  <2>. QED BY <1>3, <2>1, FactsNow
<1>5. DOMAIN read.after \cup {c} = S
  BY <1>3
<1>6. facts \in Pass
  BY <1>4, PassOf
<1>7. /\ read'.pc \in {"after", "compare"} /\ read'.after = facts /\ read'.before = read.before
      /\ DOMAIN facts = IF read'.pc = "after" THEN Cards \ read'.left ELSE Cards
      /\ read' \in [pc : {"after", "compare"}, left : SUBSET Cards, before : [Cards -> Facts],
                    after : Pass]
  <2>1. CASE left # {}
    <3>1. read' = [read EXCEPT !.after = facts, !.left = left]
      BY <1>1, <1>5, <2>1
    <3>2. DOMAIN facts = Cards \ left /\ left \in SUBSET Cards
      BY <1>3, <1>4
    <3>. HIDE DEF facts, left, S
    <3>. QED BY <1>2, <1>3, <1>4, <1>6, <3>1, <3>2
  <2>2. CASE left = {}
    <3>1. read' = [read EXCEPT !.after = facts, !.left = Cards, !.pc = "compare"]
      BY <1>1, <1>5, <2>2
    <3>2. DOMAIN facts = Cards
      BY <1>4, <2>2
    <3>. HIDE DEF facts, left, S
    <3>. QED BY <1>2, <1>3, <1>4, <1>6, <3>1, <3>2
  <2>. QED BY <2>1, <2>2
<1>8. Schedule!Facts(c).card = card[c] /\ c \in Cards
  BY <1>3 DEF Schedule!Facts
<1>. HIDE DEF S, facts, left
<1>9. PICK s \in history :
        \A d \in Cards :
          /\ UpTo(read.before[d], s, d)
          /\ s[1][d].updated <= card[d].updated
          /\ d \in DOMAIN read.after => s[1][d].updated <= read.after[d].card.updated
  BY <1>2 DEF CardInv, CardTypes, FirstPass, SecondPass
<1>10. \A d \in S : s[1][d].updated <= facts[d].card.updated
  BY <1>3, <1>4, <1>5, <1>8, <1>9
<1>11. DOMAIN facts = S
  BY <1>4
<1>12. read' \in CardRead' /\ Schedule!Store' = Schedule!Store /\ Schedule!Store \in history
  BY <1>2, <1>7 DEF CardInv, CardTypes, FirstPass, SecondPass, CardRead, Schedule!Store
<1>13. \A d \in Cards :
         /\ UpTo(read'.before[d], s, d)
         /\ s[1][d].updated <= card'[d].updated
         /\ d \in DOMAIN read'.after => s[1][d].updated <= read'.after[d].card.updated
  BY <1>2, <1>7, <1>9, <1>10, <1>11
<1>14. CardTypes'
  BY <1>2, <1>12 DEF CardInv, CardTypes
<1>15. FirstPass' /\ SecondPass'
  BY <1>2, <1>7, <1>13 DEF FirstPass, SecondPass, UpTo
<1>. QED BY <1>14, <1>15 DEF CardInv

\* The two passes compared: equal facts were the facts of the moment between them.
LEMMA ReleaseStep == CardInv /\ Schedule!Release => CardInv'
<1>. SUFFICES ASSUME CardInv, Schedule!Release PROVE CardInv'
  OBVIOUS
<1>1. read.pc = "compare" /\ UNCHANGED <<card, edge, entry, history>>
  BY DEF Schedule!Release
<1>2. CASE read.before # read.after
  <2>1. read' = [pc |-> "refused"]
    BY <1>2 DEF Schedule!Release
  <2>. QED BY <1>1, <2>1 DEF CardInv, CardTypes, FirstPass, SecondPass, CardRead
<1>3. CASE read.before = read.after
  <2>1. read' = [pc |-> "released", projection |-> Schedule!Projected(read.after)]
    BY <1>3 DEF Schedule!Release
  <2>2. read.before \in [Cards -> Facts] /\ DOMAIN read.after = Cards
    BY <1>1, <1>3 DEF CardInv, CardTypes, FirstPass, SecondPass, CardRead
  <2>3. PICK s \in history :
          \A c \in Cards : /\ UpTo(read.before[c], s, c)
                           /\ s[1][c].updated <= card[c].updated
                           /\ s[1][c].updated <= read.after[c].card.updated
    BY <1>1, <2>2 DEF CardInv, CardTypes, FirstPass, SecondPass
  <2>4. ASSUME NEW c \in Cards PROVE read.before[c] = Schedule!FactsIn(s)[c]
    <3>1. s[1][c].updated \in Int /\ read.before[c].card.updated \in Int
      BY <2>2, <2>3 DEF CardInv, CardTypes, CardStore, Schedule!Card, Facts
    <3>2. s[1][c].updated <= read.before[c].card.updated
      BY <1>3, <2>3
    <3>. QED BY <2>3, <3>1, <3>2 DEF UpTo
  <2>5. read.before = Schedule!FactsIn(s)
    BY <2>2, <2>4 DEF Schedule!FactsIn
  <2>6. read'.projection = Schedule!Projected(Schedule!FactsIn(s))
    BY <1>3, <2>1, <2>5
  <2>7. read' \in CardRead' /\ read'.pc = "released"
    BY <1>1, <2>1, <2>6 DEF CardRead
  <2>. QED BY <1>1, <2>7 DEF CardInv, CardTypes, FirstPass, SecondPass
<1>. QED BY <1>2, <1>3

\* An edit makes a card later than every reading of it.
LEMMA EditStep == CardInv /\ (\E c \in Cards : Schedule!Edit(c)) => CardInv'
<1>. SUFFICES ASSUME CardInv, NEW c \in Cards, Schedule!Edit(c) PROVE CardInv'
  OBVIOUS
<1>1. PICK done0, archived0 \in BOOLEAN :
        card' = [card EXCEPT ![c] = [done |-> done0, archived |-> archived0,
          updated |-> @.updated + 1]]
  BY DEF Schedule!Edit
<1>2. card \in [Cards -> Schedule!Card] /\ edge \in SUBSET (Cards \X Cards) /\
        card[c].updated < MaxEdits
  BY DEF CardInv, CardTypes, Schedule!Edit
<1>. DEFINE k == [done |-> done0, archived |-> archived0, updated |-> card[c].updated + 1]
<1>3. k \in Schedule!Card /\ k.updated = card[c].updated + 1
  BY <1>2, EditsAssumption DEF Schedule!Card
<1>4. card' = [card EXCEPT ![c] = k]
  BY <1>1
<1>. HIDE DEF k
<1>5. /\ card' \in [Cards -> Schedule!Card] /\ edge' \in SUBSET (Cards \X Cards)
      /\ read' = read
  BY <1>2, <1>3, <1>4 DEF Schedule!Edit
<1>6. \A d \in Cards : /\ card[d].updated \in Int /\ card'[d].updated \in Int
                       /\ card[d].updated <= card'[d].updated
                       /\ d = c => card[d].updated < card'[d].updated
                       /\ d # c => card'[d] = card[d]
  BY <1>2, <1>3, <1>4, <1>5 DEF Schedule!Card
<1>7. /\ history \subseteq history' /\ history' \subseteq history \cup {Schedule!Store'}
      /\ read.pc \in {"before", "after", "compare"} => Schedule!Store' \in history'
  BY DEF Schedule!Edit
<1>8. Schedule!Store' \in CardStore
  BY <1>5 DEF Schedule!Store, CardStore
<1>9. CardTypes'
  <2>1. read' \in CardRead'
    BY <1>5, <1>7 DEF CardInv, CardTypes, CardRead
  <2>. QED BY <1>5, <1>7, <1>8, <2>1 DEF CardInv, CardTypes
<1>10. \A d \in Cards : d # c =>
         Schedule!FactsIn(Schedule!Store')[d] = Schedule!FactsIn(Schedule!Store)[d]
  <2>1. \A d, e \in Cards : d # c => (<<d, e>> \in edge' <=> <<d, e>> \in edge)
    BY DEF Schedule!Edit
  <2>. QED BY <1>6, <2>1 DEF Schedule!FactsIn, Schedule!Store
<1>11. ASSUME read.pc = "before", NEW d \in Cards \ read.left
       PROVE  UpTo(read.before[d], Schedule!Store', d)
  <2>1. UpTo(read.before[d], Schedule!Store, d)
    BY <1>11 DEF CardInv, FirstPass
  <2>2. Schedule!Store[1] = card /\ Schedule!Store'[1] = card'
    BY DEF Schedule!Store
  <2>3. read.before[d].card.updated \in Int
    BY <1>11 DEF CardInv, CardTypes, FirstPass, CardRead, Pass, Facts, Schedule!Card
  <2>4. CASE d # c
    BY <1>6, <1>10, <2>1, <2>2, <2>4 DEF UpTo
  <2>5. CASE d = c
    <3>1. read.before[d].card.updated <= card[d].updated
      BY <1>6, <2>1, <2>2, <2>3 DEF UpTo, Schedule!FactsIn
    <3>2. read.before[d].card.updated < card'[d].updated
      BY <1>6, <2>3, <2>5, <3>1
    <3>. QED BY <2>2, <3>2 DEF UpTo
  <2>. QED BY <2>4, <2>5
<1>12. FirstPass'
  BY <1>5, <1>11 DEF CardInv, FirstPass, UpTo
<1>13. SecondPass'
  <2>. SUFFICES ASSUME read.pc \in {"after", "compare"} PROVE SecondPass'
    BY <1>5 DEF SecondPass
  <2>1. PICK s \in history :
          \A d \in Cards :
            /\ UpTo(read.before[d], s, d)
            /\ s[1][d].updated <= card[d].updated
            /\ d \in DOMAIN read.after => s[1][d].updated <= read.after[d].card.updated
    BY DEF CardInv, SecondPass
  <2>2. \A d \in Cards : s[1][d].updated \in Int
    BY DEF CardInv, CardTypes, CardStore, Schedule!Card
  <2>3. \A d \in Cards : s[1][d].updated <= card'[d].updated
    BY <1>6, <2>1, <2>2
  <2>. QED BY <1>5, <1>7, <2>1, <2>3 DEF CardInv, SecondPass, UpTo
<1>. QED BY <1>9, <1>12, <1>13 DEF CardInv

\* Every step of the component keeps what the two passes know.
LEMMA CardKeeps == CardInv /\ Schedule!Next => CardInv'
<1>. SUFFICES ASSUME CardInv, Schedule!Next PROVE CardInv'
  OBVIOUS
<1>1. CASE Schedule!Begin
  <2>1. CASE entry
    <3>1. /\ read' = [pc |-> "before", left |-> Cards, before |-> <<>>, after |-> <<>>]
          /\ history' = {Schedule!Store} /\ UNCHANGED <<card, edge>>
      BY <1>1, <2>1 DEF Schedule!Begin
    <3>2. read' \in CardRead' /\ Schedule!Store' = Schedule!Store /\ Schedule!Store \in CardStore
      BY <3>1, NothingRead DEF CardInv, CardTypes, CardRead, CardStore, Schedule!Store
    <3>. QED BY <3>1, <3>2, NothingRead DEF CardInv, CardTypes, FirstPass, SecondPass
  <2>2. CASE ~entry
    <3>1. read' = [pc |-> "refused"] /\ UNCHANGED <<card, edge, history>>
      BY <1>1, <2>2 DEF Schedule!Begin
    <3>. QED BY <3>1 DEF CardInv, CardTypes, FirstPass, SecondPass, CardRead
  <2>. QED BY <2>1, <2>2
<1>2. CASE Schedule!Missing
  BY <1>2 DEF Schedule!Missing, CardInv, CardTypes, FirstPass, SecondPass, CardRead
<1>3. CASE Schedule!Lapse
  <2>1. UNCHANGED <<card, edge, history, read>>
    BY <1>3 DEF Schedule!Lapse
  <2>2. Schedule!Store' = Schedule!Store
    BY <2>1 DEF Schedule!Store
  <2>. QED BY <2>1, <2>2 DEF CardInv, CardTypes, FirstPass, SecondPass, CardRead, UpTo
<1>. QED BY <1>1, <1>2, <1>3, FoldBefore, FoldAfter, ReleaseStep, EditStep DEF Schedule!Next

\* What the two passes of project_portfolio know of the store in every reachable state.
THEOREM CardInvariance == MCSpec => []CardInv
<1>1. CardInv /\ [MCNext]_MCvars => CardInv'
  <2>. SUFFICES ASSUME CardInv, [MCNext]_MCvars PROVE CardInv'
    OBVIOUS
  <2>1. CASE CardStep
    BY <2>1, CardKeeps DEF CardStep
  <2>2. CASE UNCHANGED cardVars
    <3>1. UNCHANGED <<card, edge, history, read>>
      BY <2>2 DEF cardVars
    <3>2. Schedule!Store' = Schedule!Store
      BY <3>1 DEF Schedule!Store
    <3>. QED BY <3>1, <3>2 DEF CardInv, CardTypes, FirstPass, SecondPass, CardRead, UpTo
  <2>. QED BY <2>1, <2>2 DEF MCNext, MCvars, SnapshotStep, UsageStep, GatewayStep, GraphStep
<1>. QED BY CardInitial, <1>1, PTL DEF MCSpec

\* The portfolio is released only if both passes saw the same facts: what it describes is
\* the store at one instant, whatever was edited while it was read.
THEOREM ScheduleOfOneInstant == MCSpec => []ScheduleIsOneInstant
<1>1. CardInv => ScheduleIsOneInstant
  BY DEF CardInv, CardTypes, CardRead, ScheduleIsOneInstant, Schedule!ScheduleIsOneInstant
<1>. QED BY <1>1, CardInvariance, PTL

-----------------------------------------------------------------------------
(* GatewayRead                                                               *)

Observed == Gateway!Observation \cup Gateway!Broken
GatewayIndex == UNION {[S -> Observed] : S \in SUBSET Gateway!Files}

\* What the checks of a query promise of an answer made of one generation.
LiveAt(o, now) == o.shape = "good" /\ now - o.at <= TTL
OneGeneration(from, now, st, nodes) ==
  LET was == {from[f] : f \in DOMAIN from} IN
  /\ st = "empty" => \A o \in was : o.shape \in {"good", "lane"}
  /\ st = "current" => \E o \in was : LiveAt(o, now)
  /\ \A row \in nodes :
       row.state = "current" => \E o \in was : LiveAt(o, now) /\ row.node = o.node

\* The thread has taken every observation it has read that is of the lane, from the
\* index it read.
ReadOfIndex(from, left, seen) ==
  /\ from \in GatewayIndex /\ left \subseteq DOMAIN from
  /\ \A p \in seen : \E f \in DOMAIN from : p = <<f, from[f]>>
  /\ \A f \in DOMAIN from \ left : from[f].shape # "lane" => <<f, from[f]>> \in seen

GatewayRequest(q) ==
  \/ q.pc \in {"idle", "parsed"}
  \/ q.pc = "reading" /\ ReadOfIndex(q.index, q.left, q.seen)
  \/ /\ q.pc = "over"
     /\ q.status = 200 => OneGeneration(q.from, q.now, q.state, q.nodes)

GatewayInv ==
  /\ clock \in Nat
  /\ file \in [Gateway!Files -> Observed]
  /\ index.whole => index.entries \in GatewayIndex
  /\ GatewayRequest(req)

\* The index that compose writes holds observations.
LEMMA IndexedOf ==
  ASSUME file \in [Gateway!Files -> Observed], NEW S \in SUBSET Gateway!Files
  PROVE  Gateway!Indexed(S).entries \in GatewayIndex
<1>1. [f \in S |-> file[f]] \in [S -> Observed]
  OBVIOUS
<1>. QED BY <1>1 DEF Gateway!Indexed, GatewayIndex

\* Among two observations at most, one is the latest as they are sorted, and a time
\* is the greatest.
LEMMA LatestOfTwo ==
  ASSUME NEW a \in Observed, NEW b \in Observed, NEW S \in SUBSET {a, b}, S # {}
  PROVE  /\ Gateway!Latest(S) \in S
         /\ \E o \in S : Gateway!Max({p.at : p \in S}) = o.at
<1>1. /\ a.at \in Int /\ b.at \in Int /\ Gateway!Written(a) \in Int /\ Gateway!Written(b) \in Int
  BY DEF Observed, Gateway!Observation, Gateway!Broken, Gateway!Written
<1>2. \E o \in S : \A p \in S : Gateway!Written(p) <= Gateway!Written(o)
  <2>1. CASE S = {a}
    BY <1>1, <2>1
  <2>2. CASE S = {b}
    BY <1>1, <2>2
  <2>3. CASE S = {a, b}
    <3>1. CASE Gateway!Written(a) <= Gateway!Written(b)
      BY <1>1, <2>3, <3>1
    <3>2. CASE Gateway!Written(b) <= Gateway!Written(a)
      BY <1>1, <2>3, <3>2
    <3>. QED BY <1>1, <3>1, <3>2
  <2>. QED BY <2>1, <2>2, <2>3
<1>3. Gateway!Latest(S) \in S
  BY <1>2 DEF Gateway!Latest
<1>. DEFINE T == {p.at : p \in S}
<1>4. T \in SUBSET {a.at, b.at} /\ T # {}
  OBVIOUS
<1>5. \E t \in T : \A u \in T : t >= u
  BY <1>1, <1>4
<1>6. Gateway!Max(T) \in T
  BY <1>5 DEF Gateway!Max
<1>. QED BY <1>3, <1>6

\* An index names at most two observations.
LEMMA IndexOfTwo ==
  ASSUME NEW from \in GatewayIndex, NEW S \in SUBSET {from[f] : f \in DOMAIN from}, S # {}
  PROVE  \E a, b \in Observed : S \in SUBSET {a, b}
<1>1. PICK D \in SUBSET {1, 2} : from \in [D -> Observed]
  BY DEF GatewayIndex, Gateway!Files
<1>2. DOMAIN from = D
  BY <1>1
<1>3. CASE D = {1, 2}
  <2>1. from[1] \in Observed /\ from[2] \in Observed /\ S \in SUBSET {from[1], from[2]}
    BY <1>1, <1>2, <1>3
  <2>. QED BY <2>1
<1>4. CASE D = {1}
  <2>1. from[1] \in Observed /\ S \in SUBSET {from[1], from[1]}
    BY <1>1, <1>2, <1>4
  <2>. QED BY <2>1
<1>5. CASE D = {2}
  <2>1. from[2] \in Observed /\ S \in SUBSET {from[2], from[2]}
    BY <1>1, <1>2, <1>5
  <2>. QED BY <2>1
<1>. QED BY <1>1, <1>2, <1>3, <1>4, <1>5

\* So it is for the observations of one index.
LEMMA LatestOfIndex ==
  ASSUME NEW from \in GatewayIndex, NEW S \in SUBSET {from[f] : f \in DOMAIN from}, S # {}
  PROVE  /\ Gateway!Latest(S) \in S
         /\ \E o \in S : Gateway!Max({p.at : p \in S}) = o.at
<1>1. PICK a, b \in Observed : S \in SUBSET {a, b}
  BY IndexOfTwo
<1>. QED BY <1>1, LatestOfTwo

\* What project makes of observations of one generation.
LEMMA ProjectedOf ==
  ASSUME NEW from, NEW seen, ReadOfIndex(from, {}, seen), NEW now \in Nat,
         NEW selected \in Gateway!Selections(seen)
  PROVE  OneGeneration(from, now, Gateway!AnswerState(seen, selected, now),
                       Gateway!NodeRows(selected, now))
<1>. DEFINE was == {from[f] : f \in DOMAIN from}
            good == {o \in {p[2] : p \in seen} : Gateway!WellFormed(o)}
<1>0. from \in GatewayIndex
  BY DEF ReadOfIndex
<1>1. good \subseteq was /\ \A o \in good : o.shape = "good"
  BY DEF ReadOfIndex, Gateway!WellFormed
<1>2. good # {} => Gateway!Latest(good) \in good
  <2>1. PICK g : g = good
    OBVIOUS
  <2>2. g \in SUBSET {from[f] : f \in DOMAIN from}
    BY <1>1, <2>1
  <2>3. g # {} => Gateway!Latest(g) \in g
    BY <1>0, <2>2, LatestOfIndex
  <2>. QED BY <2>1, <2>3
<1>3. selected \subseteq good
  BY <1>2 DEF Gateway!Selections
<1>4. \A o \in was : o.at \in Nat
  <2>1. \A o \in Observed : o.at \in Nat
    BY DEF Observed, Gateway!Observation, Gateway!Broken
  <2>. QED BY <1>0, <2>1 DEF GatewayIndex
<1>5. ASSUME Gateway!AnswerState(seen, selected, now) = "empty", NEW o \in was
      PROVE  o.shape \in {"good", "lane"}
  <2>1. \A p \in seen : Gateway!WellFormed(p[2])
    BY <1>5 DEF Gateway!AnswerState
  <2>2. PICK f \in DOMAIN from : o = from[f]
    OBVIOUS
  <2>3. from[f].shape # "lane" => Gateway!WellFormed(<<f, from[f]>>[2])
    BY <2>1 DEF ReadOfIndex
  <2>. QED BY <2>2, <2>3 DEF Gateway!WellFormed
<1>6. ASSUME Gateway!AnswerState(seen, selected, now) = "current"
      PROVE  \E o \in was : LiveAt(o, now)
  <2>1. selected # {} /\ ~(now - Gateway!Latest(selected).at > TTL)
    BY <1>6 DEF Gateway!AnswerState
  <2>2. Gateway!Latest(selected) \in selected
    BY <1>0, <1>1, <1>3, <2>1, LatestOfIndex
  <2>3. Gateway!Latest(selected) \in was /\ Gateway!Latest(selected).shape = "good"
    BY <1>1, <1>3, <2>2
  <2>4. Gateway!Latest(selected).at \in Nat /\ TTL \in Nat
    BY <1>4, <2>3, LimitsAssumption
  <2>. QED BY <2>1, <2>3, <2>4 DEF LiveAt
<1>7. ASSUME NEW row \in Gateway!NodeRows(selected, now), row.state = "current"
      PROVE  \E o \in was : LiveAt(o, now) /\ row.node = o.node
  <2>1. PICK n \in Nodes : row = Gateway!NodeRow(n, selected, now)
    BY <1>7 DEF Gateway!NodeRows
  <2>. DEFINE of == {o \in selected : o.node = n}
  <2>2. of # {} /\ ~(now - Gateway!Max({o.at : o \in of}) > TTL) /\ row.node = n
    BY <1>7, <2>1 DEF Gateway!NodeRow
  <2>3. of \in SUBSET was /\ \A o \in of : o.node = n
    BY <1>1, <1>3
  <2>. HIDE DEF of
  <2>4. PICK o \in of : Gateway!Max({p.at : p \in of}) = o.at
    BY <1>0, <2>2, <2>3, LatestOfIndex
  <2>5. o.at \in Nat /\ TTL \in Nat
    BY <1>4, <2>3, LimitsAssumption
  <2>6. now - o.at <= TTL
    BY <2>2, <2>4, <2>5
  <2>7. o.shape = "good"
    BY <1>1, <1>3 DEF of
  <2>. QED BY <2>2, <2>3, <2>6, <2>7 DEF LiveAt
<1>. QED BY <1>5, <1>6, <1>7 DEF OneGeneration

\* At first no query runs.
LEMMA GatewayInitial == MCInit => GatewayInv
<1>. SUFFICES ASSUME MCInit PROVE GatewayInv
  OBVIOUS
<1>1. /\ clock = 0
      /\ file \in [Gateway!Files -> {o \in Gateway!Observation : o.at = 0} \cup Gateway!Broken]
      /\ index \in {Gateway!Damaged, Gateway!Indexed(Gateway!Files)}
      /\ req = Gateway!At("idle")
  BY DEF MCInit, Gateway!Init
<1>2. file \in [Gateway!Files -> Observed]
  BY <1>1 DEF Observed
<1>3. Gateway!Damaged.whole = FALSE
  BY DEF Gateway!Damaged
<1>. QED BY <1>1, <1>2, <1>3, IndexedOf DEF GatewayInv, GatewayRequest, Gateway!At

\* Every step keeps the thread to the generation of the index that it read.
LEMMA GatewayKeeps == GatewayInv /\ Gateway!Next => GatewayInv'
<1>. SUFFICES ASSUME GatewayInv, Gateway!Next PROVE GatewayInv'
  OBVIOUS
<1>. USE DEF GatewayInv
<1>0. \A status \in {500, 503, 400, 403} : GatewayRequest(Gateway!Failed(status))
  BY DEF GatewayRequest, Gateway!Failed
<1>1. CASE Gateway!Ask
  <2>1. /\ \/ req' = [pc |-> "over", status |-> 429, at |-> clock]
           \/ req' = Gateway!At("parsed")
           \/ \E status \in {400, 403} : req' = Gateway!Failed(status)
        /\ UNCHANGED <<clock, index, file>>
    BY <1>1 DEF Gateway!Ask, Gateway!QueryFaults
  <2>2. GatewayRequest([pc |-> "over", status |-> 429, at |-> clock])
    BY DEF GatewayRequest
  <2>3. GatewayRequest(Gateway!At("parsed"))
    BY DEF GatewayRequest, Gateway!At
  <2>4. GatewayRequest(req')
    BY <1>0, <2>1, <2>2, <2>3
  <2>. QED BY <2>1, <2>4 DEF GatewayRequest
<1>2. CASE Gateway!ReadIndex
  <2>1. UNCHANGED <<clock, index, file>>
    BY <1>2 DEF Gateway!ReadIndex
  <2>2. GatewayRequest(req')
    <3>1. CASE ~index.whole
      BY <1>0, <1>2, <3>1 DEF Gateway!ReadIndex, Gateway!Unreadable
    <3>2. CASE index.whole
      <4>1. req' = [pc |-> "reading", left |-> DOMAIN index.entries, index |-> index.entries,
              seen |-> {}]
        BY <1>2, <3>2 DEF Gateway!ReadIndex
      <4>2. ReadOfIndex(index.entries, DOMAIN index.entries, {})
        BY <3>2 DEF ReadOfIndex
      <4>. QED BY <4>1, <4>2 DEF GatewayRequest
    <3>. QED BY <3>1, <3>2
  <2>. QED BY <2>1, <2>2 DEF GatewayRequest
<1>3. CASE Gateway!ReadFile
  <2>1. UNCHANGED <<clock, index, file>> /\ req.pc = "reading"
    BY <1>3 DEF Gateway!ReadFile
  <2>2. ReadOfIndex(req.index, req.left, req.seen)
    BY <2>1 DEF GatewayRequest
  <2>3. PICK f \in req.left :
          \/ /\ file[f] = req.index[f]
             /\ req' = [req EXCEPT !.left = @ \ {f}, !.seen = @ \cup Gateway!Taken(f)]
          \/ req' = Gateway!Failed(503)
          \/ req' = Gateway!Failed(500)
    BY <1>3 DEF Gateway!ReadFile
  <2>4. CASE req' = Gateway!Failed(503) \/ req' = Gateway!Failed(500)
    BY <1>0, <2>1, <2>4 DEF GatewayRequest
  <2>5. CASE file[f] = req.index[f] /\
          req' = [req EXCEPT !.left = @ \ {f}, !.seen = @ \cup Gateway!Taken(f)]
    <3>. DEFINE from == req.index
                left == req.left \ {f}
                seen == req.seen \cup Gateway!Taken(f)
    <3>1. Gateway!Taken(f) = IF from[f].shape = "lane" THEN {} ELSE {<<f, from[f]>>}
      BY <2>5 DEF Gateway!Taken
    <3>2. ReadOfIndex(from, left, seen)
      BY <2>2, <2>3, <3>1 DEF ReadOfIndex
    <3>3. req'.pc = "reading" /\ req'.index = from /\ req'.left = left /\ req'.seen = seen
      BY <2>1, <2>5
    <3>. QED BY <2>1, <3>2, <3>3 DEF GatewayRequest
  <2>. QED BY <2>3, <2>4, <2>5
<1>4. CASE Gateway!Answer
  <2>1. UNCHANGED <<clock, index, file>> /\ req.pc = "reading" /\ req.left = {}
    BY <1>4 DEF Gateway!Answer
  <2>2. ReadOfIndex(req.index, {}, req.seen)
    BY <2>1 DEF GatewayRequest
  <2>3. PICK selected \in Gateway!Selections(req.seen) :
          \/ req' = [pc |-> "over", status |-> 200, from |-> req.index, now |-> clock,
                     state |-> Gateway!AnswerState(req.seen, selected, clock),
                     nodes |-> Gateway!NodeRows(selected, clock)]
          \/ req' = Gateway!Failed(503)
    BY <1>4 DEF Gateway!Answer
  <2>4. OneGeneration(req.index, clock, Gateway!AnswerState(req.seen, selected, clock),
                      Gateway!NodeRows(selected, clock))
    BY <2>2, ProjectedOf
  <2>5. GatewayRequest(req')
    BY <1>0, <2>3, <2>4 DEF GatewayRequest
  <2>. QED BY <2>1, <2>5 DEF GatewayRequest
<1>5. CASE Gateway!TimeOut
  <2>1. UNCHANGED <<clock, index, file>> /\ req' = Gateway!Failed(503)
    BY <1>5 DEF Gateway!TimeOut
  <2>. QED BY <1>0, <2>1 DEF GatewayRequest
<1>6. CASE Gateway!Collect
  <2>1. file' \in [Gateway!Files -> Observed] /\ UNCHANGED <<clock, index, req>>
    BY <1>6 DEF Gateway!Collect, Observed
  <2>. QED BY <2>1
<1>7. CASE Gateway!Compose
  <2>1. PICK S \in SUBSET Gateway!Files : index' = Gateway!Indexed(S)
    BY <1>7 DEF Gateway!Compose
  <2>2. index'.entries \in GatewayIndex /\ UNCHANGED <<clock, file, req>>
    BY <1>7, <2>1, IndexedOf DEF Gateway!Compose
  <2>. QED BY <2>2
<1>8. CASE Gateway!Tick
  BY <1>8 DEF Gateway!Tick
<1>. QED BY <1>1, <1>2, <1>3, <1>4, <1>5, <1>6, <1>7, <1>8 DEF Gateway!Next

\* What a gateway query holds in every reachable state: observations of one index, each
\* as that index named it, though the composer replaces both meanwhile.
THEOREM GatewayInvariance == MCSpec => []GatewayInv
<1>1. GatewayInv /\ [MCNext]_MCvars => GatewayInv'
  <2>. SUFFICES ASSUME GatewayInv, [MCNext]_MCvars PROVE GatewayInv'
    OBVIOUS
  <2>1. CASE GatewayStep
    BY <2>1, GatewayKeeps DEF GatewayStep
  <2>2. CASE UNCHANGED gatewayVars
    BY <2>2 DEF gatewayVars, GatewayInv
  <2>. QED BY <2>1, <2>2 DEF MCNext, MCvars, SnapshotStep, UsageStep, CardStep, GraphStep
<1>. QED BY GatewayInitial, <1>1, PTL DEF MCSpec

\* An answer describes one generation of the index, and neither an empty answer nor a
\* current one hides what that generation had.
THEOREM AnswersOfOneGeneration == MCSpec => []AnswersAreOneGeneration
<1>1. GatewayInv => AnswersAreOneGeneration
  BY DEF GatewayInv, GatewayRequest, OneGeneration, LiveAt, AnswersAreOneGeneration,
         Gateway!AnswersAreOneGeneration
<1>. QED BY <1>1, GatewayInvariance, PTL

-----------------------------------------------------------------------------
(* GatewayRead: the limit                                                    *)

\* The stamp that the i-th admitted request left, and those of some of the requests.
Stamp(i) == [of |-> i, at |-> admitted[i]]
StampsOf(S) == {Stamp(i) : i \in S}

\* Requests are admitted in the order of their times; the stamps that are kept are
\* theirs, and those of the present window are all kept.
AdmittedInOrder ==
  /\ clock \in Nat /\ admitted \in Seq(Nat)
  /\ \A i \in 1..Len(admitted) : admitted[i] <= clock
  /\ \A i, j \in 1..Len(admitted) : i <= j => admitted[i] <= admitted[j]
StampsKept ==
  /\ recent \subseteq StampsOf(1..Len(admitted))
  /\ \A i \in 1..Len(admitted) : clock - admitted[i] < Window => Stamp(i) \in recent

WindowInv == AdmittedInOrder /\ StampsKept /\ WindowHolds

\* The indexes of a sequence and of the sequence with one more item.
LEMMA Above ==
  ASSUME NEW n \in Nat
  PROVE  /\ \A k \in 1..(n + 1) : k \in 1..n \/ k = n + 1
         /\ \A k \in 1..n : k \in 1..(n + 1) /\ k + 1 \in 1..(n + 1)
         /\ \A k \in 1..n : (k < n => k + 1 \in 1..n) /\ (~(k < n) => k = n /\ n # 0) /\ k < n + 1
         /\ n + 1 \in 1..(n + 1) /\ ~(n + 1 < n + 1) /\ ~(n < n)
OBVIOUS

\* The instance counts as the library does.
LEMMA SameCardinality ==
  ASSUME NEW S
  PROVE  Gateway!Cardinality(S) = Cardinality(S)
BY DEF Gateway!Cardinality, Cardinality

\* Requests and their stamps are as many.
LEMMA StampsCount ==
  ASSUME NEW S, IsFiniteSet(S)
  PROVE  IsFiniteSet(StampsOf(S)) /\ Cardinality(StampsOf(S)) = Cardinality(S)
<1>. DEFINE f == [i \in S |-> Stamp(i)]
<1>1. f \in Bijection(S, StampsOf(S))
  <2>1. f \in Injection(S, StampsOf(S))
    BY DEF Injection, IsInjective, StampsOf, Stamp
  <2>2. f \in Surjection(S, StampsOf(S))
    BY DEF Surjection, StampsOf, Stamp
  <2>. QED BY <2>1, <2>2 DEF Bijection
<1>2. ExistsBijection(S, StampsOf(S))
  BY <1>1 DEF ExistsBijection
<1>. QED BY <1>2, FS_Bijection

\* What _rate_limited keeps: the stamps of the requests of the window.
LEMMA InWindowIs ==
  ASSUME AdmittedInOrder, StampsKept
  PROVE  Gateway!InWindow(recent) = StampsOf({i \in 1..Len(admitted) :
    clock - admitted[i] < Window})
BY DEF Gateway!InWindow, StampsKept, StampsOf, Stamp

\* The requests that were admitted are finitely many, as are those of the window.
LEMMA AdmittedFinite ==
  ASSUME AdmittedInOrder
  PROVE  /\ Len(admitted) \in Nat /\ DOMAIN admitted = 1..Len(admitted)
         /\ admitted \in [1..Len(admitted) -> Nat]
         /\ \A S \in SUBSET (1..Len(admitted)) : IsFiniteSet(S)
<1>1. Len(admitted) \in Nat /\ DOMAIN admitted = 1..Len(admitted) /\
        admitted \in [1..Len(admitted) -> Nat]
  BY LenProperties DEF AdmittedInOrder
<1>2. IsFiniteSet(1..Len(admitted))
  BY <1>1, FS_Interval
<1>. QED BY <1>1, <1>2, FS_Subset

\* A request that is let past the limit finds the request Limit places before it out of
\* the window: otherwise that one and all after it are in the window.
LEMMA RoomInWindow ==
  ASSUME AdmittedInOrder, StampsKept, ~Gateway!Limited(Gateway!InWindow(recent)),
         NEW k \in 1..Len(admitted), k = Len(admitted) + 1 - Limit
  PROVE  clock - admitted[k] >= Window
<1>. DEFINE n == Len(admitted)
            W == {i \in 1..n : clock - admitted[i] < Window}
<1>1. n \in Nat /\ Limit \in Nat \ {0} /\ Window \in Nat /\ clock \in Nat /\
        admitted \in [1..n -> Nat]
  BY AdmittedFinite, LimitsAssumption DEF AdmittedInOrder
<1>2. W \in SUBSET (1..n) /\ IsFiniteSet(W)
  BY AdmittedFinite
<1>3. Cardinality(Gateway!InWindow(recent)) = Cardinality(W)
  BY <1>2, InWindowIs, StampsCount
<1>4. CASE clock - admitted[k] < Window
  <2>1. \A i \in k..n : i \in 1..n /\ k <= i
    BY <1>1
  <2>2. k..n \subseteq W
    <3>. SUFFICES ASSUME NEW i \in k..n PROVE clock - admitted[i] < Window
      BY <2>1
    <3>1. k \in 1..n /\ i \in 1..n /\ k <= i
      BY <2>1
    <3>2. admitted[k] \in Nat /\ admitted[i] \in Nat /\ admitted[k] <= admitted[i]
      BY <1>1, <3>1 DEF AdmittedInOrder
    <3>3. PICK a \in Nat, b \in Nat : a = admitted[k] /\ b = admitted[i]
      BY <3>2
    <3>. QED BY <1>1, <1>4, <3>2, <3>3
  <2>3. Cardinality(k..n) = Limit
    <3>1. k \in Int /\ n \in Int
      BY <1>1
    <3>2. Cardinality(k..n) = IF k > n THEN 0 ELSE n - k + 1
      BY <3>1, FS_Interval
    <3>. QED BY <1>1, <3>1, <3>2
  <2>4. Cardinality(k..n) <= Cardinality(W)
    BY <1>2, <2>2, FS_Subset
  <2>5. Cardinality(W) \in Nat
    BY <1>2, FS_CardinalityType
  <2>. HIDE DEF n, W
  <2>6. Cardinality(W) >= Limit
    BY <1>1, <2>3, <2>4, <2>5
  <2>. QED BY <1>3, <2>6, SameCardinality DEF Gateway!Limited
<1>. QED BY <1>1, <1>4

\* At first no request was admitted.
LEMMA WindowInitial == MCInit => WindowInv
<1>. SUFFICES ASSUME MCInit PROVE WindowInv
  OBVIOUS
<1>1. clock = 0 /\ recent = {} /\ admitted = <<>> /\ req = [pc |-> "idle"]
  BY DEF MCInit, Gateway!Init, Gateway!At
<1>2. admitted \in Seq(Nat) /\ Len(admitted) = 0 /\ 1..0 = {} /\ DOMAIN admitted = {}
  BY <1>1, EmptySeq
<1>. QED BY <1>1, <1>2
         DEF WindowInv, AdmittedInOrder, StampsKept, WindowHolds, Gateway!WindowHolds, StampsOf

\* A request refused: the window it saw was full.
LEMMA RefusedStep ==
  ASSUME WindowInv, Gateway!Limited(Gateway!InWindow(recent)),
         recent' = Gateway!InWindow(recent), UNCHANGED <<clock, admitted>>,
         req' = [pc |-> "over", status |-> 429, at |-> clock]
  PROVE  WindowInv'
<1>. DEFINE W == {i \in 1..Len(admitted) : clock - admitted[i] < Window}
<1>1. IsFiniteSet(W) /\ DOMAIN admitted = 1..Len(admitted)
  BY AdmittedFinite DEF WindowInv
<1>2. recent' = StampsOf(W) /\ Cardinality(StampsOf(W)) = Cardinality(W)
  BY <1>1, InWindowIs, StampsCount DEF WindowInv
<1>3. Cardinality(W) >= Limit
  BY <1>2, SameCardinality DEF Gateway!Limited
<1>4. StampsKept'
  BY <1>2 DEF StampsKept, StampsOf, Stamp
<1>5. WindowHolds'
  BY <1>1, <1>3, SameCardinality DEF WindowInv, WindowHolds, Gateway!WindowHolds
<1>. QED BY <1>4, <1>5 DEF WindowInv, AdmittedInOrder

\* A request let past the limit.
LEMMA AdmittedStep ==
  ASSUME WindowInv, ~Gateway!Limited(Gateway!InWindow(recent)),
         recent' = Gateway!InWindow(recent) \cup {[of |-> Len(admitted) + 1, at |-> clock]},
         admitted' = Append(admitted, clock), UNCHANGED clock, "at" \notin DOMAIN req'
  PROVE  WindowInv'
<1>1. PICK n \in Nat : n = Len(admitted)
  BY AdmittedFinite DEF WindowInv
<1>2. /\ clock \in Nat /\ admitted \in Seq(Nat) /\ admitted \in [1..n -> Nat]
      /\ DOMAIN admitted = 1..n /\ Window \in Nat /\ Limit \in Nat \ {0}
  BY <1>1, AdmittedFinite, LimitsAssumption DEF WindowInv, AdmittedInOrder
<1>3. /\ admitted' \in Seq(Nat) /\ Len(admitted') = n + 1 /\ admitted'[n + 1] = clock
      /\ \A i \in 1..n : admitted'[i] = admitted[i]
  BY <1>1, <1>2, AppendProperties
<1>4. DOMAIN admitted' = 1..(n + 1)
  BY <1>3, LenProperties
<1>5. /\ \A i \in 1..(n + 1) : i \in 1..n \/ i = n + 1
      /\ \A i \in 1..n : i \in 1..(n + 1) /\ i < n + 1 /\ i # n + 1
      /\ n + 1 \in 1..(n + 1)
  BY <1>2, Above
<1>6. AdmittedInOrder'
  <2>1. /\ \A i \in 1..n : admitted[i] <= clock
        /\ \A i, j \in 1..n : i <= j => admitted[i] <= admitted[j]
    BY <1>1 DEF WindowInv, AdmittedInOrder
  <2>2. \A i \in 1..(n + 1) : admitted'[i] <= clock
    BY <1>2, <1>3, <1>5, <2>1
  <2>3. \A i, j \in 1..(n + 1) : i <= j => admitted'[i] <= admitted'[j]
    <3>. SUFFICES ASSUME NEW i \in 1..(n + 1), NEW j \in 1..(n + 1), i <= j
                  PROVE  admitted'[i] <= admitted'[j]
      OBVIOUS
    <3>1. CASE j = n + 1
      BY <1>3, <2>2, <3>1
    <3>2. CASE j \in 1..n
      <4>1. i \in 1..n
        BY <1>2, <3>2
      <4>. QED BY <1>3, <2>1, <3>2, <4>1
    <3>. QED BY <1>5, <3>1, <3>2
  <2>. QED BY <1>2, <1>3, <2>2, <2>3 DEF AdmittedInOrder
<1>7. StampsKept'
  <2>1. /\ \A i \in 1..n : Stamp(i)' = Stamp(i)
        /\ Stamp(n + 1)' = [of |-> n + 1, at |-> clock]
    BY <1>3 DEF Stamp
  <2>2. Gateway!InWindow(recent) = StampsOf({i \in 1..n : clock - admitted[i] < Window})
    BY <1>1, InWindowIs DEF WindowInv
  <2>3. recent' \subseteq StampsOf(1..(n + 1))'
    BY <1>1, <1>5, <2>1, <2>2 DEF StampsOf
  <2>4. \A i \in 1..(n + 1) : clock - admitted'[i] < Window => Stamp(i)' \in recent'
    BY <1>1, <1>3, <1>5, <2>1, <2>2 DEF StampsOf
  <2>. QED BY <1>3, <2>3, <2>4 DEF StampsKept
<1>8. ASSUME NEW i \in 1..(n + 1), i > Limit
      PROVE  admitted'[i] - admitted'[i - Limit] >= Window
  <2>1. i - Limit \in 1..n
    BY <1>2, <1>8
  <2>2. CASE i \in 1..n
    BY <1>1, <1>2, <1>3, <1>8, <2>1, <2>2 DEF WindowInv, WindowHolds, Gateway!WindowHolds
  <2>3. CASE i = n + 1
    <3>0. PICK k \in 1..n : k = i - Limit
      BY <2>1
    <3>1. clock - admitted[k] >= Window
      <4>1. k \in 1..Len(admitted) /\ k = Len(admitted) + 1 - Limit
        BY <1>1, <1>2, <2>3, <3>0
      <4>. QED BY <4>1, RoomInWindow DEF WindowInv
    <3>. QED BY <1>3, <2>3, <3>0, <3>1
  <2>. QED BY <1>5, <2>2, <2>3
<1>9. WindowHolds'
  BY <1>4, <1>8 DEF WindowHolds, Gateway!WindowHolds
<1>. QED BY <1>6, <1>7, <1>9 DEF WindowInv

\* Every step keeps the stamps of the window.
LEMMA WindowKeeps == WindowInv /\ Gateway!Next => WindowInv'
<1>. SUFFICES ASSUME WindowInv, Gateway!Next PROVE WindowInv'
  OBVIOUS
<1>1. CASE Gateway!Ask
  <2>1. CASE Gateway!Limited(Gateway!InWindow(recent))
    BY <1>1, <2>1, RefusedStep DEF Gateway!Ask
  <2>2. CASE ~Gateway!Limited(Gateway!InWindow(recent))
    <3>1. /\ recent' = Gateway!InWindow(recent) \cup {[of |-> Len(admitted) + 1, at |-> clock]}
          /\ admitted' = Append(admitted, clock) /\ UNCHANGED clock
          /\ req' = Gateway!At("parsed") \/
               \E status \in Gateway!QueryFaults : req' = Gateway!Failed(status)
      BY <1>1, <2>2 DEF Gateway!Ask
    <3>2. "at" \notin DOMAIN req'
      BY <3>1 DEF Gateway!At, Gateway!Failed
    <3>. QED BY <2>2, <3>1, <3>2, AdmittedStep
  <2>. QED BY <2>1, <2>2
<1>2. CASE Gateway!ReadIndex \/ Gateway!ReadFile \/ Gateway!Answer \/ Gateway!TimeOut
  <2>1. UNCHANGED <<clock, recent, admitted>>
    BY <1>2 DEF Gateway!ReadIndex, Gateway!ReadFile, Gateway!Answer, Gateway!TimeOut
  <2>2. "at" \notin DOMAIN req' \/ ("at" \in DOMAIN req /\ req'.at = req.at)
    <3>1. CASE Gateway!ReadIndex
      BY <3>1 DEF Gateway!ReadIndex, Gateway!Failed
    <3>2. CASE Gateway!ReadFile
      <4>1. PICK f \in req.left :
              \/ req' = [req EXCEPT !.left = @ \ {f}, !.seen = @ \cup Gateway!Taken(f)]
              \/ req' = Gateway!Failed(503)
              \/ req' = Gateway!Failed(500)
        BY <3>2 DEF Gateway!ReadFile
      <4>2. CASE req' = [req EXCEPT !.left = @ \ {f}, !.seen = @ \cup Gateway!Taken(f)]
        BY <4>2
      <4>. QED BY <4>1, <4>2 DEF Gateway!Failed
    <3>3. CASE Gateway!Answer
      BY <3>3 DEF Gateway!Answer, Gateway!Failed
    <3>4. CASE Gateway!TimeOut
      BY <3>4 DEF Gateway!TimeOut, Gateway!Failed
    <3>. QED BY <1>2, <3>1, <3>2, <3>3, <3>4
  <2>3. AdmittedInOrder' /\ StampsKept'
    BY <2>1 DEF WindowInv, AdmittedInOrder, StampsKept, StampsOf, Stamp
  <2>4. WindowHolds'
    <3>1. CASE "at" \notin DOMAIN req'
      BY <2>1, <3>1 DEF WindowInv, WindowHolds, Gateway!WindowHolds
    <3>2. CASE "at" \in DOMAIN req /\ req'.at = req.at
      BY <2>1, <3>2 DEF WindowInv, WindowHolds, Gateway!WindowHolds
    <3>. QED BY <2>2, <3>1, <3>2
  <2>. QED BY <2>3, <2>4 DEF WindowInv
<1>3. CASE Gateway!Collect \/ Gateway!Compose
  <2>1. UNCHANGED <<clock, recent, admitted, req>>
    BY <1>3 DEF Gateway!Collect, Gateway!Compose
  <2>2. AdmittedInOrder' /\ StampsKept'
    BY <2>1 DEF WindowInv, AdmittedInOrder, StampsKept, StampsOf, Stamp
  <2>3. WindowHolds'
    BY <2>1 DEF WindowInv, WindowHolds, Gateway!WindowHolds
  <2>. QED BY <2>2, <2>3 DEF WindowInv
<1>4. CASE Gateway!Tick
  <2>1. clock' = clock + 1 /\ UNCHANGED <<recent, admitted, req>>
    BY <1>4 DEF Gateway!Tick
  <2>2. admitted \in [1..Len(admitted) -> Nat] /\ Len(admitted) \in Nat /\ Window \in Nat
    BY AdmittedFinite, LimitsAssumption DEF WindowInv
  <2>3. AdmittedInOrder'
    BY <2>1, <2>2 DEF WindowInv, AdmittedInOrder
  <2>4. \A i \in 1..Len(admitted) : clock + 1 - admitted[i] < Window =>
          clock - admitted[i] < Window
    BY <2>2 DEF WindowInv, AdmittedInOrder
  <2>5. StampsKept'
    <3>1. \A i \in 1..Len(admitted) : Stamp(i)' = Stamp(i)
      BY <2>1 DEF Stamp
    <3>2. StampsOf(1..Len(admitted))' = StampsOf(1..Len(admitted))
      BY <2>1 DEF StampsOf, Stamp
    <3>3. ASSUME NEW i \in 1..Len(admitted), clock' - admitted[i] < Window
          PROVE Stamp(i) \in recent
      <4>1. clock + 1 - admitted[i] < Window
        <5>1. clock \in Nat /\ admitted[i] \in Nat /\ clock' = clock + 1
          BY <2>1, <2>2 DEF WindowInv, AdmittedInOrder
        <5>. QED BY <2>2, <3>3, <5>1
      <4>2. clock - admitted[i] < Window
        BY <2>4, <4>1
      <4>. QED BY <4>2 DEF WindowInv, StampsKept
    <3>. QED BY <2>1, <3>1, <3>2, <3>3 DEF WindowInv, StampsKept
  <2>6. WindowHolds'
    BY <2>1 DEF WindowInv, WindowHolds, Gateway!WindowHolds, Gateway!Cardinality
  <2>. QED BY <2>3, <2>5, <2>6 DEF WindowInv
<1>. QED BY <1>1, <1>2, <1>3, <1>4 DEF Gateway!Next

\* In every reachable state the stamps that _RATE holds are those of admitted requests,
\* and none of the present window is missing.
THEOREM WindowInvariance == MCSpec => []WindowInv
<1>1. WindowInv /\ [MCNext]_MCvars => WindowInv'
  <2>. SUFFICES ASSUME WindowInv, [MCNext]_MCvars PROVE WindowInv'
    OBVIOUS
  <2>1. CASE GatewayStep
    BY <2>1, WindowKeeps DEF GatewayStep
  <2>2. CASE UNCHANGED gatewayVars
    BY <2>2 DEF gatewayVars, WindowInv, AdmittedInOrder, StampsKept, StampsOf, Stamp,
                WindowHolds, Gateway!WindowHolds, Gateway!Cardinality
  <2>. QED BY <2>1, <2>2 DEF MCNext, MCvars, SnapshotStep, UsageStep, CardStep, GraphStep
<1>. QED BY WindowInitial, <1>1, PTL DEF MCSpec

\* _rate_limited lets no more requests through than the limit in any window of time, and
\* refuses only when that many were admitted in the last one.
THEOREM LimitHolds == MCSpec => []WindowHolds
<1>1. WindowInv => WindowHolds
  BY DEF WindowInv
<1>. QED BY <1>1, WindowInvariance, PTL

-----------------------------------------------------------------------------
(* ScheduleGraph                                                             *)

GraphTypes ==
  /\ edges \in SUBSET Graph!Edge
  /\ path \in Seq(Graph!Item)
  /\ rest \in [Graph!Item -> SUBSET Graph!Item]
  /\ visited \in SUBSET Graph!Item /\ cyclic \in SUBSET Graph!Item

\* The stack is a path of the graph, of items whose targets are not all followed.
PathInGraph ==
  /\ \A k, l \in 1..Len(path) : path[k] = path[l] => k = l
  /\ \A k \in 1..Len(path) : k < Len(path) => <<path[k], path[k + 1]>> \in edges
  /\ \A k \in 1..Len(path) : path[k] \notin visited
  /\ \A k \in 1..Len(path) : \A i \in rest[path[k]] : <<path[k], i>> \in edges

\* As long as no cycle was found: what is visited leads to what is visited, what is on
\* the path leads to what is visited, comes next on it or is still to follow, and
\* nothing that is visited is on a cycle.
NoneMissed ==
  cyclic = {} =>
    /\ \A e \in edges : e[1] \in visited => e[2] \in visited
    /\ \A k \in 1..Len(path) : \A e \in edges :
         e[1] = path[k] => \/ e[2] \in rest[path[k]] \cup visited
                           \/ k < Len(path) /\ e[2] = path[k + 1]
    /\ \A n \in 1..Items : \A walk \in [1..n -> Graph!Item] :
         Graph!Closed(walk, n) => \E k \in 1..n : walk[k] \notin visited

GraphInv ==
  /\ GraphTypes /\ PathInGraph /\ NoneMissed
  /\ cyclic \subseteq Graph!OnCycle
  /\ done => visited = Graph!Item

\* A path repeats no item, so it is no longer than there are items.
LEMMA PathFits ==
  ASSUME GraphInv
  PROVE  Len(path) \in Nat /\ Len(path) <= Items
<1>1. Len(path) \in Nat /\ path \in [1..Len(path) -> 1..Items]
  BY LenProperties DEF GraphInv, GraphTypes, Graph!Item
<1>2. /\ IsFiniteSet(1..Len(path)) /\ Cardinality(1..Len(path)) = Len(path)
      /\ IsFiniteSet(1..Items) /\ Cardinality(1..Items) = Items
  <2>1. \A n \in Nat : IsFiniteSet(1..n) /\ Cardinality(1..n) = n
    BY FS_Interval
  <2>. QED BY <1>1, <2>1, ItemsAssumption
<1>3. CASE Len(path) > Items
  <2>1. \E k, l \in 1..Len(path) : k # l /\ path[k] = path[l]
    <3>1. Cardinality(1..Items) < Cardinality(1..Len(path))
      BY <1>1, <1>2, <1>3, ItemsAssumption
    <3>. QED BY <1>1, <1>2, <3>1, FS_PigeonHole
  <2>. QED BY <2>1 DEF GraphInv, PathInGraph
<1>. QED BY <1>1, <1>3, ItemsAssumption

\* An edge from the top to an item of the path closes a walk through each item from
\* there on.
LEMMA CycleIsClosed ==
  ASSUME GraphInv, path # <<>>, NEW i \in Graph!Item, <<path[Len(path)], i>> \in edges
  PROVE  Graph!CycleTo(i) \subseteq Graph!OnCycle
<1>. DEFINE n == Len(path)
<1>1. n \in Nat /\ n <= Items /\ Items \in Nat /\ path \in [1..n -> Graph!Item]
  BY PathFits, ItemsAssumption, LenProperties DEF GraphInv, GraphTypes
<1>. HIDE DEF n
<1>. SUFFICES ASSUME NEW m \in 1..n, NEW l \in 1..m, path[l] = i
              PROVE  path[m] \in Graph!OnCycle
  BY DEF Graph!CycleTo, n
<1>. DEFINE size == n - l + 1
            at(j) == IF m + j - 1 <= n THEN m + j - 1 ELSE m + j - 1 - size
            walk == [j \in 1..size |-> path[at(j)]]
<1>2. size \in 1..Items
  BY <1>1
<1>3. \A j \in 1..size : at(j) \in l..n /\ at(j) \in 1..n
  BY <1>1
<1>4. walk \in [1..size -> Graph!Item] /\ \A j \in 1..size : walk[j] = path[at(j)]
  BY <1>1, <1>3
<1>5. walk[1] = path[m]
  BY <1>1, <1>2, <1>4
<1>6. \A j \in 1..size :
        LET next == IF j = size THEN 1 ELSE j + 1 IN
        \/ at(j) < n /\ at(next) = at(j) + 1
        \/ at(j) = n /\ at(next) = l
  BY <1>1
<1>7. /\ \A k \in 1..n : k < n => <<path[k], path[k + 1]>> \in edges
      /\ <<path[n], path[l]>> \in edges
  BY DEF GraphInv, PathInGraph, n
<1>8. \A j \in 1..size : (IF j = size THEN 1 ELSE j + 1) \in 1..size
  BY <1>1
<1>. HIDE DEF size, at, walk
<1>9. Graph!Closed(walk, size)
  BY <1>3, <1>4, <1>6, <1>7, <1>8 DEF Graph!Closed
<1>10. path[m] \in Graph!Item
  BY <1>1
<1>. QED BY <1>2, <1>4, <1>5, <1>9, <1>10 DEF Graph!OnCycle

\* Which items are on a cycle is the business of the edges alone.
LEMMA OnCycleStays ==
  ASSUME UNCHANGED edges
  PROVE  Graph!OnCycle' = Graph!OnCycle
BY DEF Graph!OnCycle, Graph!Closed

\* At first nothing is visited.
LEMMA GraphInitial == MCInit => GraphInv
<1>. SUFFICES ASSUME MCInit PROVE GraphInv
  OBVIOUS
<1>1. /\ edges \in SUBSET Graph!Edge /\ path = <<>> /\ rest = [i \in Graph!Item |-> {}]
      /\ visited = {} /\ cyclic = {} /\ done = FALSE
  BY DEF MCInit, Graph!Init
<1>2. path \in Seq(Graph!Item) /\ Len(path) = 0 /\ 1..0 = {}
  BY <1>1, EmptySeq
<1>3. \A n \in 1..Items : 1 \in 1..n
  BY ItemsAssumption
<1>. QED BY <1>1, <1>2, <1>3 DEF GraphInv, GraphTypes, PathInGraph, NoneMissed

\* The indexes of a stack and of the stack without its top.
LEMMA Below ==
  ASSUME NEW n \in Nat, n # 0
  PROVE  /\ n \in 1..n
         /\ \A k \in 1..(n - 1) : k \in 1..n /\ k < n /\ k + 1 \in 1..n
         /\ \A k \in 1..n : k < n => k \in 1..(n - 1)
         /\ \A k \in 1..(n - 1) : (k < n - 1 => k + 1 \in 1..(n - 1)) /\
              (~(k < n - 1) => k + 1 = n)
OBVIOUS

\* Popping an item whose targets are all followed.
LEMMA PopStep == GraphInv /\ Graph!Pop => GraphInv'
<1>. SUFFICES ASSUME GraphInv, Graph!Pop PROVE GraphInv'
  OBVIOUS
<1>. DEFINE n == Len(path)
            top == path[n]
<1>1. /\ path # <<>> /\ rest[top] = {}
      /\ visited' = visited \cup {top}
      /\ path' = SubSeq(path, 1, n - 1)
      /\ UNCHANGED <<edges, rest, cyclic, done>>
  BY DEF Graph!Pop, Graph!Top
<1>2. n \in Nat /\ n # 0 /\ path \in [1..n -> Graph!Item] /\ path \in Seq(Graph!Item)
  BY <1>1, LenProperties, EmptySeq DEF GraphInv, GraphTypes
<1>3. /\ path' \in Seq(Graph!Item) /\ Len(path') = n - 1
      /\ \A k \in 1..(n - 1) : path'[k] = path[k]
  BY <1>1, <1>2, SubSeqProperties
<1>4. /\ n \in 1..n
      /\ \A k \in 1..(n - 1) : k \in 1..n /\ k < n /\ k + 1 \in 1..n
      /\ \A k \in 1..n : k < n => k \in 1..(n - 1)
      /\ \A k \in 1..(n - 1) : (k < n - 1 => k + 1 \in 1..(n - 1)) /\ (~(k < n - 1) => k + 1 = n)
  BY <1>2, Below
<1>0. top \in Graph!Item
  BY <1>2, <1>4
<1>5. /\ \A k, l \in 1..n : path[k] = path[l] => k = l
      /\ \A k \in 1..n : k < n => <<path[k], path[k + 1]>> \in edges
      /\ \A k \in 1..n : path[k] \notin visited
      /\ \A k \in 1..n : \A i \in rest[path[k]] : <<path[k], i>> \in edges
  BY DEF GraphInv, PathInGraph
<1>15. cyclic = {} =>
        \A k \in 1..n : \A e \in edges :
          e[1] = path[k] => e[2] \in rest[path[k]] \cup visited \/ (k < n /\ e[2] = path[k + 1])
  BY DEF GraphInv, NoneMissed
<1>. HIDE DEF n, top
<1>6. GraphTypes'
  BY <1>1, <1>3, <1>0 DEF GraphInv, GraphTypes
<1>7. PathInGraph'
  <2>1. \A k \in 1..(n - 1) : path[k] # top
    BY <1>4, <1>5, <1>2 DEF top
  <2>2. \A k, l \in 1..(n - 1) : path'[k] = path'[l] => k = l
    BY <1>3, <1>4, <1>5
  <2>3. \A k \in 1..(n - 1) : k < n - 1 => <<path'[k], path'[k + 1]>> \in edges
    BY <1>3, <1>4, <1>5
  <2>4. \A k \in 1..(n - 1) : path'[k] \notin visited'
    BY <1>1, <1>3, <1>4, <1>5, <2>1
  <2>5. \A k \in 1..(n - 1) : \A i \in rest[path'[k]] : <<path'[k], i>> \in edges
    BY <1>3, <1>4, <1>5
  <2>. QED BY <1>1, <1>3, <2>2, <2>3, <2>4, <2>5 DEF PathInGraph
<1>8. ASSUME cyclic = {} PROVE NoneMissed'
  <2>1. \A e \in edges : e[1] = top => e[2] \in visited
    <3>1. ~(n < n)
      BY <1>2
    <3>. QED BY <1>1, <1>4, <1>8, <1>15, <3>1 DEF top
  <2>2. \A e \in edges : e[1] \in visited' => e[2] \in visited'
    BY <1>1, <1>8, <2>1 DEF GraphInv, NoneMissed
  <2>3. ASSUME NEW k \in 1..(n - 1), NEW e \in edges, e[1] = path[k]
        PROVE  \/ e[2] \in rest[path[k]] \cup visited'
               \/ k < n - 1 /\ e[2] = path'[k + 1]
    <3>1. e[2] \in rest[path[k]] \cup visited \/ e[2] = path[k + 1]
      BY <1>4, <1>8, <1>15, <2>3
    <3>2. CASE k < n - 1
      BY <1>1, <1>3, <1>4, <3>1, <3>2
    <3>3. CASE ~(k < n - 1)
      BY <1>1, <1>4, <3>1, <3>3 DEF top
    <3>. QED BY <3>2, <3>3
  <2>4. ASSUME NEW z \in 1..Items, NEW walk \in [1..z -> Graph!Item], Graph!Closed(walk, z)
        PROVE  \E k \in 1..z : walk[k] \notin visited'
    <3>. SUFFICES ASSUME \A k \in 1..z : walk[k] \in visited' PROVE FALSE
      OBVIOUS
    <3>1. PICK k \in 1..z : walk[k] \notin visited
      BY <1>8, <2>4 DEF GraphInv, NoneMissed
    <3>2. walk[k] = top
      BY <1>1, <3>1
    <3>. DEFINE j == IF k = 1 THEN z ELSE k - 1
    <3>3. j \in 1..z /\ k = IF j = z THEN 1 ELSE j + 1
      BY ItemsAssumption
    <3>4. <<walk[j], top>> \in edges
      BY <2>4, <3>2, <3>3 DEF Graph!Closed
    <3>5. top \notin visited
      BY <1>4, <1>5 DEF top
    <3>6. walk[j] \notin visited
      BY <1>8, <3>4, <3>5 DEF GraphInv, NoneMissed
    <3>7. walk[j] = top
      BY <1>1, <3>3, <3>6
    <3>. QED BY <3>4, <3>7 DEF GraphInv, GraphTypes, Graph!Edge
  <2>5. \A k \in 1..Len(path') : \A e \in edges' :
          e[1] = path'[k] => \/ e[2] \in rest'[path'[k]] \cup visited'
                             \/ k < Len(path') /\ e[2] = path'[k + 1]
    BY <1>1, <1>3, <2>3
  <2>6. \A z \in 1..Items : \A walk \in [1..z -> Graph!Item] :
          Graph!Closed(walk, z)' => \E k \in 1..z : walk[k] \notin visited'
    BY <1>1, <2>4 DEF Graph!Closed
  <2>. QED BY <1>1, <2>2, <2>5, <2>6 DEF NoneMissed
<1>9. cyclic # {} => NoneMissed'
  BY <1>1 DEF NoneMissed
<1>10. cyclic' \subseteq Graph!OnCycle'
  BY <1>1, OnCycleStays DEF GraphInv
<1>11. done' => visited' = Graph!Item
  BY <1>1, <1>0 DEF GraphInv, GraphTypes
<1>. QED BY <1>6, <1>7, <1>8, <1>9, <1>10, <1>11 DEF GraphInv

\* Pushing an item that is neither on the path nor visited, below the item that leads
\* to it if there is one.
LEMMA Pushed ==
  ASSUME GraphInv, NEW i \in Graph!Item \ visited, ~Graph!OnPath(i),
         path' = Append(path, i), UNCHANGED <<edges, visited, cyclic>>,
         rest' \in [Graph!Item -> SUBSET Graph!Item],
         rest'[i] = {e[2] : e \in {d \in edges : d[1] = i}},
         \A k \in 1..Len(path) : k < Len(path) => rest'[path[k]] = rest[path[k]],
         path # <<>> => /\ <<path[Len(path)], i>> \in edges
                        /\ rest'[path[Len(path)]] = rest[path[Len(path)]] \ {i}
  PROVE  GraphTypes' /\ PathInGraph' /\ NoneMissed'
<1>. DEFINE n == Len(path)
            p == Append(path, i)
<1>1. n \in Nat /\ path \in [1..n -> Graph!Item] /\ path \in Seq(Graph!Item) /\
        (n # 0 => path # <<>>)
  BY LenProperties, EmptySeq DEF GraphInv, GraphTypes
<1>2. /\ p \in Seq(Graph!Item) /\ Len(p) = n + 1 /\ p[n + 1] = i
      /\ \A k \in 1..n : p[k] = path[k]
  BY <1>1, AppendProperties
<1>3. /\ \A k \in 1..(n + 1) : k \in 1..n \/ k = n + 1
      /\ \A k \in 1..n : k \in 1..(n + 1) /\ k + 1 \in 1..(n + 1)
      /\ \A k \in 1..n : (k < n => k + 1 \in 1..n) /\ (~(k < n) => k = n /\ n # 0) /\ k < n + 1
      /\ n + 1 \in 1..(n + 1) /\ ~(n + 1 < n + 1)
  BY <1>1, Above
<1>4. /\ \A k, l \in 1..n : path[k] = path[l] => k = l
      /\ \A k \in 1..n : k < n => <<path[k], path[k + 1]>> \in edges
      /\ \A k \in 1..n : path[k] \notin visited
      /\ \A k \in 1..n : \A t \in rest[path[k]] : <<path[k], t>> \in edges
      /\ \A k \in 1..n : path[k] # i
  BY DEF GraphInv, PathInGraph, Graph!OnPath
<1>5. cyclic = {} =>
        \A k \in 1..n : \A e \in edges :
          e[1] = path[k] => e[2] \in rest[path[k]] \cup visited \/ (k < n /\ e[2] = path[k + 1])
  BY DEF GraphInv, NoneMissed
<1>6. /\ \A k \in 1..n : k < n => rest'[path[k]] = rest[path[k]]
      /\ n # 0 => <<path[n], i>> \in edges /\ rest'[path[n]] = rest[path[n]] \ {i}
  BY <1>1
<1>7. path' = p
  OBVIOUS
<1>. HIDE DEF n, p
<1>8. GraphTypes'
  BY <1>2, <1>7 DEF GraphInv, GraphTypes
<1>9. PathInGraph'
  <2>1. \A k, l \in 1..(n + 1) : p[k] = p[l] => k = l
    BY <1>2, <1>3, <1>4
  <2>2. \A k \in 1..(n + 1) : k < n + 1 => <<p[k], p[k + 1]>> \in edges
    <3>1. \A k \in 1..n : <<p[k], p[k + 1]>> \in edges
      <4>1. ASSUME NEW k \in 1..n, k < n PROVE <<p[k], p[k + 1]>> \in edges
        <5>1. k + 1 \in 1..n
          BY <1>3, <4>1
        <5>2. p[k] = path[k] /\ p[k + 1] = path[k + 1]
          BY <1>2, <5>1
        <5>. QED BY <1>4, <4>1, <5>2
      <4>2. ASSUME NEW k \in 1..n, ~(k < n) PROVE <<p[k], p[k + 1]>> \in edges
        <5>1. k = n /\ n # 0
          BY <1>3, <4>2
        <5>2. p[k] = path[n] /\ p[k + 1] = i
          BY <1>2, <5>1
        <5>. QED BY <1>6, <5>1, <5>2
      <4>. QED BY <4>1, <4>2
    <3>2. \A k \in 1..(n + 1) : k < n + 1 => k \in 1..n
      BY <1>3
    <3>. QED BY <3>1, <3>2
  <2>3. \A k \in 1..(n + 1) : p[k] \notin visited
    BY <1>2, <1>3, <1>4
  <2>4. ASSUME NEW k \in 1..(n + 1), NEW t \in rest'[p[k]] PROVE <<p[k], t>> \in edges
    <3>1. CASE k \in 1..n
      BY <1>2, <1>3, <1>4, <1>6, <2>4, <3>1
    <3>2. CASE k = n + 1
      <4>1. PICK e \in edges : e[1] = i /\ e[2] = t
        BY <1>2, <2>4, <3>2
      <4>2. e = <<e[1], e[2]>>
        BY DEF GraphInv, GraphTypes, Graph!Edge
      <4>. QED BY <1>2, <3>2, <4>1, <4>2
    <3>. QED BY <1>3, <3>1, <3>2
  <2>. QED BY <1>2, <1>7, <2>1, <2>2, <2>3, <2>4 DEF PathInGraph
<1>10. ASSUME cyclic = {} PROVE NoneMissed'
  <2>1. \A e \in edges : e[1] \in visited => e[2] \in visited
    BY <1>10 DEF GraphInv, NoneMissed
  <2>2. ASSUME NEW k \in 1..(n + 1), NEW e \in edges, e[1] = p[k]
        PROVE  e[2] \in rest'[p[k]] \cup visited \/ (k < n + 1 /\ e[2] = p[k + 1])
    <3>1. CASE k \in 1..n
      <4>1. e[2] \in rest[path[k]] \cup visited \/ (k < n /\ e[2] = path[k + 1])
        BY <1>2, <1>5, <1>10, <2>2, <3>1
      <4>2. CASE k < n
        BY <1>2, <1>3, <1>6, <3>1, <4>1, <4>2
      <4>3. CASE ~(k < n)
        BY <1>2, <1>3, <1>6, <3>1, <4>1, <4>3
      <4>. QED BY <4>2, <4>3
    <3>2. CASE k = n + 1
      BY <1>2, <2>2, <3>2
    <3>. QED BY <1>3, <3>1, <3>2
  <2>3. \A z \in 1..Items : \A walk \in [1..z -> Graph!Item] :
          Graph!Closed(walk, z)' => \E k \in 1..z : walk[k] \notin visited
    BY <1>10 DEF GraphInv, NoneMissed, Graph!Closed
  <2>. QED BY <1>2, <1>7, <2>1, <2>2, <2>3 DEF NoneMissed
<1>11. cyclic # {} => NoneMissed'
  BY DEF NoneMissed
<1>. QED BY <1>8, <1>9, <1>10, <1>11

\* The next root.
LEMMA RootStep == GraphInv /\ Graph!Root => GraphInv'
<1>. SUFFICES ASSUME GraphInv, Graph!Root PROVE GraphInv'
  OBVIOUS
<1>1. path = <<>> /\ UNCHANGED <<edges, others, visited, cyclic>>
  BY DEF Graph!Root
<1>2. CASE visited = Graph!Item
  <2>1. done' = TRUE /\ UNCHANGED <<path, rest>>
    BY <1>2 DEF Graph!Root
  <2>. QED BY <1>1, <1>2, <2>1, OnCycleStays
           DEF GraphInv, GraphTypes, PathInGraph, NoneMissed, Graph!Closed
<1>3. CASE visited # Graph!Item
  <2>1. PICK i \in Graph!Item \ visited : Graph!Push(i) /\ UNCHANGED done
    BY <1>3 DEF Graph!Root
  <2>2. Len(path) = 0 /\ 1..0 = {}
    BY <1>1, EmptySeq
  <2>3. /\ path' = Append(path, i) /\ rest' \in [Graph!Item -> SUBSET Graph!Item]
        /\ rest'[i] = {e[2] : e \in {d \in edges : d[1] = i}}
    BY <2>1 DEF Graph!Push, GraphInv, GraphTypes, Graph!Edge
  <2>4. ~Graph!OnPath(i)
    BY <2>2 DEF Graph!OnPath
  <2>5. GraphTypes' /\ PathInGraph' /\ NoneMissed'
    BY <1>1, <2>2, <2>3, <2>4, Pushed
  <2>. QED BY <1>1, <2>1, <2>5, OnCycleStays DEF GraphInv
<1>. QED BY <1>2, <1>3

\* One target of the top.
LEMMA FollowStep == GraphInv /\ Graph!Follow => GraphInv'
<1>. SUFFICES ASSUME GraphInv, Graph!Follow PROVE GraphInv'
  OBVIOUS
<1>. DEFINE n == Len(path)
            top == path[n]
<1>1. /\ path # <<>> /\ UNCHANGED <<edges, others, visited, done>>
  BY DEF Graph!Follow
<1>2. n \in Nat /\ n # 0 /\ n \in 1..n /\ path \in [1..n -> Graph!Item]
  BY <1>1, LenProperties, EmptySeq DEF GraphInv, GraphTypes
<1>3. top \in Graph!Item
  BY <1>2
<1>4. PICK i \in rest[top] :
        \/ /\ Graph!OnPath(i) /\ cyclic' = cyclic \cup Graph!CycleTo(i)
           /\ rest' = [rest EXCEPT ![top] = @ \ {i}] /\ UNCHANGED path
        \/ /\ ~Graph!OnPath(i) /\ i \in visited
           /\ rest' = [rest EXCEPT ![top] = @ \ {i}] /\ UNCHANGED <<path, cyclic>>
        \/ /\ ~Graph!OnPath(i) /\ i \notin visited
           /\ path' = Append(path, i)
           /\ rest' = [rest EXCEPT ![top] = @ \ {i},
                                   ![i] = {e[2] : e \in {d \in edges : d[1] = i}}]
           /\ UNCHANGED cyclic
  BY DEF Graph!Follow, Graph!Top
<1>5. <<top, i>> \in edges /\ i \in Graph!Item
  BY <1>2, <1>3 DEF GraphInv, GraphTypes, PathInGraph
<1>6. rest \in [Graph!Item -> SUBSET Graph!Item]
  BY DEF GraphInv, GraphTypes
<1>7. ASSUME rest' = [rest EXCEPT ![top] = @ \ {i}], path' = path PROVE PathInGraph'
  <2>1. \A j \in Graph!Item : rest'[j] \subseteq rest[j]
    BY <1>6, <1>7
  <2>2. \A k \in 1..n : path[k] \in Graph!Item
    BY <1>2
  <2>. QED BY <1>1, <1>7, <2>1, <2>2 DEF GraphInv, PathInGraph
<1>8. CASE /\ Graph!OnPath(i) /\ cyclic' = cyclic \cup Graph!CycleTo(i)
           /\ rest' = [rest EXCEPT ![top] = @ \ {i}] /\ UNCHANGED path
  <2>1. Graph!CycleTo(i) \subseteq Graph!OnCycle
    BY <1>1, <1>5, CycleIsClosed
  <2>2. i \in Graph!CycleTo(i)
    BY <1>8 DEF Graph!OnPath, Graph!CycleTo
  <2>3. NoneMissed'
    BY <1>8, <2>2 DEF NoneMissed
  <2>4. cyclic' \subseteq Graph!OnCycle'
    BY <1>1, <1>8, <2>1, OnCycleStays DEF GraphInv
  <2>5. GraphTypes'
    <3>1. Graph!OnCycle \subseteq Graph!Item
      BY DEF Graph!OnCycle
    <3>2. rest' \in [Graph!Item -> SUBSET Graph!Item]
      BY <1>6, <1>8
    <3>. QED BY <1>1, <1>8, <2>1, <3>1, <3>2 DEF GraphInv, GraphTypes
  <2>. QED BY <1>1, <1>7, <1>8, <2>3, <2>4, <2>5 DEF GraphInv
<1>9. CASE /\ ~Graph!OnPath(i) /\ i \in visited
           /\ rest' = [rest EXCEPT ![top] = @ \ {i}] /\ UNCHANGED <<path, cyclic>>
  <2>1. rest' \in [Graph!Item -> SUBSET Graph!Item] /\
          \A j \in Graph!Item : rest[j] \subseteq rest'[j] \cup visited
    BY <1>6, <1>9
  <2>2. GraphTypes'
    BY <1>1, <1>9, <2>1 DEF GraphInv, GraphTypes
  <2>3. ASSUME cyclic = {} PROVE NoneMissed'
    <3>1. \A k \in 1..n : path[k] \in Graph!Item
      BY <1>2
    <3>2. \A k \in 1..n : \A e \in edges :
            e[1] = path[k] => e[2] \in rest[path[k]] \cup visited \/ (k < n /\ e[2] = path[k + 1])
      BY <2>3 DEF GraphInv, NoneMissed
    <3>3. \A k \in 1..n : \A e \in edges :
            e[1] = path[k] => e[2] \in rest'[path[k]] \cup visited \/
              (k < n /\ e[2] = path[k + 1])
      BY <2>1, <3>1, <3>2
    <3>. QED BY <1>1, <1>9, <2>3, <3>3 DEF GraphInv, NoneMissed, Graph!Closed
  <2>4. cyclic # {} => NoneMissed'
    BY <1>9 DEF NoneMissed
  <2>. QED BY <1>1, <1>7, <1>9, <2>2, <2>3, <2>4, OnCycleStays DEF GraphInv
<1>10. CASE /\ ~Graph!OnPath(i) /\ i \notin visited
            /\ path' = Append(path, i)
            /\ rest' = [rest EXCEPT ![top] = @ \ {i},
                                    ![i] = {e[2] : e \in {d \in edges : d[1] = i}}]
            /\ UNCHANGED cyclic
  <2>. DEFINE targets == {e[2] : e \in {d \in edges : d[1] = i}}
  <2>1. targets \in SUBSET Graph!Item
    BY DEF GraphInv, GraphTypes, Graph!Edge
  <2>2. \A k \in 1..n : path[k] # i /\ (k < n => path[k] # top)
    <3>1. \A k \in 1..n : k < n => k # n
      BY <1>2, Above
    <3>. QED BY <1>2, <1>10, <3>1 DEF Graph!OnPath, GraphInv, PathInGraph
  <2>3. rest' = [[rest EXCEPT ![top] = @ \ {i}] EXCEPT ![i] = targets]
    BY <1>10
  <2>4. top # i
    BY <1>2, <2>2
  <2>. HIDE DEF targets
  <2>5. /\ rest' \in [Graph!Item -> SUBSET Graph!Item] /\ rest'[i] = targets
        /\ rest'[top] = rest[top] \ {i}
        /\ \A j \in Graph!Item : j # i /\ j # top => rest'[j] = rest[j]
    BY <1>3, <1>5, <1>6, <2>1, <2>3, <2>4
  <2>6. \A k \in 1..n : k < n => rest'[path[k]] = rest[path[k]]
    BY <1>2, <2>2, <2>5
  <2>7. GraphTypes' /\ PathInGraph' /\ NoneMissed'
    BY <1>1, <1>5, <1>10, <2>5, <2>6, Pushed DEF targets
  <2>. QED BY <1>1, <1>10, <2>7, OnCycleStays DEF GraphInv
<1>. QED BY <1>4, <1>8, <1>9, <1>10

\* What the walk through the dependencies knows in every reachable state.
THEOREM GraphInvariance == MCSpec => []GraphInv
<1>1. GraphInv /\ [MCNext]_MCvars => GraphInv'
  <2>. SUFFICES ASSUME GraphInv, [MCNext]_MCvars PROVE GraphInv'
    OBVIOUS
  <2>1. CASE GraphStep
    BY <2>1, PopStep, RootStep, FollowStep DEF GraphStep, Graph!Next
  <2>2. CASE UNCHANGED graphVars
    BY <2>2, OnCycleStays
    DEF graphVars, GraphInv, GraphTypes, PathInGraph, NoneMissed, Graph!Closed
  <2>. QED BY <2>1, <2>2 DEF MCNext, MCvars, SnapshotStep, UsageStep, CardStep, GatewayStep
<1>. QED BY GraphInitial, <1>1, PTL DEF MCSpec

\* What the walk calls cyclic is on a cycle, and when it ends without having found one
\* there is none: no cycle opens the critical path.
THEOREM CyclesReal == MCSpec => []CyclesAreReal
<1>1. GraphInv => CyclesAreReal
  <2>. SUFFICES ASSUME GraphInv PROVE CyclesAreReal
    OBVIOUS
  <2>1. ASSUME done, Graph!OnCycle # {} PROVE cyclic # {}
    <3>1. PICK i \in Graph!Item, n \in 1..Items :
            \E walk \in [1..n -> Graph!Item] : walk[1] = i /\ Graph!Closed(walk, n)
      BY <2>1 DEF Graph!OnCycle
    <3>2. PICK walk \in [1..n -> Graph!Item] : Graph!Closed(walk, n)
      BY <3>1
    <3>3. \A k \in 1..n : walk[k] \in visited
      BY <2>1, <3>2 DEF GraphInv
    <3>. QED BY <3>2, <3>3 DEF GraphInv, NoneMissed
  <2>. QED BY <2>1 DEF CyclesAreReal, Graph!CyclesAreReal, Graph!CriticalPathReasons, GraphInv
<1>. QED BY <1>1, GraphInvariance, PTL

=============================================================================
