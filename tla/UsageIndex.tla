----------------------------- MODULE UsageIndex -----------------------------
(***************************************************************************)
(* The AI usage index: composers publish a transported gateway generation     *)
(* into the dashboard's data root (skcounter_gateway_compose.py), edges        *)
(* publish harness generations, and the dashboard reads the index, the         *)
(* observations it names and the index again (dashboard_skcounter.py).         *)
(*                                                                         *)
(* A generation is two versions, one per measurement lane, 0 for none; an       *)
(* observation file is a lane and a version.  Files are replaced by rename      *)
(* and never changed, so a reader of one sees all of it.                      *)
(***************************************************************************)
EXTENDS Naturals, FiniteSets

CONSTANTS
  Composers,    \* runs of compose
  MaxVersion,   \* bound: generations each lane produces
  MaxAttempts   \* MAX_INDEX_READ_ATTEMPTS

VARIABLES
  index,     \* observation-index/latest.json
  files,     \* observations in the data root
  sent,      \* latest acknowledged snapshot of each lane
  composer,  \* step of each run of compose
  overlap,   \* runs whose retained lane was replaced meanwhile; for the properties only
  base,      \* the other lane in the index when a run read it; for the properties only
  reader     \* the read of get_ai_usage

vars == <<index, files, sent, composer, overlap, base, reader>>

Lanes == {"harness", "gateway"}
Version == 0..MaxVersion
Generation == [Lanes -> Version]
NoIndex == [lane \in Lanes |-> 0]

At(pc) == [pc |-> pc]
Reading(pc, attempt, seen, rows) ==
  [pc |-> pc, attempt |-> attempt, seen |-> seen, rows |-> rows]
Answer(status, rows) == [pc |-> "answered", status |-> status, rows |-> rows]

Init ==
  /\ index \in {NoIndex, [lane \in Lanes |-> IF lane = "harness" THEN 1 ELSE 0]}
  /\ files = {<<lane, index[lane]>> : lane \in {l \in Lanes : index[l] > 0}}
  /\ sent = [lane \in Lanes |-> index[lane]]
  /\ composer = [c \in Composers |-> At("idle")]
  /\ overlap = {}
  /\ base = [c \in Composers |-> 0]
  /\ reader = At("idle")

-----------------------------------------------------------------------------
(* compose                                                                   *)

\* _read_producer: a transported generation without fault, or it raises.
ReadProducer(c) ==
  /\ composer[c].pc = "idle"
  /\ \/ \E v \in Version \ {0} :
          composer' = [composer EXCEPT ![c] = [pc |-> "validated", gateway |-> v]]
     \/ composer' = [composer EXCEPT ![c] = At("refused")]
  /\ UNCHANGED <<index, files, sent, overlap, base, reader>>

\* Mutant: only the transported entries are kept.
ReadCurrentForgets(c) ==
  /\ composer[c].pc = "validated"
  /\ composer' = [composer EXCEPT ![c] = [pc |-> "retained", harness |-> 0,
                                          gateway |-> composer[c].gateway]]
  /\ base' = [base EXCEPT ![c] = index["harness"]]
  /\ UNCHANGED <<index, files, sent, overlap, reader>>

\* The entries of the other lane are kept as they are now; a fault of the index, or
\* more entries together than an index may have, and the run is refused.
ReadCurrent(c) ==
  /\ composer[c].pc = "validated"
  /\ \/ /\ composer' = [composer EXCEPT ![c] = [pc |-> "retained", harness |-> index["harness"],
                                                gateway |-> composer[c].gateway]]
        /\ base' = [base EXCEPT ![c] = index["harness"]]
     \/ composer' = [composer EXCEPT ![c] = At("refused")] /\ UNCHANGED base
  /\ UNCHANGED <<index, files, sent, overlap, reader>>

\* Mutant: the sources are not written before the index is.
WriteSourcesLater(c) ==
  /\ composer[c].pc = "retained"
  /\ composer' = [composer EXCEPT ![c].pc = "stored"]
  /\ UNCHANGED <<index, files, sent, overlap, base, reader>>

\* Each observation is renamed into place, or found there already; one that is there
\* with other bytes stops the run, the generation not wholly in place.
WriteSources(c) ==
  /\ composer[c].pc = "retained"
  /\ \/ /\ files' = files \cup {<<"gateway", composer[c].gateway>>}
        /\ composer' = [composer EXCEPT ![c].pc = "stored"]
     \/ composer' = [composer EXCEPT ![c] = At("refused")] /\ UNCHANGED files
  /\ UNCHANGED <<index, sent, overlap, base, reader>>

\* The runs that have read the lane which another publication replaces.
Retaining == {c \in Composers : composer[c].pc \in {"retained", "stored"}}

Publish(c) ==
  /\ composer[c].pc = "stored"
  /\ index' = [lane \in Lanes |-> composer[c][lane]]
  /\ overlap' = IF composer[c].harness = index["harness"] THEN overlap ELSE overlap \cup Retaining
  /\ composer' = [composer EXCEPT ![c] = At("published")]
  /\ UNCHANGED <<files, sent, base, reader>>

\* The process dies; temporary files carry its pid and are nobody's.
ComposerDies(c) ==
  /\ composer[c].pc \in {"validated", "retained", "stored"}
  /\ composer' = [composer EXCEPT ![c] = At("dead")]
  /\ UNCHANGED <<index, files, sent, overlap, base, reader>>

-----------------------------------------------------------------------------
(* External: an edge acknowledges a snapshot, and publishes its own lane.     *)

Acknowledge(lane) ==
  /\ sent[lane] < MaxVersion
  /\ sent' = [sent EXCEPT ![lane] = @ + 1]
  /\ UNCHANGED <<index, files, composer, overlap, base, reader>>

PublishHarness ==
  /\ index["harness"] < sent["harness"]
  /\ files' = files \cup {<<"harness", sent["harness"]>>}
  /\ index' = [index EXCEPT !["harness"] = sent["harness"]]
  /\ overlap' = overlap \cup Retaining
  /\ UNCHANGED <<sent, composer, base, reader>>

-----------------------------------------------------------------------------
(* _read_observations and the fallback of get_ai_usage                       *)

Retry(attempt) ==
  IF attempt < MaxAttempts THEN Reading("index", attempt + 1, NoIndex, {})
  ELSE Answer("degraded", {})

BeginRead ==
  /\ reader.pc \in {"idle", "answered"}
  /\ reader' = Reading("index", 1, NoIndex, {})
  /\ UNCHANGED <<index, files, sent, composer, overlap, base>>

\* Without an index the acknowledged snapshots are read; a faulty one is told.
Acknowledged == {<<lane, sent[lane]>> : lane \in {l \in Lanes : sent[l] > 0}}
ReadIndex ==
  /\ reader.pc = "index"
  /\ \/ index = NoIndex /\ reader' = Answer(IF Acknowledged = {} THEN "degraded" ELSE "current",
                                            Acknowledged)
     \/ index # NoIndex /\ reader' = [reader EXCEPT !.pc = "sources", !.seen = index]
     \/ index # NoIndex /\ reader' = Answer("degraded", {})   \* a fault of the index
  /\ UNCHANGED <<index, files, sent, composer, overlap, base>>

\* Sources that cannot be read, or whose hash is another, are left out and told.
Named(generation) == {<<lane, generation[lane]>> : lane \in {l \in Lanes : generation[l] > 0}}
ReadSources ==
  /\ reader.pc = "sources"
  /\ \E rows \in SUBSET (Named(reader.seen) \cap files) :
       reader' = [reader EXCEPT !.pc = "confirm", !.rows = rows]
  /\ UNCHANGED <<index, files, sent, composer, overlap, base>>

\* A lane without rows is filled from the acknowledged snapshots.
Filled(rows) == rows \cup {s \in Acknowledged : \A row \in rows : row[1] # s[1]}
Status(rows, generation) ==
  IF ~ Named(generation) \subseteq rows THEN "degraded"
  ELSE IF Filled(rows) = {} THEN "empty" ELSE "current"

Confirm ==
  /\ reader.pc = "confirm"
  /\ \/ index = reader.seen
        /\ reader' = Answer(Status(reader.rows, reader.seen), Filled(reader.rows))
     \/ reader' = Retry(reader.attempt)   \* another index, or a fault of it
  /\ UNCHANGED <<index, files, sent, composer, overlap, base>>

Next ==
  \/ \E c \in Composers :
       ReadProducer(c) \/ ReadCurrent(c) \/ WriteSources(c) \/ Publish(c) \/ ComposerDies(c)
  \/ \E lane \in Lanes : Acknowledge(lane)
  \/ PublishHarness
  \/ BeginRead \/ ReadIndex \/ ReadSources \/ Confirm

Spec == Init /\ [][Next]_vars

-----------------------------------------------------------------------------
(* Whatever dies or overlaps, the index names only observations that are in      *)
(* place, and an answer counts one version of a lane at most once.             *)
IndexIsWhole ==
  /\ index \in Generation
  /\ Named(index) \subseteq files
  /\ \A c \in Composers : composer[c].pc \in {"retained", "stored"} /\ composer[c].harness > 0
       => <<"harness", composer[c].harness>> \in files
  /\ reader.pc = "answered" =>
       \A a, b \in reader.rows : a[1] = b[1] => a = b

(* compose merges without a lock, so the other lane's entries can go back.  They  *)
(* do so only through a run that was overtaken between its read of the index and   *)
(* its rename, and then to what the index held when that run read it: what an edge  *)
(* published meanwhile is lost (all of it, if there was no index yet), never what   *)
(* was in the index when the run began to merge.                              *)
OtherLaneKept ==
  [][ index'["harness"] < index["harness"] =>
        \E c \in overlap : /\ composer[c].pc = "stored" /\ composer'[c].pc = "published"
                           /\ index'["harness"] = base[c] ]_vars

=============================================================================
