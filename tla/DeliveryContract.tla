-------------------------- MODULE DeliveryContract --------------------------
(***************************************************************************)
(* What the report-delivery service promises about the outside world,      *)
(* without claims, clocks, tables or dispatchers: a delivery is armed,     *)
(* tried a bounded number of times, one try at a time, taken by the        *)
(* destination at most once, never tried again once taken, and closed for  *)
(* good, with a receipt only if it was taken.                              *)
(* src/docs/evidence/SKCP-33-REPORT-DELIVERY-SIMULATION-2026-08-25.md      *)
(* states these promises; ReportDelivery implements them.                  *)
(***************************************************************************)
EXTENDS Naturals

CONSTANTS Deliveries, MaxTries

VARIABLES
  stage,    \* "unarmed", "ready", "trying" or "closed"
  tries,    \* calls of the destination
  taken,    \* the deliveries the destination took
  receipts  \* the deliveries with a receipt

cvars == <<stage, tries, taken, receipts>>

CInit ==
  /\ stage = [d \in Deliveries |-> "unarmed"]
  /\ tries = [d \in Deliveries |-> 0]
  /\ taken = {} /\ receipts = {}

Move(d, from, to) == stage[d] = from /\ stage' = [stage EXCEPT ![d] = to]

Arm(d) == Move(d, "unarmed", "ready") /\ UNCHANGED <<tries, taken, receipts>>

Start(d) ==
  /\ tries[d] < MaxTries /\ d \notin taken
  /\ Move(d, "ready", "trying")
  /\ UNCHANGED <<tries, taken, receipts>>

\* One call of the destination, which takes the delivery or refuses it.
Try(d) ==
  /\ stage[d] = "trying" /\ d \notin taken /\ tries[d] < MaxTries
  /\ tries' = [tries EXCEPT ![d] = @ + 1]
  /\ taken' \in {taken, taken \cup {d}}
  /\ UNCHANGED <<stage, receipts>>

Requeue(d) ==
  /\ d \notin taken
  /\ Move(d, "trying", "ready")
  /\ UNCHANGED <<tries, taken, receipts>>

Confirm(d) ==
  /\ d \in taken
  /\ Move(d, "trying", "closed")
  /\ receipts' = receipts \cup {d}
  /\ UNCHANGED <<tries, taken>>

\* Given up, lost, denied, expired or cancelled, possibly several at once.
Close(lost) ==
  /\ lost # {}
  /\ stage' = [d \in Deliveries |-> IF d \in lost THEN "closed" ELSE stage[d]]
  /\ UNCHANGED <<tries, taken, receipts>>

CNext == \/ \E d \in Deliveries : \/ Arm(d) \/ Start(d) \/ Try(d)
                                  \/ Requeue(d) \/ Confirm(d)
         \/ \E lost \in SUBSET {d \in Deliveries : stage[d] # "closed"} :
              Close(lost)

CSpec == CInit /\ [][CNext]_cvars
=============================================================================
