-------------------------- MODULE MCOutboxDelivery --------------------------
(* Instances of OutboxDelivery for TLC. *)
EXTENDS OutboxDelivery

CONSTANTS m1, m2, p1, p2, w1, w2, host

SkewNone == [w \in Workers |-> 0]
SkewOne == [w \in Workers |-> IF w = w1 THEN 1 ELSE 0]

OwnIds == [w \in Workers |-> w]
OneId == [w \in Workers |-> host]
=============================================================================
