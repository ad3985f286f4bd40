---------------------------- MODULE MCEnrollment ----------------------------
(* Instances of Enrollment.  Tuples t1 and t2 share a credential id, t3 has  *)
(* its own.                                                                  *)
EXTENDS Enrollment

CONSTANTS t1, t2, t3, c1, c2

MCTuple == {t1, t2, t3}
MCTwoTuples == {t1, t3}
MCCredOf == [t \in MCTuple |-> IF t = t3 THEN c2 ELSE c1]
MCTwoCredOf == [t \in MCTwoTuples |-> IF t = t3 THEN c2 ELSE c1]
=============================================================================
