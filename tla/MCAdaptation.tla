---------------------------- MODULE MCAdaptation ----------------------------
(***************************************************************************)
(* A presentation of three rates and the reports that lead to each verdict *)
(* for Adaptation.                                                         *)
(***************************************************************************)
EXTENDS Adaptation, TLC

ThreeRates == <<[rate |-> 128, priority |-> 1], [rate |-> 96, priority |-> 2],
                [rate |-> 48, priority |-> 3]>>

\* Sessions are alike.
Symmetry == Permutations(Sessions)

\* Heavy loss, a jitter whose first byte is not 0, and one whose first byte is.
Loss == [loss |-> 40, jitter |-> 0]
Jitter == [loss |-> 0, jitter |-> 2 ^ 25]
Good == [loss |-> 0, jitter |-> 300]
ThreeReports == {Loss, Jitter, Good}

\* Any three reports for a session that is played twice; two sessions that meet
\* at an entry, one of which goes; ends of a file and reports that wait.
Budget(requests, reports, ends, timeouts) ==
  [requests |-> requests, reports |-> reports, ends |-> ends, timeouts |-> timeouts]
AllBudgets ==
  {Budget(3, r, 0, 0) : r \in ThreeReports \X ThreeReports \X ThreeReports}
  \cup {Budget(5, <<Loss, Loss>>, 0, 0), Budget(4, << >>, 2, 1)}
=============================================================================
