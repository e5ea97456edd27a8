------------------------------ MODULE MCHealth ------------------------------
(***************************************************************************)
(* Instances of Health for TLC.  What may happen together is listed, so    *)
(* that the states of the situations add up instead of multiplying.        *)
(***************************************************************************)
EXTENDS Health, TLC

CONSTANTS q1, a1, k1, k2, w1, sa

\* A request of DbRouter while both nodes fail; two reports, or a report and a
\* statement, while a shard fails; a report while nodes and shards fail, or
\* while a request learns of it; the status while writes are committed.
Situated == {[present |-> {q1}, unsteady |-> Node],
             [present |-> {k1, k2}, unsteady |-> {sa}],
             [present |-> {a1, k1}, unsteady |-> {sa}],
             [present |-> {k1}, unsteady |-> Node \cup {sa}],
             [present |-> {q1, k1}, unsteady |-> {"primary"}],
             [present |-> {q1, w1}, unsteady |-> {"primary"}]}
=============================================================================
