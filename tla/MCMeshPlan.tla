------------------------------ MODULE MCMeshPlan ------------------------------
(* Three mesh nodes and two gateways, every choice of seven links and costs. *)
EXTENDS MeshPlan

MCCandidates == << <<4, 1>>, <<4, 2>>, <<1, 2>>, <<2, 1>>, <<2, 3>>, <<5, 3>>, <<3, 2>> >>

\* Cost 0 stands for no link.
MCMetricFiles ==
  {SelectSeq([k \in DOMAIN MCCandidates |-> Append(MCCandidates[k], cost[k])],
             LAMBDA line : line[3] > 0) :
     cost \in {c \in [DOMAIN MCCandidates -> {0, 1, 3}] : \A k \in {3, 4, 7} : c[k] # 3}}

MCConflictFile == << <<4, -1, 1, 8>>, <<4, -1, 2, 8>>, <<4, 1, 1, 5>>, <<4, 1, 2, 8>>,
                     <<1, -1, 2, 8>>, <<1, 2, 2, 6>>, <<-1, 0, 0, 0>>, <<9, -1, 1, 8>> >>

\* The first configuration again at the end.
MCConfigFile == << <<0, <<0, 0, 0>> >>, <<1, <<0, 0, 1>> >>, <<2, <<0, 1, 1>> >>, <<3, <<0, 0, 0>> >> >>
=============================================================================
