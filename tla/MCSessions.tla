------------------------------ MODULE MCSessions ------------------------------
(* A swap of MCSwapBroadcast, or a transfer with two POSTs of different       *)
(* hashes.                                                                    *)
EXTENDS Sessions, MCSwapBroadcast

CONSTANTS q1, q2

MCTransferPost == {q1, q2}
MCCarries == [p \in MCTransferPost |-> IF p = q1 THEN h1 ELSE h2]

ASSUME T!TransferAssumption

\* The submits of the swap matter only there.
MCInit == SessionsInit /\ (kind # "swap" => tx = [p \in Post |-> h1])

MCSpec == MCInit /\ [][SessionsNext]_allVars /\ SwapsFair
=============================================================================
