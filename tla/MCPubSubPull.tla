---------------------------- MODULE MCPubSubPull ----------------------------
(* Messages of the subscription for PubSubPull.                            *)
EXTENDS PubSubPull

CONSTANTS m1, m2, m3

MCMsgs == {m1, m2}
MCThreeMsgs == {m1, m2, m3}
MCOneMsg == {m1}

=============================================================================
