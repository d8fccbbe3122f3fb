----------------------------- MODULE MCPubSubFetch -----------------------------
(***************************************************************************)
(* Instances of PubSubFetch for TLC: a stream of two publications, and     *)
(* subscriptions of each kind.                                             *)
(***************************************************************************)
EXTENDS PubSubFetch

CONSTANTS producer, producerPackets, prefix, prefixPackets, namesOnly

MCSub == {producer, producerPackets, prefix, prefixPackets, namesOnly}
MCProducerSub == {producer, producerPackets}
MCPacketSub == {producerPackets, prefixPackets}
MCNameOnlySub == {namesOnly}
MCmatching == [s \in MCSub |-> IF s = prefixPackets THEN {2} ELSE {1, 2}]
MCStartingSubs == {{producer, producerPackets}, {prefix, namesOnly}}
MCLateSub == {prefixPackets}

\* Nothing; the first publication's name and packet, as after publish; its
\* name again, or its packet again, in a later round; the second one's name.
MCBlocks ==
  {[notified |-> {},  repeated |-> {},     data |-> {}],
   [notified |-> {},  repeated |-> {1},    data |-> {}],
   [notified |-> {2}, repeated |-> {1, 2}, data |-> {1}]}

MCWindows == {1, 2}
MCMayFail == {"timeout", "undecodable", "inner", "mapping", "deadline",
              "age"}
================================================================================
