--------------------------- MODULE MCPeerManager ---------------------------
(* A small instance of PeerManager: p1 and p2 are two connections of one     *)
(* remote (same ID, one accepted and one dialled, same listening address),   *)
(* p3 is another remote behind the same address, p4 has no address.          *)
EXTENDS PeerManager, TLC

CONSTANTS p1, p2, p3, p4, id1, id2, id3, a1

MCPeers == {p1, p2, p3, p4}
MCIDs == {id1, id2, id3}
MCAddrs == {a1}
MCIDOf == p1 :> id1 @@ p2 :> id1 @@ p3 :> id2 @@ p4 :> id3
MCAddrOf == p1 :> a1 @@ p2 :> a1 @@ p3 :> a1 @@ p4 :> NoAddr
MCDirectionOf == p1 :> "Inbound" @@ p2 :> "Outbound"
                    @@ p3 :> "Inbound" @@ p4 :> "Inbound"
=============================================================================
