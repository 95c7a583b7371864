------------------------- MODULE SignalingMessages --------------------------
(***************************************************************************)
(* What is on its way between the programs (IceSignaling) is made of the   *)
(* messages they write and read (Messages).                                *)
(***************************************************************************)
EXTENDS IceSignaling, Messages

Codes(seq) == {seq[i].code : i \in DOMAIN seq}

\* What is written at one end is what is read at the other: of everything on
\* its way between a peer and the server, and of the other messages a peer
\* that runs shares the stream with (its announcements, the lists of users),
\* every field is found where it is and the next message is looked for where
\* it begins; of what two connected peers may send each other, no datagram is
\* refused and every field is found (Messages.h, BitTorrentMessages.h,
\* TCPSocket::receiveRequest, ICEConnection::callbackIceRecv).
MessagesArrive ==
    \A p \in Peer :
        /\ Codes(uplink[p])
              \cup (IF p \in here THEN {"Store", "UserListReq", "DebuggingStringMessage"} ELSE {})
           \subseteq ArriveAtServer
        /\ Codes(queue[p] \o inbox[p])
              \cup (IF p \in here THEN {"NewID", "UserListRes", "StoreSuccess", "StoreFailure"} ELSE {})
           \subseteq ArriveAtClient
        /\ conn[p] # {} => ArriveAtPeer = DOMAIN BetweenPeers(1)
=============================================================================
