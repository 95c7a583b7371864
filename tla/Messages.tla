------------------------------ MODULE Messages ------------------------------
(***************************************************************************)
(* The messages between the programs: the fields that serialize writes,    *)
(* with the size that goes before them, and the fields that deserialize    *)
(* reads from as many bytes. The two ends are written apart: the client's  *)
(* Messages.h, the server's Messages.h and, between peers,                 *)
(* BitTorrentMessages.h. What the fields hold is left out.                 *)
(***************************************************************************)
EXTENDS Layout

CONSTANTS DataLengths,  \* lengths of the data of variable length
          UserCounts    \* lengths of the list of users

ASSUME MessagesAssumption == DataLengths \subseteq Nat /\ UserCounts \subseteq Nat

\* The sizes in the code: an ID or a hash, a block of AES, and integers.
Identifier(name) == Field(name, 32)
Key(name) == Field(name, 16)
Uint16(name) == Field(name, 2)
Uint32(name) == Field(name, 4)

\* A message: what is written as its size, and the fields that follow.
Serialized(size, fields) == [size |-> size, fields |-> fields]

-----------------------------------------------------------------------------
(* From the client to the server.                                          *)

GetUserICEInfo(n) == Serialized(32 + n, <<Identifier("userId"), Field("iceCandidateInfo", n)>>)

\* Mutant of AuthorizedICEConnection: the size of the identifier is forgotten.
AuthorizedICEConnectionShort(n) ==
    Serialized(n, <<Field("iceCandidateInfo", n), Uint16("requestId")>>)

\* More than USHRT_MAX bytes are refused.
AuthorizedICEConnection(n) ==
    Serialized(2 + n, <<Field("iceCandidateInfo", n), Uint16("requestId")>>)

AlreadyConnected == Serialized(2, <<Uint16("requestID")>>)
FullCapacity == Serialized(2, <<Uint16("requestID")>>)
DebuggingString(n) == Serialized(n, <<Field("message", n)>>)
UserListRequest == Serialized(32, <<Identifier("fileId")>>)
StoreRequest == Serialized(32 + 32, <<Identifier("myId"), Identifier("fileId")>>)

\* ... and what the server reads from s bytes.
ReadGetUserICEInfo(s) == {Placed("userId", 0, 32), Placed("iceCandidateInfo", 32, s - 32)}
ReadAuthorizedICE(s) == {Placed("iceCandidateInfo", 0, s - 2), Placed("requestId", s - 2, 2)}
ReadAlreadyConnected(s) == {Placed("requestID", 0, 2)}
ReadFullCapacity(s) == {Placed("requestID", 0, 2)}
ReadDebuggingString(s) == {Placed("message", 0, s)}
ReadUserListRequest(s) == {Placed("fileId", 0, 32)}
ReadStoreRequest(s) == {Placed("myId", 0, 32), Placed("fileId", 32, 32)}

-----------------------------------------------------------------------------
(* From the server to the client.                                          *)

NewId == Serialized(32, <<Identifier("id")>>)
UserList(n) == Serialized(n * 32 + 32, <<Identifier("fileId")>> \o [i \in 1..n |-> Identifier("user")])
UserAuthorizedICEData(n) == Serialized(n, <<Field("iceCandidateInfo", n)>>)

\* The length of the data is kept in 16 bits, and not tested.
len(n) == n % 65536

AuthorizeICEConnection(n) ==
    Serialized(2 + len(n) + 32,
            <<Identifier("from"), Field("iceCandidateInfo", n), Uint16("requestId")>>)

\* ... and what the client reads from s bytes.
ReadNewId(s) == {Placed("id", 0, 32)}
ReadUserList(s) ==
    {Placed("fileId", 0, 32)} \cup {Placed("user", i, 32) : i \in {j \in 32..(s - 1) : j % 32 = 0}}
ReadUserAuthorizedICEData(s) == {Placed("iceCandidateInfo", 0, s)}
ReadAuthorizeICEConnection(s) ==
    {Placed("from", 0, 32), Placed("iceCandidateInfo", 32, s - 2 - 32), Placed("requestId", s - 2, 2)}

-----------------------------------------------------------------------------
(* Between peers: all messages begin with the same fields.                 *)

Torrent(size, fields) ==
    Serialized(32 * 2 + 16 + size, <<Identifier("fileId"), Identifier("hash"), Key("initVector")>> \o fields)

DataRequest ==
    Torrent(4 + 2 + 2, <<Uint32("pieceIndex"), Uint16("blockIndex"), Uint16("blocksCount")>>)
CancelDataRequest ==
    Torrent(4 + 2 + 2, <<Uint32("pieceIndex"), Uint16("blockIndex"), Uint16("blocksCount")>>)
PieceOwnershipUpdate == Torrent(4, <<Uint32("pieceIndex")>>)
BlockResponse(n) ==
    Torrent(4 + 2 + n, <<Uint32("pieceIndex"), Uint16("blockIndex"), Field("block", n)>>)
FileBitField(n) == Torrent(n, <<Field("field", n)>>)

\* ... and what the other peer reads from s bytes, from the offset on where
\* the fields of all messages end.
Base == 32 + 32 + 16
ReadTorrent == {Placed("fileId", 0, 32), Placed("hash", 32, 32), Placed("initVector", Base - 16, 16)}

ReadDataRequest(s) == ReadTorrent \cup
    {Placed("pieceIndex", Base, 4), Placed("blockIndex", Base + 4, 2), Placed("blocksCount", Base + 6, 2)}
ReadCancelDataRequest(s) == ReadTorrent \cup
    {Placed("pieceIndex", Base, 4), Placed("blockIndex", Base + 4, 2), Placed("blocksCount", Base + 6, 2)}
ReadPieceOwnershipUpdate(s) == ReadTorrent \cup {Placed("pieceIndex", Base, 4)}
ReadBlockResponse(s) == ReadTorrent \cup
    {Placed("pieceIndex", Base, 4), Placed("blockIndex", Base + 4, 2), Placed("block", Base + 6, s - Base - 6)}

\* A field without a byte is refused.
ReadFileBitField(s) == IF Base >= s THEN {} ELSE ReadTorrent \cup {Placed("field", Base, s - Base)}

-----------------------------------------------------------------------------
\* Before the fields go the code and the size.
Header == <<Field("code", 1), Uint32("size")>>
OnTheWire(m) == TotalLength(Header \o m.fields)

\* A stream is read by the size that is said, and the next message is looked
\* for behind it; a datagram of another length is refused.
ReadFromStream(m) == 1 + 4 + m.size
AcceptedDatagram(m) == OnTheWire(m) >= 5 /\ m.size = OnTheWire(m) - 1 - 4

\* A message and what the other end reads of it.
Exchange(m, Read(_)) == [message |-> m, read |-> Read(m.size)]

\* A status has no fields, and between peers those of all messages.
Status == Exchange(Serialized(0, <<>>), LAMBDA s : {})
TorrentStatus == Exchange(Torrent(0, <<>>), LAMBDA s : ReadTorrent)

ToServer(n) ==
    [GetUserICEInfo |-> Exchange(GetUserICEInfo(n), ReadGetUserICEInfo),
     AuthorizedICEConnection |-> Exchange(AuthorizedICEConnection(n), ReadAuthorizedICE),
     AlreadyConnected |-> Exchange(AlreadyConnected, ReadAlreadyConnected),
     FullCapacity |-> Exchange(FullCapacity, ReadFullCapacity),
     DebuggingStringMessage |-> Exchange(DebuggingString(n), ReadDebuggingString),
     UserListReq |-> Exchange(UserListRequest, ReadUserListRequest),
     Store |-> Exchange(StoreRequest, ReadStoreRequest)]

ToClient(n, u) ==
    [NewID |-> Exchange(NewId, ReadNewId),
     UserAuthorizedICEData |-> Exchange(UserAuthorizedICEData(n), ReadUserAuthorizedICEData),
     AuthorizeICEConnection |->
         Exchange(AuthorizeICEConnection(n), ReadAuthorizeICEConnection),
     UserListRes |-> Exchange(UserList(u), ReadUserList),
     UserAlreadyConnected |-> Status, UserFullCapacity |-> Status,
     ExistsOpositeRequest |-> Status, StoreSuccess |-> Status, StoreFailure |-> Status]

BetweenPeers(n) ==
    [fileInterested |-> TorrentStatus, keepAliveRes |-> TorrentStatus,
     dataRequest |-> Exchange(DataRequest, ReadDataRequest),
     cancelDataRequest |-> Exchange(CancelDataRequest, ReadCancelDataRequest),
     hasPieceUpdate |-> Exchange(PieceOwnershipUpdate, ReadPieceOwnershipUpdate),
     blockResponse |-> Exchange(BlockResponse(n), ReadBlockResponse),
     bitField |-> Exchange(FileBitField(n), ReadFileBitField)]

\* The other end finds every field where it was written.
ReadsBack(e) == e.read = Written(e.message.fields)

\* It also finds where the next message of the stream begins.
ReadsOn(e) == ReadsBack(e) /\ ReadFromStream(e.message) = OnTheWire(e.message)

\* The codes of the messages that arrive as they were meant, whatever they
\* carry. Data the server passes on has to be shorter than 2^16 bytes, and a
\* bitfield has a byte.
Short == {n \in DataLengths : n < 65536}
ArriveAtServer ==
    {c \in DOMAIN ToServer(0) : \A n \in Short : ReadsOn(ToServer(n)[c])}
ArriveAtClient ==
    {c \in DOMAIN ToClient(0, 0) :
        \A n \in Short, u \in UserCounts : ReadsOn(ToClient(n, u)[c])}
ArriveAtPeer ==
    {c \in DOMAIN BetweenPeers(1) : \A n \in DataLengths \ {0} :
        ReadsBack(BetweenPeers(n)[c]) /\ AcceptedDatagram(BetweenPeers(n)[c].message)}
=============================================================================
