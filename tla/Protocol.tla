------------------------------ MODULE Protocol ------------------------------
(***************************************************************************)
(* A message is encoded into the client's buffer (protocol_enc.c), sent,   *)
(* and decoded by the client that receives it (protocol_dec.c) with the    *)
(* help of the entry that is pending there.  Other programs send messages  *)
(* that differ: LeaveOut, Replace and Shorten stand for these.             *)
(*                                                                         *)
(* A message has all the fields of the code's union; those that its type   *)
(* does not use are NULL.  Addresses and the ports of nodes are the bytes  *)
(* in memory, in network byte order; the host is little-endian.            *)
(***************************************************************************)
EXTENDS Bencode

CONSTANTS
    HashBytes,   \* HASH_BYTES
    BufLen,      \* UDPBUFLEN
    Exchanges,   \* pairs of a message that is sent and the response that is
                 \* pending where it arrives: NULL for none
    HashNames,   \* what strings of HashBytes bytes stand for
    Tid,         \* what the entry's transaction id stands for
    Longer,      \* transaction ids of which Tid is the beginning
    Spare,       \* lexemes that other programs put in the place of ours
    Tails        \* what the buffer may hold after the data

VARIABLES
    message,   \* the message to send
    entry,     \* what is pending under Tid where it arrives
    buf,       \* the receiver's buffer
    len,       \* how much of it was received
    tree,      \* what BDecode made of that
    decoded,   \* what Message_Decode made of it
    pc

vars == <<message, entry, buf, len, tree, decoded, pc>>

QueryTypes == {"QPing", "QFindNode", "QGetPeers", "QAnnouncePeer"}
ReplyTypes == {"RPing", "RFindNode", "RGetPeers", "RAnnouncePeer", "RError"}

TidBytes == 2
CompactNodeBytes == HashBytes + 6
CompactPeerBytes == 6

WordLen ==
    [w \in {"a", "e", "q", "r", "t", "y"} |-> 1] @@ [w \in {"id"} |-> 2]
    @@ [w \in {"port", "ping"} |-> 4] @@ [w \in {"nodes", "token"} |-> 5]
    @@ [w \in {"target", "values"} |-> 6]
    @@ [w \in {"info_hash", "find_node", "get_peers"} |-> 9]
    @@ [w \in {"announce_peer"} |-> 13]

Word(w) == String(w, WordLen[w])

-----------------------------------------------------------------------------
(* Encoding *)

digits(l) == 1 + Cardinality({p \in {10, 100, 1000, 10000} : l >= p})

StringHeaderLen(n) == digits(n) + 1

BStringLen(n) == StringHeaderLen(n) + n

(* SLen("1:t") *)
TLen(m) == 3 + BStringLen(m.t.n)

HashLen == BStringLen(HashBytes)

ILen(i) == digits(i) + 2

(* SLen("5:nodes") *)
NodesLen(count) == 7 + BStringLen(count * CompactNodeBytes)

(* MUTANT: the marks of the list are not counted. *)
ValuesLen_NoMarks(count) == count * 8

ValuesLen(count) == count * 8 + 2

(* The length that is compared with the room in the buffer: the lengths of *)
(* the constant parts, as they are written, and of what goes between them. *)
PredictedLen(m) ==
    CASE m.type = "QPing"     -> 9 + HashLen + 10 + TLen(m) + 7
      [] m.type = "QFindNode" -> 9 + HashLen + 8 + HashLen + 15 + TLen(m) + 7
      [] m.type = "QGetPeers" -> 9 + HashLen + 11 + HashLen + 15 + TLen(m) + 7
      [] m.type = "QAnnouncePeer" ->
            9 + HashLen + 11 + HashLen + 6 + ILen(m.port) + 7
              + BStringLen(m.token.n) + 20 + TLen(m) + 7
      [] m.type \in {"RPing", "RAnnouncePeer"} -> 9 + HashLen + 1 + TLen(m) + 7
      [] m.type = "RFindNode" ->
            9 + HashLen + NodesLen(Len(m.nodes)) + 1 + TLen(m) + 7
      [] m.type = "RGetPeers" /\ m.values # NULL ->
            9 + HashLen + 7 + BStringLen(m.token.n) + 8 + ValuesLen(Len(m.values))
              + 1 + TLen(m) + 7
      [] m.type = "RGetPeers" /\ m.values = NULL ->
            9 + HashLen + NodesLen(Len(m.nodes)) + 7 + BStringLen(m.token.n)
              + 1 + TLen(m) + 7
      [] m.type = "RError" ->
            5 + ILen(m.code) + BStringLen(m.text.n) + 1 + TLen(m) + 7

(* The shifts write the last byte in memory first. *)
ShiftedOut(bytes) == Reverse(bytes)

NodesCpy(nodes) ==
    <<Word("nodes"),
      Compact([i \in DOMAIN nodes |-> [id |-> nodes[i].id,
                                       addr |-> ShiftedOut(nodes[i].addr),
                                       port |-> ShiftedOut(nodes[i].port)]],
              Len(nodes) * CompactNodeBytes)>>

ValuesCpy(values) ==
    <<Mark("l")>>
      \o [i \in DOMAIN values |-> Compact(<<[addr |-> ShiftedOut(values[i].addr),
                                             port |-> ShiftedOut(values[i].port)]>>,
                                          CompactPeerBytes)]
      \o <<Mark("e")>>

HCpy(h) == String(h, HashBytes)

QueryLexemes(m, arguments, method) ==
    <<Mark("d"), Word("a"), Mark("d"), Word("id"), HCpy(m.id)>> \o arguments
      \o <<Mark("e"), Word("q"), Word(method), Word("t"), m.t,
           Word("y"), Word("q"), Mark("e")>>

ReplyLexemes(m, results) ==
    <<Mark("d"), Word("r"), Mark("d"), Word("id"), HCpy(m.id)>> \o results
      \o <<Mark("e"), Word("t"), m.t, Word("y"), Word("r"), Mark("e")>>

EncodeQueryPing(m) == QueryLexemes(m, <<>>, "ping")

EncodeQueryFindNode(m) ==
    QueryLexemes(m, <<Word("target"), HCpy(m.hash)>>, "find_node")

EncodeQueryGetPeers(m) ==
    QueryLexemes(m, <<Word("info_hash"), HCpy(m.hash)>>, "get_peers")

EncodeQueryAnnouncePeer(m) ==
    QueryLexemes(m, <<Word("info_hash"), HCpy(m.hash),
                      Word("port"), Integer(Decimal(m.port)),
                      Word("token"), m.token>>, "announce_peer")

EncodeResponseFindNode(m) == ReplyLexemes(m, NodesCpy(m.nodes))

(* Peers or nodes, whichever message_create.c has set. *)
EncodeResponseGetPeers(m) ==
    ReplyLexemes(m,
        IF m.values # NULL
        THEN <<Word("token"), m.token, Word("values")>> \o ValuesCpy(m.values)
        ELSE NodesCpy(m.nodes) \o <<Word("token"), m.token>>)

(* EncodeResponsePing too, which is the same. *)
EncodeResponseAnnouncePeer(m) == ReplyLexemes(m, <<>>)

EncodeResponseError(m) ==
    <<Mark("d"), Word("e"), Mark("l"), Integer(Decimal(m.code)), m.text,
      Mark("e"), Word("t"), m.t, Word("y"), Word("e"), Mark("e")>>

EncodeLexemes(m) ==
    CASE m.type = "QPing"         -> EncodeQueryPing(m)
      [] m.type = "QFindNode"     -> EncodeQueryFindNode(m)
      [] m.type = "QGetPeers"     -> EncodeQueryGetPeers(m)
      [] m.type = "QAnnouncePeer" -> EncodeQueryAnnouncePeer(m)
      [] m.type = "RFindNode"     -> EncodeResponseFindNode(m)
      [] m.type = "RGetPeers"     -> EncodeResponseGetPeers(m)
      [] m.type = "RError"        -> EncodeResponseError(m)
      [] m.type \in {"RPing", "RAnnouncePeer"} -> EncodeResponseAnnouncePeer(m)

-----------------------------------------------------------------------------
(* Decoding.  Each operator is the message that the function of that name  *)
(* makes of m; a field keeps NULL when the function returns before it.     *)

NoMessage == [type |-> "MUnknown", errors |-> {}, t |-> NULL, id |-> NULL,
              hash |-> NULL, token |-> NULL, port |-> NULL, nodes |-> NULL,
              values |-> NULL, code |-> NULL, text |-> NULL]

Error(m, error) == [m EXCEPT !.errors = @ \cup {error}]

IsString(node) == node.type = "BString"

(* IsInfoHashNode, and the same conditions on ids and targets. *)
IsHash(node) == IsString(node) /\ node.lexeme.n = HashBytes

GetMessageType(dict) ==
    LET yVal == BNode_GetValue(dict, "y")
    IN  IF IsString(yVal) /\ yVal.lexeme.n = 1 THEN yVal.lexeme.v ELSE NULL

SetTransactionId(m, dict) ==
    LET tVal == BNode_GetValue(dict, "t")
    IN  IF IsString(tVal) THEN [m EXCEPT !.t = [tVal.lexeme EXCEPT !.pad = 0]]
        ELSE Error(m, "tid")

SetId(m, arguments) ==
    LET idVal == BNode_GetValue(arguments, "id")
    IN  IF arguments.type = "BDictionary" /\ IsHash(idVal)
        THEN [m EXCEPT !.id = idVal.lexeme.v] ELSE Error(m, "id")

SetQueryId(m, dict) == SetId(m, BNode_GetValue(dict, "a"))

SetResponseId(m, dict) == SetId(m, BNode_GetValue(dict, "r"))

Methods == [ping |-> "QPing", find_node |-> "QFindNode",
            get_peers |-> "QGetPeers", announce_peer |-> "QAnnouncePeer"]

SetQueryType(m, dict) ==
    LET qVal == BNode_GetValue(dict, "q")
    IN  IF IsString(qVal) /\ qVal.lexeme.v \in DOMAIN Methods
        THEN [m EXCEPT !.type = Methods[qVal.lexeme.v]]
        ELSE Error(m, "method")

(* SetQueryFindNodeData and SetQueryGetPeersData *)
SetQueryHash(m, arguments, key) ==
    LET hash == BNode_GetValue(arguments, key)
    IN  IF IsHash(hash) THEN [m EXCEPT !.hash = hash.lexeme.v] ELSE Error(m, "data")

SetQueryAnnouncePeerData(m, arguments) ==
    LET info_hash == BNode_GetValue(arguments, "info_hash")
        port      == BNode_GetValue(arguments, "port")
        token     == BNode_GetValue(arguments, "token")
    IN  IF /\ IsHash(info_hash)
           /\ port.type = "BInteger"
           /\ Strtol(port.lexeme.text) \in 0 .. 65535
           /\ IsString(token)
        THEN [m EXCEPT !.hash = info_hash.lexeme.v,
                       !.port = Strtol(port.lexeme.text),
                       !.token = [token.lexeme EXCEPT !.pad = 0]]
        ELSE Error(m, "data")

SetQueryData(m, dict) ==
    LET arguments == BNode_GetValue(dict, "a")
    IN  CASE m.errors # {} \/ m.type = "QPing" -> m
          [] m.errors = {} /\ m.type = "QFindNode" ->
                SetQueryHash(m, arguments, "target")
          [] m.errors = {} /\ m.type = "QGetPeers" ->
                SetQueryHash(m, arguments, "info_hash")
          [] m.errors = {} /\ m.type = "QAnnouncePeer" ->
                SetQueryAnnouncePeerData(m, arguments)

Outcome(kind, m) == [kind |-> kind, m |-> m]

(* SetQueryData asserts that the method was known. *)
DecodeQuery(dict) ==
    LET m == SetTransactionId(SetQueryId(SetQueryType(NoMessage, dict), dict), dict)
    IN  IF m.type \in QueryTypes THEN Outcome("message", SetQueryData(m, dict))
        ELSE Outcome("aborted", m)

(* MUTANT: the port is taken as it is. *)
CompactAddress_PortAsIs(x) ==
    [x EXCEPT !.addr = Reverse(@)]

(* ntohl and ntohs, on a little-endian host. *)
CompactAddress(x) == [x EXCEPT !.addr = Reverse(@), !.port = Reverse(@)]

SetCompactNodeInfo(m, string) ==
    IF string.lexeme.n % CompactNodeBytes # 0 THEN Error(m, "data")
    ELSE [m EXCEPT !.nodes = [i \in 1 .. string.lexeme.n \div CompactNodeBytes |->
                                 CompactAddress(string.lexeme.items[i])]]

IsPeer(node) == IsString(node) /\ node.lexeme.n = CompactPeerBytes

(* Up to the first one that is not a peer; the array has room for all. *)
SetCompactPeerInfo(m, list) ==
    LET n == [m EXCEPT !.values = [i \in DOMAIN list.nodes |->
                  IF \A j \in 1 .. i : IsPeer(list.nodes[j])
                  THEN CompactAddress(list.nodes[i].lexeme.items[1]) ELSE NULL]]
    IN  IF \A i \in DOMAIN list.nodes : IsPeer(list.nodes[i]) THEN n
        ELSE Error(n, "data")

SetResponseGetPeersData(m, arguments) ==
    LET token  == BNode_GetValue(arguments, "token")
        values == BNode_GetValue(arguments, "values")
        nodes  == BNode_GetValue(arguments, "nodes")
        n      == [m EXCEPT !.token = [token.lexeme EXCEPT !.pad = 0]]
    IN  CASE ~IsString(token) -> Error(m, "data")
          [] IsString(token) /\ values # None /\ nodes # None -> Error(n, "data")
          [] IsString(token) /\ values.type = "BList" /\ nodes = None ->
                SetCompactPeerInfo(n, values)
          [] IsString(token) /\ values = None /\ IsString(nodes) ->
                SetCompactNodeInfo(n, nodes)
          [] OTHER -> Error(n, "data")

SetResponseData(m, dict) ==
    LET arguments == BNode_GetValue(dict, "r")
        nodes     == BNode_GetValue(arguments, "nodes")
    IN  CASE m.type \in {"RPing", "RAnnouncePeer"} -> m
          [] m.type \in {"RFindNode", "RGetPeers"}
             /\ arguments.type # "BDictionary" -> Error(m, "data")
          [] m.type = "RFindNode" /\ arguments.type = "BDictionary" ->
                IF IsString(nodes) THEN SetCompactNodeInfo(m, nodes)
                ELSE Error(m, "data")
          [] m.type = "RGetPeers" /\ arguments.type = "BDictionary" ->
                SetResponseGetPeersData(m, arguments)

(* Whether getPendingResponse may find the entry, by the first two bytes   *)
(* of t.  Of a shorter one it reads bytes that were never written.         *)
MayFind(t) == CASE entry = NULL -> {FALSE}
                [] entry # NULL /\ t.n < TidBytes -> BOOLEAN
                [] entry # NULL /\ t.n >= TidBytes -> {t.v \in Longer \cup {Tid}}

(* MUTANT: the length of the transaction id is not looked at. *)
TidError_Never(m) == m

TidError(m) == IF m.t.n # TidBytes THEN Error(m, "tid") ELSE m

(* getPendingResponse asserts that there is a transaction id, and          *)
(* SetResponseData that the entry gave the message its type.               *)
DecodeResponse(dict, found) ==
    LET t == SetTransactionId(NoMessage, dict)
        m == SetResponseId(TidError(t), dict)
        n == [m EXCEPT !.type = entry.type]
    IN  IF t.t = NULL \/ ~found THEN Outcome("aborted", t)
        ELSE Outcome("message",
                 SetResponseData(IF m.id # entry.id /\ ~entry.is_new
                                 THEN Error(n, "id") ELSE n, dict))

DecodeError(dict) ==
    LET m    == SetTransactionId([NoMessage EXCEPT !.type = "RError"], dict)
        eVal == BNode_GetValue(dict, "e")
        code == eVal.nodes[1]
        text == eVal.nodes[2]
        n    == IF code.type = "BInteger"
                THEN [m EXCEPT !.code = Strtol(code.lexeme.text)]
                ELSE Error(m, "data")
    IN  CASE eVal.type # "BList" -> Outcome("null", m)
          [] eVal.type = "BList" /\ Len(eVal.nodes) # 2 ->
                Outcome("message", Error(m, "data"))
          [] OTHER -> Outcome("message",
                          IF IsString(text)
                          THEN [n EXCEPT !.text = [text.lexeme EXCEPT !.pad = 0]]
                          ELSE Error(n, "data"))

(* Message_Decode of what BDecode has made of the data. *)
Decode(dict, found) ==
    LET y == GetMessageType(dict)
    IN  CASE dict.type # "BDictionary" -> Outcome("message", Error(NoMessage, "type"))
          [] dict.type = "BDictionary" /\ y = "q" -> DecodeQuery(dict)
          [] dict.type = "BDictionary" /\ y = "r" -> DecodeResponse(dict, found)
          [] dict.type = "BDictionary" /\ y = "e" -> DecodeError(dict)
          [] OTHER -> Outcome("message", Error(NoMessage, "type"))

-----------------------------------------------------------------------------
Init ==
    /\ \E x \in Exchanges : message = x[1] /\ entry = x[2]
    /\ buf = <<>>
    /\ len = 0
    /\ tree = None
    /\ decoded = NULL
    /\ pc = "encode"

(* Message_Encode and Send, which fail when the buffer is too small. *)
Message_Encode ==
    /\ pc = "encode"
    /\ IF PredictedLen(message) <= BufLen
       THEN /\ buf' = EncodeLexemes(message)
            /\ len' = Len(EncodeLexemes(message))
            /\ pc' = "sent"
       ELSE pc' = "refused" /\ UNCHANGED <<buf, len>>
    /\ UNCHANGED <<message, entry, tree, decoded>>

(* Another program leaves one or two lexemes out. *)
LeaveOut(i, j) ==
    /\ pc = "sent"
    /\ buf' = SubSeq(buf, 1, i - 1) \o SubSeq(buf, j + 1, len)
    /\ len' = len - (j - i + 1)
    /\ pc' = "varied"
    /\ UNCHANGED <<message, entry, tree, decoded>>

(* Another program puts something else in its place. *)
Replace(i, x) ==
    /\ pc = "sent"
    /\ buf' = [buf EXCEPT ![i] = x]
    /\ pc' = "varied"
    /\ UNCHANGED <<message, entry, len, tree, decoded>>

(* The data ends early; after it are bytes of an earlier datagram, which   *)
(* may have been the same message.                                         *)
Shorten(i, tail) ==
    /\ pc = "sent"
    /\ buf' = SubSeq(buf, 1, i) \o tail
    /\ len' = i
    /\ pc' = "varied"
    /\ UNCHANGED <<message, entry, tree, decoded>>

Message_Decode ==
    /\ pc \in {"sent", "varied"}
    /\ tree' = BDecode(buf, len)
    /\ LET t == IF tree'.type = "BDictionary"
                THEN SetTransactionId(NoMessage, tree').t ELSE NULL
       IN  \E found \in (IF t = NULL THEN {FALSE} ELSE MayFind(t)) :
              decoded' = Decode(tree', found)
    /\ pc' = "done"
    /\ UNCHANGED <<message, entry, buf, len>>

Next ==
    \/ Message_Encode
    \/ \E i \in 1 .. len : \/ \E j \in {i, i + 1} \cap 1 .. len : LeaveOut(i, j)
                           \/ \E x \in Spare : Replace(i, x)
                            \/ \E tail \in Tails \cup {SubSeq(buf, i + 1, len)} :
                                    Shorten(i, tail)
    \/ Message_Decode

Spec == Init /\ [][Next]_vars

-----------------------------------------------------------------------------
Width(x) == CASE x.kind = "s" -> BStringLen(x.n) + x.pad
              [] x.kind = "i" -> Len(x.text) + 2
              [] OTHER        -> 1

TotalWidth(lexemes) == FoldLeft(LAMBDA sum, x : sum + Width(x), 0, lexemes)

(* The length that each encoder works out from constants and counts before *)
(* it writes is the length it writes: nothing is written past the buffer,  *)
(* and no message that fits is refused.                                    *)
LengthIsPredicted ==
    /\ pc = "sent" => TotalWidth(buf) = PredictedLen(message)
    /\ pc = "sent" => TotalWidth(buf) <= BufLen
    /\ pc = "refused" => TotalWidth(EncodeLexemes(message)) > BufLen

(* The entry is the one of the query that the message answers. *)
Expected ==
    message.type \in ReplyTypes \ {"RError"} =>
        /\ entry # NULL
        /\ entry.type = message.type
        /\ entry.id = message.id \/ entry.is_new
        /\ message.t = String(Tid, TidBytes)

(* What is sent as it was encoded is decoded to the same message: keys in  *)
(* the order that the decoder demands, lengths and integers that it reads  *)
(* back, and addresses whose bytes are turned round twice.                 *)
RoundTrip ==
    pc = "done" /\ buf = EncodeLexemes(message) /\ len = Len(buf) /\ Expected
        => decoded = Outcome("message", message)

(* A tree that BDecode returns, written again, is the data it was made     *)
(* from: nothing is accepted that has another meaning or another form,     *)
(* except zeros before the length of an empty string.  Of integers every   *)
(* long is accepted, the least one too, and only as it should be written.  *)
TreeIsTheData ==
    /\ pc = "done" /\ tree # None =>
        LET read == SubSeq(buf, 1, tree.end - 1)
        IN  Written(tree) = [i \in DOMAIN read |->
                IF read[i].n = 0 THEN [read[i] EXCEPT !.pad = 0] ELSE read[i]]
    /\ pc = "done" =>
        \A i \in 1 .. len : buf[i].kind = "i" =>
            (BDecode_integer(buf[i].text) <=>
                /\ IsDelimited(buf[i].text) /\ Last(buf[i].text) \in Digits
                /\ Strtol(buf[i].text) \in -LongMax - 1 .. LongMax
                /\ Canonical(buf[i]) = buf[i])

(* More lists and dictionaries have begun than ended, after every lexeme. *)
LeftOpen ==
    \A i \in 1 .. len :
        Cardinality({j \in 1 .. i : buf[j].kind \in {"d", "l"}})
            > Cardinality({j \in 1 .. i : buf[j].kind = "e"})


(* The binary search finds the value of every key that a decoded           *)
(* dictionary has, and of no other.                                        *)
KeysAreFound ==
    pc = "done" /\ tree.type = "BDictionary" =>
        \A dict \in {tree} \cup {n \in Range(tree.nodes) : n.type = "BDictionary"} :
            \A key \in Range(StringOrder) :
                BNode_GetValue(dict, key) = ValueOf(dict, key)

(* A message without errors has what the handlers of its type use, however *)
(* the datagram differs from what this program sends; a reply has the type *)
(* that was expected and a transaction id that the client could have made. *)
ErrorFreeIsComplete ==
    pc = "done" /\ decoded.kind = "message" /\ decoded.m.errors = {} =>
        LET m == decoded.m
        IN  /\ m.t # NULL
            /\ m.type # "RError" => m.id \in HashNames
            /\ m.type \in {"QFindNode", "QGetPeers", "QAnnouncePeer"} => m.hash \in HashNames
            /\ m.type = "QAnnouncePeer" => m.token # NULL /\ m.port \in 0 .. 65535
            /\ m.type \in ReplyTypes \ {"RError"} =>
                  entry # NULL /\ m.type = entry.type /\ m.t.n = TidBytes
            /\ m.type = "RFindNode" => m.nodes # NULL
            /\ m.type = "RGetPeers" =>
                  m.token # NULL /\ (m.nodes = NULL <=> m.values # NULL)
            /\ m.type = "RError" => m.code # NULL /\ m.text # NULL

=============================================================================
