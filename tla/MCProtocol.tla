----------------------------- MODULE MCProtocol -----------------------------
(* Messages of every type, and the data of other programs, for TLC. *)
EXTENDS Protocol

MCStringOrder ==
    <<"", "a", "announce_peer", "compact", "e", "find_node", "get_peers", "id",
      "id1", "id2", "info_hash", "junk", "long", "nodes", "ping", "port", "q",
      "r", "t", "target", "text", "tok", "token", "tt", "tttt", "values", "y">>

Tt == String("tt", 2)

Basic(type) == [NoMessage EXCEPT !.type = type, !.t = Tt, !.id = "id1"]

Node1 == [id |-> "id1", addr |-> <<10, 1, 2, 3>>, port |-> <<26, 225>>]
Node2 == [id |-> "id2", addr |-> <<127, 0, 0, 1>>, port |-> <<0, 80>>]
Peer1 == [addr |-> <<10, 1, 2, 3>>, port |-> <<225, 26>>]
Peer2 == [addr |-> <<192, 0, 2, 7>>, port |-> <<0, 0>>]

(* None, one of the length of a hash, and one that nearly fills the buffer. *)
Tokens == {String("", 0), String("tok", HashBytes)}
LongToken == String("long", 65400)

MCMessages ==
    {[Basic("QPing") EXCEPT !.t = t] :
        t \in {Tt, String("t", 1), String("tttt", 4)}}
    \cup {[Basic(type) EXCEPT !.hash = "id2"] : type \in {"QFindNode", "QGetPeers"}}
    \cup {[Basic("QAnnouncePeer") EXCEPT !.hash = "id2", !.port = p[1], !.token = p[2]] :
             p \in {0, 6881} \X Tokens \cup {<<65535, LongToken>>}}
    \cup {Basic(type) : type \in {"RPing", "RAnnouncePeer"}}
    \cup {[Basic("RFindNode") EXCEPT !.nodes = nodes] :
             nodes \in {<<>>, <<Node1>>, <<Node1, Node2>>}}
    \cup {[Basic("RGetPeers") EXCEPT !.token = token, !.nodes = <<Node1>>] :
             token \in Tokens \cup {LongToken}}
    \cup {[Basic("RGetPeers") EXCEPT !.token = String("tok", HashBytes), !.values = values] :
             values \in {<<>>, <<Peer1>>, <<Peer1, Peer2>>}}
    \cup {[Basic("RError") EXCEPT !.id = NULL, !.code = 203, !.text = String("text", 9)]}

Entry(type, id, is_new) == [type |-> type, id |-> id, is_new |-> is_new]

(* A reply finds the entry it answers, one of another type, one that is    *)
(* new and so has no id yet, one of another node, or none.                 *)
MCExchanges ==
    UNION {
        {m} \X (IF m.type \in ReplyTypes \ {"RError"}
                THEN {NULL, Entry(m.type, "id1", FALSE), Entry(m.type, "id2", TRUE),
                      Entry(m.type, "id2", FALSE), Entry("RFindNode", "id1", FALSE)}
                ELSE {NULL, Entry("RGetPeers", "id1", FALSE)}) : m \in MCMessages}

MCSpare ==
    {Mark(kind) : kind \in {"d", "l", "e", "cut"}}
      \cup {String("junk", 7), String("r", 1), String("t", 1), String("tttt", 4),
            Lexeme("s", "", 0, <<>>, 1, <<>>), Lexeme("s", "y", 1, <<>>, 1, <<>>)}
      \cup {Integer(<<Minus, 5>>), Integer(<<0, 7>>), Integer(<<Minus, 0>>),
            Integer(<<7, 0, 0, 0, 0>>), Integer(<<1, 0, 0, 0, 0, 0>>),
            \* LONG_MAX, LONG_MIN, and one less
            Integer(<<9, 9, 9, 9, 9>>), Integer(<<Minus, 1, 0, 0, 0, 0, 0>>),
            Integer(<<Minus, 1, 0, 0, 0, 0, 1>>)}

MCTails ==
    {<<>>, <<Mark("e")>>, <<Mark("e"), Mark("e"), Mark("e")>>,
     <<Mark("cut")>>, <<String("junk", 7), Mark("e"), Mark("e")>>}

MCHashNames == {"id1", "id2", "tok"}
MCLonger == {"tttt"}

=============================================================================
