----------------------------- MODULE Responder -----------------------------
(***************************************************************************)
(* The client's other side: it answers the queries of remote nodes         *)
(* (handle.c, message_create.c), keeps the peers they announce (peers.c)   *)
(* and hands out the tokens that announcing takes (client.c).              *)
(*                                                                         *)
(* A pass of Dht_Process is cut into steps by pc as in Client; its         *)
(* searches and queries are left out.  Replies to these queries still      *)
(* arrive; RPing stands for all of them, which do the same to its table.   *)
(* OddTid is a ping whose transaction id is not two bytes long.            *)
(* An asker announces one port: the peer is known by the asker.            *)
(*                                                                         *)
(* SHA1 makes of a secret and an address a token that no other pair makes, *)
(* and of the old secrets a new one that was never used: a token is that   *)
(* pair and secrets are counted.                                           *)
(***************************************************************************)
EXTENDS Search

CONSTANTS
    OwnId,          \* client->node.id
    Askers,         \* remote nodes, and the peers at their addresses
    InfoHashes,     \* the hashes they ask for
    Kinds,          \* the kinds of messages that they send
    SecretsLen,     \* SECRETS_LEN
    MaxPeers,       \* MAXPEERS
    SendFails,      \* sendto may fail
    StartTime,
    MaxTime,        \* bound: the clock stops here
    MaxSecret,      \* bound on the number of secrets
    MaxInbox        \* bound on the messages at hand

ASSUME ResponderAssumption ==
    /\ OwnId \in Hashes
    /\ Askers \subseteq Hashes
    /\ InfoHashes \subseteq Hashes
    /\ Kinds \subseteq {"QPing", "QFindNode", "QGetPeers", "QAnnouncePeer",
                        "RPing", "OddTid", "BadData", "NoTid", "UnknownMethod"}
    /\ SecretsLen \in Nat \ {0}
    /\ MaxPeers \in Nat
    /\ SendFails \in BOOLEAN
    /\ StartTime \in Nat /\ StartTime >= Respite
    /\ MaxTime \in Nat /\ MaxSecret \in Nat /\ MaxInbox \in Nat
    /\ NULL \notin Nat

VARIABLES
    now,
    table,      \* client->table
    peers,      \* client->peers, by info_hash
    secrets,    \* client->secrets, the current one first
    incoming,   \* client->incoming, a stack
    replies,    \* client->replies, a stack
    pc,
    inbox,      \* datagrams that the socket holds
    issued      \* the tokens that have been sent, each with the secret of
                \* its time

vars == <<now, table, peers, secrets, incoming, replies, pc, inbox, issued>>

Secrets == 1 .. SecretsLen

Init ==
    /\ now = StartTime
    /\ table = Table_Create(OwnId)
    /\ peers = [ih \in InfoHashes |-> NULL]
    /\ secrets = [i \in Secrets |-> SecretsLen - i]
    /\ incoming = <<>>
    /\ replies = <<>>
    /\ pc = "idle"
    /\ inbox = <<>>
    /\ issued = {}

-----------------------------------------------------------------------------
(* The peers of one info_hash: the time of each one's last announce, and a *)
(* count kept beside them.                                                 *)

Peers_Create == [time |-> [p \in Askers |-> NULL], count |-> 0]

Peers_GetPeers(ps) == {p \in Askers : ps.time[p] # NULL}

(* MUTANT: a peer that is already there is counted again. *)
Peers_AddPeer_CountTwice(ps, p, time) ==
    [time |-> [ps.time EXCEPT ![p] = time], count |-> ps.count + 1]

(* Below the limit only. *)
Peers_AddPeer(ps, p, time) ==
    [time  |-> [ps.time EXCEPT ![p] = time],
     count |-> IF p \in Peers_GetPeers(ps) THEN ps.count ELSE ps.count + 1]

Peers_IsFull(ps) == ps.count = MaxPeers

Peers_Clean(ps, cutoff) ==
    LET old == {p \in Peers_GetPeers(ps) : ps.time[p] < cutoff}
    IN  [time  |-> [p \in Askers |-> IF p \in old THEN NULL ELSE ps.time[p]],
         count |-> ps.count - Cardinality(old)]

PeersHashmap_GetSetPeers(ih) ==
    IF peers[ih] = NULL THEN Peers_Create ELSE peers[ih]

-----------------------------------------------------------------------------
(* Tokens *)

MakeToken(from, i) == [addr |-> from, secret |-> secrets[i]]

(* MUTANT: tokens are made with the oldest secret. *)
Client_MakeToken_Oldest(from) == MakeToken(from, SecretsLen)

Client_MakeToken(from) == MakeToken(from, 1)

(* MUTANT: a token is good for every address. *)
Client_IsValidToken_AnyAddress(from, token) ==
    \E i \in Secrets : token.secret = secrets[i]

Client_IsValidToken(from, token) ==
    \E i \in Secrets : token = MakeToken(from, i)

-----------------------------------------------------------------------------
(* The application, between passes *)

Client_NewSecret ==
    /\ pc = "idle"
    /\ secrets[1] < MaxSecret
    /\ secrets' = [i \in Secrets |-> IF i = 1 THEN secrets[1] + 1
                                             ELSE secrets[i - 1]]
    /\ UNCHANGED <<now, table, peers, incoming, replies, pc, inbox, issued>>

CleanPeers(ih) ==
    /\ pc = "idle"
    /\ peers[ih] # NULL
    /\ peers' = [peers EXCEPT ![ih] = Peers_Clean(@, now)]
    /\ UNCHANGED <<now, table, secrets, incoming, replies, pc, inbox, issued>>

Process ==
    /\ pc = "idle"
    /\ pc' = "receive"
    /\ UNCHANGED <<now, table, peers, secrets, incoming, replies, inbox,
                   issued>>

Receive ==
    /\ pc = "receive"
    /\ inbox # <<>>
    /\ inbox' = Tail(inbox)
    /\ incoming' = Append(incoming, Head(inbox))
    /\ Head(inbox).type # "UnknownMethod"
    /\ UNCHANGED <<now, table, peers, secrets, replies, pc, issued>>

(* An unknown method is recorded as an error and as the type MUnknown,     *)
(* which SetQueryData asserts not to be given.                             *)
ReceiveUnknownMethod ==
    /\ pc = "receive"
    /\ inbox # <<>>
    /\ Head(inbox).type = "UnknownMethod"
    /\ inbox' = Tail(inbox)
    /\ pc' = "aborted"
    /\ UNCHANGED <<now, table, peers, secrets, incoming, replies, issued>>

ReceiveNothing ==
    /\ pc = "receive"
    /\ inbox = <<>>
    /\ pc' = "handle"
    /\ UNCHANGED <<now, table, peers, secrets, incoming, replies, inbox,
                   issued>>

-----------------------------------------------------------------------------
(* Client_HandleMessages *)

Query == Last(incoming)

Handling(type) ==
    /\ pc = "handle"
    /\ incoming # <<>>
    /\ Query.type = type
    /\ incoming' = Front(incoming)
    /\ UNCHANGED <<now, secrets, inbox, issued>>

(* Every valid query is noted first. *)
MarkQuery ==
    table' = Table_MarkQuery(table,
                 [Node_Create(Query.from) EXCEPT !.query_time = now], now)

(* The transaction id is copied, of whatever length it is. *)
Message_CreateResponse(type) ==
    [type |-> type, to |-> Query.from, nodes |-> {}, values |-> {},
     token |-> NULL, odd |-> Query.type = "OddTid"]

Message_CreateRFindNode(found) ==
    [Message_CreateResponse("RFindNode") EXCEPT !.nodes = found]

(* Peers or, when there are none, nodes. *)
Message_CreateRGetPeers(values, nodes, token) ==
    [Message_CreateResponse("RGetPeers") EXCEPT
        !.values = values, !.nodes = nodes, !.token = token]

Message_CreateRError == Message_CreateResponse("RError")

(* MUTANT: the replies are sent at the end of the pass. *)
Push_SendLater(reply) ==
    /\ replies' = Append(replies, reply)
    /\ UNCHANGED pc

(* The reply is sent before the next message is handled. *)
Push(reply) ==
    /\ replies' = Append(replies, reply)
    /\ pc' = "send"

(* The nodes of a reply are those of the table, not copies. *)
ClosestIds(t, id) ==
    {NodeAt(t, p).id : p \in Range(Table_GatherClosest(t, id))}

(* MUTANT: there is no reply, which ends the pass. *)
HandleQPing_NoReply ==
    /\ Handling("QPing") \/ Handling("OddTid")
    /\ MarkQuery
    /\ pc' = "idle"
    /\ UNCHANGED <<peers, replies>>

HandleQPing ==
    /\ Handling("QPing") \/ Handling("OddTid")
    /\ MarkQuery
    /\ Push(Message_CreateResponse("RPing"))
    /\ UNCHANGED peers

HandleQFindNode ==
    /\ Handling("QFindNode")
    /\ MarkQuery
    /\ Push(Message_CreateRFindNode(ClosestIds(table', Query.target)))
    /\ UNCHANGED peers

(* Asking for the peers of an info_hash makes room for them. *)
HandleQGetPeers ==
    /\ Handling("QGetPeers")
    /\ MarkQuery
    /\ LET ps == PeersHashmap_GetSetPeers(Query.target)
           found == Peers_GetPeers(ps)
       IN  /\ peers' = [peers EXCEPT ![Query.target] = ps]
           /\ Push(Message_CreateRGetPeers(found,
                       IF found = {} THEN ClosestIds(table', Query.target) ELSE {},
                       Client_MakeToken(Query.from)))

(* At the limit the handler fails: there is no reply, and the pass ends    *)
(* with the messages below unhandled.                                      *)
HandleQAnnouncePeer ==
    /\ Handling("QAnnouncePeer")
    /\ MarkQuery
    /\ LET ps == PeersHashmap_GetSetPeers(Query.target)
       IN  IF ~Client_IsValidToken(Query.from, Query.token)
           THEN Push(Message_CreateRError) /\ UNCHANGED peers
           ELSE IF Peers_IsFull(ps)
           THEN /\ peers' = [peers EXCEPT ![Query.target] = ps]
                /\ pc' = "idle"
                /\ UNCHANGED replies
           ELSE /\ peers' = [peers EXCEPT ![Query.target] =
                                Peers_AddPeer(ps, Query.from, now)]
                /\ Push(Message_CreateResponse("RAnnouncePeer"))

HandleInvalidQuery ==
    /\ Handling("BadData")
    /\ Push(Message_CreateRError)
    /\ UNCHANGED <<table, peers>>

(* Message_CreateResponse asserts that there is a transaction id to copy.  *)
HandleQueryWithoutTid ==
    /\ Handling("NoTid")
    /\ pc' = "aborted"
    /\ UNCHANGED <<table, peers, replies>>

HandleRPing ==
    /\ Handling("RPing")
    /\ table' = Table_MarkReply(table,
                    [Node_Create(Query.from) EXCEPT !.reply_time = now],
                    "RPing", now)
    /\ UNCHANGED <<peers, replies, pc>>

(* Client_Send for the replies. *)
SendReply ==
    /\ pc = "send"
    /\ ~Last(replies).odd
    /\ replies' = Front(replies)
    /\ issued' = IF Last(replies).token = NULL THEN issued
                 ELSE issued \cup {[token |-> Last(replies).token,
                                    at |-> secrets[1]]}
    /\ pc' = IF replies' = <<>> THEN "handle" ELSE "send"
    /\ UNCHANGED <<now, table, peers, secrets, incoming, inbox>>

(* SendMessage asserts that the transaction id is two bytes long. *)
SendReplyOfOddTid ==
    /\ pc = "send"
    /\ Last(replies).odd
    /\ replies' = Front(replies)
    /\ pc' = "aborted"
    /\ UNCHANGED <<now, table, peers, secrets, incoming, inbox, issued>>

(* The reply is lost; Client_HandleMessages goes on. *)
SendFailure ==
    /\ SendFails
    /\ pc = "send"
    /\ ~Last(replies).odd
    /\ replies' = Front(replies)
    /\ pc' = "handle"
    /\ UNCHANGED <<now, table, peers, secrets, incoming, inbox, issued>>

(* The end of Dht_Process, which sends what replies there still are. *)
HandledAll ==
    /\ pc = "handle"
    /\ incoming = <<>>
    /\ pc' = IF replies = <<>> THEN "idle" ELSE "send"
    /\ UNCHANGED <<now, table, peers, secrets, incoming, replies, inbox,
                   issued>>

-----------------------------------------------------------------------------
(* The remote nodes and the clock (external).  A token that is announced   *)
(* with has been handed out, to whomever.                                  *)

Messages ==
    [type : Kinds \cap {"QPing", "RPing", "OddTid", "BadData", "NoTid",
                        "UnknownMethod"}, from : Askers]
      \cup [type : Kinds \cap {"QFindNode", "QGetPeers"}, from : Askers,
            target : InfoHashes]
      \cup [type : Kinds \cap {"QAnnouncePeer"}, from : Askers,
            target : InfoHashes, token : {i.token : i \in issued}]

Arrive(m) ==
    /\ Len(inbox) + Len(incoming) < MaxInbox
    /\ inbox' = Append(inbox, m)
    /\ UNCHANGED <<now, table, peers, secrets, incoming, replies, pc, issued>>

(* A pass takes less than a second. *)
Tick ==
    /\ pc = "idle"
    /\ now < MaxTime
    /\ now' = now + 1
    /\ UNCHANGED <<table, peers, secrets, incoming, replies, pc, inbox, issued>>

ClientStep ==
    \/ Process \/ Receive \/ ReceiveUnknownMethod \/ ReceiveNothing
    \/ HandleQPing \/ HandleQFindNode \/ HandleQGetPeers
    \/ HandleQAnnouncePeer \/ HandleInvalidQuery \/ HandleQueryWithoutTid
    \/ HandleRPing
    \/ SendReply \/ SendReplyOfOddTid \/ SendFailure \/ HandledAll

Next == \/ ClientStep
        \/ Client_NewSecret
        \/ \E ih \in InfoHashes : CleanPeers(ih)
        \/ \E m \in Messages : Arrive(m)
        \/ Tick

Spec == Init /\ [][Next]_vars

(* The application keeps calling Dht_Process.  Until an assertion fails    *)
(* some ClientStep is possible, so that this is its weak fairness.         *)
FairSpec == Spec /\ (<>[](pc = "aborted") \/ []<><<ClientStep>>_vars)

-----------------------------------------------------------------------------
(* The state has its types: the table, and the count of peers that         *)
(* Peers_AddPeer and Peers_Clean assert to be in 0 .. MAXPEERS.            *)
TypeOK ==
    /\ IsTable(table)
    /\ pc \in {"idle", "receive", "handle", "send", "aborted"}
    /\ \A ih \in InfoHashes : peers[ih] # NULL =>
           peers[ih].count \in 0 .. MaxPeers
    /\ pc = "send" => replies # <<>>

(* The count of an info_hash's peers, by which further ones are refused,   *)
(* is their number, through renewals and cleaning.                         *)
PeerCountsMatch ==
    \A ih \in InfoHashes : peers[ih] # NULL =>
        peers[ih].count = Cardinality(Peers_GetPeers(peers[ih]))

(* client.h: "Past secrets are kept to give a grace period for slow        *)
(* announcers": a token is accepted from its address until the secret has  *)
(* changed SECRETS_LEN times since it was sent, and not after.             *)
GracePeriod ==
    \A i \in issued : Client_IsValidToken(i.token.addr, i.token)
                         <=> secrets[1] - i.at < SecretsLen

(* Only who was given a token is stored as a peer: nobody announces        *)
(* another address.                                                        *)
PeersHeldTokens ==
    \A ih \in InfoHashes : peers[ih] # NULL =>
        \A p \in Peers_GetPeers(peers[ih]) : \E i \in issued :
            i.token.addr = p

(* work.c: "We must send any RGetPeers before its Nodes might be destroyed *)
(* by some other action": the nodes of a reply are still in the table when *)
(* it is sent.                                                             *)
RepliesHoldLiveNodes ==
    \A i \in DOMAIN replies : replies[i].nodes \subseteq StoredIds(table)

(* handle.h: HandleInvalidQuery "makes a suitable RError", and             *)
(* message_create.c has one for an unknown method and one for a bad        *)
(* transaction id: an invalid query is received and gets its error.        *)
InvalidQueriesAreAnswered ==
    [][/\ pc = "receive" /\ inbox # <<>> /\ inbox' = Tail(inbox)
             => incoming' # incoming
       /\ pc = "handle" /\ incoming # <<>> /\ incoming' = Front(incoming)
          /\ Query.type \in {"BadData", "NoTid"}
             => replies' # replies /\ Last(replies').type = "RError"]_vars

(* What has been received is handled, although the queue is a stack and    *)
(* more keeps arriving on top: every pass handles all of it, as long as no *)
(* handler fails.                                                          *)
QueriesAreHandled == incoming # <<>> ~> incoming = <<>>

=============================================================================
