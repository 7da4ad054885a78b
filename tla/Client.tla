------------------------------- MODULE Client -------------------------------
(***************************************************************************)
(* A client (client.c, dht.c, work.c, handle.c, network.c) that searches   *)
(* the network, and the remote nodes that answer it.                       *)
(*                                                                         *)
(* The program is one thread.  The application calls Dht_AddNode,          *)
(* Dht_AddSearch and, again and again, Dht_Process, whose passes are cut   *)
(* into steps by pc: queries are made for every search, finished searches  *)
(* are destroyed, the queries are sent, what has arrived is decoded, and   *)
(* what was decoded is handled.  The remote nodes and the network act      *)
(* between any two of these steps; the clock advances between passes.      *)
(*                                                                         *)
(* A Search is known to messages by its address, context.  Addresses are   *)
(* not reused here: a context that no longer names a live search is a      *)
(* dangling pointer, and following it leads to pc = "undefined".  A failed *)
(* assertion leads to pc = "aborted".                                      *)
(***************************************************************************)
EXTENDS Search

CONSTANTS
    OwnId,          \* client->node.id
    Remotes,        \* addresses of remote nodes, named by the ids they are known by
    RealId,         \* the id each of them sends in its replies
    Contacts,       \* the nodes that decoding the replies of each of them yields
    Holders,        \* those that send peers, and not nodes, for get_peers
    Queriers,       \* those that send us queries
    Strays,         \* what else they send: some of StrayKinds
    Bootstrap,      \* the addresses the application adds
    Targets,        \* the targets of the searches the application adds
    TidSpace,       \* the number of transaction ids, 2^16
    SendFails,      \* sendto may fail
    Duplicates,     \* the network may duplicate replies
    ErrorReplies,   \* remote nodes may answer with an error
    Prompt,         \* answers arrive before the next pass and the next second
    StartTime,
    MaxTime,        \* bound: the clock stops here
    MaxT,           \* bound on next_t, when answers are not prompt
    MaxInbox        \* bound on the messages at hand when a query arrives

(* Datagrams that neither ping nor answer: data that is no dictionary or   *)
(* has an unknown y (MUnknown), a reply that nothing is pending for,       *)
(* queries of an unknown method, without a transaction id, with one that   *)
(* is not two bytes long or with unusable arguments, and an error without  *)
(* its list.                                                               *)
StrayKinds == {"MUnknown", "Unsolicited", "UnknownMethod", "NoTid", "OddTid",
               "BadData", "NoList"}

ASSUME ClientAssumption ==
    /\ OwnId \in Hashes
    /\ Remotes \subseteq Hashes
    /\ RealId \in [Remotes -> Remotes]
    /\ Contacts \in [Remotes -> Seq(Remotes \cup {OwnId})]
    /\ Holders \subseteq Remotes
    /\ Queriers \subseteq Remotes
    /\ Strays \subseteq StrayKinds
    /\ Bootstrap \subseteq Remotes
    /\ Targets \in Seq(Hashes)
    /\ TidSpace \in Nat \ {0}
    /\ SendFails \in BOOLEAN /\ Duplicates \in BOOLEAN
    /\ ErrorReplies \in BOOLEAN /\ Prompt \in BOOLEAN
    /\ StartTime \in Nat /\ StartTime >= Respite
    /\ MaxTime \in Nat /\ MaxT \in Nat /\ MaxInbox \in Nat

Contexts == 1 .. Len(Targets)

Tids == 0 .. TidSpace - 1

Query == [type : {"QPing", "QFindNode", "QGetPeers", "QAnnouncePeer"},
          to : Remotes, is_new : BOOLEAN, context : Contexts \cup {NULL},
          t : Tids]

AsReply == [QPing |-> "RPing", QFindNode |-> "RFindNode",
            QGetPeers |-> "RGetPeers", QAnnouncePeer |-> "RAnnouncePeer"]

ReplyTypes == {"RPing", "RFindNode", "RGetPeers", "RAnnouncePeer"}

(* A ping with a flaw is named for it.  MUnknown has neither bit. *)
MessageType_IsQuery(type) == type \in {"QPing", "NoTid", "OddTid", "BadData"}

MessageType_IsReply(type) == type \in ReplyTypes \cup {"RError"}

(* The entries that are kept for queries whose replies are expected. *)
PendingResponses == [type : ReplyTypes, id : Hashes, context : Contexts \cup {NULL},
                     is_new : BOOLEAN]

ASSUME EntryNotNULL == NULL \notin PendingResponses

(* The null pointer is no search. *)
ASSUME ContextNotNULL == NULL \notin Contexts

VARIABLES
    now,
    table,      \* client->table
    searches,   \* client->searches, by context
    created,    \* the number of searches so far
    queries,    \* client->queries, a stack
    next_t,
    pending,    \* client->pending, by transaction id
    incoming,   \* client->incoming, a stack
    pc,
    at,         \* HandleSearches: the next search
    adding,     \* the search that nodes are being added to, and these nodes
    requests,   \* queries on their way to remote nodes
    inbox,      \* datagrams that the socket holds
    pinged      \* bound: the addresses that Dht_AddNode was given

client == <<table, searches, created, queries, next_t, pending, incoming, pc,
            at, adding, pinged>>

vars == <<now, client, requests, inbox>>

Live == {c \in Contexts : searches[c] # NULL}

Idle == [context |-> NULL, nodes |-> <<>>]

Init ==
    /\ now = StartTime
    /\ table = Table_Create(OwnId)
    /\ searches = [c \in Contexts |-> NULL]
    /\ created = 0
    /\ queries = <<>>
    /\ next_t = 0
    /\ pending = [t \in Tids |-> NULL]
    /\ incoming = <<>>
    /\ pc = "idle"
    /\ at = 1
    /\ adding = Idle
    /\ requests = {}
    /\ inbox = <<>>
    /\ pinged = {}

-----------------------------------------------------------------------------
(* The application *)

(* Message_CreateQuery. next_t is an int, the transaction id its low bits. *)
Message_CreateQuery(type, to, is_new, context, n) ==
    [type |-> type, to |-> to, is_new |-> is_new, context |-> context,
     t |-> n % TidSpace]

(* Dht_AddNode: a ping to an address whose id is not known yet. *)
AddNode(addr) ==
    /\ pc = "idle"
    /\ addr \notin pinged
    /\ next_t < MaxT
    /\ queries' = Append(queries,
                      Message_CreateQuery("QPing", addr, TRUE, NULL, next_t))
    /\ next_t' = next_t + 1
    /\ pinged' = pinged \cup {addr}
    /\ UNCHANGED <<now, table, searches, created, pending, incoming, pc, at,
                   adding, requests, inbox>>

(* Dht_Start and Dht_AddSearch. *)
AddSearch ==
    /\ pc = "idle"
    /\ created < Len(Targets)
    /\ created' = created + 1
    /\ searches' = [searches EXCEPT ![created'] =
                       Search_Create(Targets[created'])]
    /\ adding' = LET places == Table_ForEachNode(table)
                 IN  [context |-> created',
                      nodes |-> [i \in DOMAIN places |->
                                    NodeAt(table, places[i])]]
    /\ pc' = "copy"
    /\ UNCHANGED <<now, table, queries, next_t, pending, incoming, at,
                   requests, inbox, pinged>>

(* Search_CopyTable, one node of the client's table at a time. *)
CopyTable ==
    /\ pc = "copy"
    /\ IF adding.nodes = <<>>
       THEN /\ pc' = "idle"
            /\ adding' = Idle
            /\ UNCHANGED searches
       ELSE /\ searches' = [searches EXCEPT ![adding.context].table =
                   Table_CopyAndAddNode(@, Head(adding.nodes), now)]
            /\ adding' = [adding EXCEPT !.nodes = Tail(@)]
            /\ UNCHANGED pc
    /\ UNCHANGED <<now, table, created, queries, next_t, pending, incoming,
                   at, requests, inbox, pinged>>

-----------------------------------------------------------------------------
(* Dht_Process *)

Process ==
    /\ pc = "idle"
    /\ Prompt => requests = {}
    /\ pc' = "searches"
    /\ at' = 1
    /\ UNCHANGED <<now, table, searches, created, queries, next_t, pending,
                   incoming, adding, requests, inbox, pinged>>

(* Client_HandleSearches: the next search queues its queries. *)
HandleSearches(c) ==
    /\ pc = "searches"
    /\ c >= at
    /\ \A d \in Live : d >= at => c <= d
    /\ \E wanted \in {Queries(searches[c])} :
        /\ Prompt \/ next_t + Len(wanted) <= MaxT
        /\ queries' = queries \o [i \in DOMAIN wanted |->
               Message_CreateQuery(
                   wanted[i].type, NodeAt(searches[c].table, wanted[i].place).id,
                   FALSE, c, next_t + i - 1)]
        /\ next_t' = next_t + Len(wanted)
        /\ searches' = [searches EXCEPT ![c] = Search_DoWork(@, wanted, now)]
    /\ at' = c + 1
    /\ UNCHANGED <<now, table, created, pending, incoming, pc, adding, requests,
                   inbox, pinged>>

(* Where Client_Send leaves the pass. *)
AfterSend(left) == IF left = <<>> THEN "receive" ELSE "send"

(* Client_CleanSearches: after the last search, those that are done go. *)
CleanSearches ==
    /\ pc = "searches"
    /\ \A d \in Live : d < at
    /\ searches' = [c \in Contexts |->
           IF c \in Live /\ Search_IsDone(searches[c], now) THEN NULL
           ELSE searches[c]]
    /\ pc' = AfterSend(queries)
    /\ UNCHANGED <<now, table, created, queries, next_t, pending, incoming,
                   at, adding, requests, inbox, pinged>>

(* The id of a node or a message that was allocated and not filled in. *)
NoId == [i \in BitPositions |-> 0]

(* An address that Dht_AddNode was given has no id yet. *)
PendingResponse(q) == [type |-> AsReply[q.type],
                       id |-> IF q.is_new THEN NoId ELSE q.to,
                       context |-> q.context, is_new |-> q.is_new]

(* MUTANT: a ping is not taken for a query that will be answered. *)
SendMessage_PingsUnexpected ==
    LET q == Last(queries)
    IN  /\ pc = "send"
        /\ queries' = Front(queries)
        /\ requests' = requests \cup {q}
        /\ pending' = IF q.type = "QPing" THEN pending
                      ELSE [pending EXCEPT ![q.t] = PendingResponse(q)]
        /\ pc' = AfterSend(queries')
        /\ UNCHANGED <<now, table, searches, created, next_t, incoming, at,
                       adding, inbox, pinged>>

(* SendMessage: the datagram is sent, then its reply is expected.  When    *)
(* the transaction id is taken, Hashmap_set refuses and the pass ends.     *)
SendMessage ==
    LET q == Last(queries)
    IN  /\ pc = "send"
        /\ queries' = Front(queries)
        /\ requests' = requests \cup {q}
        /\ IF pending[q.t] = NULL
           THEN /\ pending' = [pending EXCEPT ![q.t] = PendingResponse(q)]
                /\ pc' = AfterSend(queries')
           ELSE /\ pc' = "idle"
                /\ UNCHANGED pending
        /\ UNCHANGED <<now, table, searches, created, next_t, incoming, at,
                       adding, inbox, pinged>>

(* sendto fails: that query is lost, and the rest of the pass is left.     *)
SendFailure ==
    /\ SendFails
    /\ pc = "send"
    /\ queries' = Front(queries)
    /\ pc' = "idle"
    /\ UNCHANGED <<now, table, searches, created, next_t, pending, incoming,
                   at, adding, requests, inbox, pinged>>

-----------------------------------------------------------------------------
(* Receiving.  A reply to the query q carries what q asked for.            *)

HasToken(q) == q.type = "QGetPeers"
HasValues(q) == q.type = "QGetPeers" /\ q.to \in Holders
HasNodes(q) == \/ q.type = "QFindNode"
               \/ q.type = "QGetPeers" /\ q.to \notin Holders

(* SetResponseData: a reply of this type needs that data. *)
InvalidData(type, q) == \/ type = "RFindNode" /\ ~HasNodes(q)
                        \/ type = "RGetPeers" /\ ~HasToken(q)

(* MUTANT: takes replies to come in the order of the queries to a node. *)
DecodeResponse_InOrder(q) ==
    LET mine  == {t \in Tids : pending[t] # NULL /\ pending[t].id = q.to}
        entry == pending[IF mine = {} THEN q.t ELSE First(mine)]
    IN  [type |-> entry.type, context |-> entry.context, from |-> RealId[q.to],
         errors |-> FALSE, q |-> q]

(* The message that DecodeResponse makes of a reply to q, by the entry     *)
(* that is pending under its transaction id.                               *)
DecodeResponse(q) ==
    LET entry == pending[q.t]
        from  == RealId[q.to]
    IN  [type |-> entry.type, context |-> entry.context, from |-> from,
         errors |-> \/ from # entry.id /\ ~entry.is_new
                    \/ InvalidData(entry.type, q),
         q |-> q]

(* A reply: its entry is removed.  Without one, the message has no type    *)
(* and SetResponseData asserts that it has.                                *)
ReceiveReply ==
    LET q == Head(inbox).q
    IN  /\ pc = "receive"
        /\ inbox # <<>>
        /\ Head(inbox).y = "r"
        /\ inbox' = Tail(inbox)
        /\ IF pending[q.t] # NULL
           THEN /\ incoming' = Append(incoming, DecodeResponse(q))
                /\ pending' = [pending EXCEPT ![q.t] = NULL]
                /\ UNCHANGED pc
           ELSE /\ pc' = "aborted"
                /\ UNCHANGED <<incoming, pending>>
        /\ UNCHANGED <<now, table, searches, created, queries, next_t, at,
                       adding, requests, pinged>>

(* What is no reply: no entry is looked for.  An error carries no id, and  *)
(* nothing is known of the sender of data that is not understood.          *)
ReceiveOther ==
    LET d == Head(inbox)
    IN  /\ pc = "receive"
        /\ inbox # <<>>
        /\ d.y \in {"q", "e", "MUnknown", "NoTid", "OddTid", "BadData"}
        /\ inbox' = Tail(inbox)
        /\ incoming' = Append(incoming,
               [type |-> CASE d.y = "q" -> "QPing"
                           [] d.y = "e" -> "RError"
                           [] OTHER     -> d.y,
                context |-> NULL,
                errors |-> d.y \in {"MUnknown", "NoTid", "BadData"}, q |-> d.q,
                from |-> IF d.y \in {"e", "MUnknown"} THEN NoId ELSE d.from])
        /\ UNCHANGED <<now, table, searches, created, queries, next_t,
                       pending, pc, at, adding, requests, pinged>>

(* A reply without an entry again, from a node that was not asked, or a    *)
(* query of an unknown method: SetResponseData and SetQueryData assert     *)
(* that the message has a type.                                            *)
ReceiveUnfit ==
    /\ pc = "receive"
    /\ inbox # <<>>
    /\ Head(inbox).y \in {"Unsolicited", "UnknownMethod"}
    /\ inbox' = Tail(inbox)
    /\ pc' = "aborted"
    /\ UNCHANGED <<now, table, searches, created, queries, next_t, pending,
                   incoming, at, adding, requests, pinged>>

(* Message_Decode returns NULL: the rest of the pass is left.              *)
ReceiveFailure ==
    /\ pc = "receive"
    /\ inbox # <<>>
    /\ Head(inbox).y = "NoList"
    /\ inbox' = Tail(inbox)
    /\ pc' = "idle"
    /\ UNCHANGED <<now, table, searches, created, queries, next_t, pending,
                   incoming, at, adding, requests, pinged>>

(* EAGAIN *)
ReceiveNothing ==
    /\ pc = "receive"
    /\ inbox = <<>>
    /\ pc' = "handle"
    /\ UNCHANGED <<now, table, searches, created, queries, next_t, pending,
                   incoming, at, adding, requests, inbox, pinged>>

-----------------------------------------------------------------------------
(* Handling: Client_HandleMessages pops the incoming messages.             *)

Message == Last(incoming)

(* The message's node as ReceiveMessage filled it in. *)
Replier == [Node_Create(Message.from) EXCEPT !.reply_time = now]

Querier == [Node_Create(Message.from) EXCEPT !.query_time = now]

Handling(type) ==
    /\ pc = "handle"
    /\ incoming # <<>>
    /\ Message.type = type /\ ~Message.errors
    /\ incoming' = Front(incoming)

(* What no handler touches. *)
Elsewhere == <<now, created, queries, next_t, pending, at, requests, inbox,
               pinged>>

(* MUTANT: the client's table does not hear of the reply. *)
HandleRPing_Unmarked ==
    /\ Handling("RPing")
    /\ searches' = [c \in Contexts |->
           IF c \notin Live THEN NULL
           ELSE [searches[c] EXCEPT !.table =
                    Table_CopyAndAddNode(@, Replier, now)]]
    /\ UNCHANGED <<table, pc, adding, Elsewhere>>

(* A new node has answered: every search gets a copy. *)
HandleRPing ==
    /\ Handling("RPing")
    /\ table' = Table_MarkReply(table, Replier, "RPing", now)
    /\ searches' = [c \in Contexts |->
           IF c \notin Live THEN NULL
           ELSE [searches[c] EXCEPT !.table =
                    Table_CopyAndAddNode(@, Replier, now)]]
    /\ UNCHANGED <<pc, adding, Elsewhere>>

(* The other replies belong to a search, which marks the reply as well and *)
(* then does Do(c).  Nothing tells whether the search still exists.        *)
HandleSearchReply(type, Do(_)) ==
    /\ Handling(type)
    /\ table' = Table_MarkReply(table, Replier, type, now)
    /\ LET c == Message.context
       IN  IF c \in Live THEN Do(c)
           ELSE pc' = "undefined" /\ UNCHANGED <<searches, adding>>
    /\ UNCHANGED Elsewhere

Marked(c, type) ==
    [searches[c] EXCEPT !.table = Table_MarkReply(@, Replier, type, now)]

(* The nodes of the reply, without ourselves, are about to be added. *)
StartAdding(c) ==
    /\ adding' = LET ids == Within(Contacts[Message.q.to], Remotes \ {OwnId})
                 IN  [context |-> c,
                      nodes |-> [i \in DOMAIN ids |-> Node_Create(ids[i])]]
    /\ pc' = "add"

HandleRFindNode ==
    HandleSearchReply("RFindNode", LAMBDA c :
        /\ searches' = [searches EXCEPT ![c] = Marked(c, "RFindNode")]
        /\ StartAdding(c))

(* The token, and the peers if there are any, are kept by the id. *)
GotPeers(search) ==
    [search EXCEPT
        !.tokens = @ \cup {Message.from},
        !.peers = IF HasValues(Message.q) THEN @ \cup {Message.from} ELSE @]

HandleRGetPeers ==
    HandleSearchReply("RGetPeers", LAMBDA c :
        /\ searches' = [searches EXCEPT ![c] = GotPeers(Marked(c, "RGetPeers"))]
        /\ IF HasNodes(Message.q) THEN StartAdding(c)
           ELSE UNCHANGED <<adding, pc>>)

HandleRAnnouncePeer ==
    HandleSearchReply("RAnnouncePeer", LAMBDA c :
        /\ searches' = [searches EXCEPT ![c] = Marked(c, "RAnnouncePeer")]
        /\ UNCHANGED <<adding, pc>>)

(* MUTANT: the nodes go into the client's table as well. *)
AddSearchNodes_ClientTable ==
    /\ pc = "add"
    /\ IF adding.nodes = <<>>
       THEN /\ pc' = "handle"
            /\ adding' = Idle
            /\ UNCHANGED <<table, searches>>
       ELSE /\ searches' = [searches EXCEPT ![adding.context].table =
                   Table_InsertNode(@, Head(adding.nodes), now).table]
            /\ table' = Table_InsertNode(table, Head(adding.nodes), now).table
            /\ adding' = [adding EXCEPT !.nodes = Tail(@)]
            /\ UNCHANGED pc
    /\ UNCHANGED <<incoming, Elsewhere>>

(* AddSearchNodes, one node at a time. *)
AddSearchNodes ==
    /\ pc = "add"
    /\ IF adding.nodes = <<>>
       THEN /\ pc' = "handle"
            /\ adding' = Idle
            /\ UNCHANGED searches
       ELSE /\ searches' = [searches EXCEPT ![adding.context].table =
                   Table_InsertNode(@, Head(adding.nodes), now).table]
            /\ adding' = [adding EXCEPT !.nodes = Tail(@)]
            /\ UNCHANGED pc
    /\ UNCHANGED <<table, incoming, Elsewhere>>

HandlingInvalid ==
    /\ pc = "handle"
    /\ incoming # <<>>
    /\ Message.errors
    /\ incoming' = Front(incoming)

(* An unexpected id or the wrong data: the searches do not hear of it.     *)
(* Whatever is not a query comes here, and is asserted to be a reply.      *)
HandleInvalidReply ==
    /\ HandlingInvalid
    /\ ~MessageType_IsQuery(Message.type)
    /\ IF MessageType_IsReply(Message.type)
       THEN /\ table' = Table_MarkReply(table, Replier, Message.type, now)
            /\ UNCHANGED pc
       ELSE /\ pc' = "aborted"
            /\ UNCHANGED table
    /\ UNCHANGED <<searches, adding, Elsewhere>>

(* An error is sent back, for which Message_CreateResponse asserts that    *)
(* there is a transaction id to copy.                                      *)
HandleInvalidQuery ==
    /\ HandlingInvalid
    /\ MessageType_IsQuery(Message.type)
    /\ pc' = IF Message.type = "NoTid" THEN "aborted" ELSE pc
    /\ UNCHANGED <<table, searches, adding, Elsewhere>>

(* HandleReply asserts that the type is RPing or RAnnouncePeer. *)
HandleRError ==
    /\ Handling("RError")
    /\ pc' = "aborted"
    /\ UNCHANGED <<table, searches, adding, Elsewhere>>

(* Of the queries from outside only pings, which do to the table what all  *)
(* of them do; Responder has the others and the replies to them.  The      *)
(* reply has the query's transaction id, whose length SendMessage asserts. *)
HandleQPing ==
    /\ Handling("QPing") \/ Handling("OddTid")
    /\ table' = Table_MarkQuery(table, Querier, now)
    /\ pc' = IF Message.type = "OddTid" THEN "aborted" ELSE pc
    /\ UNCHANGED <<searches, adding, Elsewhere>>

HandledAll ==
    /\ pc = "handle"
    /\ incoming = <<>>
    /\ pc' = "idle"
    /\ UNCHANGED <<table, searches, incoming, adding, Elsewhere>>

-----------------------------------------------------------------------------
(* The remote nodes and the network (external) *)

Reply(q) == [y |-> "r", q |-> q, from |-> RealId[q.to]]

(* A request that is never answered is lost, or its reply is. *)
Answer(q) ==
    /\ requests' = requests \ {q}
    /\ inbox' = Append(inbox, Reply(q))
    /\ UNCHANGED <<now, client>>

AnswerTwice(q) ==
    /\ Duplicates
    /\ requests' = requests \ {q}
    /\ inbox' = inbox \o <<Reply(q), Reply(q)>>
    /\ UNCHANGED <<now, client>>

AnswerError(q) ==
    /\ ErrorReplies
    /\ requests' = requests \ {q}
    /\ inbox' = Append(inbox, [Reply(q) EXCEPT !.y = "e"])
    /\ UNCHANGED <<now, client>>

(* A query or something stray. *)
Arrive(r) ==
    /\ Len(inbox) + Len(incoming) < MaxInbox
    /\ \E y \in {"q"} \cup Strays :
          inbox' = Append(inbox, [y |-> y, q |-> NULL, from |-> RealId[r]])
    /\ UNCHANGED <<now, client, requests>>

(* A pass takes less than a second.  Once every search is done the clock   *)
(* would only make nodes older; the bound stops it there.                  *)
Tick ==
    /\ pc = "idle"
    /\ now < MaxTime
    /\ \E c \in Live : /\ searches[c].send_time # 0
                       /\ ~Search_IsDone(searches[c], now)
    /\ Prompt => requests = {} /\ inbox = <<>>
    /\ now' = now + 1
    /\ UNCHANGED <<client, requests, inbox>>

ClientStep ==
    \/ Process \/ \E c \in Live : HandleSearches(c)
    \/ CleanSearches \/ SendMessage \/ SendFailure
    \/ ReceiveReply \/ ReceiveOther \/ ReceiveUnfit
    \/ ReceiveFailure \/ ReceiveNothing
    \/ HandleRPing \/ HandleRFindNode \/ HandleRGetPeers
    \/ HandleRAnnouncePeer \/ AddSearchNodes \/ HandleInvalidReply
    \/ HandleInvalidQuery \/ HandleRError \/ HandleQPing
    \/ HandledAll \/ CopyTable

Next ==
    \/ \E addr \in Bootstrap : AddNode(addr)
    \/ AddSearch
    \/ ClientStep
    \/ \E q \in requests : Answer(q) \/ AnswerTwice(q) \/ AnswerError(q)
    \/ \E r \in Queriers : Arrive(r)
    \/ Tick

Spec == Init /\ [][Next]_vars

(* When ClientStep is enabled, if Prompt holds. *)
CanStep == /\ pc \notin {"aborted", "undefined"}
           /\ pc = "idle" => requests = {}

(* The application keeps calling Dht_Process, remote nodes answer, and     *)
(* time passes between the passes however often they are made.  The first  *)
(* conjunct is WF_vars(ClientStep), its ENABLED spelled out for TLC.       *)
FairSpec == /\ Spec
            /\ []<>~CanStep \/ []<><<ClientStep>>_vars
            /\ WF_vars(\E q \in requests : Answer(q))
            /\ SF_vars(Tick)

-----------------------------------------------------------------------------
Steps == {"idle", "copy", "searches", "send", "receive", "handle", "add",
          "aborted", "undefined"}

(* The client's state has its types: its tables, and those of its          *)
(* searches, stay in the ranges that table.c and bucket.c assert.          *)
TypeOK ==
    /\ now \in Nat /\ next_t \in Nat /\ created \in 0 .. Len(Targets)
    /\ pc \in Steps /\ at \in 1 .. Len(Targets) + 1
    /\ IsTable(table)
    /\ \A c \in Live : /\ searches[c] \in SearchRecord /\ c <= created
                       /\ IsTable(searches[c].table)
    /\ queries \in Seq(Query) /\ requests \subseteq Query
    /\ pending \in [Tids -> PendingResponses \cup {NULL}]
    /\ pc \in {"copy", "add"} => adding.context \in Live

(* The contexts that queued queries, expected replies and decoded messages *)
(* hold.                                                                   *)
HeldContexts ==
    ({queries[i].context : i \in DOMAIN queries}
       \cup {pending[t].context : t \in {u \in Tids : pending[u] # NULL}}
       \cup {incoming[i].context : i \in DOMAIN incoming}) \ {NULL}

(* protocol.h: with a PendingResponse "we ... have a pointer to the        *)
(* context when needed": no search is destroyed while a message may still  *)
(* be handled in its name.                                                 *)
ContextsAreLive == HeldContexts \subseteq Live

(* handle.h: HandleRError "Logs the error and notes that the node replied" *)
(* and HandleInvalidReply "Notes the invalid reply": no reply fails an     *)
(* assertion before it gets there.                                         *)
NeverAborts == pc # "aborted"

(* protocol.h: a PendingResponse "is stored for every query we send", the  *)
(* right one: while transaction ids are fresh, no other query's entry is   *)
(* in its place and none is removed before its reply.                      *)
EveryQueryIsPending ==
    \A q \in requests : pending[q.t] = PendingResponse(q)

(* A reply is handled as the answer to the query it answers, in the name   *)
(* of the search that sent it, however late and in whatever order replies  *)
(* arrive.                                                                 *)
RepliesMatchQueries ==
    \A i \in DOMAIN incoming : incoming[i].type \in ReplyTypes =>
        /\ incoming[i].type = AsReply[incoming[i].q.type]
        /\ incoming[i].context = incoming[i].q.context

(* A node is not held to have more unanswered queries than are queued,     *)
(* expected or being handled: pending_queries, by which it is found Bad,   *)
(* never counts a query that it has answered.                              *)
Outstanding(c, id) ==
      Cardinality({i \in DOMAIN queries : /\ queries[i].context = c
                                          /\ queries[i].to = id})
    + Cardinality({t \in Tids : /\ pending[t] # NULL
                                /\ pending[t].context = c
                                /\ pending[t].id = id})
    + Cardinality({i \in DOMAIN incoming : /\ incoming[i].context = c
                                           /\ incoming[i].from = id})

PendingQueriesAreOutstanding ==
    \A c \in Live : \A p \in Places(searches[c].table) :
        LET node == NodeAt(searches[c].table, p)
        IN  node.pending_queries <= Outstanding(c, node.id)

(* Only nodes that have answered or asked are in the client's own table;   *)
(* nodes that are merely named in replies stay in the searches.            *)
ClientTableIsFirstHand ==
    \A p \in Places(table) : \/ NodeAt(table, p).reply_time # 0
                             \/ NodeAt(table, p).query_time # 0

(* A search ends only when all of the K nodes it knows closest to its      *)
(* target have sent their peers or nodes and have accepted its announce.   *)
DoneSearchesAreComplete ==
    [][\A c \in Live : searches'[c] = NULL =>
          \A i \in DOMAIN Table_ForEachCloseNode(searches[c].table) :
             {"RGetPeers", "RAnnouncePeer"} \subseteq
                NodeAt(searches[c].table,
                       Table_ForEachCloseNode(searches[c].table)[i]).replied]_vars

(* A search that knows of a node gets done, when every node answers. *)
SearchesFinish ==
    \A c \in Contexts :
        (c \in Live /\ Places(searches[c].table) # {}) ~> (c \notin Live)

(* A node the application adds ends up in the client's table. *)
AddedNodesJoin ==
    \A addr \in Bootstrap :
        addr \in pinged ~> RealId[addr] \in StoredIds(table)

=============================================================================
