-------------------------- MODULE ResponderProofs --------------------------
(***************************************************************************)
(* The safety of the answering side, for all sizes of ids, buckets, peer   *)
(* lists and secret windows, any number of askers and any traffic.         *)
(***************************************************************************)
EXTENDS Responder, CloseLemmas

Tokens == [addr : Askers, secret : Int]

(* Every message that could arrive if all tokens were issued. *)
AllMessages ==
    [type : Kinds, from : Askers]
      \cup [type : Kinds, from : Askers, target : InfoHashes]
      \cup [type : Kinds, from : Askers, target : InfoHashes, token : Tokens]

(* A message has the fields that its handler reads, and the token in it is *)
(* one of the tokens sent.                                                 *)
IsMessage(m, sent) ==
    /\ m.from \in Askers
    /\ m.type \in {"QFindNode", "QGetPeers", "QAnnouncePeer"}
         => m.target \in InfoHashes
    /\ m.type = "QAnnouncePeer" => \E i \in sent : m.token = i.token

AreMessages(s, sent) ==
    /\ s \in Seq(AllMessages)
    /\ \A i \in 1 .. Len(s) : IsMessage(s[i], sent)

(* The peers of an info_hash: those that have a time were given a token,   *)
(* and the count is their number.                                          *)
IsPeers(ps, sent) ==
    /\ ps \in [time : [Askers -> Nat \cup {NULL}], count : 0 .. MaxPeers]
    /\ IsFiniteSet(Peers_GetPeers(ps))
    /\ ps.count = Cardinality(Peers_GetPeers(ps))
    /\ \A p \in Peers_GetPeers(ps) : \E i \in sent : i.token.addr = p

(* A reply holds nodes of the table as it is, and a token of the newest    *)
(* secret.                                                                 *)
IsReply(r, t, secret) ==
    /\ r.nodes \subseteq StoredIds(t)
    /\ r.token # NULL => r.token \in Tokens /\ r.token.secret = secret

(* The secrets are consecutive, the newest first. *)
SecretsOK ==
    /\ secrets \in [Secrets -> Int]
    /\ \A i \in Secrets : secrets[i] = secrets[1] - (i - 1)

(* A token was made with the secret of the time it was sent at. *)
IssuedOK ==
    \A i \in issued : /\ i.token \in Tokens
                      /\ i.at \in Int /\ i.at <= secrets[1]
                      /\ i.token.secret = i.at

(* There is a reply exactly while it is being sent. *)
RepliesOK ==
    IF pc = "send" THEN \E r : replies = <<r>> /\ IsReply(r, table, secrets[1])
                   ELSE replies = <<>>

PeersOK ==
    /\ DOMAIN peers = InfoHashes
    /\ \A ih \in InfoHashes : peers[ih] # NULL => IsPeers(peers[ih], issued)

(* The inductive invariant. *)
IndInv ==
    /\ WellFormed(table) /\ now \in Nat
    /\ pc \in {"idle", "receive", "handle", "send", "aborted"}
    /\ SecretsOK /\ IssuedOK /\ RepliesOK /\ PeersOK
    /\ AreMessages(inbox, issued) /\ AreMessages(incoming, issued)

-----------------------------------------------------------------------------
(* What is known of messages and peers stays known as tokens are sent. *)
LEMMA MoreTokens ==
    ASSUME NEW sent, NEW later, sent \subseteq later
    PROVE  /\ \A s : AreMessages(s, sent) => AreMessages(s, later)
           /\ \A ps : IsPeers(ps, sent) => IsPeers(ps, later)
<1>1. ASSUME NEW m, IsMessage(m, sent) PROVE IsMessage(m, later)
  BY <1>1 DEF IsMessage
<1>2. ASSUME NEW s, AreMessages(s, sent) PROVE AreMessages(s, later)
  BY <1>1, <1>2 DEF AreMessages
<1>3. ASSUME NEW ps, IsPeers(ps, sent) PROVE IsPeers(ps, later)
  BY <1>3 DEF IsPeers
<1> QED
  BY <1>2, <1>3

(* Queues of messages, at both ends. *)
LEMMA QueueOK ==
    ASSUME NEW s, NEW sent, AreMessages(s, sent)
    PROVE  /\ s # <<>> => /\ AreMessages(Tail(s), sent)
                          /\ AreMessages(Front(s), sent)
                          /\ Head(s) \in AllMessages /\ IsMessage(Head(s), sent)
                          /\ Last(s) \in AllMessages /\ IsMessage(Last(s), sent)
           /\ \A m \in AllMessages :
                 IsMessage(m, sent) => AreMessages(Append(s, m), sent)
<1>1. s \in Seq(AllMessages) /\ \A i \in 1 .. Len(s) : IsMessage(s[i], sent)
  BY DEF AreMessages
<1>2. ASSUME s # <<>>
      PROVE  /\ AreMessages(Tail(s), sent) /\ AreMessages(Front(s), sent)
             /\ Head(s) \in AllMessages /\ IsMessage(Head(s), sent)
             /\ Last(s) \in AllMessages /\ IsMessage(Last(s), sent)
  <2>1. Len(s) \in Nat /\ Len(s) > 0
    BY <1>1, <1>2
  <2>2. /\ Tail(s) \in Seq(AllMessages) /\ Len(Tail(s)) = Len(s) - 1
        /\ \A i \in 1 .. Len(s) - 1 : Tail(s)[i] = s[i + 1]
    BY <1>1, <1>2
  <2>3. AreMessages(Tail(s), sent)
    BY <1>1, <2>1, <2>2 DEF AreMessages
  <2>4. AreMessages(Front(s), sent)
    BY <1>1, <1>2, FrontLastOK DEF AreMessages
  <2>5. Head(s) = s[1] /\ Last(s) = s[Len(s)]
    BY <1>1, <1>2 DEF Last
  <2>6. s[1] \in AllMessages /\ s[Len(s)] \in AllMessages
    BY <1>1, <2>1
  <2> QED
    BY <1>1, <2>1, <2>3, <2>4, <2>5, <2>6
<1>3. ASSUME NEW m \in AllMessages, IsMessage(m, sent)
      PROVE  AreMessages(Append(s, m), sent)
  <2>1. /\ Append(s, m) \in Seq(AllMessages) /\ Len(Append(s, m)) = Len(s) + 1
        /\ Len(s) \in Nat
        /\ \A i \in 1 .. Len(s) : Append(s, m)[i] = s[i]
        /\ Append(s, m)[Len(s) + 1] = m
    BY <1>1
  <2>2. \A i \in 1 .. Len(s) + 1 : i \in 1 .. Len(s) \/ i = Len(s) + 1
    BY <2>1
  <2> QED
    BY <1>1, <1>3, <2>1, <2>2 DEF AreMessages
<1> QED
  BY <1>2, <1>3

(* The peers that a first query of an info_hash makes room for. *)
LEMMA PeersCreateOK ==
    ASSUME NEW sent
    PROVE  IsPeers(Peers_Create, sent)
<1>1. Peers_GetPeers(Peers_Create) = {}
  BY DEF Peers_GetPeers, Peers_Create
<1> QED
  BY <1>1, FS_EmptySet, ResponderAssumption DEF IsPeers, Peers_Create

(* A peer is counted once, however often it announces itself. *)
LEMMA AddPeerOK ==
    ASSUME NEW ps, NEW sent, IsPeers(ps, sent), ~Peers_IsFull(ps),
           NEW p \in Askers, \E i \in sent : i.token.addr = p,
           NEW time \in Nat
    PROVE  IsPeers(Peers_AddPeer(ps, p, time), sent)
<1> DEFINE new == Peers_AddPeer(ps, p, time)
           had == Peers_GetPeers(ps)
<1>1. /\ ps.time \in [Askers -> Nat \cup {NULL}]
      /\ ps.count \in 0 .. MaxPeers /\ ps.count # MaxPeers
      /\ MaxPeers \in Nat /\ time # NULL
  BY ResponderAssumption DEF IsPeers, Peers_IsFull
<1>2. /\ new.time = [ps.time EXCEPT ![p] = time]
      /\ new.count = IF p \in had THEN ps.count ELSE ps.count + 1
      /\ new = [time |-> new.time, count |-> new.count]
  BY DEF Peers_AddPeer
<1>3. Peers_GetPeers(new) = had \cup {p}
  BY <1>1, <1>2 DEF Peers_GetPeers
<1>4. /\ IsFiniteSet(had) /\ ps.count = Cardinality(had)
  BY DEF IsPeers
<1>5. /\ IsFiniteSet(had \cup {p})
      /\ Cardinality(had \cup {p}) = new.count
  BY <1>2, <1>4, FS_AddElement
<1>6. new.time \in [Askers -> Nat \cup {NULL}] /\ new.count \in 0 .. MaxPeers
  BY <1>1, <1>2
<1>7. \A q \in had \cup {p} : \E i \in sent : i.token.addr = q
  BY DEF IsPeers
<1> HIDE DEF new, had
<1> QED
  BY <1>2, <1>3, <1>5, <1>6, <1>7 DEF IsPeers, new

(* Cleaning takes off the count as many as it removes. *)
LEMMA CleanOK ==
    ASSUME NEW ps, NEW sent, IsPeers(ps, sent), NEW cutoff \in Nat
    PROVE  IsPeers(Peers_Clean(ps, cutoff), sent)
<1> DEFINE new == Peers_Clean(ps, cutoff)
           had == Peers_GetPeers(ps)
           old == {p \in had : ps.time[p] < cutoff}
<1>1. /\ ps.time \in [Askers -> Nat \cup {NULL}]
      /\ ps.count \in 0 .. MaxPeers /\ MaxPeers \in Nat
      /\ IsFiniteSet(had) /\ ps.count = Cardinality(had)
  BY ResponderAssumption DEF IsPeers
<1>2. /\ new.time = [p \in Askers |-> IF p \in old THEN NULL ELSE ps.time[p]]
      /\ new.count = ps.count - Cardinality(old)
      /\ new = [time |-> new.time, count |-> new.count]
  BY DEF Peers_Clean
<1>3. Peers_GetPeers(new) = had \ old
  BY <1>2 DEF Peers_GetPeers
<1>4. /\ IsFiniteSet(old) /\ IsFiniteSet(had \ old)
      /\ Cardinality(old) \in Nat /\ Cardinality(had \ old) \in Nat
      /\ Cardinality(had \ old) = Cardinality(had) - Cardinality(old)
  <2>1. old \subseteq had /\ had \cap old = old
    OBVIOUS
  <2> HIDE DEF old, had
  <2> QED
    <3>1. IsFiniteSet(old) /\ IsFiniteSet(had \ old)
      BY <1>1, <2>1, FS_Subset, FS_Difference
    <3>2. Cardinality(had \ old) = Cardinality(had) - Cardinality(had \cap old)
      BY <1>1, FS_Difference
    <3> QED
      BY <2>1, <3>1, <3>2, FS_CardinalityType
<1>5. new.time \in [Askers -> Nat \cup {NULL}] /\ new.count \in 0 .. MaxPeers
  <2>1. new.time \in [Askers -> Nat \cup {NULL}]
    BY <1>1, <1>2
  <2>2. new.count \in 0 .. MaxPeers
    BY <1>1, <1>2, <1>4
  <2> QED
    BY <2>1, <2>2
<1>6. \A q \in had \ old : \E i \in sent : i.token.addr = q
  BY DEF IsPeers
<1> HIDE DEF new, old
<1>7. new \in [time : [Askers -> Nat \cup {NULL}], count : 0 .. MaxPeers]
  BY <1>2, <1>5
<1>8. new.count = Cardinality(had \ old)
  BY <1>1, <1>2, <1>4
<1> HIDE DEF had
<1> QED
  BY <1>3, <1>4, <1>6, <1>7, <1>8 DEF IsPeers, new

(* The nodes of a reply are of the table. *)
LEMMA ClosestIdsOK ==
    ASSUME NEW t, WellFormed(t), NEW id \in Hashes
    PROVE  ClosestIds(t, id) \subseteq StoredIds(t)
<1>1. Table_GatherClosest(t, id) \in Seq(Places(t))
  BY GatherClosestOK
<1>2. Range(Table_GatherClosest(t, id)) \subseteq Places(t)
  BY <1>1 DEF Range
<1> QED
  BY <1>2 DEF ClosestIds, StoredIds

-----------------------------------------------------------------------------
(* The client starts with an empty table, no peers and no traffic. *)
LEMMA InitOK == Init => IndInv
<1> SUFFICES ASSUME Init PROVE IndInv
  OBVIOUS
<1>1. WellFormed(table) /\ now \in Nat
  BY TableCreateOK, ResponderAssumption DEF Init
<1>2. SecretsOK
  BY ResponderAssumption DEF Init, SecretsOK, Secrets
<1>3. AreMessages(<<>>, issued)
  BY DEF AreMessages
<1>4. PeersOK /\ IssuedOK /\ RepliesOK
  BY DEF Init, PeersOK, IssuedOK, RepliesOK
<1> QED
  BY <1>1, <1>2, <1>3, <1>4 DEF Init, IndInv

(* What every handler finds and leaves alone. *)
LEMMA HandlingOK ==
    ASSUME IndInv, NEW type, Handling(type)
    PROVE  /\ pc = "handle" /\ replies = <<>>
           /\ Query.type = type /\ Query.from \in Askers /\ Query.from \in Hashes
           /\ IsMessage(Query, issued)
           /\ now' = now /\ secrets' = secrets /\ issued' = issued
           /\ now' \in Nat /\ SecretsOK' /\ IssuedOK'
           /\ AreMessages(inbox', issued') /\ AreMessages(incoming', issued')
<1>1. /\ pc = "handle" /\ incoming # <<>> /\ Query.type = type
      /\ incoming' = Front(incoming)
      /\ now' = now /\ secrets' = secrets /\ inbox' = inbox /\ issued' = issued
  BY DEF Handling
<1>2. replies = <<>>
  BY <1>1 DEF IndInv, RepliesOK
<1>3. IsMessage(Query, issued) /\ AreMessages(incoming', issued')
  BY <1>1, QueueOK DEF IndInv, Query
<1>4. Query.from \in Askers /\ Query.from \in Hashes
  BY <1>3, ResponderAssumption DEF IsMessage
<1>5. now' \in Nat /\ SecretsOK' /\ IssuedOK' /\ AreMessages(inbox', issued')
  BY <1>1 DEF IndInv, SecretsOK, IssuedOK
<1> QED
  BY <1>1, <1>2, <1>3, <1>4, <1>5

(* The table after a query or a reply from a remote node. *)
LEMMA MarksOK ==
    ASSUME IndInv, NEW from \in Hashes
    PROVE  /\ WellFormed(Table_MarkQuery(table,
                  [Node_Create(from) EXCEPT !.query_time = now], now))
           /\ WellFormed(Table_MarkReply(table,
                  [Node_Create(from) EXCEPT !.reply_time = now], "RPing", now))
<1> DEFINE asked == [Node_Create(from) EXCEPT !.query_time = now]
           answered == [Node_Create(from) EXCEPT !.reply_time = now]
<1>1. WellFormed(table) /\ now \in Nat
  BY DEF IndInv
<1>2. asked \in Node /\ answered \in Node
  BY <1>1 DEF Node_Create, Node
<1> HIDE DEF asked, answered
<1>3. /\ WellFormed(Table_MarkQuery(table, asked, now))
      /\ WellFormed(Table_MarkReply(table, answered, "RPing", now))
  BY <1>1, <1>2, MarkQueryOK, MarkReplyOK
<1> QED
  BY <1>3 DEF asked, answered

(* The reply that is pushed is the only one. *)
LEMMA PushOK ==
    ASSUME replies = <<>>, NEW r, Push(r), IsReply(r, table', secrets'[1])
    PROVE  RepliesOK' /\ pc' = "send"
<1>1. pc' = "send" /\ replies' = <<r>>
  BY DEF Push
<1> QED
  BY <1>1 DEF RepliesOK

(* The replies hold no node that is not found and no token but the newest. *)
LEMMA ResponsesOK ==
    ASSUME NEW t, NEW secret, NEW found, found \subseteq StoredIds(t),
           NEW values, NEW token \in Tokens, token.secret = secret
    PROVE  /\ \A type : IsReply(Message_CreateResponse(type), t, secret)
           /\ IsReply(Message_CreateRFindNode(found), t, secret)
           /\ IsReply(Message_CreateRGetPeers(values, found, token), t, secret)
           /\ IsReply(Message_CreateRError, t, secret)
BY DEF IsReply, Message_CreateResponse, Message_CreateRFindNode,
       Message_CreateRGetPeers, Message_CreateRError

(* The token of a reply. *)
LEMMA MakeTokenOK ==
    ASSUME SecretsOK, NEW from \in Askers
    PROVE  /\ Client_MakeToken(from) \in Tokens
           /\ Client_MakeToken(from).secret = secrets[1]
<1>1. secrets[1] \in Int
  BY ResponderAssumption DEF SecretsOK, Secrets
<1> QED
  BY <1>1 DEF Client_MakeToken, MakeToken, Tokens

(* A first query of an info_hash makes room for its peers. *)
LEMMA GetSetPeersOK ==
    ASSUME PeersOK, NEW ih \in InfoHashes
    PROVE  IsPeers(PeersHashmap_GetSetPeers(ih), issued)
BY PeersCreateOK DEF PeersOK, PeersHashmap_GetSetPeers

(* Storing one info_hash's peers. *)
LEMMA SetPeersOK ==
    ASSUME PeersOK, NEW ih \in InfoHashes, NEW ps, IsPeers(ps, issued),
           issued' = issued, peers' = [peers EXCEPT ![ih] = ps]
    PROVE  PeersOK'
BY DEF PeersOK

(* The handlers of valid and of invalid messages. *)
LEMMA HandlersOK ==
    ASSUME IndInv,
           \/ HandleQPing \/ HandleQFindNode \/ HandleQGetPeers
           \/ HandleQAnnouncePeer \/ HandleInvalidQuery
           \/ HandleQueryWithoutTid \/ HandleRPing
    PROVE  IndInv'
<1>1. WellFormed(table) /\ PeersOK /\ SecretsOK
  BY DEF IndInv
<1>2. ASSUME NEW type, Handling(type)
      PROVE  /\ pc = "handle" /\ replies = <<>> /\ Query.type = type
             /\ Query.from \in Askers /\ IsMessage(Query, issued)
             /\ now' = now /\ secrets' = secrets /\ issued' = issued
             /\ now' \in Nat /\ SecretsOK' /\ IssuedOK'
             /\ AreMessages(inbox', issued') /\ AreMessages(incoming', issued')
             /\ MarkQuery => WellFormed(table')
             /\ UNCHANGED peers => PeersOK'
             /\ Client_MakeToken(Query.from) \in Tokens
             /\ Client_MakeToken(Query.from).secret = secrets'[1]
  <2>1. /\ pc = "handle" /\ replies = <<>> /\ Query.type = type
        /\ Query.from \in Askers /\ Query.from \in Hashes
        /\ IsMessage(Query, issued)
        /\ now' = now /\ secrets' = secrets /\ issued' = issued
        /\ now' \in Nat /\ SecretsOK' /\ IssuedOK'
        /\ AreMessages(inbox', issued') /\ AreMessages(incoming', issued')
    BY <1>2, HandlingOK
  <2>2. MarkQuery => WellFormed(table')
    BY <2>1, MarksOK DEF MarkQuery
  <2>3. UNCHANGED peers => PeersOK'
    BY <1>1, <2>1 DEF PeersOK
  <2>4. /\ Client_MakeToken(Query.from) \in Tokens
        /\ Client_MakeToken(Query.from).secret = secrets'[1]
    BY <1>1, <2>1, MakeTokenOK
  <2> QED
    BY <2>1, <2>2, <2>3, <2>4
<1>3. CASE HandleQPing
  <2>1. PICK type \in {"QPing", "OddTid"} : Handling(type)
    BY <1>3 DEF HandleQPing
  <2>2. /\ MarkQuery /\ Push(Message_CreateResponse("RPing"))
        /\ UNCHANGED peers
    BY <1>3 DEF HandleQPing
  <2>3. IsReply(Message_CreateResponse("RPing"), table', secrets'[1])
    <3>1. {} \subseteq StoredIds(table')
      OBVIOUS
    <3> QED
      BY <1>2, <2>1, <3>1, ResponsesOK
  <2>4. RepliesOK' /\ pc' = "send"
    BY <1>2, <2>1, <2>2, <2>3, PushOK
  <2> QED
    BY <1>2, <2>1, <2>2, <2>4 DEF IndInv
<1>4. CASE HandleQFindNode
  <2> DEFINE found == ClosestIds(table', Query.target)
  <2>1. /\ Handling("QFindNode") /\ MarkQuery /\ UNCHANGED peers
        /\ Push(Message_CreateRFindNode(found))
    BY <1>4 DEF HandleQFindNode
  <2>2. WellFormed(table') /\ Query.target \in Hashes
    BY <1>2, <2>1, ResponderAssumption DEF IsMessage
  <2>3. found \subseteq StoredIds(table')
    BY <2>2, ClosestIdsOK
  <2> HIDE DEF found
  <2>4. IsReply(Message_CreateRFindNode(found), table', secrets'[1])
    BY <1>2, <2>1, <2>3, ResponsesOK
  <2>5. RepliesOK' /\ pc' = "send"
    BY <1>2, <2>1, <2>4, PushOK
  <2> QED
    BY <1>2, <2>1, <2>5 DEF IndInv
<1>5. CASE HandleQGetPeers
  <2> DEFINE ps == PeersHashmap_GetSetPeers(Query.target)
             values == Peers_GetPeers(ps)
             found == IF values = {} THEN ClosestIds(table', Query.target)
                      ELSE {}
             token == Client_MakeToken(Query.from)
  <2>1. /\ Handling("QGetPeers") /\ MarkQuery
        /\ peers' = [peers EXCEPT ![Query.target] = ps]
        /\ Push(Message_CreateRGetPeers(values, found, token))
    BY <1>5 DEF HandleQGetPeers
  <2>2. WellFormed(table') /\ Query.target \in InfoHashes /\ Query.target \in Hashes
    BY <1>2, <2>1, ResponderAssumption DEF IsMessage
  <2>3. found \subseteq StoredIds(table')
    BY <2>2, ClosestIdsOK
  <2>4. token \in Tokens /\ token.secret = secrets'[1]
    BY <1>2, <2>1
  <2>5. IsPeers(ps, issued)
    BY <1>1, <2>2, GetSetPeersOK
  <2> HIDE DEF found, token, values, ps
  <2>6. IsReply(Message_CreateRGetPeers(values, found, token), table', secrets'[1])
    BY <2>3, <2>4, ResponsesOK
  <2>7. RepliesOK' /\ pc' = "send"
    BY <1>2, <2>1, <2>6, PushOK
  <2>8. PeersOK'
    BY <1>1, <1>2, <2>1, <2>2, <2>5, SetPeersOK
  <2> QED
    BY <1>2, <2>1, <2>7, <2>8 DEF IndInv
<1>6. CASE HandleQAnnouncePeer
  <2> DEFINE ps == PeersHashmap_GetSetPeers(Query.target)
             valid == Client_IsValidToken(Query.from, Query.token)
             added == Peers_AddPeer(ps, Query.from, now)
  <2>1. /\ Handling("QAnnouncePeer") /\ MarkQuery
        /\ \/ Push(Message_CreateRError) /\ UNCHANGED peers
           \/ /\ peers' = [peers EXCEPT ![Query.target] = ps]
              /\ pc' = "idle" /\ UNCHANGED replies
           \/ /\ valid /\ ~Peers_IsFull(ps)
              /\ peers' = [peers EXCEPT ![Query.target] = added]
              /\ Push(Message_CreateResponse("RAnnouncePeer"))
    BY <1>6 DEF HandleQAnnouncePeer
  <2>2. Query.target \in InfoHashes /\ \E i \in issued : Query.token = i.token
    BY <1>2, <2>1 DEF IsMessage
  <2>3. IsPeers(ps, issued)
    BY <1>1, <2>2, GetSetPeersOK
  <2>4. ASSUME NEW type
        PROVE  IsReply(Message_CreateResponse(type), table', secrets'[1])
    <3>1. {} \subseteq StoredIds(table')
      OBVIOUS
    <3> QED
      BY <1>2, <2>1, <3>1, ResponsesOK
  <2>5. CASE Push(Message_CreateRError) /\ UNCHANGED peers
    <3>1. RepliesOK' /\ pc' = "send"
      BY <1>2, <2>1, <2>4, <2>5, PushOK DEF Message_CreateRError
    <3> QED
      BY <1>2, <2>1, <2>5, <3>1 DEF IndInv
  <2>6. CASE /\ peers' = [peers EXCEPT ![Query.target] = ps]
             /\ pc' = "idle" /\ UNCHANGED replies
    <3> HIDE DEF ps
    <3>1. PeersOK'
      BY <1>1, <1>2, <2>1, <2>2, <2>3, <2>6, SetPeersOK
    <3>2. RepliesOK'
      BY <1>2, <2>1, <2>6 DEF RepliesOK
    <3> QED
      BY <1>2, <2>1, <2>6, <3>1, <3>2 DEF IndInv
  <2>7. CASE /\ valid /\ ~Peers_IsFull(ps)
             /\ peers' = [peers EXCEPT ![Query.target] = added]
             /\ Push(Message_CreateResponse("RAnnouncePeer"))
    <3>1. RepliesOK' /\ pc' = "send"
      BY <1>2, <2>1, <2>4, <2>7, PushOK
    <3>2. Query.token.addr = Query.from
      BY <2>7 DEF Client_IsValidToken, MakeToken
    <3>3. \E i \in issued : i.token.addr = Query.from
      BY <2>2, <3>2
    <3>4. now \in Nat /\ Query.from \in Askers
      BY <1>2, <2>1
    <3>5. IsPeers(added, issued)
      <4> HIDE DEF ps
      <4> QED
        BY <2>3, <2>7, <3>3, <3>4, AddPeerOK
    <3> HIDE DEF added, valid
    <3>6. PeersOK'
      BY <1>1, <1>2, <2>1, <2>2, <2>7, <3>5, SetPeersOK
    <3> QED
      BY <1>2, <2>1, <3>1, <3>6 DEF IndInv
  <2> QED
    BY <2>1, <2>5, <2>6, <2>7
<1>7. CASE HandleInvalidQuery
  <2>1. /\ Handling("BadData") /\ Push(Message_CreateRError)
        /\ UNCHANGED <<table, peers>>
    BY <1>7 DEF HandleInvalidQuery
  <2>2. IsReply(Message_CreateRError, table', secrets'[1])
    <3>1. {} \subseteq StoredIds(table')
      OBVIOUS
    <3> QED
      BY <1>2, <2>1, <3>1, ResponsesOK
  <2>3. RepliesOK' /\ pc' = "send"
    BY <1>2, <2>1, <2>2, PushOK
  <2> QED
    BY <1>1, <1>2, <2>1, <2>3 DEF IndInv
<1>8. CASE HandleQueryWithoutTid
  <2>1. /\ Handling("NoTid") /\ pc' = "aborted"
        /\ UNCHANGED <<table, peers, replies>>
    BY <1>8 DEF HandleQueryWithoutTid
  <2>2. RepliesOK'
    BY <1>2, <2>1 DEF RepliesOK
  <2> QED
    BY <1>1, <1>2, <2>1, <2>2 DEF IndInv
<1>9. CASE HandleRPing
  <2>1. /\ Handling("RPing") /\ UNCHANGED <<peers, replies, pc>>
        /\ table' = Table_MarkReply(table,
                       [Node_Create(Query.from) EXCEPT !.reply_time = now],
                       "RPing", now)
    BY <1>9 DEF HandleRPing
  <2>2. WellFormed(table')
    BY <1>2, <2>1, MarksOK, ResponderAssumption
  <2>3. RepliesOK'
    BY <1>2, <2>1 DEF RepliesOK
  <2> QED
    BY <1>2, <2>1, <2>2, <2>3 DEF IndInv
<1> QED
  BY <1>3, <1>4, <1>5, <1>6, <1>7, <1>8, <1>9

(* Sending takes the reply off, whether it gets through or not. *)
LEMMA SendingOK ==
    ASSUME IndInv, SendReply \/ SendReplyOfOddTid \/ SendFailure
    PROVE  IndInv'
<1>1. PICK r : replies = <<r>> /\ IsReply(r, table, secrets[1])
  BY DEF SendReply, SendReplyOfOddTid, SendFailure, IndInv, RepliesOK
<1>2. Front(replies) = <<>> /\ Last(replies) = r
  BY <1>1 DEF Front, Last
<1>3. /\ replies' = <<>> /\ pc' \in {"handle", "aborted"}
      /\ UNCHANGED <<now, table, peers, secrets, incoming, inbox>>
      /\ \/ UNCHANGED issued
         \/ /\ r.token # NULL
            /\ issued' = issued \cup {[token |-> r.token, at |-> secrets[1]]}
  BY <1>2 DEF SendReply, SendReplyOfOddTid, SendFailure
<1>4. RepliesOK' /\ SecretsOK'
  BY <1>3 DEF RepliesOK, SecretsOK, IndInv
<1>5. IssuedOK'
  <2>1. secrets[1] \in Int
    BY ResponderAssumption DEF IndInv, SecretsOK, Secrets
  <2>2. r.token # NULL => r.token \in Tokens /\ r.token.secret = secrets[1]
    BY <1>1 DEF IsReply
  <2> QED
    BY <1>3, <2>1, <2>2 DEF IndInv, IssuedOK
<1>6. issued \subseteq issued'
  BY <1>3
<1>7. AreMessages(inbox', issued') /\ AreMessages(incoming', issued')
  BY <1>3, <1>6, MoreTokens DEF IndInv
<1>8. PeersOK'
  BY <1>3, <1>6, MoreTokens DEF IndInv, PeersOK
<1> QED
  BY <1>3, <1>4, <1>5, <1>7, <1>8 DEF IndInv

(* A new secret shifts the others back by one. *)
LEMMA NewSecretOK ==
    ASSUME IndInv, Client_NewSecret
    PROVE  IndInv'
<1>1. /\ pc = "idle"
      /\ secrets' = [i \in Secrets |-> IF i = 1 THEN secrets[1] + 1
                                                ELSE secrets[i - 1]]
      /\ UNCHANGED <<now, table, peers, incoming, replies, pc, inbox, issued>>
  BY DEF Client_NewSecret
<1>2. /\ secrets \in [Secrets -> Int] /\ 1 \in Secrets
      /\ \A i \in Secrets : secrets[i] = secrets[1] - (i - 1)
  BY ResponderAssumption DEF IndInv, SecretsOK, Secrets
<1>3. secrets[1] \in Int /\ secrets'[1] = secrets[1] + 1
  BY <1>1, <1>2
<1>4. ASSUME NEW i \in Secrets
      PROVE  secrets'[i] \in Int /\ secrets'[i] = secrets'[1] - (i - 1)
  <2>1. CASE i = 1
    BY <1>3, <2>1
  <2>2. CASE i # 1
    <3>1. i \in Int /\ i - 1 \in Secrets
      BY <2>2, ResponderAssumption DEF Secrets
    <3>2. secrets'[i] = secrets[i - 1]
      BY <1>1, <2>2
    <3>3. secrets[i - 1] = secrets[1] - ((i - 1) - 1)
      BY <1>2, <3>1
    <3> QED
      BY <1>3, <3>1, <3>2, <3>3
  <2> QED
    BY <2>1, <2>2
<1>5. SecretsOK'
  BY <1>1, <1>4 DEF SecretsOK
<1>6. IssuedOK'
  BY <1>1, <1>3 DEF IndInv, IssuedOK
<1>7. RepliesOK' /\ PeersOK'
  BY <1>1 DEF IndInv, RepliesOK, PeersOK
<1> QED
  BY <1>1, <1>5, <1>6, <1>7 DEF IndInv

(* What arrives has the fields of its type and a token that was sent. *)
LEMMA MessagesOK ==
    ASSUME IndInv, NEW m \in Messages
    PROVE  m \in AllMessages /\ IsMessage(m, issued)
<1>1. \A i \in issued : i.token \in Tokens
  BY DEF IndInv, IssuedOK
<1>2. CASE m \in [type : Kinds \cap {"QPing", "RPing", "OddTid", "BadData",
                                    "NoTid", "UnknownMethod"}, from : Askers]
  BY <1>2 DEF AllMessages, IsMessage
<1>3. CASE m \in [type : Kinds \cap {"QFindNode", "QGetPeers"}, from : Askers,
                 target : InfoHashes]
  BY <1>3 DEF AllMessages, IsMessage
<1>4. CASE m \in [type : Kinds \cap {"QAnnouncePeer"}, from : Askers,
                 target : InfoHashes, token : {i.token : i \in issued}]
  BY <1>1, <1>4 DEF AllMessages, IsMessage
<1> QED
  BY <1>2, <1>3, <1>4 DEF Messages

(* Every step keeps the invariant. *)
LEMMA NextOK ==
    ASSUME IndInv, [Next]_vars
    PROVE  IndInv'
<1> USE DEF IndInv
<1>1. /\ WellFormed(table) /\ now \in Nat /\ PeersOK
      /\ SecretsOK /\ IssuedOK /\ RepliesOK
      /\ AreMessages(inbox, issued) /\ AreMessages(incoming, issued)
  OBVIOUS
<1>2. ASSUME UNCHANGED <<now, table, peers, secrets, replies, issued>>,
             pc \notin {"send"}, pc' \in {"idle", "receive", "handle", "aborted"},
             AreMessages(inbox', issued), AreMessages(incoming', issued)
      PROVE  IndInv'
  BY <1>1, <1>2 DEF SecretsOK, IssuedOK, PeersOK, RepliesOK
<1>3. CASE Process
  BY <1>1, <1>2, <1>3 DEF Process
<1>4. CASE Receive \/ ReceiveUnknownMethod
  <2>1. /\ pc = "receive" /\ inbox # <<>> /\ inbox' = Tail(inbox)
        /\ UNCHANGED <<now, table, peers, secrets, replies, issued>>
        /\ pc' \in {"receive", "aborted"}
        /\ \/ incoming' = Append(incoming, Head(inbox))
           \/ UNCHANGED incoming
    BY <1>4 DEF Receive, ReceiveUnknownMethod
  <2>2. /\ AreMessages(inbox', issued)
        /\ Head(inbox) \in AllMessages /\ IsMessage(Head(inbox), issued)
    BY <1>1, <2>1, QueueOK
  <2>3. AreMessages(incoming', issued)
    BY <1>1, <2>1, <2>2, QueueOK
  <2> QED
    BY <1>2, <2>1, <2>2, <2>3
<1>5. CASE ReceiveNothing
  BY <1>1, <1>2, <1>5 DEF ReceiveNothing
<1>6. CASE HandledAll
  <2>1. replies = <<>>
    BY <1>1, <1>6 DEF HandledAll, RepliesOK
  <2> QED
    BY <1>1, <1>2, <1>6, <2>1 DEF HandledAll
<1>7. ASSUME NEW ih \in InfoHashes, CleanPeers(ih) PROVE IndInv'
  <2>1. /\ pc = "idle" /\ peers[ih] # NULL
        /\ peers' = [peers EXCEPT ![ih] = Peers_Clean(peers[ih], now)]
        /\ UNCHANGED <<now, table, secrets, incoming, replies, pc, inbox, issued>>
    BY <1>7 DEF CleanPeers
  <2>2. IsPeers(Peers_Clean(peers[ih], now), issued)
    BY <1>1, <2>1, CleanOK DEF PeersOK
  <2>3. PeersOK'
    BY <1>1, <2>1, <2>2, SetPeersOK
  <2>4. SecretsOK' /\ IssuedOK' /\ RepliesOK'
    BY <1>1, <2>1 DEF SecretsOK, IssuedOK, RepliesOK
  <2> QED
    BY <1>1, <2>1, <2>3, <2>4
<1>8. ASSUME NEW m \in Messages, Arrive(m) PROVE IndInv'
  <2>1. m \in AllMessages /\ IsMessage(m, issued)
    BY MessagesOK
  <2>2. /\ inbox' = Append(inbox, m)
        /\ UNCHANGED <<now, table, peers, secrets, incoming, replies, pc, issued>>
    BY <1>8 DEF Arrive
  <2>3. AreMessages(inbox', issued')
    BY <1>1, <2>1, <2>2, QueueOK
  <2>4. SecretsOK' /\ IssuedOK' /\ RepliesOK' /\ PeersOK'
    BY <1>1, <2>2 DEF SecretsOK, IssuedOK, RepliesOK, PeersOK
  <2> QED
    BY <1>1, <2>2, <2>3, <2>4
<1>9. CASE Tick \/ UNCHANGED vars
  <2>1. /\ UNCHANGED <<table, peers, secrets, incoming, replies, pc, inbox, issued>>
        /\ now' \in Nat
    BY <1>1, <1>9 DEF Tick, vars
  <2>2. SecretsOK' /\ IssuedOK' /\ RepliesOK' /\ PeersOK'
    BY <1>1, <2>1 DEF SecretsOK, IssuedOK, RepliesOK, PeersOK
  <2> QED
    BY <1>1, <2>1, <2>2
<1>10. CASE ClientStep
  BY <1>3, <1>4, <1>5, <1>6, <1>10, HandlersOK, SendingOK DEF ClientStep
<1> QED
  BY <1>7, <1>8, <1>9, <1>10, NewSecretOK DEF Next

-----------------------------------------------------------------------------
(* The invariant implies what the runs check. *)
LEMMA IndInvImplies ==
    ASSUME IndInv
    PROVE  /\ TypeOK /\ PeerCountsMatch /\ GracePeriod /\ PeersHeldTokens
           /\ RepliesHoldLiveNodes
<1>1. TypeOK
  BY DEF IndInv, TypeOK, WellFormed, PeersOK, IsPeers, RepliesOK
<1>2. PeerCountsMatch /\ PeersHeldTokens
  BY DEF IndInv, PeersOK, IsPeers, PeerCountsMatch, PeersHeldTokens
<1>3. RepliesHoldLiveNodes
  <2>1. CASE replies = <<>>
    BY <2>1 DEF RepliesHoldLiveNodes
  <2>2. CASE replies # <<>>
    <3>1. PICK r : replies = <<r>> /\ IsReply(r, table, secrets[1])
      BY <2>2 DEF IndInv, RepliesOK
    <3> QED
      BY <3>1 DEF RepliesHoldLiveNodes, IsReply
  <2> QED
    BY <2>1, <2>2
<1>4. ASSUME NEW i \in issued
      PROVE  Client_IsValidToken(i.token.addr, i.token)
                <=> secrets[1] - i.at < SecretsLen
  <2>1. /\ i.token \in Tokens /\ i.at \in Int /\ i.at <= secrets[1]
        /\ i.token.secret = i.at
    BY DEF IndInv, IssuedOK
  <2>2. /\ secrets[1] \in Int /\ SecretsLen \in Nat \ {0}
        /\ \A k \in 1 .. SecretsLen : secrets[k] = secrets[1] - (k - 1)
    BY ResponderAssumption DEF IndInv, SecretsOK, Secrets
  <2>3. Client_IsValidToken(i.token.addr, i.token)
           <=> \E k \in 1 .. SecretsLen : i.at = secrets[k]
    <3>1. \A x \in Int : i.token = [addr |-> i.token.addr, secret |-> x]
                            <=> i.at = x
      BY <2>1 DEF Tokens
    <3>2. \A k \in 1 .. SecretsLen : secrets[k] \in Int
      BY DEF IndInv, SecretsOK, Secrets
    <3> QED
      BY <3>1, <3>2 DEF Client_IsValidToken, MakeToken, Secrets
  <2>4. (\E k \in 1 .. SecretsLen : i.at = secrets[1] - (k - 1))
           <=> secrets[1] - i.at < SecretsLen
    <3>1. ASSUME secrets[1] - i.at < SecretsLen
          PROVE  \E k \in 1 .. SecretsLen : i.at = secrets[1] - (k - 1)
      <4> DEFINE k == secrets[1] - i.at + 1
      <4>1. k \in 1 .. SecretsLen /\ i.at = secrets[1] - (k - 1)
        BY <2>1, <2>2, <3>1
      <4> QED
        BY <4>1
    <3> QED
      BY <2>1, <2>2, <3>1
  <2> QED
    BY <2>2, <2>3, <2>4
<1> QED
  BY <1>1, <1>2, <1>3, <1>4 DEF GracePeriod

(* The inductive invariant holds throughout. *)
THEOREM IndInvHolds == Spec => []IndInv
<1>1. IndInv /\ [Next]_vars => IndInv'
  BY NextOK
<1> QED
  BY InitOK, <1>1, PTL DEF Spec

(* The table and the counts of peers stay in the ranges that the code      *)
(* asserts, and there is a reply whenever one is to be sent.               *)
THEOREM TypeCorrect == Spec => []TypeOK
<1>1. IndInv => TypeOK
  BY IndInvImplies
<1> QED
  BY IndInvHolds, <1>1, PTL

(* The count by which peers are refused is their number. *)
THEOREM PeerCountsAreRight == Spec => []PeerCountsMatch
<1>1. IndInv => PeerCountsMatch
  BY IndInvImplies
<1> QED
  BY IndInvHolds, <1>1, PTL

(* A token is valid for its address for SecretsLen secrets, and no longer, *)
(* whatever SecretsLen is and however often the secret changes.            *)
THEOREM TokensLastTheGracePeriod == Spec => []GracePeriod
<1>1. IndInv => GracePeriod
  BY IndInvImplies
<1> QED
  BY IndInvHolds, <1>1, PTL

(* Every stored peer was sent a token at its own address. *)
THEOREM OnlyTokenHoldersArePeers == Spec => []PeersHeldTokens
<1>1. IndInv => PeersHeldTokens
  BY IndInvImplies
<1> QED
  BY IndInvHolds, <1>1, PTL

(* The nodes that a reply points to are in the table until it is sent. *)
THEOREM RepliesPointToLiveNodes == Spec => []RepliesHoldLiveNodes
<1>1. IndInv => RepliesHoldLiveNodes
  BY IndInvImplies
<1> QED
  BY IndInvHolds, <1>1, PTL

=============================================================================
