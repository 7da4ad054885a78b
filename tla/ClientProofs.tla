---------------------------- MODULE ClientProofs ----------------------------
(***************************************************************************)
(* What holds of the client for all constants: any number of remote nodes, *)
(* searches and transaction ids, and whatever the network does.            *)
(***************************************************************************)
EXTENDS Client, CloseLemmas

Seen(node) == node.reply_time # 0 \/ node.query_time # 0

(* The nodes that the client's table may hold, and those that the table of *)
(* a search with these tokens may hold.                                    *)
TableNodes == {n \in Node : n.id \in Remotes /\ Seen(n)}

SearchNodes(tokens) ==
    {n \in Node : n.id \in Remotes /\ ("RGetPeers" \in n.replied => n.id \in tokens)}

(* The nodes of replies and of the table, on their way into a search. *)
AddedNodes == {n \in Node : n.id \in Remotes}

SearchOK(s) == /\ s \in SearchRecord
               /\ WellFormed(s.table)
               /\ OnlyIn(s.table, SearchNodes(s.tokens))

Datagram == [y : {"q", "r", "e"} \cup StrayKinds, q : Query \cup {NULL},
             from : Remotes]

(* The types of messages that are decoded with an error, and belong to no  *)
(* search.                                                                 *)
Flawed == {"MUnknown", "NoTid", "BadData"}

Decoded == [type : ReplyTypes \cup {"QPing", "OddTid", "RError"} \cup Flawed,
            context : Contexts \cup {NULL}, from : Hashes,
            errors : BOOLEAN, q : Query \cup {NULL}]

(* Replies and errors are about a query; all but errors, and what is not   *)
(* understood at all, have an id.                                          *)
DatagramOK(d) == d \in Datagram /\ (d.y \in {"r", "e"} => d.q \in Query)

DecodedOK(m) == /\ m \in Decoded
                /\ m.type \in ReplyTypes => m.q \in Query
                /\ m.type \notin {"RError", "MUnknown"} => m.from \in Remotes
                /\ m.type \in {"QPing", "OddTid", "RError"} => ~m.errors

ClockOK == now \in Nat \ {0}

TableOK == WellFormed(table) /\ OnlyIn(table, TableNodes)

SearchesOK == /\ searches \in [Contexts -> SearchRecord \cup {NULL}]
              /\ created \in 0 .. Len(Targets)
              /\ at \in 1 .. Len(Targets) + 1
              /\ \A c \in Live : SearchOK(searches[c]) /\ c <= created

QueuesOK == /\ queries \in Seq(Query) /\ requests \in SUBSET Query
            /\ next_t \in Nat
            /\ pending \in [Tids -> PendingResponses \cup {NULL}]
            /\ pc = "send" => queries # <<>>

MessagesOK == /\ inbox \in Seq(Datagram) /\ incoming \in Seq(Decoded)
              /\ \A i \in DOMAIN inbox : DatagramOK(inbox[i])
              /\ \A i \in DOMAIN incoming : DecodedOK(incoming[i])

AddingOK == /\ pc \in Steps
            /\ adding \in [context : Contexts \cup {NULL}, nodes : Seq(AddedNodes)]
            /\ pc \in {"copy", "add"} => adding.context \in Live
            /\ pc = "add" => \A i \in DOMAIN adding.nodes :
                                 adding.nodes[i].replied = {}

TypeInv == ClockOK /\ TableOK /\ SearchesOK /\ QueuesOK /\ MessagesOK /\ AddingOK

-----------------------------------------------------------------------------
(* Transaction ids, as long as they have not been used up *)

IsReply(d) == d.y = "r"

(* No query, request or reply has the transaction id of another one. *)
QueuedApart ==
    \A i \in DOMAIN queries :
        /\ queries[i].t < next_t
        /\ pending[queries[i].t] = NULL
        /\ \A j \in DOMAIN queries : queries[j].t = queries[i].t => j = i
        /\ \A q \in requests : q.t # queries[i].t
        /\ \A k \in DOMAIN inbox : IsReply(inbox[k]) => inbox[k].q.t # queries[i].t

RequestsApart ==
    \A q \in requests :
        /\ q.t < next_t
        /\ pending[q.t] = PendingResponse(q)
        /\ \A r \in requests : r.t = q.t => r = q
        /\ \A k \in DOMAIN inbox : IsReply(inbox[k]) => inbox[k].q.t # q.t

RepliesApart ==
    \A k \in DOMAIN inbox : IsReply(inbox[k]) =>
        /\ inbox[k].q.t < next_t
        /\ pending[inbox[k].q.t] \in {NULL, PendingResponse(inbox[k].q)}

UnusedIsFree == \A t \in Tids : t >= next_t => pending[t] = NULL

TidInv == next_t <= TidSpace =>
    QueuedApart /\ RequestsApart /\ RepliesApart /\ UnusedIsFree
      /\ RepliesMatchQueries

(* The strays that no assertion fails for. *)
Harmless == {"BadData", "NoList"}

(* Without duplicates every reply at hand is expected. *)
RepliesExpected ==
    \A k \in DOMAIN inbox :
        /\ inbox[k].y \in {"q", "r"} \cup Harmless
        /\ IsReply(inbox[k]) =>
              /\ pending[inbox[k].q.t] = PendingResponse(inbox[k].q)
              /\ \A j \in DOMAIN inbox :
                    IsReply(inbox[j]) /\ inbox[j].q.t = inbox[k].q.t => j = k

(* What is decoded is handled without an assertion that fails. *)
NoneFatal ==
    \A i \in DOMAIN incoming :
        incoming[i].type \in ReplyTypes \cup {"QPing", "BadData"}

AbortInv ==
    (~Duplicates /\ ~ErrorReplies /\ Strays \subseteq Harmless
       /\ next_t <= TidSpace) =>
    RepliesExpected /\ NoneFatal /\ pc # "aborted"

-----------------------------------------------------------------------------
(* All close nodes have sent their peers or nodes and accepted the         *)
(* announce.                                                               *)
AllAnswered(t) ==
    \A p \in Places(t) : IsClose(t, t.id, p) =>
        {"RGetPeers", "RAnnouncePeer"} \subseteq NodeAt(t, p).replied

(* A search that this pass has worked on is busy or has all its answers. *)
WorkInv ==
    pc = "searches" =>
        \A c \in Live : c < at => \/ searches[c].send_time = now
                                  \/ AllAnswered(searches[c].table)

-----------------------------------------------------------------------------
(* The queries to id for the search c, by where they are: queued, sent and *)
(* without a reply, answered and not handled.                              *)
Asked(qs, c, id) ==
    Cardinality({i \in DOMAIN qs : qs[i].context = c /\ qs[i].to = id})

Expected(pd, c, id) ==
    Cardinality({t \in Tids : pd[t] # NULL /\ pd[t].context = c /\ pd[t].id = id})

Answered(ms, c, id) ==
    Cardinality({i \in DOMAIN ms : ms[i].context = c /\ ms[i].from = id})

Unsettled(qs, pd, ms, c, id) ==
    Asked(qs, c, id) + Expected(pd, c, id) + Answered(ms, c, id)

(* The nodes that count no more queries than that. *)
Settled(qs, pd, ms, c) ==
    {n \in Node : n.pending_queries <= Unsettled(qs, pd, ms, c, n.id)}

(* Every node answers under the id it is known by. *)
Honest == \A r \in Remotes : RealId[r] = r

(* Only the queries of searches have a context, and their nodes have ids;  *)
(* no reply to a query is found invalid.                                   *)
ContextsOK ==
    /\ \A i \in DOMAIN queries : queries[i].context # NULL =>
          ~queries[i].is_new /\ queries[i].type # "QPing"
    /\ \A t \in Tids : pending[t] # NULL /\ pending[t].context # NULL =>
          ~pending[t].is_new /\ pending[t].type # "RPing"
    /\ \A i \in DOMAIN incoming :
          /\ incoming[i].errors => incoming[i].type \in Flawed
          /\ incoming[i].context # NULL =>
                incoming[i].type \in {"RFindNode", "RGetPeers", "RAnnouncePeer"}

(* Nodes of replies come without queries. *)
AddedUnasked ==
    pc = "add" => \A i \in DOMAIN adding.nodes : adding.nodes[i].pending_queries = 0

SearchesSettled ==
    \A c \in Live : OnlyIn(searches[c].table, Settled(queries, pending, incoming, c))

PendingInv == ~SendFails /\ Honest /\ next_t <= TidSpace =>
    ContextsOK /\ AddedUnasked /\ SearchesSettled

-----------------------------------------------------------------------------
(* The operators of Search *)

(* Within keeps the elements that are in S, and no others. *)
LEMMA WithinOK ==
    ASSUME NEW P, NEW e \in Seq(P), NEW S
    PROVE  /\ Within(e, S) \in Seq(P \cap S)
           /\ \A i \in 1 .. Len(e) : e[i] \in S =>
                 \E j \in 1 .. Len(Within(e, S)) : Within(e, S)[j] = e[i]
<1> DEFINE n == Len(e)
           Acc == Seq(P \cap S)
           Op(c, x) == IF x \in S THEN Append(c, x) ELSE c
           Step == [kc \in (1 .. n) \X Acc |-> Op(kc[2], e[kc[1]])]
           Loop(h) == [s \in SUBSET (1 .. n) |->
                          IF s = {} THEN <<>> ELSE Op(h[s \ {Max(s)}], e[Max(s)])]
           h == CHOOSE f : f = Loop(f)
<1>1. n \in Nat /\ <<>> \in Acc /\ DOMAIN e = 1 .. n /\ \A i \in 1 .. n : e[i] \in P
  OBVIOUS
<1>2. \A i \in 1 .. n, c \in Acc : Op(c, e[i]) \in Acc
  BY <1>1
<1>3. Step \in [(1 .. n) \X Acc -> Acc]
  <2> HIDE DEF Acc, n, Op
  <2> QED
    BY <1>2
<1>4. Within(e, S) = h[1 .. n]
  BY <1>1 DEF Within, FoldLeft, MapThenFoldSet
<1> HIDE DEF Op
<1>5. h = Loop(h)
  <2>1. PICK f \in [SUBSET (1 .. n) -> Acc] : IsFold(f, n, <<>>, Step)
    <3> HIDE DEF n, Acc, Step
    <3> QED
      BY <1>1, <1>3, FoldExists
  <2>2. ASSUME NEW s \in SUBSET (1 .. n), s # {}
        PROVE  Step[<<Max(s), f[s \ {Max(s)}]>>] = Op(f[s \ {Max(s)}], e[Max(s)])
    <3> HIDE DEF n, Acc
    <3>1. Max(s) \in 1 .. n
      BY <1>1, <2>2, MaxOfIndexes
    <3>2. s \ {Max(s)} \in SUBSET (1 .. n)
      OBVIOUS
    <3> QED
      BY <2>1, <3>1, <3>2
  <2>3. f = Loop(f)
    <3> HIDE DEF n, Acc, Step
    <3> QED
      BY <2>1, <2>2 DEF IsFold
  <2> HIDE DEF Loop
  <2> QED
    BY <2>3
<1>6. \A s \in SUBSET (1 .. n) :
         h[s] = IF s = {} THEN <<>> ELSE Op(h[s \ {Max(s)}], e[Max(s)])
  <2> HIDE DEF h, n
  <2> QED
    BY <1>5
<1> HIDE DEF h, n, Loop, Step
<1>7. h[1 .. 0] = <<>>
  <2>1. 1 .. 0 = {} /\ {} \in SUBSET (1 .. n)
    OBVIOUS
  <2> QED
    BY <1>6, <2>1
<1>8. ASSUME NEW k \in 0 .. n - 1
      PROVE  h[1 .. k + 1] = Op(h[1 .. k], e[k + 1])
  <2>1. /\ 1 .. k + 1 \in SUBSET (1 .. n) /\ 1 .. k + 1 # {}
        /\ Max(1 .. k + 1) = k + 1 /\ (1 .. k + 1) \ {k + 1} = 1 .. k
    BY <1>1, FoldOrder
  <2> QED
    BY <1>6, <2>1
<1> DEFINE Has(c, x) == \E j \in 1 .. Len(c) : c[j] = x
           Done(k, c) == \A i \in 1 .. k : e[i] \in S => Has(c, e[i])
           Inv == {k \in 0 .. n : h[1 .. k] \in Acc /\ Done(k, h[1 .. k])}
<1>9. \A c \in Acc : \A x \in P \cap S :
         /\ Append(c, x) \in Acc
         /\ Has(Append(c, x), x)
         /\ \A y : Has(c, y) => Has(Append(c, x), y)
  <2> TAKE c \in Acc
  <2> TAKE x \in P \cap S
  <2>1. /\ Append(c, x) \in Acc /\ Len(Append(c, x)) = Len(c) + 1
        /\ Len(c) \in Nat /\ Append(c, x)[Len(c) + 1] = x
        /\ \A j \in 1 .. Len(c) : Append(c, x)[j] = c[j]
    OBVIOUS
  <2>2. /\ Len(c) + 1 \in 1 .. Len(Append(c, x))
        /\ \A j \in 1 .. Len(c) : j \in 1 .. Len(Append(c, x))
    BY <2>1
  <2> QED
    BY <2>1, <2>2
<1>10. 0 \in Inv
  <2>1. h[1 .. 0] \in Acc /\ Done(0, h[1 .. 0]) /\ 0 \in 0 .. n
    BY <1>1, <1>7
  <2> HIDE DEF Acc, Done
  <2> QED
    BY <2>1
<1>11. ASSUME NEW k \in 0 .. n - 1, k \in Inv PROVE k + 1 \in Inv
  <2> DEFINE c == h[1 .. k]
             d == h[1 .. k + 1]
  <2>1. /\ k \in 0 .. n /\ k + 1 \in 0 .. n /\ k + 1 \in 1 .. n
        /\ \A i \in 1 .. k + 1 : i \in 1 .. k \/ i = k + 1
    BY <1>1
  <2>2. c \in Acc /\ Done(k, c)
    BY <1>11
  <2>3. d = IF e[k + 1] \in S THEN Append(c, e[k + 1]) ELSE c
    BY <1>8 DEF Op
  <2> HIDE DEF c, d, Acc, Has
  <2>4. d \in Acc /\ Done(k + 1, d)
    <3>1. CASE e[k + 1] \in S
      BY <1>1, <1>9, <2>1, <2>2, <2>3, <3>1
    <3>2. CASE e[k + 1] \notin S
      BY <2>1, <2>2, <2>3, <3>2
    <3> QED
      BY <3>1, <3>2
  <2> HIDE DEF Done
  <2> QED
    BY <2>1, <2>4 DEF d
<1> HIDE DEF Inv
<1>12. n \in Inv
  BY <1>1, <1>10, <1>11, BoundedInduction
<1> QED
  BY <1>4, <1>12 DEF Inv, n

(* The node at a place of the table is one of those that it holds. *)
LEMMA NodeAtIn ==
    ASSUME NEW t, WellFormed(t), NEW N, OnlyIn(t, N), NEW p \in Places(t)
    PROVE  NodeAt(t, p) \in N /\ NodeAt(t, p) \in Node
BY PlacesOK DEF OnlyIn, BucketIn, NodeAt

(* Table_ForEachCloseNode visits the close nodes and no others. *)
LEMMA CloseNodesOK ==
    ASSUME NEW t, WellFormed(t)
    PROVE  /\ Table_ForEachCloseNode(t) \in Seq(Places(t))
           /\ \A p \in Places(t) : IsClose(t, t.id, p) <=>
                 \E i \in 1 .. Len(Table_ForEachCloseNode(t)) :
                     Table_ForEachCloseNode(t)[i] = p
<1> DEFINE c == Table_GatherClosest(t, t.id)
           r == Table_ForEachCloseNode(t)
<1>1. t.id \in Hashes
  BY DEF WellFormed, IsTable
<1>2. /\ c \in Seq(Places(t)) /\ Len(c) \in Nat
      /\ \A p \in Places(t) : IsClose(t, t.id, p) <=>
            \E i \in 1 .. Len(c) : c[i] = p
  BY <1>1, GatherClosestOK
<1>3. r = [i \in 1 .. Len(c) |-> c[(Len(c) - i) + 1]]
  BY DEF Table_ForEachCloseNode, Reverse
<1> HIDE DEF c, r
<1>4. \A i \in 1 .. Len(c) : /\ (Len(c) - i) + 1 \in 1 .. Len(c)
                             /\ (Len(c) - ((Len(c) - i) + 1)) + 1 = i
  BY <1>2
<1>5. r \in [1 .. Len(c) -> Places(t)]
  BY <1>2, <1>3, <1>4
<1>6. r \in Seq(Places(t)) /\ Len(r) = Len(c)
  BY <1>2, <1>5, FunctionIsSeq
<1>7. ASSUME NEW i \in 1 .. Len(c)
      PROVE  /\ \E j \in 1 .. Len(r) : r[j] = c[i]
             /\ \E j \in 1 .. Len(c) : c[j] = r[i]
  <2> DEFINE j == (Len(c) - i) + 1
  <2>1. j \in 1 .. Len(c) /\ (Len(c) - j) + 1 = i
    BY <1>4
  <2> HIDE DEF j
  <2>2. r[j] = c[i] /\ r[i] = c[j]
    BY <1>3, <2>1 DEF j
  <2> QED
    BY <1>6, <2>1, <2>2
<1>8. \A p \in Places(t) : (\E i \in 1 .. Len(c) : c[i] = p) <=>
                           \E i \in 1 .. Len(r) : r[i] = p
  BY <1>6, <1>7
<1> QED
  BY <1>2, <1>6, <1>8 DEF r

(* The queries that a search may want to make. *)
Wanted(t) == [type : {"QFindNode", "QGetPeers", "QAnnouncePeer"}, place : Places(t)]

Asking(type, places) ==
    [i \in DOMAIN places |-> [type |-> type, place |-> places[i]]]

(* Asking makes a query of its type to each of the places. *)
LEMMA AskingOK ==
    ASSUME NEW t, NEW places \in Seq(Places(t)),
           NEW type \in {"QFindNode", "QGetPeers", "QAnnouncePeer"}
    PROVE  /\ Asking(type, places) \in Seq(Wanted(t))
           /\ Len(Asking(type, places)) = Len(places)
           /\ \A i \in 1 .. Len(places) : Asking(type, places)[i].type = type
<1>1. Len(places) \in Nat /\ DOMAIN places = 1 .. Len(places)
  OBVIOUS
<1>2. Asking(type, places) \in [1 .. Len(places) -> Wanted(t)]
  BY <1>1 DEF Asking, Wanted
<1>3. \A i \in 1 .. Len(places) : Asking(type, places)[i].type = type
  BY <1>1 DEF Asking
<1> QED
  BY <1>1, <1>2, <1>3, FunctionIsSeq

(* Queries are made to nodes of the table.  When none of them keeps the    *)
(* search busy, all close nodes have answered: those that have sent their  *)
(* token are asked to accept the announce.                                 *)
LEMMA QueriesOK ==
    ASSUME NEW s, SearchOK(s)
    PROVE  /\ Queries(s) \in Seq(Wanted(s.table))
           /\ \/ AllAnswered(s.table)
              \/ \E i \in DOMAIN Queries(s) :
                    Queries(s)[i].type \in {"QGetPeers", "QAnnouncePeer"}
<1> DEFINE t == s.table
           P == Places(t)
           close == Table_ForEachCloseNode(t)
           Open(type) == {p \in P : type \notin NodeAt(t, p).replied}
           Known == {p \in P : NodeAt(t, p).id \in s.tokens}
           a == SendFindNodes(s)
           b == SendGetPeers(s)
           d == Within(close, Open("RAnnouncePeer"))
           c == SendAnnouncePeer(s)
           fa == Asking("QFindNode", a)
           fb == Asking("QGetPeers", b)
           fc == Asking("QAnnouncePeer", c)
           w == (fa \o fb) \o fc
<1>1. WellFormed(t) /\ OnlyIn(t, SearchNodes(s.tokens))
  BY DEF SearchOK
<1>2. /\ close \in Seq(P)
      /\ \A p \in P : IsClose(t, t.id, p) <=>
            \E i \in 1 .. Len(close) : close[i] = p
  BY <1>1, CloseNodesOK
<1>3. Table_ForEachNode(t) \in Seq(P)
  BY <1>1, ForEachNodeOK
<1>4. /\ a = Within(Table_ForEachNode(t), Open("RFindNode"))
      /\ b = Within(close, Open("RGetPeers"))
      /\ c = Within(d, Known)
  BY DEF SendFindNodes, SendGetPeers, SendAnnouncePeer, Unanswered
<1>5. Queries(s) = w
  BY DEF Queries, Asking
<1>6. \A p \in P : NodeAt(t, p) \in SearchNodes(s.tokens)
  BY <1>1, NodeAtIn
<1> HIDE DEF w, fa, fb, fc, a, b, c, close, P, Open, Known
<1>7. a \in Seq(P \cap Open("RFindNode"))
  BY <1>3, <1>4, WithinOK
<1>8. /\ b \in Seq(P \cap Open("RGetPeers"))
      /\ \A i \in 1 .. Len(close) : close[i] \in Open("RGetPeers") =>
            \E j \in 1 .. Len(b) : b[j] = close[i]
  BY <1>2, <1>4, WithinOK
<1>9. /\ d \in Seq(P \cap Open("RAnnouncePeer"))
      /\ \A i \in 1 .. Len(close) : close[i] \in Open("RAnnouncePeer") =>
            \E j \in 1 .. Len(d) : d[j] = close[i]
  BY <1>2, WithinOK
<1> HIDE DEF d
<1>10. d \in Seq(P)
  BY <1>9
<1>11. /\ c \in Seq(P \cap Known)
       /\ \A i \in 1 .. Len(d) : d[i] \in Known =>
             \E j \in 1 .. Len(c) : c[j] = d[i]
  BY <1>4, <1>10, WithinOK
<1>12. a \in Seq(P) /\ b \in Seq(P) /\ c \in Seq(P)
  BY <1>7, <1>8, <1>11
<1>13. /\ fa \in Seq(Wanted(t)) /\ fb \in Seq(Wanted(t)) /\ fc \in Seq(Wanted(t))
       /\ Len(fb) = Len(b) /\ Len(fc) = Len(c)
       /\ \A i \in 1 .. Len(b) : fb[i].type = "QGetPeers"
       /\ \A i \in 1 .. Len(c) : fc[i].type = "QAnnouncePeer"
  BY <1>12, AskingOK DEF fa, fb, fc, P
<1>14. w \in Seq(Wanted(t)) /\ DOMAIN w = 1 .. Len(fa) + Len(fb) + Len(fc)
  <2>1. /\ fa \o fb \in Seq(Wanted(t)) /\ Len(fa \o fb) = Len(fa) + Len(fb)
        /\ fc \in Seq(Wanted(t))
    BY ONLY <1>13, ConcatProperties
  <2>2. /\ w \in Seq(Wanted(t)) /\ Len(w) = Len(fa \o fb) + Len(fc)
        /\ DOMAIN w = 1 .. Len(w)
    BY ONLY <2>1, ConcatProperties DEF w
  <2> QED
    BY <2>1, <2>2
<1>15. ASSUME NEW i \in 1 .. Len(b)
       PROVE  \E k \in DOMAIN w : w[k].type = "QGetPeers"
  <2>1. /\ Len(fa) + i \in DOMAIN w /\ Len(fa) + i \in 1 .. Len(fa) + Len(fb)
        /\ w[Len(fa) + i] = (fa \o fb)[Len(fa) + i]
        /\ (fa \o fb)[Len(fa) + i] = fb[i]
    BY <1>13, <1>14 DEF w
  <2> QED
    BY <1>13, <2>1
<1>16. ASSUME NEW i \in 1 .. Len(c)
       PROVE  \E k \in DOMAIN w : w[k].type = "QAnnouncePeer"
  <2>1. /\ Len(fa) + Len(fb) + i \in DOMAIN w
        /\ w[Len(fa) + Len(fb) + i] = fc[i]
    BY <1>13, <1>14 DEF w
  <2> QED
    BY <1>13, <2>1
<1>17. ASSUME ~\E k \in DOMAIN w : w[k].type \in {"QGetPeers", "QAnnouncePeer"},
              NEW p \in P, IsClose(t, t.id, p)
       PROVE  {"RGetPeers", "RAnnouncePeer"} \subseteq NodeAt(t, p).replied
  <2>1. PICK i \in 1 .. Len(close) : close[i] = p
    BY <1>2, <1>17
  <2>2. p \notin Open("RGetPeers")
    BY <1>8, <1>15, <1>17, <2>1
  <2>3. "RGetPeers" \in NodeAt(t, p).replied
    BY <2>2 DEF Open
  <2>4. p \in Known
    BY <1>6, <2>3 DEF SearchNodes, Known
  <2>5. p \notin Open("RAnnouncePeer")
    <3> SUFFICES ASSUME p \in Open("RAnnouncePeer") PROVE FALSE
      OBVIOUS
    <3>1. PICK j \in 1 .. Len(d) : d[j] = p
      BY <1>9, <2>1
    <3>2. PICK k \in 1 .. Len(c) : c[k] = p
      BY <1>11, <2>4, <3>1
    <3> QED
      BY <1>16, <1>17
  <2> QED
    BY <2>3, <2>5 DEF Open
<1> QED
  BY <1>5, <1>14, <1>17 DEF AllAnswered, P

(* A node whose queries have been counted is the same but for the count. *)
SameButCount(m, n) ==
    /\ n \in Node /\ n.id = m.id /\ n.replied = m.replied

(* Counting the queries leaves the nodes where they are. *)
LEMMA CountQueriesOK ==
    ASSUME NEW t, WellFormed(t), NEW W, NEW qs \in Seq(W)
    PROVE  LET u == CountQueries(t, qs)
           IN  /\ WellFormed(u) /\ u.id = t.id /\ u.end = t.end
               /\ \A b \in 0 .. t.end - 1 :
                     /\ Occupied(u.buckets[b]) = Occupied(t.buckets[b])
                     /\ \A s \in Occupied(t.buckets[b]) :
                           SameButCount(t.buckets[b].nodes[s], u.buckets[b].nodes[s])
<1> DEFINE Sent(p) == Cardinality({i \in DOMAIN qs : qs[i].place = p})
           Count(m, p) == [m EXCEPT !.pending_queries = @ + Sent(p)]
           Slot(b, s) == IF NodeAt(t, <<b, s>>) = NULL THEN NULL
                         ELSE Count(NodeAt(t, <<b, s>>), <<b, s>>)
           New(b) == [t.buckets[b] EXCEPT !.nodes = [s \in Slots |-> Slot(b, s)]]
           bs == [b \in BucketIndexes |-> IF b >= t.end THEN NULL ELSE New(b)]
           u == CountQueries(t, qs)
<1>1. u = [t EXCEPT !.buckets = bs]
  BY DEF CountQueries
<1>2. \A p : Sent(p) \in Nat
  <2> TAKE p
  <2>1. IsFiniteSet(DOMAIN qs)
    <3>1. DOMAIN qs = 1 .. Len(qs) /\ Len(qs) \in Nat /\ 1 \in Int
      OBVIOUS
    <3> QED
      BY <3>1, FS_Interval
  <2>2. {i \in DOMAIN qs : qs[i].place = p} \in SUBSET (DOMAIN qs)
    OBVIOUS
  <2> QED
    BY <2>1, <2>2, FS_Subset, FS_CardinalityType
<1> HIDE DEF Sent
<1>3. \A m \in Node : \A p : SameButCount(m, Count(m, p)) /\ Count(m, p) # NULL
  <2> SUFFICES ASSUME NEW m \in Node, NEW p
               PROVE  SameButCount(m, Count(m, p)) /\ Count(m, p) # NULL
    OBVIOUS
  <2>1. m.pending_queries + Sent(p) \in Nat
    BY <1>2 DEF Node
  <2>2. Count(m, p) \in Node /\ Count(m, p).id = m.id
        /\ Count(m, p).replied = m.replied
    BY <2>1 DEF Node
  <2> QED
    BY <2>2, TableAssumption DEF SameButCount
<1> HIDE DEF Count
<1>4. IsTable(t) /\ \A b \in 0 .. t.end - 1 : b \in BucketIndexes
  BY TableAssumption, HashBitsAssumption
     DEF WellFormed, IsTable, BucketIndexes, MaxBuckets
<1>5. ASSUME NEW b \in 0 .. t.end - 1
      PROVE  /\ BucketOK(New(b))
             /\ Occupied(New(b)) = Occupied(t.buckets[b])
             /\ \A s \in Occupied(t.buckets[b]) :
                   SameButCount(t.buckets[b].nodes[s], New(b).nodes[s])
  <2>1. BucketOK(t.buckets[b])
    BY DEF WellFormed
  <2>2. \A s \in Slots : t.buckets[b].nodes[s] \in Node \cup {NULL}
    BY <2>1 DEF BucketOK, Bucket
  <2>3. \A s \in Slots : Slot(b, s) \in Node \cup {NULL}
    BY <1>3, <2>2 DEF SameButCount, NodeAt
  <2>4. \A s \in Slots : t.buckets[b].nodes[s] # NULL =>
           /\ Slot(b, s) # NULL
           /\ SameButCount(t.buckets[b].nodes[s], Slot(b, s))
    BY <1>3, <2>2 DEF NodeAt
  <2>5. \A s \in Slots : t.buckets[b].nodes[s] = NULL => Slot(b, s) = NULL
    BY DEF NodeAt
  <2> HIDE DEF Slot
  <2>6. /\ New(b) \in Bucket /\ New(b).count = t.buckets[b].count
        /\ \A s \in Slots : New(b).nodes[s] = Slot(b, s)
    BY <2>1, <2>3 DEF BucketOK, Bucket
  <2> HIDE DEF New
  <2>7. Occupied(New(b)) = Occupied(t.buckets[b])
    BY <2>4, <2>5, <2>6 DEF Occupied
  <2>8. \A s \in Occupied(t.buckets[b]) :
           SameButCount(t.buckets[b].nodes[s], New(b).nodes[s])
    BY <2>4, <2>6 DEF Occupied
  <2>9. BucketOK(New(b))
    BY <2>1, <2>6, <2>7, <2>8 DEF BucketOK, SameButCount
  <2> QED
    BY <2>7, <2>8, <2>9
<1> HIDE DEF New
<1>6. ASSUME NEW b \in BucketIndexes
      PROVE  IF b < t.end THEN b \in 0 .. t.end - 1 /\ bs[b] = New(b)
                          ELSE bs[b] = NULL
  BY <1>4 DEF BucketIndexes, IsTable
<1>7. bs \in [BucketIndexes -> Bucket \cup {NULL}]
  BY <1>5, <1>6 DEF BucketOK
<1> HIDE DEF bs
<1>8. /\ u.id = t.id /\ u.end = t.end /\ u.buckets = bs
      /\ u \in [id : Hashes, end : 1 .. MaxBuckets,
                buckets : [BucketIndexes -> Bucket \cup {NULL}]]
  BY <1>1, <1>4, <1>7 DEF IsTable
<1> HIDE DEF u
<1>9. IsTable(u)
  BY <1>5, <1>6, <1>8 DEF IsTable, BucketOK
<1>10. \A b \in 0 .. t.end - 1 : u.buckets[b] = New(b)
  <2> TAKE b \in 0 .. t.end - 1
  <2>1. b \in BucketIndexes /\ b < t.end
    BY <1>4 DEF IsTable
  <2> QED
    BY <1>6, <1>8, <2>1
<1>11. ASSUME NEW b \in 0 .. t.end - 1
       PROVE  BucketOK(u.buckets[b]) /\ InPlace(u, b)
  <2>1. InPlace(t, b)
    BY DEF WellFormed
  <2>2. \A s \in Occupied(u.buckets[b]) :
           /\ s \in Occupied(t.buckets[b])
           /\ u.buckets[b].nodes[s].id = t.buckets[b].nodes[s].id
    BY <1>5, <1>10 DEF SameButCount
  <2>3. \A id : Table_FindBucket(u, id) = Table_FindBucket(t, id)
    BY <1>8 DEF Table_FindBucket
  <2> QED
    BY <1>5, <1>10, <2>1, <2>2, <2>3 DEF InPlace
<1>12. WellFormed(u)
  BY <1>8, <1>9, <1>11 DEF WellFormed
<1> QED
  BY <1>5, <1>8, <1>10, <1>12 DEF u

(* So the search keeps its nodes, and its close nodes their answers. *)
LEMMA CountQueriesKeeps ==
    ASSUME NEW t, WellFormed(t), NEW W, NEW qs \in Seq(W), NEW tokens,
           OnlyIn(t, SearchNodes(tokens))
    PROVE  /\ WellFormed(CountQueries(t, qs))
           /\ OnlyIn(CountQueries(t, qs), SearchNodes(tokens))
           /\ AllAnswered(t) => AllAnswered(CountQueries(t, qs))
<1> DEFINE u == CountQueries(t, qs)
<1>1. /\ WellFormed(u) /\ u.id = t.id /\ u.end = t.end
      /\ \A b \in 0 .. t.end - 1 :
            /\ Occupied(u.buckets[b]) = Occupied(t.buckets[b])
            /\ \A s \in Occupied(t.buckets[b]) :
                  SameButCount(t.buckets[b].nodes[s], u.buckets[b].nodes[s])
  BY CountQueriesOK
<1> HIDE DEF u
<1>2. OnlyIn(u, SearchNodes(tokens))
  <2>1. ASSUME NEW b \in 0 .. t.end - 1, NEW s \in Occupied(u.buckets[b])
        PROVE  u.buckets[b].nodes[s] \in SearchNodes(tokens)
    <3>1. /\ s \in Occupied(t.buckets[b])
          /\ SameButCount(t.buckets[b].nodes[s], u.buckets[b].nodes[s])
      BY <1>1
    <3>2. t.buckets[b].nodes[s] \in SearchNodes(tokens)
      BY <3>1 DEF OnlyIn, BucketIn
    <3> QED
      BY ONLY <3>1, <3>2 DEF SearchNodes, SameButCount
  <2> QED
    BY <1>1, <2>1 DEF OnlyIn, BucketIn
<1>3. IsTable(t) /\ t.end \in Nat /\ t.id \in Hashes
  BY TableAssumption, HashBitsAssumption DEF WellFormed, IsTable, MaxBuckets
<1>4. Places(u) = Places(t)
  <2>1. ASSUME NEW p \in BucketIndexes \X Slots, p[1] < t.end
        PROVE  u.buckets[p[1]].nodes[p[2]] # NULL
                 <=> t.buckets[p[1]].nodes[p[2]] # NULL
    <3>1. p[1] \in 0 .. t.end - 1 /\ p[2] \in Slots
      BY <1>3, <2>1 DEF BucketIndexes
    <3>2. p[2] \in Occupied(u.buckets[p[1]]) <=> p[2] \in Occupied(t.buckets[p[1]])
      BY <1>1, <3>1
    <3> QED
      BY <3>1, <3>2 DEF Occupied
  <2> QED
    BY <1>1, <2>1 DEF Places
<1>5. \A p \in Places(t) : SameButCount(NodeAt(t, p), NodeAt(u, p))
  BY <1>1, PlacesOK DEF NodeAt
<1>6. \A p, q \in Places(t) : Closer(u, u.id, p, q) <=> Closer(t, t.id, p, q)
  BY <1>1, <1>5 DEF Closer, SameButCount
<1>7. Closeness(u, u.id) = Closeness(t, t.id)
  BY <1>4, <1>6 DEF Closeness
<1>8. \A p \in Places(t) : IsClose(u, u.id, p) <=> IsClose(t, t.id, p)
  BY <1>4, <1>7 DEF IsClose
<1>9. AllAnswered(t) => AllAnswered(u)
  BY <1>4, <1>5, <1>8 DEF AllAnswered, SameButCount
<1> QED
  BY <1>1, <1>2, <1>9 DEF u

-----------------------------------------------------------------------------
(* What the steps do to searches and to the client's table *)

(* A search whose parts are right. *)
LEMMA SearchParts ==
    ASSUME NEW s, DOMAIN s = {"table", "tokens", "peers", "send_time"},
           s = [table |-> s.table, tokens |-> s.tokens, peers |-> s.peers,
                send_time |-> s.send_time],
           WellFormed(s.table), OnlyIn(s.table, SearchNodes(s.tokens)),
           s.tokens \in SUBSET Hashes, s.peers \in SUBSET Hashes,
           s.send_time \in Nat
    PROVE  SearchOK(s)
<1>1. s.table \in [id : Hashes, end : 1 .. MaxBuckets,
                   buckets : [BucketIndexes -> Bucket \cup {NULL}]]
  BY DEF WellFormed, IsTable
<1> QED
  BY <1>1 DEF SearchOK, SearchRecord

(* Another table. *)
LEMMA SearchTableOK ==
    ASSUME NEW s, SearchOK(s), NEW u, WellFormed(u),
           OnlyIn(u, SearchNodes(s.tokens))
    PROVE  SearchOK([s EXCEPT !.table = u])
<1> DEFINE r == [s EXCEPT !.table = u]
<1>1. s \in SearchRecord
  BY DEF SearchOK
<1>2. /\ r = [table |-> u, tokens |-> s.tokens, peers |-> s.peers,
              send_time |-> s.send_time]
      /\ s.tokens \in SUBSET Hashes /\ s.peers \in SUBSET Hashes
      /\ s.send_time \in Nat
  BY <1>1 DEF SearchRecord
<1> HIDE DEF r
<1>3. /\ r.table = u /\ r.tokens = s.tokens /\ r.peers = s.peers
      /\ r.send_time = s.send_time
      /\ DOMAIN r = {"table", "tokens", "peers", "send_time"}
  BY <1>2
<1>4. SearchOK(r)
  BY <1>2, <1>3, SearchParts
<1> QED
  BY <1>4 DEF r

(* The tokens may grow. *)
LEMMA TokensGrow ==
    ASSUME NEW t, NEW tokens, NEW more, OnlyIn(t, SearchNodes(tokens)),
           tokens \in SUBSET more
    PROVE  OnlyIn(t, SearchNodes(more))
BY DEF OnlyIn, BucketIn, SearchNodes

(* A search gets a node, or the copy of one. *)
LEMMA SearchAdds ==
    ASSUME NEW s, SearchOK(s), NEW n \in AddedNodes, NEW time \in Nat
    PROVE  /\ SearchOK([s EXCEPT !.table = Table_CopyAndAddNode(s.table, n, time)])
           /\ n.replied = {} => SearchOK([s EXCEPT !.table =
                                       Table_InsertNode(s.table, n, time).table])
<1> DEFINE t == s.table
           N == SearchNodes(s.tokens)
<1>1. WellFormed(t) /\ OnlyIn(t, N)
  BY DEF SearchOK
<1>2. n \in Node /\ n.id \in Remotes /\ n.id \in Hashes
  BY DEF AddedNodes, Node
<1>3. Node_Copy(n) \in N
  BY <1>2 DEF Node_Copy, Node_Create, SearchNodes, Node
<1>4. n.replied = {} => n \in N
  BY <1>2 DEF SearchNodes
<1> HIDE DEF N
<1>5. /\ WellFormed(Table_CopyAndAddNode(t, n, time))
      /\ OnlyIn(Table_CopyAndAddNode(t, n, time), N)
  BY <1>1, <1>2, <1>3, FindOrAddOK, CopyAndAddIn
<1>6. ASSUME n.replied = {}
      PROVE  /\ WellFormed(Table_InsertNode(t, n, time).table)
             /\ OnlyIn(Table_InsertNode(t, n, time).table, N)
  BY <1>1, <1>2, <1>4, <1>6, InsertNodeOK, InsertNodeIn
<1> QED
  BY <1>5, <1>6, SearchTableOK DEF N

(* A search is told of a reply. *)
LEMMA SearchMarks ==
    ASSUME NEW s, SearchOK(s), NEW n \in AddedNodes, NEW time \in Nat,
           NEW type, NEW tokens, s.tokens \in SUBSET tokens,
           type = "RGetPeers" => n.id \in tokens
    PROVE  /\ WellFormed(Table_MarkReply(s.table, n, type, time))
           /\ OnlyIn(Table_MarkReply(s.table, n, type, time), SearchNodes(tokens))
<1> DEFINE t == s.table
           N == SearchNodes(tokens)
<1>1. WellFormed(t) /\ OnlyIn(t, N)
  BY TokensGrow DEF SearchOK
<1>2. n \in Node /\ n.id \in Remotes /\ n.id \in Hashes
  BY DEF AddedNodes, Node
<1>3. Node_Copy(n) \in N /\ N \in SUBSET Node
  BY <1>2 DEF Node_Copy, Node_Create, SearchNodes, Node
<1>4. ASSUME NEW m \in N, m.id = n.id PROVE AfterReply(m, type, time) \in N
  <2>1. m \in Node /\ ("RGetPeers" \in m.replied => m.id \in tokens)
    BY DEF SearchNodes
  <2> HIDE DEF N
  <2>2. Decrement(m.pending_queries) \in Nat
    BY <2>1 DEF Node, Decrement
  <2>3. m.replied \cup ({type} \cap CountedReplies) \in SUBSET CountedReplies
    BY <2>1 DEF Node
  <2> DEFINE r == AfterReply(m, type, time)
  <2>4. /\ r \in Node /\ r.id = m.id
        /\ r.replied = m.replied \cup ({type} \cap CountedReplies)
    BY <2>1, <2>2, <2>3 DEF Node, AfterReply
  <2> HIDE DEF r
  <2>5. "RGetPeers" \in r.replied => r.id \in tokens
    BY <1>4, <2>1, <2>4
  <2> QED
    BY <1>2, <1>4, <2>4, <2>5 DEF N, SearchNodes, r
<1> HIDE DEF N
<1>5. WellFormed(Table_MarkReply(t, n, type, time))
  BY <1>1, <1>2, MarkReplyOK
<1>6. OnlyIn(Table_MarkReply(t, n, type, time), N)
  <2>1. /\ N \in SUBSET N
        /\ \A m \in N \cup {Node_Copy(n)} :
              m \in Node /\ m.id = n.id => AfterReply(m, type, time) \in N
    BY <1>3, <1>4
  <2> QED
    BY <1>1, <1>2, <2>1, MarkReplyIn
<1> QED
  BY <1>5, <1>6 DEF N

(* The client's table is told of a reply or a query. *)
LEMMA TableMarks ==
    ASSUME NEW t, WellFormed(t), OnlyIn(t, TableNodes), NEW n \in AddedNodes,
           NEW type, NEW time \in Nat \ {0}
    PROVE  /\ WellFormed(Table_MarkReply(t, n, type, time))
           /\ OnlyIn(Table_MarkReply(t, n, type, time), TableNodes)
           /\ WellFormed(Table_MarkQuery(t, n, time))
           /\ OnlyIn(Table_MarkQuery(t, n, time), TableNodes)
<1>1. n \in Node /\ n.id \in Remotes /\ n.id \in Hashes
  BY DEF AddedNodes, Node
<1>2. Node_Copy(n) \in Node /\ Node_Copy(n).id = n.id
  BY <1>1 DEF Node_Copy, Node_Create, Node
<1>3. ASSUME NEW m \in Node, m.id = n.id
      PROVE  /\ AfterReply(m, type, time) \in TableNodes
             /\ AfterQuery(m, time) \in TableNodes
  <2>1. Decrement(m.pending_queries) \in Nat
    BY DEF Node, Decrement
  <2>2. m.replied \cup ({type} \cap CountedReplies) \in SUBSET CountedReplies
    BY DEF Node
  <2> DEFINE r == AfterReply(m, type, time)
             q == AfterQuery(m, time)
  <2>3. r \in Node /\ r.id = m.id /\ r.reply_time = time
    BY <2>1, <2>2 DEF Node, AfterReply
  <2>4. q \in Node /\ q.id = m.id /\ q.query_time = time
    BY DEF Node, AfterQuery
  <2> HIDE DEF r, q
  <2> QED
    BY <1>1, <1>3, <2>3, <2>4 DEF TableNodes, Seen, r, q
<1>4. /\ TableNodes \in SUBSET TableNodes
      /\ \A m \in TableNodes \cup {Node_Copy(n)} : m \in Node /\ m.id = n.id =>
            /\ AfterReply(m, type, time) \in TableNodes
            /\ AfterQuery(m, time) \in TableNodes
  BY <1>3
<1>5. /\ WellFormed(Table_MarkReply(t, n, type, time))
      /\ WellFormed(Table_MarkQuery(t, n, time))
  BY <1>1, MarkReplyOK, MarkQueryOK
<1>6. OnlyIn(Table_MarkReply(t, n, type, time), TableNodes)
  BY <1>1, <1>4, MarkReplyIn
<1>7. OnlyIn(Table_MarkQuery(t, n, time), TableNodes)
  BY <1>1, <1>4, MarkQueryIn
<1> QED
  BY <1>5, <1>6, <1>7

-----------------------------------------------------------------------------
(* The types are kept, action by action *)

(* A client that has just been created. *)
LEMMA InitTypes ==
    ASSUME Init
    PROVE  TypeInv
<1>1. ClockOK /\ AddingOK
  <2>1. StartTime \in Nat \ {0}
    BY ClientAssumption, TableAssumption
  <2>2. Idle \in [context : Contexts \cup {NULL}, nodes : Seq(AddedNodes)]
    BY DEF Idle
  <2> QED
    BY <2>1, <2>2 DEF Init, ClockOK, AddingOK, Steps
<1>2. TableOK
  BY ClientAssumption, TableCreateOK, TableCreateIn DEF Init, TableOK
<1>3. SearchesOK
  <2>1. Len(Targets) \in Nat
    BY ClientAssumption
  <2> QED
    BY <2>1 DEF Init, SearchesOK, Live
<1>4. QueuesOK /\ MessagesOK
  BY DEF Init, QueuesOK, MessagesOK
<1> QED
  BY <1>1, <1>2, <1>3, <1>4 DEF TypeInv

(* Queries have transaction ids. *)
LEMMA TidOK ==
    ASSUME NEW n \in Nat
    PROVE  n % TidSpace \in Tids /\ (n < TidSpace => n % TidSpace = n)
<1>1. TidSpace \in Nat /\ TidSpace > 0
  BY ClientAssumption
<1>2. n % TidSpace \in Tids
  BY <1>1 DEF Tids
<1>3. n < TidSpace => n % TidSpace = n
  BY <1>1
<1> QED
  BY <1>2, <1>3

(* Message_CreateQuery makes a query, whose id is next_t cut to TidSpace. *)
LEMMA CreateQueryOK ==
    ASSUME NEW type \in {"QPing", "QFindNode", "QGetPeers", "QAnnouncePeer"},
           NEW to \in Remotes, NEW is_new \in BOOLEAN,
           NEW context \in Contexts \cup {NULL}, NEW n \in Nat
    PROVE  /\ Message_CreateQuery(type, to, is_new, context, n) \in Query
           /\ Message_CreateQuery(type, to, is_new, context, n).t = n % TidSpace
BY TidOK DEF Message_CreateQuery, Query

(* Dht_AddNode queues a ping. *)
LEMMA AddNodeTypes ==
    ASSUME TypeInv, NEW addr \in Bootstrap, AddNode(addr)
    PROVE  TypeInv'
<1>1. /\ ClockOK' /\ TableOK' /\ SearchesOK' /\ MessagesOK' /\ AddingOK'
  BY DEF TypeInv, ClockOK, TableOK, SearchesOK, MessagesOK, AddingOK, AddNode, Live
<1>2. QueuesOK'
  <2> DEFINE q == Message_CreateQuery("QPing", addr, TRUE, NULL, next_t)
  <2>1. next_t \in Nat /\ queries \in Seq(Query)
    BY DEF TypeInv, QueuesOK
  <2>2. q \in Query
    BY <2>1, ClientAssumption, CreateQueryOK
  <2>3. queries' = Append(queries, q) /\ next_t' = next_t + 1 /\ pc' = "idle"
    BY DEF AddNode
  <2> HIDE DEF q
  <2>4. queries' \in Seq(Query) /\ next_t' \in Nat
    BY <2>1, <2>2, <2>3
  <2>5. requests' = requests /\ pending' = pending
    BY DEF AddNode
  <2> QED
    BY <2>3, <2>4, <2>5 DEF TypeInv, QueuesOK
<1> QED
  BY <1>1, <1>2 DEF TypeInv

(* The nodes of the client's table, on their way into a search. *)
LEMMA CopiedNodes ==
    ASSUME NEW t, WellFormed(t), OnlyIn(t, TableNodes)
    PROVE  [i \in DOMAIN Table_ForEachNode(t) |->
               NodeAt(t, Table_ForEachNode(t)[i])] \in Seq(AddedNodes)
<1> DEFINE p == Table_ForEachNode(t)
           n == Len(p)
           f == [i \in DOMAIN p |-> NodeAt(t, p[i])]
<1>1. p \in Seq(Places(t))
  BY ForEachNodeOK
<1> HIDE DEF p
<1>2. n \in Nat /\ DOMAIN p = 1 .. n /\ \A i \in 1 .. n : p[i] \in Places(t)
  BY <1>1
<1>3. \A i \in 1 .. n : NodeAt(t, p[i]) \in AddedNodes
  BY <1>2, NodeAtIn DEF TableNodes, AddedNodes
<1>4. f \in [1 .. n -> AddedNodes]
  BY <1>2, <1>3
<1> HIDE DEF f, n
<1>5. f \in Seq(AddedNodes)
  BY <1>2, <1>4, FunctionIsSeq
<1> QED
  BY <1>5 DEF f, p

(* A new search, its table empty. *)
LEMMA SearchCreateOK ==
    ASSUME NEW target \in Hashes
    PROVE  SearchOK(Search_Create(target))
<1> DEFINE s == Search_Create(target)
<1>1. /\ s.table = Table_Create(target) /\ s.tokens = {} /\ s.peers = {}
      /\ s.send_time = 0
      /\ s = [table |-> s.table, tokens |-> s.tokens, peers |-> s.peers,
              send_time |-> s.send_time]
      /\ DOMAIN s = {"table", "tokens", "peers", "send_time"}
  BY DEF Search_Create
<1> HIDE DEF s
<1>2. WellFormed(s.table) /\ OnlyIn(s.table, SearchNodes(s.tokens))
  BY <1>1, TableCreateOK, TableCreateIn
<1>3. SearchOK(s)
  BY <1>1, <1>2, SearchParts
<1> QED
  BY <1>3 DEF s

(* Putting a search in its place. *)
LEMMA PutSearch ==
    ASSUME SearchesOK, NEW c \in Contexts, NEW s, SearchOK(s), c <= created',
           searches' = [searches EXCEPT ![c] = s],
           created' \in created .. Len(Targets),
           at' \in 1 .. Len(Targets) + 1
    PROVE  SearchesOK' /\ Live' = Live \cup {c} /\ searches'[c] = s
<1>1. s \in SearchRecord /\ s # NULL
  BY SearchNotNULL DEF SearchOK
<1>2. /\ searches \in [Contexts -> SearchRecord \cup {NULL}]
      /\ created \in 0 .. Len(Targets)
      /\ \A d \in Live : SearchOK(searches[d]) /\ d <= created
  BY DEF SearchesOK
<1>3. /\ searches' \in [Contexts -> SearchRecord \cup {NULL}]
      /\ searches'[c] = s /\ \A d \in Contexts \ {c} : searches'[d] = searches[d]
  BY <1>1, <1>2
<1>4. Live' = Live \cup {c}
  BY <1>1, <1>3 DEF Live
<1>5. created' \in 0 .. Len(Targets) /\ created <= created'
  BY <1>2
<1>6. ASSUME NEW d \in Live' PROVE SearchOK(searches'[d]) /\ d <= created'
  <2>1. CASE d = c
    BY <1>3, <2>1
  <2>2. CASE d # c
    <3>1. d \in Live /\ searches'[d] = searches[d] /\ d \in Int
      BY <1>3, <1>4, <2>2 DEF Live, Contexts
    <3> QED
      BY <1>2, <1>5, <3>1
  <2> QED
    BY <2>1, <2>2
<1> QED
  BY <1>3, <1>4, <1>5, <1>6 DEF SearchesOK

(* Dht_AddSearch, up to the copying of the table. *)
LEMMA AddSearchTypes ==
    ASSUME TypeInv, AddSearch
    PROVE  TypeInv' /\ Live \subseteq Live'
<1>1. /\ ClockOK' /\ TableOK' /\ MessagesOK' /\ QueuesOK'
  BY DEF TypeInv, ClockOK, TableOK, MessagesOK, QueuesOK, AddSearch
<1>2. /\ created' = created + 1 /\ created' \in Contexts
      /\ created' \in created .. Len(Targets) /\ at' \in 1 .. Len(Targets) + 1
      /\ Targets[created'] \in Hashes /\ created' <= created'
  BY ClientAssumption DEF TypeInv, SearchesOK, AddSearch, Contexts
<1>3. searches' = [searches EXCEPT ![created'] = Search_Create(Targets[created'])]
  BY DEF AddSearch
<1>4. SearchesOK /\ TableOK
  BY DEF TypeInv
<1>5. SearchesOK' /\ created' \in Live' /\ Live \subseteq Live'
  <2>1. SearchOK(Search_Create(Targets[created']))
    BY <1>2, SearchCreateOK
  <2> QED
    BY <1>2, <1>3, <1>4, <2>1, PutSearch
<1>6. AddingOK'
  <2> DEFINE f == [i \in DOMAIN Table_ForEachNode(table) |->
                      NodeAt(table, Table_ForEachNode(table)[i])]
  <2>1. f \in Seq(AddedNodes)
    BY <1>4, CopiedNodes DEF TableOK
  <2>2. adding' = [context |-> created', nodes |-> f] /\ pc' = "copy"
    BY DEF AddSearch
  <2> HIDE DEF f
  <2> QED
    BY <1>2, <1>5, <2>1, <2>2 DEF AddingOK, Steps
<1> QED
  BY <1>1, <1>5, <1>6 DEF TypeInv

(* The nodes that are left to be added. *)
LEMMA TailOfNodes ==
    ASSUME AddingOK, adding.nodes # <<>>,
           adding' = [adding EXCEPT !.nodes = Tail(@)]
    PROVE  /\ Head(adding.nodes) \in AddedNodes /\ Head(adding.nodes) = adding.nodes[1]
           /\ 1 \in DOMAIN adding.nodes
           /\ adding' \in [context : Contexts \cup {NULL}, nodes : Seq(AddedNodes)]
           /\ adding'.context = adding.context
           /\ \A i \in DOMAIN adding'.nodes : /\ i + 1 \in DOMAIN adding.nodes
                                              /\ adding'.nodes[i] = adding.nodes[i + 1]
<1>1. adding \in [context : Contexts \cup {NULL}, nodes : Seq(AddedNodes)]
  BY DEF AddingOK
<1>2. /\ adding'.nodes = Tail(adding.nodes) /\ adding'.context = adding.context
      /\ Tail(adding.nodes) \in Seq(AddedNodes)
  BY <1>1
<1>3. adding' \in [context : Contexts \cup {NULL}, nodes : Seq(AddedNodes)]
  BY <1>1, <1>2
<1>4. /\ Head(adding.nodes) \in AddedNodes /\ Head(adding.nodes) = adding.nodes[1]
      /\ 1 \in DOMAIN adding.nodes
  BY <1>1
<1>5. \A i \in DOMAIN Tail(adding.nodes) :
         /\ i + 1 \in DOMAIN adding.nodes
         /\ Tail(adding.nodes)[i] = adding.nodes[i + 1]
  BY <1>1
<1> QED
  BY <1>2, <1>3, <1>4, <1>5

(* Nothing is being added. *)
LEMMA IdleOK == Idle \in [context : Contexts \cup {NULL}, nodes : Seq(AddedNodes)]
BY DEF Idle

(* Search_CopyTable: each node of the client goes into a live search. *)
LEMMA CopyTableTypes ==
    ASSUME TypeInv, CopyTable
    PROVE  TypeInv' /\ Live \subseteq Live'
<1>1. ClockOK' /\ TableOK' /\ MessagesOK' /\ QueuesOK'
  BY DEF TypeInv, ClockOK, TableOK, MessagesOK, QueuesOK, CopyTable
<1>2. CASE adding.nodes = <<>>
  <2>1. SearchesOK' /\ AddingOK' /\ Live' = Live
    BY <1>2, IdleOK DEF TypeInv, CopyTable, SearchesOK, Live, AddingOK, Steps
  <2> QED
    BY <1>1, <2>1 DEF TypeInv
<1>3. CASE adding.nodes # <<>>
  <2> DEFINE c == adding.context
             n == Head(adding.nodes)
             s == [searches[c] EXCEPT !.table =
                      Table_CopyAndAddNode(searches[c].table, n, now)]
  <2>1. /\ pc = "copy" /\ pc' = pc /\ adding' = [adding EXCEPT !.nodes = Tail(@)]
        /\ created' = created /\ at' = at
    BY <1>3 DEF CopyTable
  <2>2. searches' = [searches EXCEPT ![c] = s]
    BY <1>3 DEF CopyTable
  <2>3. SearchesOK /\ AddingOK /\ now \in Nat
    BY DEF TypeInv, ClockOK
  <2>4. c \in Live /\ c \in Contexts /\ c <= created /\ SearchOK(searches[c])
    BY <2>1, <2>3 DEF AddingOK, SearchesOK, Live
  <2>5. n \in AddedNodes
    BY <1>3, <2>1, <2>3, TailOfNodes
  <2> HIDE DEF n, c
  <2>6. SearchOK(s)
    BY <2>3, <2>4, <2>5, SearchAdds
  <2> HIDE DEF s
  <2>7. created' \in created .. Len(Targets) /\ at' \in 1 .. Len(Targets) + 1
    BY <2>1, <2>3 DEF SearchesOK
  <2>8. SearchesOK' /\ Live' = Live
    BY <2>1, <2>2, <2>3, <2>4, <2>6, <2>7, PutSearch
  <2>9. AddingOK'
    BY <1>3, <2>1, <2>3, <2>4, <2>8, TailOfNodes DEF AddingOK, Steps, c
  <2> QED
    BY <1>1, <2>8, <2>9 DEF TypeInv
<1> QED
  BY <1>2, <1>3

(* AddSearchNodes: each node of a reply goes into a live search. *)
LEMMA AddSearchNodesTypes ==
    ASSUME TypeInv, AddSearchNodes
    PROVE  TypeInv' /\ Live \subseteq Live'
<1>1. ClockOK' /\ TableOK' /\ MessagesOK' /\ QueuesOK'
  BY DEF TypeInv, ClockOK, TableOK, MessagesOK, QueuesOK, AddSearchNodes, Elsewhere
<1>2. CASE adding.nodes = <<>>
  <2>1. SearchesOK' /\ AddingOK' /\ Live' = Live
    BY <1>2, IdleOK
       DEF TypeInv, AddSearchNodes, Elsewhere, SearchesOK, Live, AddingOK, Steps
  <2> QED
    BY <1>1, <2>1 DEF TypeInv
<1>3. CASE adding.nodes # <<>>
  <2> DEFINE c == adding.context
             n == Head(adding.nodes)
             s == [searches[c] EXCEPT !.table =
                      Table_InsertNode(searches[c].table, n, now).table]
  <2>1. /\ pc = "add" /\ pc' = pc /\ adding' = [adding EXCEPT !.nodes = Tail(@)]
        /\ created' = created /\ at' = at
    BY <1>3 DEF AddSearchNodes, Elsewhere
  <2>2. searches' = [searches EXCEPT ![c] = s]
    BY <1>3 DEF AddSearchNodes
  <2>3. SearchesOK /\ AddingOK /\ now \in Nat
    BY DEF TypeInv, ClockOK
  <2>4. c \in Live /\ c \in Contexts /\ c <= created /\ SearchOK(searches[c])
    BY <2>1, <2>3 DEF AddingOK, SearchesOK, Live
  <2>5. /\ n \in AddedNodes /\ n.replied = {}
        /\ \A i \in DOMAIN adding'.nodes : adding'.nodes[i].replied = {}
    BY <1>3, <2>1, <2>3, TailOfNodes DEF AddingOK
  <2> HIDE DEF n, c
  <2>6. SearchOK(s)
    BY <2>3, <2>4, <2>5, SearchAdds
  <2> HIDE DEF s
  <2>7. created' \in created .. Len(Targets) /\ at' \in 1 .. Len(Targets) + 1
    BY <2>1, <2>3 DEF SearchesOK
  <2>8. SearchesOK' /\ Live' = Live
    BY <2>1, <2>2, <2>3, <2>4, <2>6, <2>7, PutSearch
  <2>9. AddingOK'
    BY <1>3, <2>1, <2>3, <2>4, <2>5, <2>8, TailOfNodes DEF AddingOK, Steps, c
  <2> QED
    BY <1>1, <2>8, <2>9 DEF TypeInv
<1> QED
  BY <1>2, <1>3

(* The queries of a search, as they are queued. *)
Queued(c, wanted) ==
    [i \in DOMAIN wanted |->
        Message_CreateQuery(
            wanted[i].type, NodeAt(searches[c].table, wanted[i].place).id,
            FALSE, c, next_t + i - 1)]

(* The queries of a search go to remote nodes, with ids from next_t on. *)
LEMMA QueuedOK ==
    ASSUME TypeInv, NEW c \in Live
    PROVE  LET w == Queries(searches[c])
               f == Queued(c, w)
           IN  /\ Len(w) \in Nat /\ f \in Seq(Query) /\ Len(f) = Len(w)
               /\ \A i \in 1 .. Len(w) : f[i].t = (next_t + i - 1) % TidSpace
<1> DEFINE s == searches[c]
           w == Queries(s)
           n == Len(w)
           f == Queued(c, w)
<1>1. /\ SearchOK(s) /\ next_t \in Nat /\ c \in Contexts
  BY DEF TypeInv, SearchesOK, QueuesOK, Live
<1>2. WellFormed(s.table) /\ OnlyIn(s.table, SearchNodes(s.tokens))
  BY <1>1 DEF SearchOK
<1>3. w \in Seq(Wanted(s.table))
  BY <1>1, QueriesOK
<1> HIDE DEF w
<1>4. n \in Nat /\ DOMAIN w = 1 .. n /\ \A i \in 1 .. n : w[i] \in Wanted(s.table)
  BY <1>3
<1>5. ASSUME NEW i \in 1 .. n
      PROVE  /\ w[i].type \in {"QPing", "QFindNode", "QGetPeers", "QAnnouncePeer"}
             /\ NodeAt(s.table, w[i].place).id \in Remotes
             /\ next_t + i - 1 \in Nat
  <2>1. /\ w[i].type \in {"QPing", "QFindNode", "QGetPeers", "QAnnouncePeer"}
        /\ w[i].place \in Places(s.table)
    BY <1>4 DEF Wanted
  <2>2. NodeAt(s.table, w[i].place) \in SearchNodes(s.tokens)
    BY <1>2, <2>1, NodeAtIn
  <2> QED
    BY <1>1, <2>1, <2>2 DEF SearchNodes
<1>6. \A i \in 1 .. n : f[i] \in Query /\ f[i].t = (next_t + i - 1) % TidSpace
  <2> SUFFICES ASSUME NEW i \in 1 .. n
               PROVE  f[i] \in Query /\ f[i].t = (next_t + i - 1) % TidSpace
    OBVIOUS
  <2> DEFINE type == w[i].type
             to == NodeAt(s.table, w[i].place).id
             is_new == FALSE
             k == next_t + i - 1
  <2>1. f[i] = Message_CreateQuery(type, to, is_new, c, k)
    BY <1>4 DEF Queued
  <2>2. /\ type \in {"QPing", "QFindNode", "QGetPeers", "QAnnouncePeer"}
        /\ to \in Remotes /\ k \in Nat /\ c \in Contexts \cup {NULL}
        /\ is_new \in BOOLEAN
    BY <1>1, <1>5
  <2> HIDE DEF type, to, is_new, k, f
  <2>3. f[i] \in Query /\ f[i].t = k % TidSpace
    BY <2>1, <2>2, CreateQueryOK
  <2> QED
    BY <2>3 DEF k
<1>7. f \in [1 .. n -> Query]
  BY <1>4, <1>6 DEF Queued
<1> HIDE DEF f
<1>8. f \in Seq(Query) /\ Len(f) = n
  BY <1>4, <1>7, FunctionIsSeq
<1> QED
  BY <1>4, <1>6, <1>8 DEF f, w

(* A search after its pass. *)
LEMMA DoWorkOK ==
    ASSUME NEW s, SearchOK(s), NEW time \in Nat
    PROVE  LET r == Search_DoWork(s, Queries(s), time)
           IN  SearchOK(r) /\ (r.send_time = time \/ AllAnswered(r.table))
<1> DEFINE w == Queries(s)
           r == Search_DoWork(s, w, time)
           u == CountQueries(s.table, w)
           busy == \E i \in DOMAIN w : w[i].type \in {"QGetPeers", "QAnnouncePeer"}
<1>1. w \in Seq(Wanted(s.table)) /\ (AllAnswered(s.table) \/ busy)
  BY QueriesOK
<1>2. WellFormed(s.table) /\ OnlyIn(s.table, SearchNodes(s.tokens))
  BY DEF SearchOK
<1>3. s \in SearchRecord
  BY DEF SearchOK
<1> HIDE DEF w
<1>4. /\ WellFormed(u) /\ OnlyIn(u, SearchNodes(s.tokens))
      /\ AllAnswered(s.table) => AllAnswered(u)
  BY <1>1, <1>2, CountQueriesKeeps
<1>5. r = [s EXCEPT !.table = u,
                    !.send_time = IF busy THEN time ELSE s.send_time]
  BY DEF Search_DoWork
<1> HIDE DEF u, busy, r
<1>6. /\ r = [table |-> u, tokens |-> s.tokens, peers |-> s.peers,
              send_time |-> IF busy THEN time ELSE s.send_time]
      /\ s.tokens \in SUBSET Hashes /\ s.peers \in SUBSET Hashes
      /\ s.send_time \in Nat
  BY <1>3, <1>5 DEF SearchRecord
<1>7. /\ r.table = u /\ r.tokens = s.tokens /\ r.peers = s.peers
      /\ r.send_time = IF busy THEN time ELSE s.send_time
      /\ r.send_time \in Nat
      /\ DOMAIN r = {"table", "tokens", "peers", "send_time"}
      /\ r = [table |-> r.table, tokens |-> r.tokens, peers |-> r.peers,
              send_time |-> r.send_time]
  BY <1>6
<1>8. SearchOK(r)
  BY <1>4, <1>6, <1>7, SearchParts
<1> QED
  BY <1>1, <1>4, <1>7, <1>8 DEF r, w

(* Search_DoWork changes its search only, and leaves it busy or complete. *)
LEMMA HandleSearchesTypes ==
    ASSUME TypeInv, NEW c \in Live, HandleSearches(c)
    PROVE  /\ TypeInv' /\ Live' = Live
           /\ \/ searches'[c].send_time = now
              \/ AllAnswered(searches'[c].table)
           /\ \A d \in Live \ {c} : searches'[d] = searches[d]
<1> DEFINE s == searches[c]
           w == Queries(s)
           f == Queued(c, w)
           r == Search_DoWork(s, w, now)
<1>1. ClockOK' /\ TableOK' /\ MessagesOK'
  BY DEF TypeInv, ClockOK, TableOK, MessagesOK, HandleSearches
<1>2. /\ queries' = queries \o f /\ next_t' = next_t + Len(w)
      /\ searches' = [searches EXCEPT ![c] = r]
      /\ at' = c + 1 /\ created' = created /\ pc' = pc /\ pc = "searches"
      /\ requests' = requests /\ pending' = pending /\ adding' = adding
  BY DEF HandleSearches, Queued
<1>3. SearchesOK /\ QueuesOK /\ AddingOK /\ now \in Nat /\ c \in Contexts
  BY DEF TypeInv, ClockOK, Live
<1>4. Len(w) \in Nat /\ f \in Seq(Query)
  BY QueuedOK
<1>5. SearchOK(s) /\ c <= created /\ Len(Targets) \in Nat /\ c \in Nat
  BY <1>3, ClientAssumption DEF SearchesOK, Contexts
<1>6. SearchOK(r) /\ (r.send_time = now \/ AllAnswered(r.table))
  BY <1>3, <1>5, DoWorkOK
<1> HIDE DEF s, w, f, r
<1>7. QueuesOK'
  <2>1. queries \in Seq(Query) /\ next_t \in Nat
    BY <1>3 DEF QueuesOK
  <2>2. queries' \in Seq(Query) /\ next_t' \in Nat
    BY <1>2, <1>4, <2>1
  <2> QED
    BY <1>2, <1>3, <2>2 DEF QueuesOK
<1>8. at' \in 1 .. Len(Targets) + 1 /\ created' \in created .. Len(Targets)
  BY <1>2, <1>3, <1>5 DEF SearchesOK
<1>9. SearchesOK' /\ Live' = Live /\ searches'[c] = r
  BY <1>2, <1>3, <1>5, <1>6, <1>8, PutSearch
<1>10. AddingOK'
  BY <1>2, <1>3 DEF AddingOK
<1>11. \A d \in Live \ {c} : searches'[d] = searches[d]
  BY <1>2, <1>3 DEF SearchesOK, Live
<1> QED
  BY <1>1, <1>6, <1>7, <1>9, <1>10, <1>11 DEF TypeInv

(* Client_CleanSearches leaves the other searches as they are. *)
LEMMA CleanSearchesTypes ==
    ASSUME TypeInv, CleanSearches
    PROVE  TypeInv'
<1>1. ClockOK' /\ TableOK' /\ MessagesOK'
  BY DEF TypeInv, ClockOK, TableOK, MessagesOK, CleanSearches
<1>2. SearchesOK'
  <2>1. \A c \in Contexts : searches'[c] = searches[c] \/ searches'[c] = NULL
    BY DEF CleanSearches
  <2>2. searches' \in [Contexts -> SearchRecord \cup {NULL}]
    BY DEF CleanSearches, TypeInv, SearchesOK
  <2>3. \A c \in Live' : c \in Live /\ searches'[c] = searches[c]
    BY <2>1 DEF Live
  <2> QED
    BY <2>2, <2>3 DEF CleanSearches, TypeInv, SearchesOK
<1>3. QueuesOK' /\ AddingOK'
  BY DEF CleanSearches, AfterSend, TypeInv, QueuesOK, AddingOK, Steps
<1> QED
  BY <1>1, <1>2, <1>3 DEF TypeInv

(* The beginning of a pass. *)
LEMMA ProcessTypes ==
    ASSUME TypeInv, Process
    PROVE  TypeInv'
<1>1. ClockOK' /\ TableOK' /\ MessagesOK'
  BY DEF TypeInv, ClockOK, TableOK, MessagesOK, Process
<1>2. SearchesOK'
  <2>1. Len(Targets) \in Nat
    BY ClientAssumption
  <2> QED
    BY <2>1 DEF TypeInv, SearchesOK, Live, Process
<1>3. QueuesOK' /\ AddingOK'
  BY DEF TypeInv, QueuesOK, AddingOK, Steps, Process
<1> QED
  BY <1>1, <1>2, <1>3 DEF TypeInv

(* The entry for the reply to a query. *)
LEMMA PendingResponseOK ==
    ASSUME NEW q \in Query
    PROVE  /\ PendingResponse(q) \in PendingResponses
           /\ PendingResponse(q).type = AsReply[q.type]
           /\ PendingResponse(q).context = q.context
           /\ q.t \in Tids
<1>1. /\ q.type \in {"QPing", "QFindNode", "QGetPeers", "QAnnouncePeer"}
      /\ q.to \in Hashes /\ q.is_new \in BOOLEAN
      /\ q.context \in Contexts \cup {NULL} /\ q.t \in Tids
  BY ClientAssumption DEF Query
<1>2. AsReply[q.type] \in {"RPing", "RFindNode", "RGetPeers", "RAnnouncePeer"}
  BY <1>1 DEF AsReply
<1>3. NoId \in Hashes
  BY DEF NoId, Hashes
<1>4. (IF q.is_new THEN NoId ELSE q.to) \in Hashes
  BY <1>1, <1>3
<1> DEFINE type == AsReply[q.type]
           id == IF q.is_new THEN NoId ELSE q.to
<1>5. PendingResponse(q) = [type |-> type, id |-> id, context |-> q.context,
                            is_new |-> q.is_new]
  BY DEF PendingResponse
<1> HIDE DEF type, id
<1> QED
  BY <1>1, <1>2, <1>4, <1>5 DEF PendingResponses, ReplyTypes, type, id

(* SendMessage takes a query off the stack, whether or not it fails. *)
LEMMA SendTypes ==
    ASSUME TypeInv, SendMessage \/ SendFailure
    PROVE  TypeInv'
<1>1. ClockOK' /\ TableOK' /\ MessagesOK' /\ SearchesOK'
  BY DEF TypeInv, ClockOK, TableOK, MessagesOK, SearchesOK, Live, SendMessage,
         SendFailure
<1>2. /\ queries \in Seq(Query) /\ queries # <<>> /\ requests \in SUBSET Query
      /\ pending \in [Tids -> PendingResponses \cup {NULL}] /\ next_t \in Nat
      /\ queries' = Front(queries) /\ next_t' = next_t /\ pc = "send"
  BY DEF TypeInv, QueuesOK, SendMessage, SendFailure
<1>3. Last(queries) \in Query /\ Front(queries) \in Seq(Query)
  BY <1>2, FrontLastOK
<1>4. pc' \in {"idle", "receive", "send"} /\ (pc' = "send" => queries' # <<>>)
  BY DEF SendMessage, SendFailure, AfterSend
<1>5. requests' \in SUBSET Query
  BY <1>2, <1>3 DEF SendMessage, SendFailure
<1>6. pending' \in [Tids -> PendingResponses \cup {NULL}]
  BY <1>2, <1>3, PendingResponseOK DEF SendMessage, SendFailure
<1>7. QueuesOK'
  BY <1>2, <1>3, <1>4, <1>5, <1>6 DEF QueuesOK
<1>8. AddingOK'
  BY <1>4 DEF TypeInv, AddingOK, Steps, SendMessage, SendFailure
<1> QED
  BY <1>1, <1>7, <1>8 DEF TypeInv

(* The first datagram and the others. *)
LEMMA InboxHead ==
    ASSUME MessagesOK, inbox # <<>>
    PROVE  /\ DatagramOK(Head(inbox)) /\ Tail(inbox) \in Seq(Datagram)
           /\ Head(inbox) = inbox[1] /\ 1 \in DOMAIN inbox
           /\ \A i \in DOMAIN Tail(inbox) : /\ i + 1 \in DOMAIN inbox
                                            /\ Tail(inbox)[i] = inbox[i + 1]
           /\ \A i \in DOMAIN Tail(inbox) : DatagramOK(Tail(inbox)[i])
<1>1. inbox \in Seq(Datagram) /\ \A i \in DOMAIN inbox : DatagramOK(inbox[i])
  BY DEF MessagesOK
<1>2. /\ Tail(inbox) \in Seq(Datagram)
      /\ Head(inbox) = inbox[1] /\ 1 \in DOMAIN inbox
      /\ \A i \in DOMAIN Tail(inbox) : /\ i + 1 \in DOMAIN inbox
                                       /\ Tail(inbox)[i] = inbox[i + 1]
  BY <1>1
<1> QED
  BY <1>1, <1>2

(* One more decoded message. *)
LEMMA IncomingGrows ==
    ASSUME MessagesOK, NEW m, DecodedOK(m)
    PROVE  /\ Append(incoming, m) \in Seq(Decoded)
           /\ \A i \in DOMAIN Append(incoming, m) :
                 \/ i \in DOMAIN incoming /\ Append(incoming, m)[i] = incoming[i]
                 \/ Append(incoming, m)[i] = m
           /\ \A i \in DOMAIN Append(incoming, m) : DecodedOK(Append(incoming, m)[i])
<1>1. incoming \in Seq(Decoded) /\ \A i \in DOMAIN incoming : DecodedOK(incoming[i])
  BY DEF MessagesOK
<1>2. m \in Decoded
  BY DEF DecodedOK
<1>3. Append(incoming, m) \in Seq(Decoded)
  BY <1>1, <1>2
<1>4. \A i \in DOMAIN Append(incoming, m) :
         \/ i \in DOMAIN incoming /\ Append(incoming, m)[i] = incoming[i]
         \/ Append(incoming, m)[i] = m
  BY <1>1, <1>2
<1> QED
  BY <1>1, <1>3, <1>4

(* What a reply is decoded to. *)
LEMMA DecodeResponseOK ==
    ASSUME TypeInv, NEW q \in Query, pending[q.t] # NULL
    PROVE  /\ DecodedOK(DecodeResponse(q))
           /\ DecodeResponse(q).type = pending[q.t].type
           /\ DecodeResponse(q).context = pending[q.t].context
           /\ DecodeResponse(q).q = q
<1> DEFINE e == pending[q.t]
           from == RealId[q.to]
           errors == \/ from # e.id /\ ~e.is_new
                     \/ InvalidData(e.type, q)
           m == DecodeResponse(q)
<1>1. e \in PendingResponses
  BY PendingResponseOK DEF TypeInv, QueuesOK
<1>2. /\ e.type \in {"RPing", "RFindNode", "RGetPeers", "RAnnouncePeer"}
      /\ e.context \in Contexts \cup {NULL}
  BY <1>1 DEF PendingResponses, ReplyTypes
<1>3. from \in Remotes /\ from \in Hashes
  BY ClientAssumption DEF Query
<1>4. errors \in BOOLEAN
  OBVIOUS
<1>5. m = [type |-> e.type, context |-> e.context, from |-> from,
           errors |-> errors, q |-> q]
  BY DEF DecodeResponse
<1> HIDE DEF e, from, errors, m
<1>6. /\ m.type = e.type /\ m.context = e.context /\ m.q = q /\ m.from = from
      /\ m \in Decoded
  BY <1>2, <1>3, <1>4, <1>5 DEF Decoded, ReplyTypes
<1>7. DecodedOK(m)
  BY <1>2, <1>3, <1>6 DEF DecodedOK
<1> QED
  BY <1>6, <1>7 DEF m, e

(* A reply is decoded or fails the assertion. *)
LEMMA ReceiveReplyTypes ==
    ASSUME TypeInv, ReceiveReply
    PROVE  TypeInv'
<1> DEFINE q == Head(inbox).q
<1>1. ClockOK' /\ TableOK' /\ SearchesOK'
  BY DEF TypeInv, ClockOK, TableOK, SearchesOK, Live, ReceiveReply
<1>2. MessagesOK /\ inbox # <<>> /\ inbox' = Tail(inbox)
  BY DEF TypeInv, ReceiveReply
<1>3. q \in Query /\ q.t \in Tids
  BY <1>2, InboxHead, PendingResponseOK DEF DatagramOK, ReceiveReply
<1>4. inbox' \in Seq(Datagram) /\ \A i \in DOMAIN inbox' : DatagramOK(inbox'[i])
  BY <1>2, InboxHead
<1>5. CASE pending[q.t] # NULL
  <2>1. /\ incoming' = Append(incoming, DecodeResponse(q)) /\ pc' = pc
        /\ pending' = [pending EXCEPT ![q.t] = NULL]
    BY <1>5 DEF ReceiveReply
  <2>2. DecodedOK(DecodeResponse(q))
    BY <1>3, <1>5, DecodeResponseOK
  <2> HIDE DEF q
  <2>3. MessagesOK'
    <3>1. /\ incoming' \in Seq(Decoded)
          /\ \A i \in DOMAIN incoming' : DecodedOK(incoming'[i])
      BY <1>2, <2>1, <2>2, IncomingGrows
    <3> QED
      BY <1>4, <3>1 DEF MessagesOK
  <2>4. QueuesOK' /\ AddingOK'
    BY <1>3, <2>1 DEF TypeInv, QueuesOK, AddingOK, ReceiveReply, Live
  <2> QED
    BY <1>1, <2>3, <2>4 DEF TypeInv
<1>6. CASE pending[q.t] = NULL
  <2>1. incoming' = incoming /\ pending' = pending /\ pc' = "aborted"
    BY <1>6 DEF ReceiveReply
  <2>2. MessagesOK'
    BY <1>2, <1>4, <2>1 DEF MessagesOK
  <2>3. QueuesOK' /\ AddingOK'
    BY <2>1 DEF TypeInv, QueuesOK, AddingOK, ReceiveReply, Steps
  <2> QED
    BY <1>1, <2>2, <2>3 DEF TypeInv
<1> QED
  BY <1>5, <1>6

(* What is no reply is decoded; what is harmless becomes harmless. *)
LEMMA ReceiveOtherTypes ==
    ASSUME TypeInv, ReceiveOther
    PROVE  /\ TypeInv'
           /\ \A k \in DOMAIN incoming' :
                 \/ k \in DOMAIN incoming /\ incoming'[k] = incoming[k]
                 \/ /\ incoming'[k].type \notin ReplyTypes
                    /\ Head(inbox).y \in {"q"} \cup Harmless =>
                          incoming'[k].type \in {"QPing", "BadData"}
<1> DEFINE d == Head(inbox)
           type == CASE d.y = "q" -> "QPing"
                     [] d.y = "e" -> "RError"
                     [] OTHER     -> d.y
           from == IF d.y \in {"e", "MUnknown"} THEN NoId ELSE d.from
           errors == d.y \in {"MUnknown", "NoTid", "BadData"}
           m == [type |-> type, context |-> NULL, errors |-> errors, q |-> d.q,
                 from |-> from]
<1>1. ClockOK' /\ TableOK' /\ SearchesOK' /\ QueuesOK' /\ AddingOK'
  BY DEF TypeInv, ClockOK, TableOK, SearchesOK, Live, QueuesOK, AddingOK,
         ReceiveOther
<1>2. /\ MessagesOK /\ inbox # <<>> /\ inbox' = Tail(inbox)
      /\ incoming' = Append(incoming, m)
      /\ d.y \in {"q", "e", "MUnknown", "NoTid", "OddTid", "BadData"}
  BY DEF TypeInv, ReceiveOther
<1>3. d \in Datagram /\ (d.y \in {"r", "e"} => d.q \in Query)
  BY <1>2, InboxHead DEF DatagramOK
<1>4. NoId \in Hashes
  BY DEF NoId, Hashes
<1>5. /\ type \in {"QPing", "OddTid", "RError"} \cup Flawed
      /\ type \notin ReplyTypes
      /\ d.y \in {"q"} \cup Harmless => type \in {"QPing", "BadData"}
  BY <1>2 DEF Flawed, ReplyTypes, Harmless
<1>6. /\ d.q \in Query \cup {NULL} /\ from \in Hashes
      /\ type \notin {"RError", "MUnknown"} => from \in Remotes
  BY <1>2, <1>3, <1>4, ClientAssumption DEF Datagram
<1>7. type \in {"QPing", "OddTid", "RError"} => ~errors
  BY <1>2
<1>8. errors \in BOOLEAN
  OBVIOUS
<1> HIDE DEF type, from, errors
<1>9. /\ m \in Decoded /\ m.type = type /\ m.q = d.q /\ m.from = from
      /\ m.errors = errors
  BY <1>5, <1>6, <1>8 DEF Decoded
<1> HIDE DEF m, d
<1>10. DecodedOK(m)
  BY <1>5, <1>6, <1>7, <1>9 DEF DecodedOK
<1>11. MessagesOK'
  BY <1>2, <1>10, InboxHead, IncomingGrows DEF MessagesOK
<1>12. \A k \in DOMAIN incoming' :
          \/ k \in DOMAIN incoming /\ incoming'[k] = incoming[k]
          \/ incoming'[k] = m
  BY <1>2, <1>10, IncomingGrows
<1> QED
  BY <1>1, <1>5, <1>9, <1>11, <1>12 DEF TypeInv, d

(* A datagram that nothing is decoded from. *)
LEMMA ReceiveBadTypes ==
    ASSUME TypeInv, ReceiveUnfit \/ ReceiveFailure
    PROVE  TypeInv'
<1>1. /\ UNCHANGED <<now, table, searches, created, queries, next_t, pending,
                     incoming, at, adding, requests>>
      /\ pc' \in {"aborted", "idle"} /\ inbox # <<>> /\ inbox' = Tail(inbox)
      /\ MessagesOK
  BY DEF TypeInv, ReceiveUnfit, ReceiveFailure
<1>2. MessagesOK'
  BY <1>1, InboxHead DEF MessagesOK
<1> QED
  BY <1>1, <1>2 DEF TypeInv, ClockOK, TableOK, SearchesOK, Live, QueuesOK,
                    AddingOK, Steps

(* The socket is empty. *)
LEMMA ReceiveNothingTypes ==
    ASSUME TypeInv, ReceiveNothing
    PROVE  TypeInv'
BY DEF TypeInv, ClockOK, TableOK, SearchesOK, Live, QueuesOK, AddingOK, Steps,
       MessagesOK, ReceiveNothing

(* The message that is handled, the node it is from, and the other ones. *)
LEMMA HandledMessage ==
    ASSUME TypeInv, incoming # <<>>
    PROVE  /\ DecodedOK(Message) /\ Message \in Decoded
           /\ Message.type \notin {"RError", "MUnknown"} =>
                 /\ Replier \in AddedNodes /\ Replier.id = Message.from
                 /\ Querier \in AddedNodes
           /\ Front(incoming) \in Seq(Decoded)
           /\ \A i \in DOMAIN Front(incoming) :
                 /\ i \in DOMAIN incoming
                 /\ Front(incoming)[i] = incoming[i]
                 /\ DecodedOK(Front(incoming)[i])
<1>1. incoming \in Seq(Decoded) /\ \A i \in DOMAIN incoming : DecodedOK(incoming[i])
  BY DEF TypeInv, MessagesOK
<1>2. /\ Last(incoming) = incoming[Len(incoming)]
      /\ Front(incoming) \in Seq(Decoded)
      /\ Len(Front(incoming)) = Len(incoming) - 1
      /\ \A i \in 1 .. Len(incoming) - 1 : Front(incoming)[i] = incoming[i]
  BY <1>1, FrontLastOK
<1>3. Len(incoming) \in DOMAIN incoming
  BY <1>1
<1>4. DecodedOK(Message)
  BY <1>1, <1>2, <1>3 DEF Message
<1>5. \A i \in DOMAIN Front(incoming) : /\ i \in DOMAIN incoming
                                        /\ Front(incoming)[i] = incoming[i]
  <2>1. Len(incoming) \in Nat /\ DOMAIN incoming = 1 .. Len(incoming)
    BY <1>1
  <2>2. DOMAIN Front(incoming) = 1 .. Len(incoming) - 1
    BY <1>2
  <2> QED
    BY <1>2, <2>1, <2>2
<1>6. ASSUME Message.type \notin {"RError", "MUnknown"}
      PROVE  /\ Replier \in AddedNodes /\ Replier.id = Message.from
             /\ Querier \in AddedNodes
  <2> DEFINE from == Message.from
             n == Node_Create(from)
  <2>1. from \in Remotes /\ from \in Hashes
    BY <1>4, <1>6, ClientAssumption DEF DecodedOK
  <2>2. now \in Nat
    BY DEF TypeInv, ClockOK
  <2>3. n \in Node /\ n.id = from
    BY <2>1 DEF Node_Create, Node
  <2>4. /\ Replier = [n EXCEPT !.reply_time = now]
        /\ Querier = [n EXCEPT !.query_time = now]
    BY DEF Replier, Querier
  <2> HIDE DEF n
  <2>5. /\ Replier \in Node /\ Replier.id = from
        /\ Querier \in Node /\ Querier.id = from
    BY <2>2, <2>3, <2>4 DEF Node
  <2> QED
    BY <2>1, <2>5 DEF AddedNodes
<1> QED
  BY <1>1, <1>2, <1>4, <1>5, <1>6 DEF DecodedOK

(* Which parts of the state handlers leave alone. *)
LEMMA ElsewhereTypes ==
    ASSUME TypeInv, incoming # <<>>, incoming' = Front(incoming),
           UNCHANGED Elsewhere, pc # "send", pc' # "send"
    PROVE  ClockOK' /\ QueuesOK' /\ MessagesOK'
<1>1. ClockOK' /\ QueuesOK'
  BY DEF TypeInv, ClockOK, QueuesOK, Elsewhere
<1>2. MessagesOK'
  <2>1. inbox' = inbox
    BY DEF Elsewhere
  <2>2. /\ incoming' \in Seq(Decoded)
        /\ \A i \in DOMAIN incoming' : DecodedOK(incoming'[i])
    BY HandledMessage
  <2> QED
    BY <2>1, <2>2 DEF TypeInv, MessagesOK
<1> QED
  BY <1>1, <1>2

(* The nodes of a reply, on their way into a search. *)
LEMMA StartAddingOK ==
    ASSUME TypeInv, incoming # <<>>, Message.q \in Query, NEW c \in Live,
           Live' = Live, StartAdding(c)
    PROVE  AddingOK' /\ pc' = "add"
<1> DEFINE ids == Within(Contacts[Message.q.to], Remotes \ {OwnId})
           f == [i \in DOMAIN ids |-> Node_Create(ids[i])]
<1>1. Message.q.to \in Remotes
  BY DEF Query
<1>2. Contacts[Message.q.to] \in Seq(Remotes \cup {OwnId})
  BY <1>1, ClientAssumption
<1>3. ids \in Seq((Remotes \cup {OwnId}) \cap (Remotes \ {OwnId}))
  BY <1>2, WithinOK
<1>4. adding' = [context |-> c, nodes |-> f] /\ pc' = "add"
  BY DEF StartAdding
<1> HIDE DEF ids
<1>5. Len(ids) \in Nat /\ DOMAIN ids = 1 .. Len(ids)
      /\ \A i \in 1 .. Len(ids) : ids[i] \in Remotes
  BY <1>3
<1>6. \A i \in 1 .. Len(ids) : /\ Node_Create(ids[i]) \in AddedNodes
                               /\ Node_Create(ids[i]).replied = {}
  BY <1>5, ClientAssumption DEF Node_Create, AddedNodes, Node
<1>7. f \in [1 .. Len(ids) -> AddedNodes]
  BY <1>5, <1>6
<1>8. \A i \in DOMAIN f : f[i].replied = {}
  BY <1>5, <1>6
<1> HIDE DEF f
<1>9. f \in Seq(AddedNodes)
  BY <1>5, <1>7, FunctionIsSeq
<1>10. c \in Contexts
  BY DEF Live
<1>11. /\ adding'.context = c /\ adding'.nodes = f
       /\ adding' \in [context : Contexts \cup {NULL}, nodes : Seq(AddedNodes)]
  BY <1>4, <1>9, <1>10
<1> QED
  BY <1>4, <1>8, <1>11 DEF AddingOK, Steps

(* What every handler of a reply to a search does. *)
LEMMA SearchReplyTypes ==
    ASSUME TypeInv, NEW type \in {"RFindNode", "RGetPeers", "RAnnouncePeer"},
           Handling(type), table' = Table_MarkReply(table, Replier, type, now),
           UNCHANGED Elsewhere, pc' # "send"
    PROVE  /\ ClockOK' /\ TableOK' /\ QueuesOK' /\ MessagesOK'
           /\ Message.q \in Query /\ Replier \in AddedNodes
           /\ Replier.id = Message.from
           /\ Message.from \in Hashes
           /\ incoming # <<>> /\ pc = "handle" /\ at' = at /\ created' = created
<1>1. /\ incoming # <<>> /\ pc = "handle" /\ incoming' = Front(incoming)
      /\ Message.type = type
  BY DEF Handling
<1>2. /\ Message.q \in Query /\ Replier \in AddedNodes
      /\ Replier.id = Message.from /\ Message.from \in Hashes
  BY <1>1, HandledMessage DEF DecodedOK, Decoded, ReplyTypes
<1>3. ClockOK' /\ QueuesOK' /\ MessagesOK'
  BY <1>1, ElsewhereTypes
<1>4. TableOK'
  BY <1>2, TableMarks DEF TypeInv, ClockOK, TableOK
<1> QED
  BY <1>1, <1>2, <1>3, <1>4 DEF Elsewhere

(* The search that a reply belongs to. *)
LEMMA MarkedOK ==
    ASSUME TypeInv, NEW c \in Live, Replier \in AddedNodes,
           NEW type \in {"RFindNode", "RAnnouncePeer"}
    PROVE  SearchOK(Marked(c, type))
<1>1. SearchOK(searches[c]) /\ now \in Nat
  BY DEF TypeInv, ClockOK, SearchesOK
<1>2. /\ WellFormed(Table_MarkReply(searches[c].table, Replier, type, now))
      /\ OnlyIn(Table_MarkReply(searches[c].table, Replier, type, now),
                SearchNodes(searches[c].tokens))
  BY <1>1, SearchMarks
<1>3. Marked(c, type) = [searches[c] EXCEPT !.table =
                            Table_MarkReply(searches[c].table, Replier, type, now)]
  BY DEF Marked
<1> QED
  BY <1>1, <1>2, <1>3, SearchTableOK

(* The token of a node that sent its peers is kept. *)
LEMMA GotPeersOK ==
    ASSUME TypeInv, NEW c \in Live, Replier \in AddedNodes,
           Replier.id = Message.from, Message.from \in Hashes
    PROVE  SearchOK(GotPeers(Marked(c, "RGetPeers")))
<1> DEFINE s == searches[c]
           u == Table_MarkReply(s.table, Replier, "RGetPeers", now)
           m == [s EXCEPT !.table = u]
           r == GotPeers(m)
           tokens == s.tokens \cup {Message.from}
<1>1. SearchOK(s) /\ now \in Nat
  BY DEF TypeInv, ClockOK, SearchesOK
<1>2. s \in SearchRecord
  BY <1>1 DEF SearchOK
<1>3. s.tokens \in SUBSET tokens /\ Replier.id \in tokens
  OBVIOUS
<1>4. WellFormed(u) /\ OnlyIn(u, SearchNodes(tokens))
  <2> HIDE DEF tokens, s
  <2> QED
    BY <1>1, <1>3, SearchMarks
<1>5. Marked(c, "RGetPeers") = m
  BY DEF Marked
<1> HIDE DEF u, s
<1>6. /\ m = [table |-> u, tokens |-> s.tokens, peers |-> s.peers,
              send_time |-> s.send_time]
      /\ s.tokens \in SUBSET Hashes /\ s.peers \in SUBSET Hashes
      /\ s.send_time \in Nat
  BY <1>2 DEF SearchRecord
<1> HIDE DEF m
<1>7. m.table = u /\ m.tokens = s.tokens /\ m.peers = s.peers
      /\ m.send_time = s.send_time
  BY <1>6
<1> DEFINE peers == IF HasValues(Message.q) THEN s.peers \cup {Message.from}
                    ELSE s.peers
<1>8. peers \in SUBSET Hashes /\ tokens \in SUBSET Hashes
  BY <1>6
<1>9. r = [m EXCEPT !.tokens = tokens, !.peers = peers]
  BY <1>7 DEF GotPeers
<1> HIDE DEF r, tokens, peers
<1>10. r = [table |-> u, tokens |-> tokens, peers |-> peers,
            send_time |-> s.send_time]
  BY <1>6, <1>9
<1>11. /\ r.table = u /\ r.tokens = tokens /\ r.peers = peers
       /\ r.send_time = s.send_time
       /\ DOMAIN r = {"table", "tokens", "peers", "send_time"}
       /\ r = [table |-> r.table, tokens |-> r.tokens, peers |-> r.peers,
               send_time |-> r.send_time]
  BY <1>10
<1>12. SearchOK(r)
  BY <1>4, <1>6, <1>8, <1>11, SearchParts
<1> QED
  BY <1>5, <1>12 DEF r

(* A reply to a search that is gone. *)
LEMMA DanglingTypes ==
    ASSUME TypeInv, pc' = "undefined", UNCHANGED <<searches, adding>>,
           at' = at, created' = created
    PROVE  SearchesOK' /\ AddingOK'
BY DEF TypeInv, SearchesOK, Live, AddingOK, Steps

(* A reply is marked in the client and in its search, which stays. *)
LEMMA HandleSearchReplyTypes ==
    ASSUME TypeInv, HandleRFindNode \/ HandleRGetPeers \/ HandleRAnnouncePeer
    PROVE  TypeInv' /\ Live \subseteq Live'
<1> DEFINE c == Message.context
           type == Message.type
<1>1. /\ type \in {"RFindNode", "RGetPeers", "RAnnouncePeer"}
      /\ Handling(type) /\ table' = Table_MarkReply(table, Replier, type, now)
      /\ UNCHANGED Elsewhere /\ pc' \in {"undefined", "add", pc} /\ pc = "handle"
  BY DEF HandleRFindNode, HandleRGetPeers, HandleRAnnouncePeer,
         HandleSearchReply, Handling, StartAdding
<1>2. /\ ClockOK' /\ TableOK' /\ QueuesOK' /\ MessagesOK'
      /\ Message.q \in Query /\ Replier \in AddedNodes
      /\ Replier.id = Message.from /\ Message.from \in Hashes
      /\ incoming # <<>> /\ pc = "handle" /\ at' = at /\ created' = created
  BY <1>1, SearchReplyTypes
<1>3. CASE c \notin Live
  <2>1. pc' = "undefined" /\ UNCHANGED <<searches, adding>> /\ Live' = Live
    BY <1>3 DEF HandleRFindNode, HandleRGetPeers, HandleRAnnouncePeer,
                HandleSearchReply, Live
  <2> QED
    BY <1>2, <2>1, DanglingTypes DEF TypeInv
<1>4. CASE c \in Live
  <2>1. PICK s : /\ searches' = [searches EXCEPT ![c] = s] /\ SearchOK(s)
                 /\ (StartAdding(c) \/ UNCHANGED <<adding, pc>>)
    <3>1. CASE HandleRFindNode
      <4>1. searches' = [searches EXCEPT ![c] = Marked(c, "RFindNode")]
            /\ StartAdding(c)
        BY <1>4, <3>1 DEF HandleRFindNode, HandleSearchReply
      <4>2. SearchOK(Marked(c, "RFindNode"))
        BY <1>2, <1>4, MarkedOK
      <4> QED
        BY <4>1, <4>2
    <3>2. CASE HandleRGetPeers
      <4>1. searches' = [searches EXCEPT ![c] = GotPeers(Marked(c, "RGetPeers"))]
            /\ (StartAdding(c) \/ UNCHANGED <<adding, pc>>)
        BY <1>4, <3>2 DEF HandleRGetPeers, HandleSearchReply
      <4>2. SearchOK(GotPeers(Marked(c, "RGetPeers")))
        BY <1>2, <1>4, GotPeersOK
      <4> QED
        BY <4>1, <4>2
    <3>3. CASE HandleRAnnouncePeer
      <4>1. searches' = [searches EXCEPT ![c] = Marked(c, "RAnnouncePeer")]
            /\ UNCHANGED <<adding, pc>>
        BY <1>4, <3>3 DEF HandleRAnnouncePeer, HandleSearchReply
      <4>2. SearchOK(Marked(c, "RAnnouncePeer"))
        BY <1>2, <1>4, MarkedOK
      <4> QED
        BY <4>1, <4>2
    <3> QED
      BY <3>1, <3>2, <3>3
  <2> HIDE DEF c, type
  <2>2. /\ SearchesOK /\ c \in Contexts /\ c <= created'
        /\ created' \in created .. Len(Targets) /\ at' \in 1 .. Len(Targets) + 1
    BY <1>2, <1>4 DEF TypeInv, SearchesOK, Live
  <2>3. SearchesOK' /\ Live' = Live
    BY <1>4, <2>1, <2>2, PutSearch
  <2>4. AddingOK'
    <3>1. CASE StartAdding(c)
      BY <1>2, <1>4, <2>3, <3>1, StartAddingOK
    <3>2. CASE UNCHANGED <<adding, pc>>
      BY <1>2, <2>3, <3>2 DEF TypeInv, AddingOK
    <3> QED
      BY <2>1, <3>1, <3>2
  <2> QED
    BY <1>2, <2>3, <2>4 DEF TypeInv
<1> QED
  BY <1>3, <1>4

(* A node that answered a ping goes into every search. *)
LEMMA HandleRPingTypes ==
    ASSUME TypeInv, HandleRPing
    PROVE  TypeInv' /\ Live \subseteq Live'
<1>1. /\ Handling("RPing") /\ UNCHANGED Elsewhere /\ pc' = pc /\ adding' = adding
      /\ incoming # <<>> /\ pc = "handle" /\ incoming' = Front(incoming)
      /\ Message.type = "RPing"
  BY DEF HandleRPing, Handling
<1>2. Replier \in AddedNodes
  BY <1>1, HandledMessage
<1>3. ClockOK' /\ QueuesOK' /\ MessagesOK'
  BY <1>1, ElsewhereTypes
<1>4. TableOK'
  BY <1>2, TableMarks DEF TypeInv, ClockOK, TableOK, HandleRPing
<1> DEFINE New(c) == [searches[c] EXCEPT !.table =
                         Table_CopyAndAddNode(searches[c].table, Replier, now)]
<1>5. /\ searches' = [c \in Contexts |-> IF c \notin Live THEN NULL ELSE New(c)]
      /\ created' = created /\ at' = at
  BY <1>1 DEF HandleRPing, Elsewhere
<1>6. \A c \in Live : SearchOK(New(c))
  BY <1>2, SearchAdds DEF TypeInv, SearchesOK, ClockOK
<1> HIDE DEF New
<1>7. \A c \in Live : New(c) \in SearchRecord /\ New(c) # NULL
  BY <1>6, SearchNotNULL DEF SearchOK
<1>8. searches' \in [Contexts -> SearchRecord \cup {NULL}]
  BY <1>5, <1>7
<1>9. Live' = Live /\ \A c \in Live : searches'[c] = New(c)
  BY <1>5, <1>7 DEF Live
<1>10. SearchesOK'
  BY <1>5, <1>6, <1>8, <1>9 DEF TypeInv, SearchesOK
<1>11. AddingOK'
  BY <1>1, <1>9 DEF TypeInv, AddingOK
<1> QED
  BY <1>3, <1>4, <1>9, <1>10, <1>11 DEF TypeInv

(* The messages that no search hears of. *)
LEMMA HandleOtherTypes ==
    ASSUME TypeInv, \/ HandleInvalidReply \/ HandleInvalidQuery
                    \/ HandleRError \/ HandleQPing
    PROVE  TypeInv'
<1>1. /\ UNCHANGED Elsewhere /\ pc' \in {pc, "aborted"} /\ adding' = adding
      /\ incoming # <<>> /\ pc = "handle" /\ incoming' = Front(incoming)
      /\ searches' = searches
  BY DEF HandleInvalidReply, HandleInvalidQuery, HandlingInvalid, HandleRError,
         HandleQPing, Handling
<1>2. ClockOK' /\ QueuesOK' /\ MessagesOK'
  BY <1>1, ElsewhereTypes
<1>3. SearchesOK' /\ AddingOK'
  BY <1>1 DEF TypeInv, SearchesOK, AddingOK, Live, Steps, Elsewhere
<1>4. TableOK'
  <2>1. WellFormed(table) /\ OnlyIn(table, TableNodes) /\ now \in Nat \ {0}
    BY DEF TypeInv, TableOK, ClockOK
  <2>2. CASE HandleInvalidReply
    <3>1. CASE MessageType_IsReply(Message.type)
      <4>1. Message.type \notin {"RError", "MUnknown"}
        BY <1>1, <2>2, <3>1, HandledMessage
           DEF DecodedOK, HandleInvalidReply, HandlingInvalid,
               MessageType_IsReply, ReplyTypes
      <4>2. Replier \in AddedNodes
        BY <1>1, <4>1, HandledMessage
      <4> QED
        BY <2>1, <2>2, <3>1, <4>2, TableMarks DEF TableOK, HandleInvalidReply
    <3>2. CASE ~MessageType_IsReply(Message.type)
      BY <2>1, <2>2, <3>2 DEF TableOK, HandleInvalidReply
    <3> QED
      BY <3>1, <3>2
  <2>3. CASE HandleRError \/ HandleInvalidQuery
    BY <2>3 DEF TypeInv, TableOK, HandleRError, HandleInvalidQuery
  <2>4. CASE HandleQPing
    <3>1. Querier \in AddedNodes
      BY <1>1, <2>4, HandledMessage DEF HandleQPing, Handling
    <3> QED
      BY <2>1, <2>4, <3>1, TableMarks DEF TableOK, HandleQPing
  <2> QED
    BY <2>2, <2>3, <2>4
<1> QED
  BY <1>2, <1>3, <1>4 DEF TypeInv

(* The end of a pass. *)
LEMMA HandledAllTypes ==
    ASSUME TypeInv, HandledAll
    PROVE  TypeInv'
BY DEF TypeInv, ClockOK, TableOK, SearchesOK, Live, QueuesOK, AddingOK, Steps,
       MessagesOK, HandledAll, Elsewhere

(* What remote nodes and the network send. *)
LEMMA ReplyOK ==
    ASSUME NEW q \in Query
    PROVE  /\ Reply(q) \in Datagram /\ DatagramOK(Reply(q))
           /\ [Reply(q) EXCEPT !.y = "e"] \in Datagram
           /\ DatagramOK([Reply(q) EXCEPT !.y = "e"])
           /\ Reply(q).y = "r" /\ Reply(q).q = q
<1>1. RealId[q.to] \in Remotes
  BY ClientAssumption DEF Query
<1>2. Reply(q) = [y |-> "r", q |-> q, from |-> RealId[q.to]]
  BY DEF Reply
<1>3. [Reply(q) EXCEPT !.y = "e"] = [y |-> "e", q |-> q, from |-> RealId[q.to]]
  BY <1>2
<1> QED
  BY <1>1, <1>2, <1>3 DEF DatagramOK, Datagram

(* What arrives unasked, which is no reply to a query. *)
LEMMA ArrivalOK ==
    ASSUME NEW r \in Queriers, NEW y \in {"q"} \cup Strays
    PROVE  LET d == [y |-> y, q |-> NULL, from |-> RealId[r]]
           IN  DatagramOK(d) /\ ~IsReply(d) /\ d.y = y
<1>1. RealId[r] \in Remotes /\ y \in {"q"} \cup StrayKinds
  BY ClientAssumption
<1>2. y \notin {"r", "e"}
  BY <1>1 DEF StrayKinds
<1> QED
  BY <1>1, <1>2 DEF DatagramOK, Datagram, IsReply

(* A datagram more. *)
LEMMA InboxGrows ==
    ASSUME MessagesOK, NEW d, DatagramOK(d)
    PROVE  /\ Append(inbox, d) \in Seq(Datagram)
           /\ \A i \in DOMAIN Append(inbox, d) :
                 \/ i \in DOMAIN inbox /\ Append(inbox, d)[i] = inbox[i]
                 \/ i = Len(inbox) + 1 /\ Append(inbox, d)[i] = d
           /\ \A i \in DOMAIN Append(inbox, d) : DatagramOK(Append(inbox, d)[i])
<1>1. inbox \in Seq(Datagram) /\ \A i \in DOMAIN inbox : DatagramOK(inbox[i])
  BY DEF MessagesOK
<1>2. d \in Datagram
  BY DEF DatagramOK
<1>3. Append(inbox, d) \in Seq(Datagram)
  BY <1>1, <1>2
<1>4. \A i \in DOMAIN Append(inbox, d) :
         \/ i \in DOMAIN inbox /\ Append(inbox, d)[i] = inbox[i]
         \/ i = Len(inbox) + 1 /\ Append(inbox, d)[i] = d
  BY <1>1, <1>2
<1> QED
  BY <1>1, <1>3, <1>4

(* Two copies of a datagram. *)
LEMMA InboxGrowsTwice ==
    ASSUME MessagesOK, NEW d, DatagramOK(d)
    PROVE  /\ inbox \o <<d, d>> \in Seq(Datagram)
           /\ \A i \in DOMAIN (inbox \o <<d, d>>) :
                 \/ i \in DOMAIN inbox /\ (inbox \o <<d, d>>)[i] = inbox[i]
                 \/ (inbox \o <<d, d>>)[i] = d
           /\ \A i \in DOMAIN (inbox \o <<d, d>>) : DatagramOK((inbox \o <<d, d>>)[i])
<1>1. inbox \in Seq(Datagram) /\ \A i \in DOMAIN inbox : DatagramOK(inbox[i])
  BY DEF MessagesOK
<1>2. d \in Datagram
  BY DEF DatagramOK
<1> DEFINE e == <<d, d>>
<1>3. e \in Seq(Datagram) /\ Len(e) = 2 /\ \A i \in 1 .. 2 : e[i] = d
  BY <1>2
<1> HIDE DEF e
<1>4. /\ inbox \o e \in Seq(Datagram) /\ Len(inbox \o e) = Len(inbox) + 2
      /\ \A i \in 1 .. Len(inbox) + 2 :
            (inbox \o e)[i] = IF i <= Len(inbox) THEN inbox[i] ELSE e[i - Len(inbox)]
  <2>1. /\ inbox \o e \in Seq(Datagram) /\ Len(inbox \o e) = Len(inbox) + Len(e)
        /\ \A i \in 1 .. Len(inbox) + Len(e) :
              (inbox \o e)[i] = IF i <= Len(inbox) THEN inbox[i] ELSE e[i - Len(inbox)]
    BY ONLY <1>1, <1>3, ConcatProperties
  <2> QED
    BY ONLY <1>3, <2>1
<1>5. /\ Len(inbox) \in Nat /\ DOMAIN inbox = 1 .. Len(inbox)
      /\ DOMAIN (inbox \o e) = 1 .. Len(inbox) + 2
  BY <1>1, <1>4
<1>6. ASSUME NEW i \in DOMAIN (inbox \o e)
      PROVE  \/ i \in DOMAIN inbox /\ (inbox \o e)[i] = inbox[i]
             \/ (inbox \o e)[i] = d
  <2>1. CASE i <= Len(inbox)
    BY <1>4, <1>5, <2>1
  <2>2. CASE i > Len(inbox)
    <3>1. i - Len(inbox) \in 1 .. 2 /\ ~(i <= Len(inbox))
      BY <1>5, <2>2
    <3> QED
      BY <1>3, <1>4, <1>5, <3>1
  <2> QED
    BY <1>5, <2>1, <2>2
<1>7. \A i \in DOMAIN (inbox \o e) : DatagramOK((inbox \o e)[i])
  BY <1>1, <1>6
<1> QED
  BY <1>4, <1>6, <1>7 DEF e

(* Nothing of the client changes when remote nodes act or time passes. *)
LEMMA OutsideTypes ==
    ASSUME TypeInv, UNCHANGED client, now' \in Nat \ {0},
           requests' \in SUBSET Query, inbox' \in Seq(Datagram),
           \A i \in DOMAIN inbox' : DatagramOK(inbox'[i])
    PROVE  TypeInv'
<1>1. ClockOK' /\ TableOK'
  BY DEF TypeInv, ClockOK, TableOK, client
<1>2. SearchesOK' /\ AddingOK'
  BY DEF TypeInv, SearchesOK, AddingOK, Live, client
<1>3. QueuesOK' /\ MessagesOK'
  BY DEF TypeInv, QueuesOK, MessagesOK, client
<1> QED
  BY <1>1, <1>2, <1>3 DEF TypeInv

(* What the remote nodes, the network and the clock do. *)
LEMMA RemoteTypes ==
    ASSUME TypeInv,
           \/ \E q \in requests : Answer(q) \/ AnswerTwice(q) \/ AnswerError(q)
           \/ \E r \in Queriers : Arrive(r)
           \/ Tick
           \/ UNCHANGED vars
    PROVE  TypeInv'
<1>1. /\ now \in Nat \ {0} /\ requests \in SUBSET Query /\ MessagesOK
      /\ inbox \in Seq(Datagram) /\ \A i \in DOMAIN inbox : DatagramOK(inbox[i])
  BY DEF TypeInv, ClockOK, QueuesOK, MessagesOK
<1>2. ASSUME NEW q \in requests, Answer(q) \/ AnswerTwice(q) \/ AnswerError(q)
      PROVE  TypeInv'
  <2> DEFINE e == [Reply(q) EXCEPT !.y = "e"]
  <2>1. q \in Query /\ DatagramOK(Reply(q)) /\ DatagramOK(e)
    BY <1>1, ReplyOK
  <2>2. UNCHANGED client /\ now' = now /\ requests' = requests \ {q}
    BY <1>2 DEF Answer, AnswerTwice, AnswerError
  <2>3. /\ inbox' \in Seq(Datagram)
        /\ \A i \in DOMAIN inbox' : DatagramOK(inbox'[i])
    <3>1. CASE Answer(q)
      BY <1>1, <2>1, <3>1, InboxGrows DEF Answer
    <3>2. CASE AnswerTwice(q)
      BY <1>1, <2>1, <3>2, InboxGrowsTwice DEF AnswerTwice
    <3>3. CASE AnswerError(q)
      <4>1. inbox' = Append(inbox, e)
        BY <3>3 DEF AnswerError
      <4> HIDE DEF e
      <4> QED
        BY <1>1, <2>1, <4>1, InboxGrows
    <3> QED
      BY <1>2, <3>1, <3>2, <3>3
  <2> QED
    BY <1>1, <2>2, <2>3, OutsideTypes
<1>3. ASSUME NEW r \in Queriers, Arrive(r)
      PROVE  TypeInv'
  <2>1. PICK y \in {"q"} \cup Strays :
               inbox' = Append(inbox, [y |-> y, q |-> NULL, from |-> RealId[r]])
    BY <1>3 DEF Arrive
  <2> DEFINE d == [y |-> y, q |-> NULL, from |-> RealId[r]]
  <2>4. DatagramOK(d)
    BY ArrivalOK
  <2>2. /\ UNCHANGED client /\ now' = now /\ requests' = requests
        /\ inbox' = Append(inbox, d)
    BY <1>3, <2>1 DEF Arrive
  <2> HIDE DEF d
  <2>3. /\ inbox' \in Seq(Datagram)
        /\ \A i \in DOMAIN inbox' : DatagramOK(inbox'[i])
    BY <1>1, <2>2, <2>4, InboxGrows
  <2> QED
    BY <1>1, <2>2, <2>3, OutsideTypes
<1>4. CASE Tick
  <2>1. UNCHANGED <<client, requests, inbox>> /\ now' = now + 1
    BY <1>4 DEF Tick
  <2> QED
    BY <1>1, <2>1, OutsideTypes
<1>5. CASE UNCHANGED vars
  BY <1>1, <1>5, OutsideTypes DEF vars
<1> QED
  BY <1>2, <1>3, <1>4, <1>5

(* Every step keeps the types. *)
LEMMA NextTypes ==
    ASSUME TypeInv, [Next]_vars
    PROVE  TypeInv'
<1>1. ASSUME NEW addr \in Bootstrap, AddNode(addr) PROVE TypeInv'
  BY <1>1, AddNodeTypes
<1>2. CASE AddSearch
  BY <1>2, AddSearchTypes
<1>3. CASE ClientStep
  <2>1. CASE Process
    BY <2>1, ProcessTypes
  <2>2. ASSUME NEW c \in Live, HandleSearches(c) PROVE TypeInv'
    BY <2>2, HandleSearchesTypes
  <2>3. CASE CleanSearches
    BY <2>3, CleanSearchesTypes
  <2>4. CASE SendMessage \/ SendFailure
    BY <2>4, SendTypes
  <2>5. CASE ReceiveReply
    BY <2>5, ReceiveReplyTypes
  <2>6. CASE ReceiveOther
    BY <2>6, ReceiveOtherTypes
  <2>7. CASE ReceiveNothing
    BY <2>7, ReceiveNothingTypes
  <2>14. CASE ReceiveUnfit \/ ReceiveFailure
    BY <2>14, ReceiveBadTypes
  <2>8. CASE HandleRPing
    BY <2>8, HandleRPingTypes
  <2>9. CASE HandleRFindNode \/ HandleRGetPeers \/ HandleRAnnouncePeer
    BY <2>9, HandleSearchReplyTypes
  <2>10. CASE AddSearchNodes
    BY <2>10, AddSearchNodesTypes
  <2>11. CASE \/ HandleInvalidReply \/ HandleInvalidQuery
              \/ HandleRError \/ HandleQPing
    BY <2>11, HandleOtherTypes
  <2>12. CASE HandledAll
    BY <2>12, HandledAllTypes
  <2>13. CASE CopyTable
    BY <2>13, CopyTableTypes
  <2> QED
    BY <1>3, <2>1, <2>2, <2>3, <2>4, <2>5, <2>6, <2>7, <2>8, <2>9, <2>10,
       <2>11, <2>12, <2>13, <2>14 DEF ClientStep
<1>4. CASE \/ \E q \in requests : Answer(q) \/ AnswerTwice(q) \/ AnswerError(q)
           \/ \E r \in Queriers : Arrive(r)
           \/ Tick
           \/ UNCHANGED vars
  BY <1>4, RemoteTypes
<1> QED
  BY <1>1, <1>2, <1>3, <1>4 DEF Next

(* The client's state keeps its types and its tables stay well-formed,     *)
(* whatever is sent, lost, delayed or duplicated: every step of a pass     *)
(* finds what table.c, bucket.c and search.c assert.                       *)
THEOREM TypeInvHolds == Spec => []TypeInv
<1>1. Init => TypeInv
  BY InitTypes
<1>2. TypeInv /\ [Next]_vars => TypeInv'
  BY NextTypes
<1> QED
  BY <1>1, <1>2, PTL DEF Spec

(* The types of the client's state, of its tables and of those of its      *)
(* searches.                                                               *)
THEOREM TypeCorrect == Spec => []TypeOK
<1>1. TypeInv => TypeOK
  BY DEF TypeInv, ClockOK, TableOK, SearchesOK, SearchOK, QueuesOK, AddingOK,
         WellFormed, TypeOK
<1> QED
  BY <1>1, TypeInvHolds, PTL

(* Table_MarkReply and Table_MarkQuery are the only ways into the client's *)
(* table: a node that was only heard of never gets there.                  *)
THEOREM TableIsFirstHand == Spec => []ClientTableIsFirstHand
<1>1. TypeInv => ClientTableIsFirstHand
  BY NodeAtIn DEF TypeInv, TableOK, TableNodes, Seen, ClientTableIsFirstHand
<1> QED
  BY <1>1, TypeInvHolds, PTL

-----------------------------------------------------------------------------
(* Replies find the entries of their queries                               *)

Apart == QueuedApart /\ RequestsApart /\ RepliesApart /\ UnusedIsFree
           /\ RepliesMatchQueries

(* Nothing is given a transaction id: what is queued, on its way or        *)
(* decoded was so before, or is no reply.                                  *)
Fewer ==
    /\ next_t' = next_t /\ pending' = pending /\ requests' \subseteq requests
    /\ \/ queries' = queries
       \/ queries # <<>> /\ queries' = Front(queries)
    /\ \A k \in DOMAIN inbox' : IsReply(inbox'[k]) =>
          \E j \in DOMAIN inbox : inbox[j] = inbox'[k]
    /\ \A k \in DOMAIN incoming' :
          \/ incoming'[k].type \notin ReplyTypes
          \/ \E j \in DOMAIN incoming : incoming[j] = incoming'[k]

(* Then no two of them come to have the same one. *)
LEMMA FewerApart ==
    ASSUME TypeInv, TidInv, Fewer
    PROVE  TidInv'
<1> SUFFICES ASSUME next_t' <= TidSpace PROVE Apart'
  BY DEF TidInv, Apart
<1>1. /\ QueuedApart /\ RequestsApart /\ RepliesApart /\ UnusedIsFree
      /\ RepliesMatchQueries
  BY DEF TidInv, Fewer
<1>2. \A i \in DOMAIN queries' : i \in DOMAIN queries /\ queries'[i] = queries[i]
  <2>1. queries \in Seq(Query)
    BY DEF TypeInv, QueuesOK
  <2>2. CASE queries # <<>> /\ queries' = Front(queries)
    <3>1. /\ Front(queries) \in Seq(Query) /\ Len(Front(queries)) = Len(queries) - 1
          /\ \A i \in 1 .. Len(queries) - 1 : Front(queries)[i] = queries[i]
      BY <2>1, <2>2, FrontLastOK
    <3>2. /\ DOMAIN queries = 1 .. Len(queries) /\ Len(queries) \in Nat
          /\ DOMAIN Front(queries) = 1 .. Len(queries) - 1
      BY <2>1, <3>1
    <3> QED
      BY <2>2, <3>1, <3>2
  <2>3. CASE queries' = queries
    BY <2>3
  <2> QED
    BY <2>2, <2>3 DEF Fewer
<1>3. QueuedApart'
  BY <1>1, <1>2 DEF QueuedApart, Fewer
<1>4. RequestsApart'
  BY <1>1 DEF RequestsApart, Fewer, PendingResponse
<1>5. RepliesApart'
  BY <1>1 DEF RepliesApart, Fewer, PendingResponse
<1>6. UnusedIsFree' /\ RepliesMatchQueries'
  BY <1>1 DEF UnusedIsFree, RepliesMatchQueries, Fewer
<1> QED
  BY <1>3, <1>4, <1>5, <1>6 DEF Apart

(* Queries, requests and replies have transaction ids. *)
LEMMA TidTypes ==
    ASSUME TypeInv
    PROVE  /\ next_t \in Nat /\ Len(queries) \in Nat
           /\ DOMAIN queries = 1 .. Len(queries)
           /\ TidSpace \in Nat /\ requests \in SUBSET Query
           /\ \A q \in Query : q.t \in Nat /\ q.t \in Tids
           /\ \A k \in DOMAIN inbox : IsReply(inbox[k]) => inbox[k].q \in Query
           /\ \A i \in DOMAIN queries : queries[i].t \in Nat /\ queries[i] \in Query
<1>1. /\ next_t \in Nat /\ queries \in Seq(Query) /\ requests \in SUBSET Query
  BY DEF TypeInv, QueuesOK
<1>2. TidSpace \in Nat
  BY ClientAssumption
<1>3. \A q \in Query : q.t \in Nat /\ q.t \in Tids
  BY <1>2 DEF Query, Tids
<1>4. \A k \in DOMAIN inbox : IsReply(inbox[k]) => inbox[k].q \in Query
  BY DEF TypeInv, MessagesOK, DatagramOK, IsReply
<1>5. \A i \in DOMAIN queries : queries[i].t \in Nat /\ queries[i] \in Query
  BY <1>1, <1>3
<1>6. Len(queries) \in Nat /\ DOMAIN queries = 1 .. Len(queries)
  BY <1>1
<1> QED
  BY <1>1, <1>2, <1>3, <1>4, <1>5, <1>6

(* New queries get unused transaction ids. *)
LEMMA FreshApart ==
    ASSUME TypeInv, TidInv, NEW n \in Nat, next_t' = next_t + n,
           DOMAIN queries' = 1 .. Len(queries) + n,
           \A i \in 1 .. Len(queries) : queries'[i] = queries[i],
           \A i \in 1 .. n :
               queries'[Len(queries) + i].t = (next_t + (i - 1)) % TidSpace,
           UNCHANGED <<pending, requests, inbox, incoming>>
    PROVE  TidInv'
<1> SUFFICES ASSUME next_t' <= TidSpace PROVE Apart'
  BY DEF TidInv, Apart
<1>1. /\ next_t \in Nat /\ Len(queries) \in Nat /\ DOMAIN queries = 1 .. Len(queries)
      /\ TidSpace \in Nat /\ requests \in SUBSET Query
      /\ \A q \in Query : q.t \in Nat
      /\ \A k \in DOMAIN inbox : IsReply(inbox[k]) => inbox[k].q \in Query
      /\ \A i \in DOMAIN queries : queries[i].t \in Nat
  BY TidTypes
<1>2. /\ QueuedApart /\ RequestsApart /\ RepliesApart /\ UnusedIsFree
      /\ RepliesMatchQueries
  BY <1>1 DEF TidInv
<1>3. ASSUME NEW i \in DOMAIN queries'
      PROVE  \/ i \in DOMAIN queries /\ queries'[i] = queries[i]
             \/ /\ i \notin DOMAIN queries /\ i \in Nat
                /\ queries'[i].t = next_t + ((i - Len(queries)) - 1)
                /\ queries'[i].t >= next_t /\ queries'[i].t \in Tids
                /\ queries'[i].t < next_t'
  <2>1. CASE i <= Len(queries)
    BY <1>1, <2>1
  <2>2. CASE i > Len(queries)
    <3> DEFINE j == i - Len(queries)
               m == next_t + (j - 1)
    <3>1. j \in 1 .. n /\ Len(queries) + j = i /\ i \notin DOMAIN queries /\ i \in Nat
      BY <1>1, <2>2
    <3>2. m \in Nat /\ m < next_t' /\ m < TidSpace /\ m >= next_t
      BY <1>1, <3>1
    <3>3. m % TidSpace = m /\ m \in Tids
      <4> HIDE DEF m
      <4> QED
        BY <3>2, TidOK
    <3>4. queries'[Len(queries) + j].t = m % TidSpace
      <4> HIDE DEF j
      <4> QED
        BY <3>1 DEF m
    <3> QED
      BY <3>1, <3>2, <3>3, <3>4
  <2> QED
    BY <1>1, <2>1, <2>2
<1>4. next_t <= next_t' /\ next_t' \in Nat
  BY <1>1
<1>5. QueuedApart'
  <2> SUFFICES ASSUME NEW i \in DOMAIN queries'
               PROVE  /\ queries'[i].t < next_t'
                      /\ pending[queries'[i].t] = NULL
                      /\ \A j \in DOMAIN queries' :
                            queries'[j].t = queries'[i].t => j = i
                      /\ \A q \in requests : q.t # queries'[i].t
                      /\ \A k \in DOMAIN inbox :
                            IsReply(inbox[k]) => inbox[k].q.t # queries'[i].t
    BY DEF QueuedApart, IsReply
  <2>1. CASE i \in DOMAIN queries /\ queries'[i] = queries[i]
    <3>1. queries[i].t < next_t /\ queries[i].t \in Nat
      BY <1>1, <1>2, <2>1 DEF QueuedApart
    <3>2. queries'[i].t < next_t'
      BY <1>1, <1>4, <2>1, <3>1
    <3>3. ASSUME NEW j \in DOMAIN queries', queries'[j].t = queries'[i].t
          PROVE  j = i
      <4>1. j \in DOMAIN queries /\ queries'[j] = queries[j]
        BY <1>1, <1>3, <2>1, <3>1, <3>3
      <4> QED
        BY <1>2, <2>1, <3>3, <4>1 DEF QueuedApart
    <3> QED
      BY <1>2, <2>1, <3>2, <3>3 DEF QueuedApart
  <2>2. CASE /\ i \notin DOMAIN queries /\ i \in Nat
             /\ queries'[i].t = next_t + ((i - Len(queries)) - 1)
             /\ queries'[i].t >= next_t /\ queries'[i].t \in Tids
             /\ queries'[i].t < next_t'
    <3>1. pending[queries'[i].t] = NULL
      BY <1>2, <2>2 DEF UnusedIsFree
    <3>2. ASSUME NEW j \in DOMAIN queries', queries'[j].t = queries'[i].t
          PROVE  j = i
      <4>1. CASE j \in DOMAIN queries /\ queries'[j] = queries[j]
        <5>1. queries[j].t < next_t /\ queries[j].t \in Nat
          BY <1>1, <1>2, <4>1 DEF QueuedApart
        <5> QED
          BY <1>1, <2>2, <3>2, <4>1, <5>1
      <4>2. CASE j \in Nat /\ queries'[j].t = next_t + ((j - Len(queries)) - 1)
        BY <1>1, <2>2, <3>2, <4>2
      <4> QED
        BY <1>3, <4>1, <4>2
    <3>3. ASSUME NEW q \in requests PROVE q.t # queries'[i].t
      <4>1. q.t < next_t /\ q.t \in Nat
        BY <1>1, <1>2 DEF RequestsApart
      <4> QED
        BY <1>1, <2>2, <4>1
    <3>4. ASSUME NEW k \in DOMAIN inbox, IsReply(inbox[k])
          PROVE  inbox[k].q.t # queries'[i].t
      <4>1. inbox[k].q.t < next_t /\ inbox[k].q.t \in Nat
        BY <1>1, <1>2, <3>4 DEF RepliesApart
      <4> QED
        BY <1>1, <2>2, <4>1
    <3> QED
      BY <2>2, <3>1, <3>2, <3>3, <3>4
  <2> QED
    BY <1>3, <2>1, <2>2
<1>6. RequestsApart'
  <2>1. \A q \in requests : q.t < next_t'
    <3> TAKE q \in requests
    <3>1. q.t < next_t /\ q.t \in Nat
      BY <1>1, <1>2 DEF RequestsApart
    <3> QED
      BY <1>1, <1>4, <3>1
  <2> QED
    BY <1>2, <2>1 DEF RequestsApart, PendingResponse, IsReply
<1>7. RepliesApart'
  <2>1. \A k \in DOMAIN inbox : IsReply(inbox[k]) => inbox[k].q.t < next_t'
    <3> TAKE k \in DOMAIN inbox
    <3> HAVE IsReply(inbox[k])
    <3>1. inbox[k].q.t < next_t /\ inbox[k].q.t \in Nat
      BY <1>1, <1>2 DEF RepliesApart
    <3> QED
      BY <1>1, <1>4, <3>1
  <2> QED
    BY <1>2, <2>1 DEF RepliesApart, PendingResponse, IsReply
<1>8. UnusedIsFree'
  BY <1>1, <1>2, <1>4 DEF UnusedIsFree, Tids
<1>9. RepliesMatchQueries'
  BY <1>2 DEF RepliesMatchQueries
<1> QED
  BY <1>5, <1>6, <1>7, <1>8, <1>9 DEF Apart

(* The steps that make no query, send none and take no reply. *)
LEMMA QuietSteps ==
    ASSUME TypeInv,
           \/ AddSearch \/ CopyTable \/ Process \/ CleanSearches \/ SendFailure
           \/ ReceiveOther \/ ReceiveUnfit \/ ReceiveFailure \/ ReceiveNothing
           \/ HandleRPing \/ HandleRFindNode \/ HandleRGetPeers
           \/ HandleRAnnouncePeer \/ AddSearchNodes \/ HandleInvalidReply
           \/ HandleInvalidQuery \/ HandleRError \/ HandleQPing \/ HandledAll
           \/ \E q \in requests : AnswerError(q)
           \/ \E r \in Queriers : Arrive(r)
           \/ Tick \/ UNCHANGED vars
    PROVE  Fewer
<1> DEFINE Others == <<queries, next_t, pending, requests>>
<1>1. CASE \/ AddSearch \/ CopyTable \/ Process \/ CleanSearches
           \/ ReceiveNothing \/ AddSearchNodes \/ HandledAll
           \/ Tick \/ UNCHANGED vars
  <2>1. UNCHANGED <<Others, incoming, inbox>>
    BY <1>1 DEF AddSearch, CopyTable, Process, CleanSearches, ReceiveNothing,
                AddSearchNodes, HandledAll, Tick, vars, client, Elsewhere
  <2> QED
    BY <2>1 DEF Fewer
<1>2. CASE SendFailure
  <2>1. /\ UNCHANGED <<next_t, pending, requests, incoming, inbox>>
        /\ queries' = Front(queries) /\ queries # <<>>
    BY <1>2 DEF SendFailure, TypeInv, QueuesOK
  <2> QED
    BY <2>1 DEF Fewer
<1>3. CASE ReceiveOther
  <2>1. UNCHANGED Others /\ MessagesOK /\ inbox # <<>> /\ inbox' = Tail(inbox)
    BY <1>3 DEF ReceiveOther, TypeInv
  <2>2. \A k \in DOMAIN inbox' : \E j \in DOMAIN inbox : inbox[j] = inbox'[k]
    BY <2>1, InboxHead
  <2>3. \A k \in DOMAIN incoming' :
           \/ incoming'[k].type \notin ReplyTypes
           \/ \E j \in DOMAIN incoming : incoming[j] = incoming'[k]
    BY <1>3, ReceiveOtherTypes
  <2> QED
    BY <2>1, <2>2, <2>3 DEF Fewer
<1>8. CASE ReceiveUnfit \/ ReceiveFailure
  <2>1. UNCHANGED <<Others, incoming>> /\ MessagesOK /\ inbox # <<>>
        /\ inbox' = Tail(inbox)
    BY <1>8 DEF ReceiveUnfit, ReceiveFailure, TypeInv
  <2>2. \A k \in DOMAIN inbox' : \E j \in DOMAIN inbox : inbox[j] = inbox'[k]
    BY <2>1, InboxHead
  <2> QED
    BY <2>1, <2>2 DEF Fewer
<1>4. CASE \/ HandleRPing \/ HandleRFindNode \/ HandleRGetPeers
           \/ HandleRAnnouncePeer \/ HandleInvalidReply \/ HandleInvalidQuery
           \/ HandleRError \/ HandleQPing
  <2>1. /\ UNCHANGED <<Others, inbox>>
        /\ incoming # <<>> /\ incoming' = Front(incoming)
    BY <1>4 DEF HandleRPing, HandleRFindNode, HandleRGetPeers,
                HandleRAnnouncePeer, HandleSearchReply, HandleInvalidReply,
                HandleInvalidQuery, HandlingInvalid, HandleRError, HandleQPing,
                Handling, Elsewhere
  <2>2. \A k \in DOMAIN incoming' :
           \E j \in DOMAIN incoming : incoming[j] = incoming'[k]
    BY <2>1, HandledMessage
  <2> QED
    BY <2>1, <2>2 DEF Fewer
<1>5. ASSUME NEW d, DatagramOK(d), ~IsReply(d), inbox' = Append(inbox, d),
             requests' \subseteq requests,
             UNCHANGED <<queries, next_t, pending, incoming>>
      PROVE  Fewer
  <2>1. \A k \in DOMAIN inbox' : IsReply(inbox'[k]) =>
           \E j \in DOMAIN inbox : inbox[j] = inbox'[k]
    BY <1>5, InboxGrows DEF TypeInv
  <2> QED
    BY <1>5, <2>1 DEF Fewer
<1>6. ASSUME NEW q \in requests, AnswerError(q) PROVE Fewer
  <2> DEFINE d == [Reply(q) EXCEPT !.y = "e"]
  <2>1. q \in Query
    BY DEF TypeInv, QueuesOK
  <2>2. DatagramOK(d) /\ ~IsReply(d)
    BY <2>1, ReplyOK DEF IsReply, Reply
  <2>3. /\ inbox' = Append(inbox, d) /\ requests' \subseteq requests
        /\ UNCHANGED <<queries, next_t, pending, incoming>>
    BY <1>6 DEF AnswerError, client
  <2> HIDE DEF d
  <2> QED
    BY <1>5, <2>2, <2>3
<1>7. ASSUME NEW r \in Queriers, Arrive(r) PROVE Fewer
  <2>1. PICK y \in {"q"} \cup Strays :
               inbox' = Append(inbox, [y |-> y, q |-> NULL, from |-> RealId[r]])
    BY <1>7 DEF Arrive
  <2> DEFINE d == [y |-> y, q |-> NULL, from |-> RealId[r]]
  <2>2. DatagramOK(d) /\ ~IsReply(d)
    BY ArrivalOK
  <2>3. /\ inbox' = Append(inbox, d) /\ requests' \subseteq requests
        /\ UNCHANGED <<queries, next_t, pending, incoming>>
    BY <1>7, <2>1 DEF Arrive, client
  <2> HIDE DEF d
  <2> QED
    BY <1>5, <2>2, <2>3
<1> QED
  BY <1>1, <1>2, <1>3, <1>4, <1>6, <1>7, <1>8

(* Dht_AddNode and Search_DoWork make queries. *)
LEMMA QueryingApart ==
    ASSUME TypeInv, TidInv,
           \/ \E addr \in Bootstrap : AddNode(addr)
           \/ \E c \in Live : HandleSearches(c)
    PROVE  TidInv'
<1>1. /\ queries \in Seq(Query) /\ next_t \in Nat
  BY DEF TypeInv, QueuesOK
<1>2. ASSUME NEW f \in Seq(Query), queries' = queries \o f,
             next_t' = next_t + Len(f),
             \A i \in 1 .. Len(f) : f[i].t = (next_t + (i - 1)) % TidSpace,
             UNCHANGED <<pending, requests, inbox, incoming>>
      PROVE  TidInv'
  <2>1. /\ queries \o f \in Seq(Query)
        /\ Len(queries \o f) = Len(queries) + Len(f)
        /\ \A i \in 1 .. Len(queries) + Len(f) :
              (queries \o f)[i] = IF i <= Len(queries) THEN queries[i]
                                  ELSE f[i - Len(queries)]
    BY ONLY <1>1, <1>2, ConcatProperties
  <2>2. Len(f) \in Nat /\ Len(queries) \in Nat
    BY <1>1, <1>2
  <2>3. DOMAIN queries' = 1 .. Len(queries) + Len(f)
    BY <1>2, <2>1, <2>2
  <2>4. \A i \in 1 .. Len(queries) : queries'[i] = queries[i]
    BY <1>2, <2>1, <2>2
  <2>5. ASSUME NEW i \in 1 .. Len(f)
        PROVE  queries'[Len(queries) + i].t = (next_t + (i - 1)) % TidSpace
    <3>1. /\ Len(queries) + i \in 1 .. Len(queries) + Len(f)
          /\ ~(Len(queries) + i <= Len(queries))
          /\ (Len(queries) + i) - Len(queries) = i
      BY <1>1, <2>2
    <3>2. queries'[Len(queries) + i] = f[i]
      BY <1>2, <2>1, <3>1
    <3> QED
      BY <1>2, <3>1, <3>2
  <2> QED
    BY <1>2, <2>2, <2>3, <2>4, <2>5, FreshApart
<1>3. ASSUME NEW addr \in Bootstrap, AddNode(addr)
      PROVE  TidInv'
  <2> DEFINE yes == TRUE
             q == Message_CreateQuery("QPing", addr, yes, NULL, next_t)
  <2>1. /\ queries' = Append(queries, q) /\ next_t' = next_t + 1
        /\ UNCHANGED <<pending, requests, inbox, incoming>>
    BY <1>3 DEF AddNode
  <2>2. addr \in Remotes /\ yes \in BOOLEAN
    BY ClientAssumption
  <2> HIDE DEF yes
  <2>3. q \in Query /\ q.t = next_t % TidSpace
    BY <1>1, <2>2, CreateQueryOK
  <2> HIDE DEF q
  <2>4. /\ DOMAIN Append(queries, q) = 1 .. Len(queries) + 1 /\ Len(queries) \in Nat
        /\ \A i \in 1 .. Len(queries) : Append(queries, q)[i] = queries[i]
        /\ Append(queries, q)[Len(queries) + 1] = q
    BY <1>1, <2>3
  <2>5. ASSUME NEW i \in 1 .. 1
        PROVE  queries'[Len(queries) + i].t = (next_t + (i - 1)) % TidSpace
    <3>1. i = 1 /\ next_t + (i - 1) = next_t
      BY <1>1
    <3> QED
      BY <2>1, <2>3, <2>4, <3>1
  <2>6. 1 \in Nat /\ DOMAIN queries' = 1 .. Len(queries) + 1
        /\ \A i \in 1 .. Len(queries) : queries'[i] = queries[i]
    BY <2>1, <2>4
  <2> QED
    BY <2>1, <2>5, <2>6, FreshApart
<1>4. ASSUME NEW c \in Live, HandleSearches(c)
      PROVE  TidInv'
  <2> DEFINE w == Queries(searches[c])
             f == Queued(c, w)
  <2>1. /\ queries' = queries \o f /\ next_t' = next_t + Len(w)
        /\ UNCHANGED <<pending, requests, inbox, incoming>>
    BY <1>4 DEF HandleSearches, Queued
  <2>2. /\ Len(w) \in Nat /\ f \in Seq(Query) /\ Len(f) = Len(w)
        /\ \A i \in 1 .. Len(w) : f[i].t = (next_t + i - 1) % TidSpace
    BY QueuedOK
  <2> HIDE DEF w, f
  <2>3. /\ next_t' = next_t + Len(f)
        /\ \A i \in 1 .. Len(f) : f[i].t = (next_t + (i - 1)) % TidSpace
    BY <2>1, <2>2
  <2>4. f \in Seq(Query) /\ queries' = queries \o f
        /\ UNCHANGED <<pending, requests, inbox, incoming>>
    BY <2>1, <2>2
  <2> QED
    BY ONLY <1>2, <2>3, <2>4
<1> QED
  BY <1>3, <1>4

(* SendMessage: the entry of the query goes where none is. *)
LEMMA SendApart ==
    ASSUME TypeInv, TidInv, SendMessage
    PROVE  TidInv'
<1> SUFFICES ASSUME next_t' <= TidSpace PROVE Apart'
  BY DEF TidInv, Apart
<1> DEFINE q == Last(queries)
           n == Len(queries)
<1>1. /\ queries \in Seq(Query) /\ queries # <<>> /\ next_t' = next_t
      /\ pending \in [Tids -> PendingResponses \cup {NULL}]
      /\ requests' = requests \cup {q} /\ inbox' = inbox /\ incoming' = incoming
      /\ queries' = Front(queries)
  BY DEF TypeInv, QueuesOK, SendMessage
<1>2. /\ QueuedApart /\ RequestsApart /\ RepliesApart /\ UnusedIsFree
      /\ RepliesMatchQueries
  BY <1>1 DEF TidInv
<1>3. /\ q \in Query /\ q = queries[n] /\ n \in DOMAIN queries /\ q.t \in Tids
      /\ \A i \in DOMAIN queries' : /\ i \in DOMAIN queries /\ i # n
                                    /\ queries'[i] = queries[i]
  <2>1. /\ Last(queries) \in Query /\ Last(queries) = queries[Len(queries)]
        /\ Front(queries) \in Seq(Query) /\ Len(Front(queries)) = Len(queries) - 1
        /\ \A i \in 1 .. Len(queries) - 1 : Front(queries)[i] = queries[i]
    BY <1>1, FrontLastOK
  <2>2. /\ DOMAIN queries = 1 .. n /\ n \in Nat /\ n # 0
        /\ DOMAIN Front(queries) = 1 .. n - 1
    BY <1>1, <2>1
  <2> QED
    BY <1>1, <2>1, <2>2, TidTypes
<1>4. /\ q.t < next_t /\ pending[q.t] = NULL
      /\ \A j \in DOMAIN queries : queries[j].t = q.t => j = n
      /\ \A r \in requests : r.t # q.t
      /\ \A k \in DOMAIN inbox : IsReply(inbox[k]) => inbox[k].q.t # q.t
  BY <1>2, <1>3 DEF QueuedApart
<1>5. pending' = [pending EXCEPT ![q.t] = PendingResponse(q)]
  BY <1>4 DEF SendMessage
<1>6. /\ pending'[q.t] = PendingResponse(q)
      /\ \A t \in Tids : t # q.t => pending'[t] = pending[t]
  BY <1>1, <1>3, <1>5
<1>7. /\ requests \in SUBSET Query /\ \A r \in Query : r.t \in Tids
      /\ \A k \in DOMAIN inbox : IsReply(inbox[k]) => inbox[k].q \in Query
      /\ next_t \in Nat /\ q.t \in Nat /\ \A i \in DOMAIN queries : queries[i] \in Query
  BY <1>3, TidTypes
<1> HIDE DEF q
<1>8. QueuedApart'
  BY <1>1, <1>2, <1>3, <1>4, <1>6, <1>7 DEF QueuedApart, IsReply
<1>9. RequestsApart'
  BY <1>1, <1>2, <1>4, <1>6, <1>7 DEF RequestsApart, IsReply, PendingResponse
<1>10. RepliesApart'
  BY <1>1, <1>2, <1>4, <1>6, <1>7 DEF RepliesApart, IsReply, PendingResponse
<1>11. UnusedIsFree'
  BY <1>1, <1>2, <1>4, <1>6, <1>7 DEF UnusedIsFree
<1>12. RepliesMatchQueries'
  BY <1>1, <1>2 DEF RepliesMatchQueries
<1> QED
  BY <1>8, <1>9, <1>10, <1>11, <1>12 DEF Apart

(* A request turns into its reply, or into two copies of it. *)
LEMMA AnswerApart ==
    ASSUME TypeInv, TidInv, NEW q \in requests, Answer(q) \/ AnswerTwice(q)
    PROVE  TidInv'
<1> SUFFICES ASSUME next_t' <= TidSpace PROVE Apart'
  BY DEF TidInv, Apart
<1>1. /\ UNCHANGED <<queries, next_t, pending, incoming>>
      /\ requests' = requests \ {q}
  BY DEF Answer, AnswerTwice, client
<1>2. /\ QueuedApart /\ RequestsApart /\ RepliesApart /\ UnusedIsFree
      /\ RepliesMatchQueries
  BY <1>1 DEF TidInv
<1>3. MessagesOK /\ q \in Query
  BY DEF TypeInv, QueuesOK
<1>4. DatagramOK(Reply(q)) /\ Reply(q).q = q
  BY <1>3, ReplyOK
<1>5. \A k \in DOMAIN inbox' : \/ k \in DOMAIN inbox /\ inbox'[k] = inbox[k]
                               \/ inbox'[k] = Reply(q)
  <2>1. CASE Answer(q)
    BY <1>3, <1>4, <2>1, InboxGrows DEF Answer
  <2>2. CASE AnswerTwice(q)
    BY <1>3, <1>4, <2>2, InboxGrowsTwice DEF AnswerTwice
  <2> QED
    BY <2>1, <2>2
<1>6. \A k \in DOMAIN inbox' : IsReply(inbox'[k]) =>
         \/ k \in DOMAIN inbox /\ IsReply(inbox[k]) /\ inbox'[k].q = inbox[k].q
         \/ inbox'[k].q = q
  BY <1>4, <1>5
<1>7. /\ q.t < next_t /\ pending[q.t] = PendingResponse(q)
      /\ \A r \in requests : r.t = q.t => r = q
      /\ \A i \in DOMAIN queries : queries[i].t # q.t
  BY <1>2 DEF RequestsApart, QueuedApart
<1>8. QueuedApart'
  BY <1>1, <1>2, <1>6, <1>7 DEF QueuedApart
<1>9. RequestsApart'
  BY <1>1, <1>2, <1>6, <1>7 DEF RequestsApart, PendingResponse
<1>10. RepliesApart'
  BY <1>1, <1>2, <1>6, <1>7 DEF RepliesApart, PendingResponse
<1>11. UnusedIsFree' /\ RepliesMatchQueries'
  BY <1>1, <1>2 DEF UnusedIsFree, RepliesMatchQueries
<1> QED
  BY <1>8, <1>9, <1>10, <1>11 DEF Apart

(* The entry that a reply finds is the one of its query, and it goes. *)
LEMMA ReceiveReplyApart ==
    ASSUME TypeInv, TidInv, ReceiveReply
    PROVE  TidInv'
<1> SUFFICES ASSUME next_t' <= TidSpace PROVE Apart'
  BY DEF TidInv, Apart
<1> DEFINE q == Head(inbox).q
<1>1. /\ UNCHANGED <<queries, next_t, requests>> /\ MessagesOK
      /\ inbox # <<>> /\ Head(inbox).y = "r" /\ inbox' = Tail(inbox)
      /\ pending \in [Tids -> PendingResponses \cup {NULL}]
  BY DEF ReceiveReply, TypeInv, QueuesOK
<1>2. /\ QueuedApart /\ RequestsApart /\ RepliesApart /\ UnusedIsFree
      /\ RepliesMatchQueries
  BY <1>1 DEF TidInv
<1>3. /\ Head(inbox) = inbox[1] /\ 1 \in DOMAIN inbox
      /\ \A k \in DOMAIN inbox' : \E j \in DOMAIN inbox : inbox[j] = inbox'[k]
  BY <1>1, InboxHead
<1>4. IsReply(inbox[1]) /\ q = inbox[1].q /\ q \in Query /\ q.t \in Tids
  BY <1>1, <1>3, TidTypes DEF IsReply
<1>5. /\ pending[q.t] \in {NULL, PendingResponse(q)}
      /\ \A i \in DOMAIN queries : queries[i].t # q.t
      /\ \A r \in requests : r.t # q.t
  BY <1>2, <1>3, <1>4 DEF QueuedApart, RequestsApart, RepliesApart
<1>6. /\ requests \in SUBSET Query /\ \A r \in Query : r.t \in Tids
      /\ \A k \in DOMAIN inbox : IsReply(inbox[k]) => inbox[k].q \in Query
      /\ \A i \in DOMAIN queries : queries[i] \in Query
  BY TidTypes
<1>7. \A t \in Tids : \/ pending'[t] = pending[t]
                      \/ t = q.t /\ pending'[t] = NULL
  BY <1>1, <1>4 DEF ReceiveReply
<1>8. RepliesMatchQueries'
  <2>1. CASE pending[q.t] # NULL
    <3>1. incoming' = Append(incoming, DecodeResponse(q))
      BY <2>1 DEF ReceiveReply
    <3>2. /\ DecodedOK(DecodeResponse(q))
          /\ DecodeResponse(q).type = PendingResponse(q).type
          /\ DecodeResponse(q).context = PendingResponse(q).context
          /\ DecodeResponse(q).q = q
      BY <1>4, <1>5, <2>1, DecodeResponseOK
    <3>3. /\ DecodeResponse(q).type = AsReply[q.type]
          /\ DecodeResponse(q).context = q.context
      BY <1>4, <3>2, PendingResponseOK
    <3> HIDE DEF q
    <3>4. \A i \in DOMAIN incoming' :
             \/ i \in DOMAIN incoming /\ incoming'[i] = incoming[i]
             \/ incoming'[i] = DecodeResponse(q)
      BY <1>1, <3>1, <3>2, IncomingGrows
    <3> QED
      BY <1>2, <3>2, <3>3, <3>4 DEF RepliesMatchQueries
  <2>2. CASE pending[q.t] = NULL
    BY <1>2, <2>2 DEF RepliesMatchQueries, ReceiveReply
  <2> QED
    BY <2>1, <2>2
<1> HIDE DEF q
<1>9. QueuedApart'
  BY <1>1, <1>2, <1>3, <1>5, <1>6, <1>7 DEF QueuedApart
<1>10. RequestsApart'
  BY <1>1, <1>2, <1>3, <1>5, <1>6, <1>7 DEF RequestsApart, PendingResponse
<1>11. RepliesApart'
  <2> SUFFICES ASSUME NEW k \in DOMAIN inbox', IsReply(inbox'[k])
               PROVE  /\ inbox'[k].q.t < next_t'
                      /\ pending'[inbox'[k].q.t] \in {NULL, PendingResponse(inbox'[k].q)}
    BY DEF RepliesApart, IsReply, PendingResponse
  <2>1. PICK j \in DOMAIN inbox : inbox[j] = inbox'[k]
    BY <1>3
  <2> DEFINE r == inbox[j].q
  <2>2. r.t < next_t /\ pending[r.t] \in {NULL, PendingResponse(r)} /\ r.t \in Tids
    BY <1>2, <1>6, <2>1 DEF RepliesApart
  <2> QED
    BY <1>1, <1>7, <2>1, <2>2
<1>12. UnusedIsFree'
  BY <1>1, <1>2, <1>7 DEF UnusedIsFree
<1> QED
  BY <1>8, <1>9, <1>10, <1>11, <1>12 DEF Apart

(* Every step keeps transaction ids apart. *)
LEMMA NextApart ==
    ASSUME TypeInv, TidInv, [Next]_vars
    PROVE  TidInv'
<1>1. CASE \/ AddSearch \/ CopyTable \/ Process \/ CleanSearches \/ SendFailure
           \/ ReceiveOther \/ ReceiveUnfit \/ ReceiveFailure \/ ReceiveNothing
           \/ HandleRPing \/ HandleRFindNode \/ HandleRGetPeers
           \/ HandleRAnnouncePeer \/ AddSearchNodes \/ HandleInvalidReply
           \/ HandleInvalidQuery \/ HandleRError \/ HandleQPing \/ HandledAll
           \/ \E q \in requests : AnswerError(q)
           \/ \E r \in Queriers : Arrive(r)
           \/ Tick \/ UNCHANGED vars
  <2>1. Fewer
    BY <1>1, QuietSteps
  <2> QED
    BY <2>1, FewerApart
<1>2. CASE \/ \E addr \in Bootstrap : AddNode(addr)
           \/ \E c \in Live : HandleSearches(c)
  BY <1>2, QueryingApart
<1>3. CASE SendMessage
  BY <1>3, SendApart
<1>4. ASSUME NEW q \in requests, Answer(q) \/ AnswerTwice(q) PROVE TidInv'
  BY <1>4, AnswerApart
<1>5. CASE ReceiveReply
  BY <1>5, ReceiveReplyApart
<1> QED
  BY <1>1, <1>2, <1>3, <1>4, <1>5 DEF Next, ClientStep

(* As long as next_t has not run through all transaction ids, no two       *)
(* queries that are queued, under way or being answered share one.         *)
THEOREM TidInvHolds == Spec => []TidInv
<1>1. Init => TidInv
  BY DEF Init, TidInv, QueuedApart, RequestsApart, RepliesApart, UnusedIsFree,
         RepliesMatchQueries
<1>2. TypeInv /\ TidInv /\ [Next]_vars => TidInv'
  BY NextApart
<1> QED
  BY <1>1, <1>2, TypeInvHolds, PTL DEF Spec

(* SendMessage stores an entry for every query that it sends, and it stays *)
(* until the reply, as long as transaction ids are fresh: next_t is cut to *)
(* TidSpace values.                                                        *)
THEOREM QueriesArePending == Spec => [](next_t <= TidSpace => EveryQueryIsPending)
<1>1. TidInv => (next_t <= TidSpace => EveryQueryIsPending)
  BY DEF TidInv, RequestsApart, EveryQueryIsPending
<1> QED
  BY <1>1, TidInvHolds, PTL

(* DecodeResponse takes a reply, however late, duplicated or reordered,    *)
(* for the answer to the query it answers, in the same search, as long as  *)
(* transaction ids are fresh.                                              *)
THEOREM RepliesAreMatched == Spec => [](next_t <= TidSpace => RepliesMatchQueries)
<1>1. TidInv => (next_t <= TidSpace => RepliesMatchQueries)
  BY DEF TidInv
<1> QED
  BY <1>1, TidInvHolds, PTL

(* Transaction ids only grow: as long as they are fresh, they always were. *)
LEMMA TidsGrow ==
    ASSUME TypeInv, [Next]_vars
    PROVE  next_t' <= TidSpace => next_t <= TidSpace
<1>1. next_t \in Nat /\ TidSpace \in Nat
  BY TidTypes
<1>2. next_t <= next_t'
  <2>1. ASSUME NEW c \in Live, HandleSearches(c) PROVE next_t <= next_t'
    <3>1. next_t' = next_t + Len(Queries(searches[c]))
      BY <2>1 DEF HandleSearches
    <3>2. Len(Queries(searches[c])) \in Nat
      BY QueuedOK
    <3> QED
      BY <1>1, <3>1, <3>2
  <2>2. ASSUME NEW addr \in Bootstrap, AddNode(addr) PROVE next_t <= next_t'
    BY <1>1, <2>2 DEF AddNode
  <2>3. CASE \/ AddSearch \/ CopyTable \/ Process \/ CleanSearches \/ SendFailure
             \/ ReceiveOther \/ ReceiveUnfit \/ ReceiveFailure \/ ReceiveNothing
             \/ HandleRPing \/ HandleRFindNode \/ HandleRGetPeers
             \/ HandleRAnnouncePeer \/ AddSearchNodes \/ HandleInvalidReply
             \/ HandleInvalidQuery \/ HandleRError \/ HandleQPing \/ HandledAll
             \/ \E q \in requests : AnswerError(q)
             \/ \E r \in Queriers : Arrive(r)
             \/ Tick \/ UNCHANGED vars
    BY <1>1, <2>3, QuietSteps DEF Fewer
  <2>4. CASE SendMessage \/ ReceiveReply
    BY <1>1, <2>4 DEF SendMessage, ReceiveReply
  <2>5. ASSUME NEW q \in requests, Answer(q) \/ AnswerTwice(q)
        PROVE  next_t <= next_t'
    BY <1>1, <2>5 DEF Answer, AnswerTwice, client
  <2> QED
    BY <2>1, <2>2, <2>3, <2>4, <2>5 DEF Next, ClientStep
<1>3. next_t' \in Nat
  BY NextTypes DEF TypeInv, QueuesOK
<1> QED
  BY <1>1, <1>2, <1>3

-----------------------------------------------------------------------------
(* No assertion fails when every query gets at most one answer, not an     *)
(* error, and the strays are harmless                                      *)

(* The steps that neither the replies nor their entries are part of. *)
LEMMA StillExpected ==
    ASSUME RepliesExpected, NoneFatal, pc # "aborted",
           inbox' = inbox, pending' = pending, pc' # "aborted",
           \A k \in DOMAIN incoming' :
               \E j \in DOMAIN incoming : incoming[j] = incoming'[k]
    PROVE  RepliesExpected' /\ NoneFatal' /\ pc' # "aborted"
<1>1. RepliesExpected'
  BY DEF RepliesExpected, IsReply, PendingResponse
<1>2. NoneFatal'
  BY DEF NoneFatal
<1> QED
  BY <1>1, <1>2

(* A datagram more: a reply that is expected, a query or a harmless one. *)
LEMMA ArrivalExpected ==
    ASSUME MessagesOK, RepliesExpected, NoneFatal, pc # "aborted",
           NEW d, DatagramOK(d), d.y \in {"q", "r"} \cup Harmless,
           IsReply(d) => /\ pending[d.q.t] = PendingResponse(d.q)
                         /\ \A k \in DOMAIN inbox :
                               IsReply(inbox[k]) => inbox[k].q.t # d.q.t,
           inbox' = Append(inbox, d), UNCHANGED <<pending, incoming, pc>>
    PROVE  RepliesExpected' /\ NoneFatal' /\ pc' # "aborted"
<1>1. \A k \in DOMAIN inbox' : \/ k \in DOMAIN inbox /\ inbox'[k] = inbox[k]
                               \/ k = Len(inbox) + 1 /\ inbox'[k] = d
  BY InboxGrows
<1>2. RepliesExpected'
  <2> SUFFICES ASSUME NEW k \in DOMAIN inbox'
               PROVE  /\ inbox'[k].y \in {"q", "r"} \cup Harmless
                      /\ IsReply(inbox'[k]) =>
                           /\ pending[inbox'[k].q.t] = PendingResponse(inbox'[k].q)
                           /\ \A j \in DOMAIN inbox' :
                                 IsReply(inbox'[j]) /\ inbox'[j].q.t = inbox'[k].q.t
                                   => j = k
    BY DEF RepliesExpected, IsReply, PendingResponse
  <2>1. CASE k \in DOMAIN inbox /\ inbox'[k] = inbox[k]
    BY <1>1, <2>1 DEF RepliesExpected
  <2>2. CASE k = Len(inbox) + 1 /\ inbox'[k] = d
    BY <1>1, <2>2
  <2> QED
    BY <1>1, <2>1, <2>2
<1>3. NoneFatal' /\ pc' # "aborted"
  BY DEF NoneFatal
<1> QED
  BY <1>2, <1>3

(* ReceiveMessage: the first datagram is taken. *)
LEMMA ReceiveExpected ==
    ASSUME TypeInv, RepliesExpected, NoneFatal, pc # "aborted",
           ReceiveReply \/ ReceiveOther \/ ReceiveUnfit \/ ReceiveFailure
    PROVE  RepliesExpected' /\ NoneFatal' /\ pc' # "aborted"
<1>1. /\ MessagesOK /\ inbox # <<>> /\ inbox' = Tail(inbox)
      /\ inbox \in Seq(Datagram)
      /\ pending \in [Tids -> PendingResponses \cup {NULL}]
  BY DEF TypeInv, MessagesOK, QueuesOK, ReceiveReply, ReceiveOther,
         ReceiveUnfit, ReceiveFailure
<1>2. /\ Head(inbox) = inbox[1] /\ 1 \in DOMAIN inbox
      /\ \A k \in DOMAIN inbox' : /\ k + 1 \in DOMAIN inbox
                                  /\ inbox'[k] = inbox[k + 1]
                                  /\ k \in Nat \ {0}
  BY <1>1, InboxHead
<1>3. /\ \A r \in Query : r.t \in Tids
      /\ \A k \in DOMAIN inbox : IsReply(inbox[k]) => inbox[k].q \in Query
  BY TidTypes
<1>4. ASSUME \A k \in DOMAIN inbox' : IsReply(inbox'[k]) =>
                pending'[inbox'[k].q.t] = pending[inbox'[k].q.t]
      PROVE  RepliesExpected'
  <2> SUFFICES ASSUME NEW k \in DOMAIN inbox'
               PROVE  /\ inbox'[k].y \in {"q", "r"} \cup Harmless
                      /\ IsReply(inbox'[k]) =>
                           /\ pending'[inbox'[k].q.t] = PendingResponse(inbox'[k].q)
                           /\ \A j \in DOMAIN inbox' :
                                 IsReply(inbox'[j]) /\ inbox'[j].q.t = inbox'[k].q.t
                                   => j = k
    BY DEF RepliesExpected, IsReply, PendingResponse
  <2>1. \A j \in DOMAIN inbox' : j + 1 = k + 1 => j = k
    BY <1>2
  <2> QED
    BY <1>2, <1>4, <2>1 DEF RepliesExpected
<1>5. CASE ReceiveReply
  <2> DEFINE q == Head(inbox).q
  <2>1. IsReply(inbox[1]) /\ q = inbox[1].q /\ q \in Query /\ q.t \in Tids
    BY <1>2, <1>3, <1>5 DEF ReceiveReply, IsReply
  <2>2. /\ pending[q.t] = PendingResponse(q)
        /\ \A j \in DOMAIN inbox :
              IsReply(inbox[j]) /\ inbox[j].q.t = q.t => j = 1
    BY <1>2, <2>1 DEF RepliesExpected
  <2>3. pending[q.t] # NULL
    BY <2>1, <2>2, PendingResponseOK, EntryNotNULL
  <2>4. /\ incoming' = Append(incoming, DecodeResponse(q))
        /\ pending' = [pending EXCEPT ![q.t] = NULL] /\ pc' = pc
    BY <1>5, <2>3 DEF ReceiveReply
  <2>5. DecodedOK(DecodeResponse(q)) /\ DecodeResponse(q).type \in ReplyTypes
    <3>1. /\ DecodedOK(DecodeResponse(q))
          /\ DecodeResponse(q).type = pending[q.t].type
      BY <2>1, <2>3, DecodeResponseOK
    <3>2. pending[q.t] \in PendingResponses
      BY <2>1, <2>2, PendingResponseOK
    <3> QED
      BY <3>1, <3>2 DEF PendingResponses
  <2> HIDE DEF q
  <2>6. NoneFatal'
    <3>1. \A i \in DOMAIN incoming' :
             \/ i \in DOMAIN incoming /\ incoming'[i] = incoming[i]
             \/ incoming'[i] = DecodeResponse(q)
      BY <1>1, <2>4, <2>5, IncomingGrows
    <3> QED
      BY <2>5, <3>1 DEF NoneFatal
  <2>7. ASSUME NEW k \in DOMAIN inbox', IsReply(inbox'[k])
        PROVE  pending'[inbox'[k].q.t] = pending[inbox'[k].q.t]
    <3>1. inbox'[k] = inbox[k + 1] /\ k + 1 \in DOMAIN inbox /\ k + 1 # 1
      BY <1>2
    <3>2. inbox'[k].q.t # q.t /\ inbox'[k].q.t \in Tids
      BY <1>3, <2>2, <2>7, <3>1
    <3> QED
      BY <1>1, <2>1, <2>4, <3>2
  <2> QED
    BY <1>4, <2>4, <2>6, <2>7
<1>6. CASE ReceiveOther
  <2>1. pending' = pending /\ pc' = pc
    BY <1>6 DEF ReceiveOther
  <2>2. Head(inbox).y \in {"q"} \cup Harmless
    BY <1>2, <1>6 DEF RepliesExpected, ReceiveOther
  <2>3. \A k \in DOMAIN incoming' :
           \/ k \in DOMAIN incoming /\ incoming'[k] = incoming[k]
           \/ incoming'[k].type \in {"QPing", "BadData"}
    BY <1>6, <2>2, ReceiveOtherTypes
  <2>4. NoneFatal'
    BY <2>3 DEF NoneFatal
  <2> QED
    BY <1>4, <2>1, <2>4
<1>7. CASE ReceiveFailure
  <2>1. pending' = pending /\ incoming' = incoming /\ pc' = "idle"
    BY <1>7 DEF ReceiveFailure
  <2>2. NoneFatal'
    BY <2>1 DEF NoneFatal
  <2> QED
    BY <1>4, <2>1, <2>2
<1>8. ~ReceiveUnfit
  BY <1>2 DEF ReceiveUnfit, RepliesExpected, Harmless
<1> QED
  BY <1>5, <1>6, <1>7, <1>8

(* Every step keeps the replies expected. *)
LEMMA NextExpected ==
    ASSUME TypeInv, TidInv, AbortInv, [Next]_vars
    PROVE  AbortInv'
<1> SUFFICES ASSUME ~Duplicates, ~ErrorReplies, Strays \subseteq Harmless,
                    next_t' <= TidSpace
             PROVE  RepliesExpected' /\ NoneFatal' /\ pc' # "aborted"
  BY DEF AbortInv
<1>1. next_t \in Nat /\ TidSpace \in Nat /\ MessagesOK /\ inbox \in Seq(Datagram)
      /\ requests \in SUBSET Query /\ queries \in Seq(Query)
  BY TidTypes DEF TypeInv, MessagesOK, QueuesOK
<1>3. next_t <= TidSpace
  BY TidsGrow
<1>4. RepliesExpected /\ NoneFatal /\ pc # "aborted" /\ Apart
  BY <1>3 DEF AbortInv, TidInv, Apart
<1>5. CASE \/ AddSearch \/ CopyTable \/ Process \/ CleanSearches \/ SendFailure
           \/ ReceiveNothing \/ AddSearchNodes \/ HandledAll
           \/ Tick \/ UNCHANGED vars
           \/ \E addr \in Bootstrap : AddNode(addr)
           \/ \E c \in Live : HandleSearches(c)
  <2>1. inbox' = inbox /\ pending' = pending /\ incoming' = incoming
    BY <1>5 DEF AddSearch, CopyTable, Process, CleanSearches, SendFailure,
                ReceiveNothing, AddSearchNodes, HandledAll, Tick, vars, client,
                AddNode, HandleSearches, Elsewhere
  <2>2. pc' # "aborted"
    BY <1>4, <1>5 DEF AddSearch, CopyTable, Process, CleanSearches, SendFailure,
                ReceiveNothing, AddSearchNodes, HandledAll, Tick, vars, client,
                AddNode, HandleSearches, AfterSend
  <2> QED
    BY <1>4, <2>1, <2>2, StillExpected
<1>7. incoming # <<>> => Message.type \in ReplyTypes \cup {"QPing", "BadData"}
  <2> SUFFICES ASSUME incoming # <<>>
               PROVE  Message.type \in ReplyTypes \cup {"QPing", "BadData"}
    OBVIOUS
  <2>1. incoming \in Seq(Decoded)
    BY DEF TypeInv, MessagesOK
  <2>2. Last(incoming) = incoming[Len(incoming)]
    BY <2>1, FrontLastOK
  <2>3. Len(incoming) \in DOMAIN incoming
    BY <2>1
  <2> QED
    BY <1>4, <2>2, <2>3 DEF NoneFatal, Message
<1>13. ~HandleRError
  BY <1>7 DEF HandleRError, Handling, ReplyTypes
<1>6. CASE \/ HandleRPing \/ HandleRFindNode \/ HandleRGetPeers
           \/ HandleRAnnouncePeer \/ HandleInvalidReply \/ HandleInvalidQuery
           \/ HandleQPing
  <2>1. /\ inbox' = inbox /\ pending' = pending
        /\ incoming # <<>> /\ incoming' = Front(incoming)
    BY <1>6 DEF HandleRPing, HandleRFindNode, HandleRGetPeers,
                HandleRAnnouncePeer, HandleSearchReply, HandleInvalidReply,
                HandleInvalidQuery, HandlingInvalid, HandleQPing, Handling,
                Elsewhere
  <2>2. pc' # "aborted"
    <3>1. CASE HandleInvalidReply
      <4>1. Message.type \in ReplyTypes
        BY <1>7, <2>1, <3>1 DEF HandleInvalidReply, MessageType_IsQuery
      <4> QED
        BY <1>4, <3>1, <4>1 DEF HandleInvalidReply, MessageType_IsReply
    <3>2. CASE HandleInvalidQuery \/ HandleQPing
      <4>1. Message.type \notin {"NoTid", "OddTid"}
        BY <1>7, <2>1 DEF ReplyTypes
      <4> QED
        BY <1>4, <3>2, <4>1 DEF HandleInvalidQuery, HandleQPing
    <3>3. CASE \/ HandleRPing \/ HandleRFindNode \/ HandleRGetPeers
               \/ HandleRAnnouncePeer
      BY <1>4, <3>3 DEF HandleRPing, HandleRFindNode, HandleRGetPeers,
                  HandleRAnnouncePeer, HandleSearchReply, StartAdding
    <3> QED
      BY <1>6, <3>1, <3>2, <3>3
  <2>3. \A k \in DOMAIN incoming' :
           \E j \in DOMAIN incoming : incoming[j] = incoming'[k]
    BY <2>1, HandledMessage
  <2> QED
    BY <1>4, <2>1, <2>2, <2>3, StillExpected
<1>8. CASE ReceiveReply \/ ReceiveOther \/ ReceiveUnfit \/ ReceiveFailure
  BY <1>4, <1>8, ReceiveExpected
<1>9. CASE SendMessage
  <2> DEFINE q == Last(queries)
             n == Len(queries)
  <2>1. queries # <<>> /\ inbox' = inbox /\ incoming' = incoming
        /\ pending \in [Tids -> PendingResponses \cup {NULL}]
    BY <1>9 DEF SendMessage, TypeInv, QueuesOK
  <2>2. q = queries[n] /\ q \in Query
    BY <1>1, <2>1, FrontLastOK
  <2>3. n \in DOMAIN queries /\ q.t \in Tids
    BY <1>1, <2>1, <2>2, TidTypes
  <2>4. /\ pending[q.t] = NULL
        /\ \A k \in DOMAIN inbox : IsReply(inbox[k]) => inbox[k].q.t # q.t
    BY <1>4, <2>2, <2>3 DEF Apart, QueuedApart
  <2>5. pending' = [pending EXCEPT ![q.t] = PendingResponse(q)] /\ pc' # "aborted"
    BY <1>9, <2>4 DEF SendMessage, AfterSend
  <2>6. \A k \in DOMAIN inbox : IsReply(inbox[k]) => inbox[k].q.t \in Tids
    BY TidTypes
  <2> HIDE DEF q
  <2>7. \A k \in DOMAIN inbox : IsReply(inbox[k]) =>
           pending'[inbox[k].q.t] = pending[inbox[k].q.t]
    BY <2>1, <2>3, <2>4, <2>5, <2>6
  <2>8. RepliesExpected'
    BY <1>4, <2>1, <2>7 DEF RepliesExpected, IsReply, PendingResponse
  <2>9. NoneFatal'
    BY <1>4, <2>1 DEF NoneFatal
  <2> QED
    BY <2>5, <2>8, <2>9
<1>10. ASSUME NEW q \in requests, Answer(q)
       PROVE  RepliesExpected' /\ NoneFatal' /\ pc' # "aborted"
  <2>1. q \in Query /\ DatagramOK(Reply(q)) /\ Reply(q).y = "r" /\ Reply(q).q = q
    BY <1>1, ReplyOK
  <2>2. inbox' = Append(inbox, Reply(q)) /\ UNCHANGED <<pending, incoming, pc>>
    BY <1>10 DEF Answer, client
  <2>3. /\ pending[q.t] = PendingResponse(q)
        /\ \A k \in DOMAIN inbox : IsReply(inbox[k]) => inbox[k].q.t # q.t
    BY <1>4 DEF Apart, RequestsApart
  <2> QED
    BY <1>1, <1>4, <2>1, <2>2, <2>3, ArrivalExpected
<1>11. ASSUME NEW r \in Queriers, Arrive(r)
       PROVE  RepliesExpected' /\ NoneFatal' /\ pc' # "aborted"
  <2>1. PICK y \in {"q"} \cup Strays :
               inbox' = Append(inbox, [y |-> y, q |-> NULL, from |-> RealId[r]])
    BY <1>11 DEF Arrive
  <2> DEFINE d == [y |-> y, q |-> NULL, from |-> RealId[r]]
  <2>2. DatagramOK(d) /\ ~IsReply(d) /\ d.y \in {"q", "r"} \cup Harmless
    BY ArrivalOK
  <2>3. inbox' = Append(inbox, d) /\ UNCHANGED <<pending, incoming, pc>>
    BY <1>11, <2>1 DEF Arrive, client
  <2> HIDE DEF d
  <2> QED
    BY <1>1, <1>4, <2>2, <2>3, ArrivalExpected
<1>12. \A q \in requests : ~AnswerTwice(q) /\ ~AnswerError(q)
  BY DEF AnswerTwice, AnswerError
<1> QED
  BY <1>5, <1>6, <1>8, <1>9, <1>10, <1>11, <1>12, <1>13 DEF Next, ClientStep

(* Each reply that waits in the socket finds its entry, when the network   *)
(* does not duplicate and remote nodes do not send errors.                 *)
THEOREM AbortInvHolds == Spec => []AbortInv
<1>1. Init => AbortInv
  BY DEF Init, AbortInv, RepliesExpected, NoneFatal
<1>2. TypeInv /\ TidInv /\ AbortInv /\ [Next]_vars => AbortInv'
  BY NextExpected
<1> QED
  BY <1>1, <1>2, TypeInvHolds, TidInvHolds, PTL DEF Spec

(* What the client can stand: no assertion fails while all that arrives is *)
(* pings, queries with unusable arguments, errors without their list and   *)
(* for each query at most one reply, not an error, and transaction ids are *)
(* fresh.  Replies may be late, reordered, lost, or come under another id  *)
(* (DecodeResponse and HandleInvalidReply), and sends may fail.  Each      *)
(* condition is needed: a duplicate, an error, an id that is used again,   *)
(* and every stray outside Harmless can abort the client.                  *)
THEOREM HarmlessNeverAborts ==
    Spec => []((~Duplicates /\ ~ErrorReplies /\ Strays \subseteq Harmless
                  /\ next_t <= TidSpace) => NeverAborts)
<1>1. AbortInv => ((~Duplicates /\ ~ErrorReplies /\ Strays \subseteq Harmless
                      /\ next_t <= TidSpace) => NeverAborts)
  BY DEF AbortInv, NeverAborts
<1> QED
  BY <1>1, AbortInvHolds, PTL

-----------------------------------------------------------------------------
(* Searches end when their close nodes have answered                       *)

(* Only Client_CleanSearches takes a search away. *)
LEMMA StaysLive ==
    ASSUME TypeInv, [Next]_vars, ~CleanSearches
    PROVE  Live \subseteq Live'
<1>1. CASE \/ SendMessage \/ SendFailure \/ Process \/ ReceiveReply
           \/ ReceiveOther \/ ReceiveUnfit \/ ReceiveFailure \/ ReceiveNothing
           \/ HandleInvalidReply \/ HandleInvalidQuery
           \/ HandleRError \/ HandleQPing \/ HandledAll \/ Tick \/ UNCHANGED vars
           \/ \E addr \in Bootstrap : AddNode(addr)
           \/ \E q \in requests : Answer(q) \/ AnswerTwice(q) \/ AnswerError(q)
           \/ \E r \in Queriers : Arrive(r)
  <2>1. searches' = searches
    BY <1>1 DEF SendMessage, SendFailure, Process, ReceiveReply, ReceiveOther,
                ReceiveUnfit, ReceiveFailure, ReceiveNothing, HandleInvalidReply,
                HandleInvalidQuery, HandleRError, HandleQPing, HandledAll, Tick, vars, client, AddNode, Answer, AnswerTwice,
                AnswerError, Arrive
  <2> QED
    BY <2>1 DEF Live
<1>2. CASE AddSearch
  BY <1>2, AddSearchTypes
<1>3. CASE CopyTable
  BY <1>3, CopyTableTypes
<1>4. ASSUME NEW c \in Live, HandleSearches(c) PROVE Live \subseteq Live'
  BY <1>4, HandleSearchesTypes
<1>5. CASE HandleRPing
  BY <1>5, HandleRPingTypes
<1>6. CASE HandleRFindNode \/ HandleRGetPeers \/ HandleRAnnouncePeer
  BY <1>6, HandleSearchReplyTypes
<1>7. CASE AddSearchNodes
  BY <1>7, AddSearchNodesTypes
<1> QED
  BY <1>1, <1>2, <1>3, <1>4, <1>5, <1>6, <1>7 DEF Next, ClientStep

(* While the searches are worked on, nothing else touches them. *)
LEMMA NextWorked ==
    ASSUME TypeInv, WorkInv, [Next]_vars
    PROVE  WorkInv'
<1> SUFFICES ASSUME pc' = "searches", NEW d \in Live', d < at'
             PROVE  \/ searches'[d].send_time = now'
                    \/ AllAnswered(searches'[d].table)
  BY DEF WorkInv, AllAnswered, IsClose
<1>1. CASE Process
  <2>1. at' = 1 /\ d \in Nat \ {0}
    BY <1>1 DEF Process, Live, Contexts
  <2> QED
    BY <2>1
<1>2. ASSUME NEW c \in Live, HandleSearches(c)
      PROVE  \/ searches'[d].send_time = now'
             \/ AllAnswered(searches'[d].table)
  <2>1. /\ now' = now /\ at' = c + 1 /\ pc = "searches" /\ c >= at
        /\ \A e \in Live : e >= at => c <= e
    BY <1>2 DEF HandleSearches
  <2>2. /\ Live' = Live
        /\ \/ searches'[c].send_time = now
           \/ AllAnswered(searches'[c].table)
        /\ \A e \in Live \ {c} : searches'[e] = searches[e]
    BY <1>2, HandleSearchesTypes
  <2>3. CASE d = c
    BY <2>1, <2>2, <2>3
  <2>4. CASE d # c
    <3>1. c \in Int /\ d \in Int /\ at \in Int /\ d \in Live
      BY <2>2, ClientAssumption DEF TypeInv, SearchesOK, Live, Contexts
    <3>2. d < at
      BY <2>1, <2>4, <3>1
    <3> QED
      BY <2>1, <2>2, <2>4, <3>1, <3>2 DEF WorkInv
  <2> QED
    BY <2>3, <2>4
<1>3. CASE UNCHANGED <<client, now>>
  <2>1. /\ pc = "searches" /\ d \in Live /\ d < at /\ searches' = searches
        /\ now' = now
    BY <1>3 DEF client, Live
  <2> QED
    BY <2>1 DEF WorkInv
<1>4. \/ Process \/ \E c \in Live : HandleSearches(c)
      \/ UNCHANGED <<client, now>>
  <2>1. ~CleanSearches /\ ~SendMessage /\ ~SendFailure /\ ~ReceiveReply
        /\ ~ReceiveOther /\ ~ReceiveUnfit /\ ~ReceiveFailure /\ ~ReceiveNothing
        /\ ~HandleInvalidReply /\ ~HandleInvalidQuery
    BY DEF CleanSearches, SendMessage, SendFailure, ReceiveReply, ReceiveOther,
           ReceiveUnfit, ReceiveFailure, ReceiveNothing, HandleInvalidReply,
           HandleInvalidQuery, HandlingInvalid, AfterSend
  <2>2. ~HandleRPing /\ ~HandleRFindNode /\ ~HandleRGetPeers
        /\ ~HandleRAnnouncePeer /\ ~AddSearchNodes /\ ~HandleRError
        /\ ~HandleQPing /\ ~HandledAll
    BY DEF HandleRPing, HandleRFindNode, HandleRGetPeers, HandleRAnnouncePeer,
           HandleSearchReply, Handling, StartAdding, AddSearchNodes,
           HandleRError, HandleQPing, HandledAll
  <2>3. ~AddSearch /\ ~CopyTable /\ ~Tick
        /\ \A addr \in Bootstrap : ~AddNode(addr)
    BY DEF AddSearch, CopyTable, Tick, AddNode, client
  <2>4. ASSUME NEW q \in requests, Answer(q) \/ AnswerTwice(q) \/ AnswerError(q)
        PROVE  UNCHANGED <<client, now>>
    BY <2>4 DEF Answer, AnswerTwice, AnswerError
  <2>5. ASSUME NEW r \in Queriers, Arrive(r)
        PROVE  UNCHANGED <<client, now>>
    BY <2>5 DEF Arrive
  <2>6. UNCHANGED vars => UNCHANGED <<client, now>>
    BY DEF vars
  <2> QED
    BY <2>1, <2>2, <2>3, <2>4, <2>5, <2>6 DEF Next, ClientStep
<1> QED
  BY <1>1, <1>2, <1>3, <1>4

(* Client_HandleSearches leaves each search busy in this very second, or   *)
(* with the answers of all its close nodes.                                *)
THEOREM WorkInvHolds == Spec => []WorkInv
<1>1. Init => WorkInv
  BY DEF Init, WorkInv
<1>2. TypeInv /\ WorkInv /\ [Next]_vars => WorkInv'
  BY NextWorked
<1> QED
  BY <1>1, <1>2, TypeInvHolds, PTL DEF Spec

(* Search_IsDone is asked only after Search_DoWork has found no query that *)
(* would keep the search busy: a search is destroyed when all of its close *)
(* nodes have sent their peers or nodes and accepted the announce, however *)
(* many queries and replies were lost before.                              *)
THEOREM SearchesEndComplete == Spec => DoneSearchesAreComplete
<1> DEFINE A == \A c \in Live : searches'[c] = NULL =>
                  \A i \in DOMAIN Table_ForEachCloseNode(searches[c].table) :
                    {"RGetPeers", "RAnnouncePeer"} \subseteq
                      NodeAt(searches[c].table,
                        Table_ForEachCloseNode(searches[c].table)[i]).replied
<1>1. ASSUME TypeInv, WorkInv, [Next]_vars PROVE A
  <2> SUFFICES ASSUME NEW c \in Live, searches'[c] = NULL,
                      NEW i \in DOMAIN Table_ForEachCloseNode(searches[c].table)
               PROVE  {"RGetPeers", "RAnnouncePeer"} \subseteq
                        NodeAt(searches[c].table,
                          Table_ForEachCloseNode(searches[c].table)[i]).replied
    OBVIOUS
  <2> DEFINE s == searches[c]
             t == s.table
             close == Table_ForEachCloseNode(t)
  <2>1. CleanSearches
    <3>1. c \notin Live'
      BY DEF Live
    <3> QED
      BY <1>1, <3>1, StaysLive
  <2>2. c \in Contexts /\ s # NULL /\ c < at /\ pc = "searches"
    BY <2>1 DEF CleanSearches, Live
  <2>3. Search_IsDone(s, now)
    BY <2>1, <2>2 DEF CleanSearches
  <2>4. SearchOK(s) /\ now \in Nat
    BY <1>1 DEF TypeInv, SearchesOK, ClockOK
  <2>5. s.send_time # now
    <3>1. s.send_time \in Nat /\ SearchRespite \in Nat
      BY <2>4, SearchAssumption DEF SearchOK, SearchRecord
    <3> QED
      BY <2>3, <2>4, <3>1 DEF Search_IsDone
  <2>6. AllAnswered(t) /\ WellFormed(t)
    BY <1>1, <2>2, <2>4, <2>5 DEF WorkInv, SearchOK
  <2> HIDE DEF t
  <2>7. /\ close \in Seq(Places(t))
        /\ \A p \in Places(t) : IsClose(t, t.id, p) <=>
              \E j \in 1 .. Len(close) : close[j] = p
    BY <2>6, CloseNodesOK
  <2>8. close[i] \in Places(t) /\ i \in 1 .. Len(close)
    BY <2>7 DEF t
  <2>9. IsClose(t, t.id, close[i])
    BY <2>7, <2>8
  <2> QED
    BY <2>6, <2>8, <2>9 DEF AllAnswered, t
<1>2. TypeInv /\ WorkInv /\ [Next]_vars => [A]_vars
  BY <1>1
<1> QED
  BY TypeInvHolds, WorkInvHolds, <1>2, PTL DEF Spec, DoneSearchesAreComplete

-----------------------------------------------------------------------------
(* Nodes are not held to have unanswered queries that they have answered   *)

(* How many elements of s are in M. *)
CountOf(s, M) == Cardinality({i \in DOMAIN s : s[i] \in M})

LEMMA CountFinite ==
    ASSUME NEW T, NEW s \in Seq(T), NEW M
    PROVE  /\ IsFiniteSet({i \in DOMAIN s : s[i] \in M}) /\ CountOf(s, M) \in Nat
           /\ DOMAIN s = 1 .. Len(s) /\ Len(s) \in Nat
<1>1. DOMAIN s = 1 .. Len(s) /\ Len(s) \in Nat
  OBVIOUS
<1>2. IsFiniteSet(DOMAIN s)
  BY <1>1, FS_Interval
<1>3. {i \in DOMAIN s : s[i] \in M} \in SUBSET DOMAIN s
  OBVIOUS
<1>4. IsFiniteSet({i \in DOMAIN s : s[i] \in M})
  BY <1>2, <1>3, FS_Subset
<1> QED
  BY <1>1, <1>4, FS_CardinalityType DEF CountOf

(* Counting one sequence after another. *)
LEMMA CountConcat ==
    ASSUME NEW T, NEW s \in Seq(T), NEW r \in Seq(T), NEW M
    PROVE  CountOf(s \o r, M) = CountOf(s, M) + CountOf(r, M)
<1> DEFINE m == Len(s)
           n == Len(r)
           q == s \o r
           I == {i \in DOMAIN s : s[i] \in M}
           J == {i \in DOMAIN r : r[i] \in M}
           L == {i \in m + 1 .. m + n : r[i - m] \in M}
           f == [i \in J |-> m + i]
<1>1. /\ IsFiniteSet(I) /\ DOMAIN s = 1 .. m /\ m \in Nat
      /\ IsFiniteSet(J) /\ DOMAIN r = 1 .. n /\ n \in Nat
      /\ CountOf(s, M) = Cardinality(I) /\ CountOf(r, M) = Cardinality(J)
  BY CountFinite DEF CountOf
<1>2. /\ q \in Seq(T) /\ Len(q) = m + n
      /\ \A i \in 1 .. m + n : q[i] = IF i <= m THEN s[i] ELSE r[i - m]
  BY ONLY s \in Seq(T), r \in Seq(T), ConcatProperties
<1>3. DOMAIN q = 1 .. m + n
  BY <1>1, <1>2
<1> HIDE DEF m, n, q
<1>4. {i \in DOMAIN q : q[i] \in M} = I \cup L
  <2>1. ASSUME NEW i \in 1 .. m + n
        PROVE  q[i] \in M <=> i \in I \/ i \in L
    <3>1. CASE i <= m
      <4>1. i \in 1 .. m /\ i \notin m + 1 .. m + n
        BY <1>1, <3>1
      <4> QED
        BY <1>1, <1>2, <3>1, <4>1
    <3>2. CASE ~(i <= m)
      <4>1. i \notin 1 .. m /\ i \in m + 1 .. m + n
        BY <1>1, <3>2
      <4> QED
        BY <1>1, <1>2, <3>2, <4>1
    <3> QED
      BY <3>1, <3>2
  <2>2. I \cup L \in SUBSET (1 .. m + n)
    BY <1>1
  <2> QED
    BY <1>3, <2>1, <2>2
<1>5. I \cap L = {}
  BY <1>1
<1>6. ExistsBijection(J, L)
  <2>1. \A i \in J : m + i \in L /\ f[i] = m + i
    BY <1>1
  <2>2. \A i, j \in J : m + i = m + j => i = j
    BY <1>1
  <2>3. \A k \in L : k - m \in J /\ m + (k - m) = k
    BY <1>1
  <2>4. f \in [J -> L]
    BY <2>1
  <2> HIDE DEF f, J, L
  <2>5. \A i, j \in J : f[i] = f[j] => i = j
    BY <2>1, <2>2
  <2>6. \A k \in L : \E i \in J : f[i] = k
    BY <2>1, <2>3
  <2>7. f \in Bijection(J, L)
    BY <2>4, <2>5, <2>6 DEF Bijection, Injection, Surjection, IsInjective
  <2> QED
    BY <2>7 DEF ExistsBijection
<1>7. IsFiniteSet(L) /\ Cardinality(L) = Cardinality(J)
  BY <1>1, <1>6, FS_Bijection
<1>8. Cardinality(I \cup L) = Cardinality(I) + Cardinality(L)
  <2> HIDE DEF I, L
  <2>1. Cardinality(I \cup L)
          = Cardinality(I) + Cardinality(L) - Cardinality(I \cap L)
    BY <1>1, <1>7, FS_Union
  <2>2. Cardinality(I \cap L) = 0
    BY <1>5, FS_EmptySet
  <2>3. Cardinality(I) \in Nat /\ Cardinality(L) \in Nat
    BY <1>1, <1>7, FS_CardinalityType
  <2> QED
    BY <2>1, <2>2, <2>3
<1> QED
  BY <1>1, <1>4, <1>7, <1>8 DEF CountOf, q

(* One more element, and one less. *)
LEMMA CountAppend ==
    ASSUME NEW T, NEW s \in Seq(T), NEW x \in T, NEW M
    PROVE  CountOf(Append(s, x), M) = CountOf(s, M) + (IF x \in M THEN 1 ELSE 0)
<1> DEFINE n == Len(s)
           q == Append(s, x)
           I == {i \in DOMAIN s : s[i] \in M}
<1>1. /\ IsFiniteSet(I) /\ DOMAIN s = 1 .. n /\ n \in Nat
      /\ CountOf(s, M) = Cardinality(I) /\ Cardinality(I) \in Nat
  BY CountFinite DEF CountOf
<1>2. /\ DOMAIN q = 1 .. n + 1 /\ q[n + 1] = x
      /\ \A i \in 1 .. n : q[i] = s[i]
  BY <1>1
<1> HIDE DEF q, n
<1>3. {i \in DOMAIN q : q[i] \in M} = IF x \in M THEN I \cup {n + 1} ELSE I
  <2>1. \A i \in 1 .. n + 1 : i \in 1 .. n \/ i = n + 1
    BY <1>1
  <2>2. n + 1 \in 1 .. n + 1 /\ n + 1 \notin 1 .. n /\ 1 .. n \in SUBSET (1 .. n + 1)
    BY <1>1
  <2> QED
    BY <1>1, <1>2, <2>1, <2>2
<1>4. n + 1 \notin I
  BY <1>1
<1> HIDE DEF I
<1>5. Cardinality(I \cup {n + 1}) = Cardinality(I) + 1
  BY <1>1, <1>4, FS_AddElement
<1>6. CountOf(q, M) = Cardinality(IF x \in M THEN I \cup {n + 1} ELSE I)
  BY <1>3 DEF CountOf
<1> QED
  BY <1>1, <1>5, <1>6 DEF q

LEMMA CountFront ==
    ASSUME NEW T, NEW s \in Seq(T), s # <<>>, NEW M
    PROVE  CountOf(s, M) = CountOf(Front(s), M) + (IF Last(s) \in M THEN 1 ELSE 0)
<1>1. /\ Last(s) \in T /\ Last(s) = s[Len(s)] /\ Front(s) \in Seq(T)
      /\ Len(Front(s)) = Len(s) - 1
      /\ \A i \in 1 .. Len(s) - 1 : Front(s)[i] = s[i]
  BY FrontLastOK
<1> DEFINE f == Front(s)
           x == Last(s)
<1> HIDE DEF f, x
<1>2. Append(f, x) = s
  <2>1. /\ f \in Seq(T) /\ x \in T /\ x = s[Len(s)] /\ Len(f) = Len(s) - 1
        /\ \A i \in 1 .. Len(s) - 1 : f[i] = s[i]
    BY <1>1 DEF f, x
  <2>2. Len(s) \in Nat /\ Len(s) # 0
    OBVIOUS
  <2>3. Append(f, x) \in Seq(T) /\ Len(Append(f, x)) = Len(s)
    BY <2>1, <2>2
  <2>4. \A i \in 1 .. Len(s) : Append(f, x)[i] = s[i]
    BY <2>1, <2>2
  <2> QED
    BY <2>3, <2>4
<1>3. CountOf(Append(f, x), M) = CountOf(f, M) + (IF x \in M THEN 1 ELSE 0)
  BY <1>1, CountAppend DEF f, x
<1> QED
  BY <1>2, <1>3 DEF f, x

(* The queries to a node, and the messages from it, for a search. *)
To(c, id) == {q \in Query : q.context = c /\ q.to = id}

From(c, id) == {m \in Decoded : m.context = c /\ m.from = id}

Entries == [Tids -> PendingResponses \cup {NULL}]

LEMMA AskedIsCount ==
    ASSUME NEW qs \in Seq(Query), NEW c, NEW id
    PROVE  Asked(qs, c, id) = CountOf(qs, To(c, id)) /\ Asked(qs, c, id) \in Nat
<1>1. \A i \in DOMAIN qs : qs[i] \in Query
  OBVIOUS
<1>2. {i \in DOMAIN qs : qs[i].context = c /\ qs[i].to = id}
        = {i \in DOMAIN qs : qs[i] \in To(c, id)}
  BY <1>1 DEF To
<1>3. CountOf(qs, To(c, id)) \in Nat
  BY CountFinite
<1> QED
  BY <1>2, <1>3 DEF Asked, CountOf

LEMMA AnsweredIsCount ==
    ASSUME NEW ms \in Seq(Decoded), NEW c, NEW id
    PROVE  /\ Answered(ms, c, id) = CountOf(ms, From(c, id))
           /\ Answered(ms, c, id) \in Nat
<1>1. \A i \in DOMAIN ms : ms[i] \in Decoded
  OBVIOUS
<1>2. {i \in DOMAIN ms : ms[i].context = c /\ ms[i].from = id}
        = {i \in DOMAIN ms : ms[i] \in From(c, id)}
  BY <1>1 DEF From
<1>3. CountOf(ms, From(c, id)) \in Nat
  BY CountFinite
<1> QED
  BY <1>2, <1>3 DEF Answered, CountOf

(* An entry more.  There are as many transaction ids as TidSpace. *)
LEMMA ExpectedSet ==
    ASSUME NEW pd \in Entries, NEW c, NEW id
    PROVE  /\ Expected(pd, c, id) \in Nat
           /\ \A t \in Tids : \A e \in PendingResponses : pd[t] = NULL =>
                 Expected([pd EXCEPT ![t] = e], c, id)
                   = Expected(pd, c, id)
                       + (IF e.context = c /\ e.id = id THEN 1 ELSE 0)
<1> DEFINE I(f) == {t \in Tids : f[t] # NULL /\ f[t].context = c /\ f[t].id = id}
<1>1. IsFiniteSet(Tids)
  <2>1. 0 \in Int /\ TidSpace - 1 \in Int
    BY ClientAssumption
  <2> QED
    BY <2>1, FS_Interval DEF Tids
<1>2. IsFiniteSet(I(pd)) /\ Cardinality(I(pd)) \in Nat
  <2>1. I(pd) \in SUBSET Tids
    OBVIOUS
  <2> HIDE DEF I
  <2> QED
    BY <1>1, <2>1, FS_Subset, FS_CardinalityType
<1>3. Expected(pd, c, id) = Cardinality(I(pd))
  BY DEF Expected
<1>4. ASSUME NEW t \in Tids, NEW e \in PendingResponses, pd[t] = NULL
      PROVE  Expected([pd EXCEPT ![t] = e], c, id)
               = Expected(pd, c, id) + (IF e.context = c /\ e.id = id THEN 1 ELSE 0)
  <2> DEFINE f == [pd EXCEPT ![t] = e]
  <2>1. /\ f[t] = e /\ e # NULL /\ \A u \in Tids : u # t => f[u] = pd[u]
    BY EntryNotNULL DEF Entries
  <2> HIDE DEF f
  <2>2. Expected(f, c, id) = Cardinality(I(f))
    BY DEF Expected
  <2>3. t \notin I(pd)
    BY <1>4
  <2>4. CASE e.context = c /\ e.id = id
    <3>1. I(f) = I(pd) \cup {t}
      BY <2>1, <2>4
    <3> HIDE DEF I
    <3>2. Cardinality(I(f)) = Cardinality(I(pd)) + 1
      BY <1>2, <2>3, <3>1, FS_AddElement
    <3> QED
      BY <1>3, <2>2, <2>4, <3>2 DEF f
  <2>5. CASE ~(e.context = c /\ e.id = id)
    <3>1. I(f) = I(pd)
      BY <1>4, <2>1, <2>5
    <3> HIDE DEF I
    <3> QED
      BY <1>2, <1>3, <2>2, <2>5, <3>1 DEF f
  <2> QED
    BY <2>4, <2>5
<1> QED
  BY <1>2, <1>3, <1>4

(* All of these are numbers. *)
LEMMA UnsettledNat ==
    ASSUME NEW qs \in Seq(Query), NEW pd \in Entries, NEW ms \in Seq(Decoded),
           NEW c, NEW id
    PROVE  /\ Asked(qs, c, id) \in Nat /\ Expected(pd, c, id) \in Nat
           /\ Answered(ms, c, id) \in Nat /\ Unsettled(qs, pd, ms, c, id) \in Nat
<1>1. /\ Asked(qs, c, id) \in Nat /\ Expected(pd, c, id) \in Nat
      /\ Answered(ms, c, id) \in Nat
  BY AskedIsCount, ExpectedSet, AnsweredIsCount
<1> QED
  BY <1>1 DEF Unsettled

(* A node stays settled when the count does not fall. *)
LEMMA SettledGrows ==
    ASSUME NEW qs \in Seq(Query), NEW pd \in Entries, NEW ms \in Seq(Decoded),
           NEW qs2 \in Seq(Query), NEW pd2 \in Entries, NEW ms2 \in Seq(Decoded),
           NEW c, NEW t, OnlyIn(t, Settled(qs, pd, ms, c)),
           \A id \in Hashes :
               Unsettled(qs, pd, ms, c, id) <= Unsettled(qs2, pd2, ms2, c, id)
    PROVE  OnlyIn(t, Settled(qs2, pd2, ms2, c))
<1>1. ASSUME NEW n \in Settled(qs, pd, ms, c)
      PROVE  n \in Settled(qs2, pd2, ms2, c)
  <2> DEFINE a == Unsettled(qs, pd, ms, c, n.id)
             b == Unsettled(qs2, pd2, ms2, c, n.id)
             p == n.pending_queries
  <2>1. n \in Node /\ p <= a
    BY DEF Settled
  <2>2. n.id \in Hashes /\ p \in Nat
    BY <2>1 DEF Node
  <2>3. a \in Nat /\ b \in Nat
    BY UnsettledNat
  <2>4. a <= b
    BY <2>2
  <2> HIDE DEF a, b, p
  <2>5. p <= b
    BY <2>1, <2>2, <2>3, <2>4
  <2> QED
    BY <2>1, <2>5 DEF Settled, b, p
<1> QED
  BY <1>1 DEF OnlyIn, BucketIn

(* A node without queries is always settled. *)
LEMMA UnaskedIsSettled ==
    ASSUME NEW qs \in Seq(Query), NEW pd \in Entries, NEW ms \in Seq(Decoded),
           NEW c, NEW n \in Node, n.pending_queries = 0
    PROVE  n \in Settled(qs, pd, ms, c)
<1>1. Unsettled(qs, pd, ms, c, n.id) \in Nat
  BY UnsettledNat
<1>2. 0 <= Unsettled(qs, pd, ms, c, n.id)
  BY <1>1
<1> QED
  BY <1>2 DEF Settled

(* What PendingInv says once its hypotheses hold. *)
Counted == ContextsOK /\ AddedUnasked /\ SearchesSettled

LEMMA CountedTypes ==
    ASSUME TypeInv
    PROVE  /\ queries \in Seq(Query) /\ pending \in Entries
           /\ incoming \in Seq(Decoded) /\ now \in Nat
           /\ \A c \in Live : c \in Contexts /\ WellFormed(searches[c].table)
BY DEF TypeInv, QueuesOK, MessagesOK, ClockOK, SearchesOK, SearchOK, Live, Entries

(* The steps that leave the searches and the messages alone. *)
LEMMA UntouchedCounted ==
    ASSUME Counted, UNCHANGED <<queries, pending, incoming>>,
           \A c \in Live' : c \in Live /\ searches'[c] = searches[c],
           pc' = "add" => pc = "add" /\ adding' = adding
    PROVE  Counted'
<1>1. ContextsOK' /\ AddedUnasked'
  BY DEF Counted, ContextsOK, AddedUnasked
<1>2. SearchesSettled'
  <2> SUFFICES ASSUME NEW c \in Live'
               PROVE  OnlyIn(searches'[c].table,
                             Settled(queries', pending', incoming', c))
    BY DEF SearchesSettled, OnlyIn, BucketIn, Occupied, Settled, Unsettled,
           Asked, Expected, Answered
  <2> QED
    BY DEF Counted, SearchesSettled
<1> QED
  BY <1>1, <1>2 DEF Counted

LEMMA UntouchedSteps ==
    ASSUME TypeInv, Counted,
           \/ Process \/ CleanSearches \/ ReceiveUnfit \/ ReceiveFailure
           \/ ReceiveNothing \/ HandledAll
           \/ \E q \in requests : Answer(q) \/ AnswerTwice(q) \/ AnswerError(q)
           \/ \E r \in Queriers : Arrive(r)
           \/ Tick \/ UNCHANGED vars
    PROVE  Counted'
<1>1. CASE \/ Process \/ ReceiveUnfit \/ ReceiveFailure
           \/ ReceiveNothing \/ HandledAll
           \/ \E q \in requests : Answer(q) \/ AnswerTwice(q) \/ AnswerError(q)
           \/ \E r \in Queriers : Arrive(r)
           \/ Tick \/ UNCHANGED vars
  <2>1. /\ UNCHANGED <<queries, pending, incoming, searches>>
        /\ pc' = "add" => pc = "add" /\ adding' = adding
    BY <1>1 DEF Process, ReceiveUnfit, ReceiveFailure, ReceiveNothing,
                HandledAll, Elsewhere, Answer, AnswerTwice, AnswerError, Arrive, Tick, vars, client
  <2>2. \A c \in Live' : c \in Live /\ searches'[c] = searches[c]
    BY <2>1 DEF Live
  <2> QED
    BY <2>1, <2>2, UntouchedCounted
<1>2. CASE CleanSearches
  <2>1. UNCHANGED <<queries, pending, incoming>> /\ pc' # "add"
    BY <1>2 DEF CleanSearches, AfterSend
  <2>2. \A c \in Contexts : searches'[c] = searches[c] \/ searches'[c] = NULL
    BY <1>2 DEF CleanSearches
  <2>3. \A c \in Live' : c \in Live /\ searches'[c] = searches[c]
    BY <2>2 DEF Live
  <2> QED
    BY <2>1, <2>3, UntouchedCounted
<1> QED
  BY <1>1, <1>2

(* A search gets another table, whose nodes are settled. *)
LEMMA TableCounted ==
    ASSUME Counted, UNCHANGED <<queries, pending, incoming>>, AddedUnasked',
           NEW c, searches'[c] # NULL =>
               OnlyIn(searches'[c].table, Settled(queries, pending, incoming, c)),
           \A d \in Live' : d # c => d \in Live /\ searches'[d] = searches[d]
    PROVE  Counted'
<1>1. ContextsOK'
  BY DEF Counted, ContextsOK
<1>2. SearchesSettled'
  <2> SUFFICES ASSUME NEW d \in Live'
               PROVE  OnlyIn(searches'[d].table,
                             Settled(queries', pending', incoming', d))
    BY DEF SearchesSettled, OnlyIn, BucketIn, Occupied, Settled, Unsettled,
           Asked, Expected, Answered
  <2>1. CASE d = c
    BY <2>1 DEF Live
  <2>2. CASE d # c
    BY <2>2 DEF Counted, SearchesSettled
  <2> QED
    BY <2>1, <2>2
<1> QED
  BY <1>1, <1>2 DEF Counted

(* A new search has no nodes. *)
LEMMA AddSearchCounted ==
    ASSUME TypeInv, Counted, AddSearch
    PROVE  Counted'
<1> DEFINE s == Search_Create(Targets[created'])
<1>1. /\ UNCHANGED <<queries, pending, incoming>> /\ pc' = "copy"
      /\ searches' = [searches EXCEPT ![created'] = s]
  BY DEF AddSearch
<1>2. created' \in Contexts /\ Targets[created'] \in Hashes
      /\ searches \in [Contexts -> SearchRecord \cup {NULL}]
  BY ClientAssumption DEF TypeInv, SearchesOK, AddSearch, Contexts
<1>3. s.table = Table_Create(Targets[created'])
  BY DEF Search_Create
<1>4. OnlyIn(s.table, Settled(queries, pending, incoming, created'))
  BY <1>2, <1>3, TableCreateIn
<1> HIDE DEF s
<1>5. searches'[created'] = s /\ \A d \in Contexts : d # created' => searches'[d] = searches[d]
  BY <1>1, <1>2
<1>6. \A d \in Live' : d # created' => d \in Live /\ searches'[d] = searches[d]
  BY <1>5 DEF Live
<1>7. AddedUnasked'
  BY <1>1 DEF AddedUnasked
<1> QED
  BY <1>1, <1>4, <1>5, <1>6, <1>7, TableCounted

(* Nodes come into a search without queries. *)
LEMMA AddingCounted ==
    ASSUME TypeInv, Counted, CopyTable \/ AddSearchNodes
    PROVE  Counted'
<1>1. UNCHANGED <<queries, pending, incoming>>
  BY DEF CopyTable, AddSearchNodes, Elsewhere
<1>2. CASE adding.nodes = <<>>
  <2>1. searches' = searches /\ pc' # "add"
    BY <1>2 DEF CopyTable, AddSearchNodes
  <2>2. \A d \in Live' : d \in Live /\ searches'[d] = searches[d]
    BY <2>1 DEF Live
  <2> QED
    BY <1>1, <2>1, <2>2, UntouchedCounted
<1>3. CASE adding.nodes # <<>>
  <2> DEFINE c == adding.context
             n == Head(adding.nodes)
             t == searches[c].table
             S == Settled(queries, pending, incoming, c)
  <2>1. /\ pc' = pc /\ pc \in {"copy", "add"}
        /\ adding' = [adding EXCEPT !.nodes = Tail(@)]
    BY <1>3 DEF CopyTable, AddSearchNodes
  <2>2. PICK u : /\ searches' = [searches EXCEPT ![c] = [searches[c] EXCEPT !.table = u]]
                 /\ \/ CopyTable /\ u = Table_CopyAndAddNode(t, n, now)
                    \/ AddSearchNodes /\ u = Table_InsertNode(t, n, now).table
    <3>1. CASE CopyTable
      <4>1. searches' = [searches EXCEPT ![c] = [searches[c] EXCEPT !.table =
                            Table_CopyAndAddNode(t, n, now)]]
        BY <1>3, <3>1 DEF CopyTable
      <4> QED
        BY <3>1, <4>1
    <3>2. CASE AddSearchNodes
      <4>1. searches' = [searches EXCEPT ![c] = [searches[c] EXCEPT !.table =
                            Table_InsertNode(t, n, now).table]]
        BY <1>3, <3>2 DEF AddSearchNodes
      <4> QED
        BY <3>2, <4>1
    <3> QED
      BY <3>1, <3>2
  <2>3. AddingOK /\ SearchesOK
    BY DEF TypeInv
  <2>4. /\ n \in AddedNodes /\ n = adding.nodes[1] /\ 1 \in DOMAIN adding.nodes
        /\ \A i \in DOMAIN adding'.nodes : /\ i + 1 \in DOMAIN adding.nodes
                                           /\ adding'.nodes[i] = adding.nodes[i + 1]
    BY <1>3, <2>1, <2>3, TailOfNodes
  <2>5. c \in Live
    BY <2>1, <2>3 DEF AddingOK
  <2>6. /\ queries \in Seq(Query) /\ pending \in Entries
        /\ incoming \in Seq(Decoded) /\ now \in Nat
        /\ c \in Contexts /\ WellFormed(t)
    BY <2>5, CountedTypes
  <2>7. OnlyIn(t, S)
    BY <2>5 DEF Counted, SearchesSettled
  <2>8. n \in Node /\ Node_Copy(n) \in Node /\ Node_Copy(n).pending_queries = 0
    BY <2>4 DEF AddedNodes, Node_Copy, Node_Create, Node
  <2>9. AddSearchNodes => n.pending_queries = 0
    BY <2>4 DEF Counted, AddedUnasked, AddSearchNodes
  <2> HIDE DEF n, t, c, S
  <2>10. Node_Copy(n) \in S
    BY <2>6, <2>8, UnaskedIsSettled DEF S
  <2>11. OnlyIn(u, S)
    <3>1. CASE CopyTable /\ u = Table_CopyAndAddNode(t, n, now)
      BY <2>6, <2>7, <2>8, <2>10, <3>1, CopyAndAddIn
    <3>2. CASE AddSearchNodes /\ u = Table_InsertNode(t, n, now).table
      <4>1. n \in S
        BY <2>6, <2>8, <2>9, <3>2, UnaskedIsSettled DEF S
      <4> QED
        BY <2>6, <2>7, <2>8, <3>2, <4>1, InsertNodeIn
    <3> QED
      BY <2>2, <3>1, <3>2
  <2>12. searches[c] \in SearchRecord /\ searches \in [Contexts -> SearchRecord \cup {NULL}]
    BY <2>3, <2>5 DEF SearchesOK, SearchOK
  <2>13. /\ searches'[c].table = u
         /\ \A d \in Contexts : d # c => searches'[d] = searches[d]
    BY <2>2, <2>6, <2>12 DEF SearchRecord
  <2>14. \A d \in Live' : d # c => d \in Live /\ searches'[d] = searches[d]
    BY <2>13 DEF Live
  <2>15. AddedUnasked'
    BY <2>1, <2>4 DEF AddedUnasked, Counted
  <2> QED
    BY <1>1, <2>11, <2>13, <2>14, <2>15, TableCounted DEF S
<1> QED
  BY <1>2, <1>3

(* Messages move on, and no query goes missing. *)
LEMMA MovedCounted ==
    ASSUME TypeInv, TypeInv', Counted, searches' = searches, ContextsOK',
           pc' # "add",
           \A c \in Contexts : \A id \in Hashes :
               Unsettled(queries, pending, incoming, c, id)
                 <= Unsettled(queries', pending', incoming', c, id)
    PROVE  Counted'
<1>1. /\ queries \in Seq(Query) /\ pending \in Entries /\ incoming \in Seq(Decoded)
      /\ queries' \in Seq(Query) /\ pending' \in Entries /\ incoming' \in Seq(Decoded)
  BY DEF TypeInv, QueuesOK, MessagesOK, Entries
<1>2. SearchesSettled'
  <2> SUFFICES ASSUME NEW c \in Live'
               PROVE  OnlyIn(searches'[c].table,
                             Settled(queries', pending', incoming', c))
    BY DEF SearchesSettled, OnlyIn, BucketIn, Occupied, Settled, Unsettled,
           Asked, Expected, Answered
  <2>1. c \in Live /\ c \in Contexts /\ searches'[c] = searches[c]
    BY DEF Live
  <2>2. OnlyIn(searches[c].table, Settled(queries, pending, incoming, c))
    BY <2>1 DEF Counted, SearchesSettled
  <2>3. \A id \in Hashes : Unsettled(queries, pending, incoming, c, id)
                             <= Unsettled(queries', pending', incoming', c, id)
    BY <2>1
  <2>4. OnlyIn(searches[c].table, Settled(queries', pending', incoming', c))
    BY <1>1, <2>2, <2>3, SettledGrows
  <2> QED
    BY <2>1, <2>4
<1>3. AddedUnasked'
  BY DEF AddedUnasked
<1> QED
  BY <1>2, <1>3 DEF Counted

(* The elements of a longer sequence. *)
LEMMA AppendedElements ==
    ASSUME NEW S, NEW s \in Seq(S), NEW x \in S
    PROVE  /\ Append(s, x) \in Seq(S)
           /\ \A i \in DOMAIN Append(s, x) :
                 \/ i \in DOMAIN s /\ Append(s, x)[i] = s[i]
                 \/ Append(s, x)[i] = x
OBVIOUS

(* Dht_AddNode's ping is for no search. *)
LEMMA AddNodeCounted ==
    ASSUME TypeInv, TypeInv', Counted, NEW addr \in Bootstrap, AddNode(addr)
    PROVE  Counted'
<1> DEFINE yes == TRUE
           q == Message_CreateQuery("QPing", addr, yes, NULL, next_t)
<1>1. /\ queries' = Append(queries, q)
      /\ UNCHANGED <<pending, incoming, searches, pc>> /\ pc = "idle"
  BY DEF AddNode
<1>2. /\ queries \in Seq(Query) /\ pending \in Entries /\ incoming \in Seq(Decoded)
      /\ next_t \in Nat
  BY DEF TypeInv, QueuesOK, MessagesOK, Entries
<1>3. addr \in Remotes /\ yes \in BOOLEAN
  BY ClientAssumption
<1> HIDE DEF yes
<1>4. q \in Query
  BY <1>2, <1>3, CreateQueryOK
<1>5. q.context = NULL
  BY DEF Message_CreateQuery
<1> HIDE DEF q
<1>6. \A i \in DOMAIN queries' : \/ i \in DOMAIN queries /\ queries'[i] = queries[i]
                                 \/ queries'[i] = q
  BY <1>1, <1>2, <1>4, AppendedElements
<1>7. ContextsOK'
  BY <1>1, <1>5, <1>6 DEF Counted, ContextsOK
<1>8. ASSUME NEW c \in Contexts, NEW id \in Hashes
      PROVE  Unsettled(queries, pending, incoming, c, id)
               <= Unsettled(queries', pending', incoming', c, id)
  <2>1. /\ Asked(queries, c, id) = CountOf(queries, To(c, id))
        /\ Asked(queries', c, id) = CountOf(queries', To(c, id))
    BY <1>1, <1>2, <1>4, AppendedElements, AskedIsCount
  <2>2. CountOf(queries', To(c, id))
          = CountOf(queries, To(c, id)) + (IF q \in To(c, id) THEN 1 ELSE 0)
    BY <1>1, <1>2, <1>4, CountAppend
  <2> DEFINE a == Asked(queries, c, id)
             b == Asked(queries', c, id)
             e == Expected(pending, c, id)
             m == Answered(incoming, c, id)
  <2>3. a \in Nat /\ e \in Nat /\ m \in Nat
    BY <1>2, UnsettledNat
  <2>4. b = a + 1 \/ b = a
    BY <2>1, <2>2, <2>3
  <2>5. /\ Unsettled(queries, pending, incoming, c, id) = a + e + m
        /\ Unsettled(queries', pending', incoming', c, id) = b + e + m
    BY <1>1 DEF Unsettled
  <2> HIDE DEF a, b, e, m
  <2> QED
    BY <2>3, <2>4, <2>5
<1> QED
  BY <1>1, <1>7, <1>8, MovedCounted

(* SendMessage: a query that was queued becomes one that is expected. *)
LEMMA SendCounted ==
    ASSUME TypeInv, TypeInv', Apart, Counted, SendMessage
    PROVE  Counted'
<1> DEFINE q == Last(queries)
           n == Len(queries)
           entry == PendingResponse(q)
<1>1. /\ queries \in Seq(Query) /\ pending \in Entries /\ incoming \in Seq(Decoded)
      /\ queries # <<>> /\ queries' = Front(queries)
      /\ UNCHANGED <<incoming, searches>> /\ pc' # "add"
  BY DEF TypeInv, QueuesOK, MessagesOK, Entries, SendMessage, AfterSend
<1>2. /\ q \in Query /\ q = queries[n] /\ n \in DOMAIN queries /\ q.t \in Tids
      /\ queries' \in Seq(Query)
      /\ \A i \in DOMAIN queries' : i \in DOMAIN queries /\ queries'[i] = queries[i]
  <2>1. /\ Last(queries) \in Query /\ Last(queries) = queries[Len(queries)]
        /\ Front(queries) \in Seq(Query) /\ Len(Front(queries)) = Len(queries) - 1
        /\ \A i \in 1 .. Len(queries) - 1 : Front(queries)[i] = queries[i]
    BY <1>1, FrontLastOK
  <2>2. /\ DOMAIN queries = 1 .. n /\ n \in Nat /\ n # 0
        /\ DOMAIN Front(queries) = 1 .. n - 1
    BY <1>1, <2>1
  <2> QED
    BY <1>1, <2>1, <2>2, TidTypes
<1>3. pending[q.t] = NULL
  BY <1>2 DEF Apart, QueuedApart
<1>4. pending' = [pending EXCEPT ![q.t] = entry]
  BY <1>3 DEF SendMessage
<1>5. /\ entry \in PendingResponses /\ entry.type = AsReply[q.type]
      /\ entry.context = q.context
  BY <1>2, PendingResponseOK
<1>6. q.context # NULL => ~q.is_new /\ q.type # "QPing"
  BY <1>2 DEF Counted, ContextsOK
<1>7. q.context # NULL => entry.id = q.to
  BY <1>6 DEF PendingResponse
<1>8. q.context # NULL => ~entry.is_new
  BY <1>6 DEF PendingResponse
<1>9. q.context # NULL => entry.type # "RPing"
  BY <1>2, <1>5, <1>6 DEF AsReply, Query
<1> HIDE DEF q, entry
<1>10. \A t \in Tids : pending'[t] = entry \/ pending'[t] = pending[t]
  BY <1>1, <1>2, <1>4 DEF Entries
<1>11. ContextsOK'
  <2>1. \A i \in DOMAIN queries' : queries'[i].context # NULL =>
           ~queries'[i].is_new /\ queries'[i].type # "QPing"
    BY <1>2 DEF Counted, ContextsOK
  <2>2. \A t \in Tids : pending'[t] # NULL /\ pending'[t].context # NULL =>
           ~pending'[t].is_new /\ pending'[t].type # "RPing"
    BY <1>5, <1>8, <1>9, <1>10 DEF Counted, ContextsOK
  <2> QED
    BY <1>1, <2>1, <2>2 DEF Counted, ContextsOK
<1>12. ASSUME NEW c \in Contexts, NEW id \in Hashes
       PROVE  Unsettled(queries, pending, incoming, c, id)
                <= Unsettled(queries', pending', incoming', c, id)
  <2> DEFINE a == Asked(queries, c, id)
             b == Asked(queries', c, id)
             e == Expected(pending, c, id)
             f == Expected(pending', c, id)
             m == Answered(incoming, c, id)
  <2>1. /\ a = CountOf(queries, To(c, id)) /\ b = CountOf(queries', To(c, id))
    BY <1>1, <1>2, AskedIsCount
  <2>2. CountOf(queries, To(c, id))
          = CountOf(queries', To(c, id)) + (IF q \in To(c, id) THEN 1 ELSE 0)
    BY <1>1, CountFront DEF q
  <2>3. a \in Nat /\ e \in Nat /\ m \in Nat /\ b \in Nat
    BY <1>1, <1>2, UnsettledNat
  <2>4. f = e + (IF entry.context = c /\ entry.id = id THEN 1 ELSE 0)
    <3>1. \A t \in Tids : \A r \in PendingResponses : pending[t] = NULL =>
             Expected([pending EXCEPT ![t] = r], c, id)
               = Expected(pending, c, id)
                   + (IF r.context = c /\ r.id = id THEN 1 ELSE 0)
      BY <1>1, ExpectedSet
    <3>2. Expected([pending EXCEPT ![q.t] = entry], c, id)
            = Expected(pending, c, id)
                + (IF entry.context = c /\ entry.id = id THEN 1 ELSE 0)
      BY <1>2, <1>3, <1>5, <3>1
    <3> QED
      BY <1>4, <3>2
  <2>5. /\ Unsettled(queries, pending, incoming, c, id) = a + e + m
        /\ Unsettled(queries', pending', incoming', c, id) = b + f + m
    BY <1>1 DEF Unsettled
  <2> HIDE DEF a, b, e, f, m
  <2>6. q \in To(c, id) => entry.context = c /\ entry.id = id
    BY <1>5, <1>7, ContextNotNULL DEF To
  <2>7. CASE q \in To(c, id)
    BY <2>1, <2>2, <2>3, <2>4, <2>5, <2>6, <2>7
  <2>8. CASE q \notin To(c, id)
    <3>1. a = b /\ (f = e \/ f = e + 1)
      BY <2>1, <2>2, <2>3, <2>4, <2>8
    <3> QED
      BY <2>3, <2>5, <3>1
  <2> QED
    BY <2>7, <2>8
<1> QED
  BY <1>1, <1>11, <1>12, MovedCounted

(* A reply to a query of a known node is found valid. *)
LEMMA HonestReply ==
    ASSUME TypeInv, Honest, Counted, NEW q \in Query,
           pending[q.t] = PendingResponse(q)
    PROVE  LET m == DecodeResponse(q)
           IN  /\ ~m.errors /\ m.from = q.to
               /\ m.context # NULL =>
                     m.type \in {"RFindNode", "RGetPeers", "RAnnouncePeer"}
<1> DEFINE e == PendingResponse(q)
           m == DecodeResponse(q)
<1>1. /\ e \in PendingResponses /\ e.type = AsReply[q.type] /\ q.t \in Tids
      /\ e.context = q.context
  BY PendingResponseOK
<1>2. RealId[q.to] = q.to
  BY DEF Honest, Query
<1>3. pending[q.t] # NULL
  BY <1>1, EntryNotNULL
<1>4. q.type \in {"QPing", "QFindNode", "QGetPeers", "QAnnouncePeer"}
  BY DEF Query
<1>5. ~InvalidData(e.type, q)
  BY <1>1, <1>4 DEF InvalidData, HasNodes, HasToken, AsReply
<1>6. ~(RealId[q.to] # e.id /\ ~e.is_new)
  <2>1. CASE q.is_new
    <3>1. e.is_new
      BY <2>1 DEF PendingResponse
    <3> QED
      BY <3>1
  <2>2. CASE ~q.is_new
    <3>1. e.id = q.to
      BY <2>2 DEF PendingResponse
    <3> QED
      BY <1>2, <3>1
  <2> QED
    BY <2>1, <2>2
<1> DEFINE errors == \/ RealId[q.to] # e.id /\ ~e.is_new
                     \/ InvalidData(e.type, q)
<1>7. ~errors
  BY <1>5, <1>6
<1>8. m = [type |-> e.type, context |-> e.context, from |-> RealId[q.to],
           errors |-> errors, q |-> q]
  BY DEF DecodeResponse
<1> HIDE DEF errors, e, m
<1>9. m.type = e.type /\ m.context = e.context /\ m.from = q.to /\ m.errors = errors
  BY <1>2, <1>8
<1>10. ~m.errors
  BY <1>7, <1>9
<1>11. e.context # NULL => e.type # "RPing"
  BY <1>1, <1>3 DEF Counted, ContextsOK, e
<1>12. e.type \in {"RPing", "RFindNode", "RGetPeers", "RAnnouncePeer"}
  BY <1>1 DEF PendingResponses, ReplyTypes
<1> QED
  BY <1>9, <1>10, <1>11, <1>12 DEF m

(* One more decoded message, which is valid or belongs to no search. *)
LEMMA DecodedCounted ==
    ASSUME TypeInv, TypeInv', Counted, NEW m \in Decoded,
           m.errors => m.type \in Flawed,
           m.context # NULL => m.type \in {"RFindNode", "RGetPeers", "RAnnouncePeer"},
           incoming' = Append(incoming, m), UNCHANGED <<queries, searches>>,
           pc' # "add",
           \A t \in Tids : pending'[t] \in {NULL, pending[t]},
           \A c \in Contexts : \A id \in Hashes :
              \/ Expected(pending', c, id) = Expected(pending, c, id)
              \/ /\ Expected(pending, c, id) = Expected(pending', c, id) + 1
                 /\ m \in From(c, id)
    PROVE  Counted'
<1>1. /\ queries \in Seq(Query) /\ pending \in Entries /\ incoming \in Seq(Decoded)
      /\ pending' \in Entries /\ incoming' \in Seq(Decoded)
  BY DEF TypeInv, QueuesOK, MessagesOK, Entries
<1>2. \A i \in DOMAIN incoming' : \/ i \in DOMAIN incoming /\ incoming'[i] = incoming[i]
                                  \/ incoming'[i] = m
  BY <1>1, AppendedElements
<1>3. ContextsOK'
  <2>1. \A i \in DOMAIN incoming' :
           /\ incoming'[i].errors => incoming'[i].type \in Flawed
           /\ incoming'[i].context # NULL =>
                 incoming'[i].type \in {"RFindNode", "RGetPeers", "RAnnouncePeer"}
    BY <1>2 DEF Counted, ContextsOK
  <2>2. \A t \in Tids : pending'[t] # NULL /\ pending'[t].context # NULL =>
           ~pending'[t].is_new /\ pending'[t].type # "RPing"
    BY DEF Counted, ContextsOK
  <2>3. \A i \in DOMAIN queries' : queries'[i].context # NULL =>
           ~queries'[i].is_new /\ queries'[i].type # "QPing"
    BY DEF Counted, ContextsOK
  <2> QED
    BY <2>1, <2>2, <2>3 DEF ContextsOK
<1>4. ASSUME NEW c \in Contexts, NEW id \in Hashes
      PROVE  Unsettled(queries, pending, incoming, c, id)
               <= Unsettled(queries', pending', incoming', c, id)
  <2> DEFINE a == Asked(queries, c, id)
             e == Expected(pending, c, id)
             f == Expected(pending', c, id)
             k == Answered(incoming, c, id)
             l == Answered(incoming', c, id)
  <2>1. k = CountOf(incoming, From(c, id)) /\ l = CountOf(incoming', From(c, id))
    BY <1>1, AnsweredIsCount
  <2>2. CountOf(incoming', From(c, id))
          = CountOf(incoming, From(c, id)) + (IF m \in From(c, id) THEN 1 ELSE 0)
    BY <1>1, CountAppend
  <2>3. a \in Nat /\ e \in Nat /\ f \in Nat /\ k \in Nat
    BY <1>1, UnsettledNat
  <2>4. f = e \/ (e = f + 1 /\ m \in From(c, id))
    OBVIOUS
  <2>5. /\ Unsettled(queries, pending, incoming, c, id) = a + e + k
        /\ Unsettled(queries', pending', incoming', c, id) = a + f + l
    BY DEF Unsettled
  <2> HIDE DEF a, e, f, k, l
  <2>6. CASE m \in From(c, id)
    BY <2>1, <2>2, <2>3, <2>4, <2>5, <2>6
  <2>7. CASE m \notin From(c, id)
    BY <2>1, <2>2, <2>3, <2>4, <2>5, <2>7
  <2> QED
    BY <2>6, <2>7
<1> QED
  BY <1>3, <1>4, MovedCounted

(* A reply: a query that was expected becomes one to be handled. *)
LEMMA ReceiveReplyCounted ==
    ASSUME TypeInv, TypeInv', Apart, Honest, Counted, ReceiveReply
    PROVE  Counted'
<1> DEFINE q == Head(inbox).q
           entry == PendingResponse(q)
           m == DecodeResponse(q)
<1>1. /\ MessagesOK /\ inbox # <<>> /\ Head(inbox).y = "r"
      /\ UNCHANGED <<queries, searches>> /\ pending \in Entries
  BY DEF TypeInv, QueuesOK, Entries, ReceiveReply
<1>2. Head(inbox) = inbox[1] /\ 1 \in DOMAIN inbox
  BY <1>1, InboxHead
<1>3. IsReply(inbox[1]) /\ q = inbox[1].q /\ q \in Query /\ q.t \in Tids
  BY <1>1, <1>2, TidTypes DEF IsReply
<1>4. pending[q.t] \in {NULL, entry}
  BY <1>2, <1>3 DEF Apart, RepliesApart
<1>5. CASE pending[q.t] = NULL
  <2>1. UNCHANGED <<incoming, pending>> /\ pc' = "aborted"
    BY <1>5 DEF ReceiveReply
  <2>2. \A d \in Live' : d \in Live /\ searches'[d] = searches[d]
    BY <1>1 DEF Live
  <2> QED
    BY <1>1, <2>1, <2>2, UntouchedCounted
<1>6. CASE pending[q.t] # NULL
  <2>1. /\ incoming' = Append(incoming, m) /\ pc' # "add"
        /\ pending' = [pending EXCEPT ![q.t] = NULL]
    BY <1>6 DEF ReceiveReply
  <2>2. pending[q.t] = entry
    BY <1>4, <1>6
  <2>3. /\ ~m.errors /\ m.from = q.to
        /\ m.context # NULL => m.type \in {"RFindNode", "RGetPeers", "RAnnouncePeer"}
    BY <1>3, <2>2, HonestReply
  <2>4. m \in Decoded /\ m.context = entry.context
    BY <1>3, <1>6, <2>2, DecodeResponseOK DEF DecodedOK
  <2>5. entry \in PendingResponses
    BY <1>3, PendingResponseOK
  <2>6. entry.context # NULL => entry.id = q.to
    <3>1. entry.context # NULL => ~entry.is_new
      BY <1>3, <1>6, <2>2 DEF Counted, ContextsOK
    <3>2. entry.is_new = q.is_new
      BY DEF PendingResponse
    <3>3. ~q.is_new => entry.id = q.to
      BY DEF PendingResponse
    <3> HIDE DEF entry
    <3> QED
      BY <3>1, <3>2, <3>3
  <2> HIDE DEF q, entry, m
  <2>7. \A t \in Tids : pending'[t] \in {NULL, pending[t]}
    BY <1>1, <1>3, <2>1 DEF Entries
  <2>8. pending' \in Entries /\ pending'[q.t] = NULL
        /\ pending = [pending' EXCEPT ![q.t] = entry]
    BY <1>1, <1>3, <2>1, <2>2 DEF Entries
  <2>9. ASSUME NEW c \in Contexts, NEW id \in Hashes
        PROVE  \/ Expected(pending', c, id) = Expected(pending, c, id)
               \/ /\ Expected(pending, c, id) = Expected(pending', c, id) + 1
                  /\ m \in From(c, id)
    <3>1. /\ Expected(pending', c, id) \in Nat
          /\ \A t \in Tids : \A r \in PendingResponses : pending'[t] = NULL =>
               Expected([pending' EXCEPT ![t] = r], c, id)
                 = Expected(pending', c, id)
                     + (IF r.context = c /\ r.id = id THEN 1 ELSE 0)
      BY <2>8, ExpectedSet
    <3>2. Expected([pending' EXCEPT ![q.t] = entry], c, id)
            = Expected(pending', c, id)
                + (IF entry.context = c /\ entry.id = id THEN 1 ELSE 0)
      BY <1>3, <2>5, <2>8, <3>1
    <3>3. Expected(pending, c, id)
            = Expected(pending', c, id)
                + (IF entry.context = c /\ entry.id = id THEN 1 ELSE 0)
      BY <2>8, <3>2
    <3>4. entry.context = c /\ entry.id = id => m \in From(c, id)
      BY <2>3, <2>4, <2>6, ContextNotNULL DEF From
    <3> QED
      BY <3>1, <3>3, <3>4
  <2> QED
    BY <1>1, <2>1, <2>3, <2>4, <2>7, <2>9, DecodedCounted
<1> QED
  BY <1>5, <1>6

(* What is no reply belongs to no search. *)
LEMMA ReceiveOtherCounted ==
    ASSUME TypeInv, TypeInv', Counted, ReceiveOther
    PROVE  Counted'
<1> DEFINE d == Head(inbox)
           type == CASE d.y = "q" -> "QPing"
                     [] d.y = "e" -> "RError"
                     [] OTHER     -> d.y
           from == IF d.y \in {"e", "MUnknown"} THEN NoId ELSE d.from
           errors == d.y \in {"MUnknown", "NoTid", "BadData"}
           m == [type |-> type, context |-> NULL, errors |-> errors, q |-> d.q,
                 from |-> from]
<1>1. /\ UNCHANGED <<queries, pending, searches>> /\ pc' # "add"
      /\ incoming' = Append(incoming, m)
      /\ MessagesOK /\ inbox # <<>> /\ incoming \in Seq(Decoded)
      /\ d.y \in {"q", "e", "MUnknown", "NoTid", "OddTid", "BadData"}
  BY DEF ReceiveOther, TypeInv, MessagesOK
<1>2. d \in Datagram
  BY <1>1, InboxHead DEF DatagramOK
<1>3. NoId \in Hashes
  BY DEF NoId, Hashes
<1>4. /\ type \in {"QPing", "OddTid", "RError"} \cup Flawed
      /\ d.q \in Query \cup {NULL} /\ from \in Hashes
  BY <1>1, <1>2, <1>3, ClientAssumption DEF Datagram, Flawed
<1>5. errors => type \in Flawed
  BY DEF Flawed
<1>8. errors \in BOOLEAN
  OBVIOUS
<1> HIDE DEF type, from, errors, d
<1>6. /\ m \in Decoded /\ m.context = NULL /\ m.errors = errors
      /\ m.type = type
  BY <1>4, <1>8 DEF Decoded
<1> HIDE DEF m
<1>7. m.errors => m.type \in Flawed
  BY <1>5, <1>6
<1> QED
  BY <1>1, <1>6, <1>7, DecodedCounted

(* A message is handled. *)
LEMMA HandledCounts ==
    ASSUME TypeInv, Counted, incoming # <<>>, incoming' = Front(incoming),
           UNCHANGED <<queries, pending>>
    PROVE  /\ ContextsOK' /\ incoming' \in Seq(Decoded) /\ Message \in Decoded
           /\ Message.context # NULL =>
                 Message.type \in {"RFindNode", "RGetPeers", "RAnnouncePeer"}
           /\ Message.errors => Message.type \in Flawed
           /\ \A c, id : Unsettled(queries, pending, incoming, c, id)
                 = Unsettled(queries', pending', incoming', c, id)
                     + (IF Message \in From(c, id) THEN 1 ELSE 0)
<1>1. /\ queries \in Seq(Query) /\ pending \in Entries /\ incoming \in Seq(Decoded)
  BY CountedTypes
<1>2. /\ Message \in Decoded /\ incoming' \in Seq(Decoded)
      /\ \A i \in DOMAIN incoming' :
            i \in DOMAIN incoming /\ incoming'[i] = incoming[i]
  BY HandledMessage
<1>3. Message = incoming[Len(incoming)] /\ Len(incoming) \in DOMAIN incoming
  <2>1. Last(incoming) = incoming[Len(incoming)]
    BY <1>1, FrontLastOK
  <2> QED
    BY <1>1, <2>1 DEF Message
<1>4. /\ Message.errors => Message.type \in Flawed
      /\ Message.context # NULL =>
            Message.type \in {"RFindNode", "RGetPeers", "RAnnouncePeer"}
  BY <1>3 DEF Counted, ContextsOK
<1>5. ContextsOK'
  BY <1>2 DEF Counted, ContextsOK
<1>6. ASSUME NEW c, NEW id
      PROVE  Unsettled(queries, pending, incoming, c, id)
               = Unsettled(queries', pending', incoming', c, id)
                   + (IF Message \in From(c, id) THEN 1 ELSE 0)
  <2> DEFINE a == Asked(queries, c, id)
             e == Expected(pending, c, id)
             k == Answered(incoming, c, id)
             l == Answered(incoming', c, id)
             x == IF Message \in From(c, id) THEN 1 ELSE 0
  <2>1. k = CountOf(incoming, From(c, id)) /\ l = CountOf(incoming', From(c, id))
    BY <1>1, <1>2, AnsweredIsCount
  <2>2. CountOf(incoming, From(c, id)) = CountOf(incoming', From(c, id)) + x
    BY <1>1, CountFront DEF Message
  <2>3. a \in Nat /\ e \in Nat /\ l \in Nat /\ x \in Nat
    BY <1>1, <1>2, UnsettledNat
  <2>4. /\ Unsettled(queries, pending, incoming, c, id) = a + e + k
        /\ Unsettled(queries', pending', incoming', c, id) = a + e + l
    BY DEF Unsettled
  <2> HIDE DEF a, e, k, l, x
  <2>5. Unsettled(queries, pending, incoming, c, id)
          = Unsettled(queries', pending', incoming', c, id) + x
    BY <2>1, <2>2, <2>3, <2>4
  <2> QED
    BY <2>5 DEF x
<1> QED
  BY <1>2, <1>4, <1>5, <1>6

(* For the searches that a message does not belong to, nothing changes. *)
LEMMA OthersSettled ==
    ASSUME TypeInv, Counted, incoming # <<>>, incoming' = Front(incoming),
           UNCHANGED <<queries, pending>>, NEW d \in Live, Message.context # d
    PROVE  OnlyIn(searches[d].table, Settled(queries', pending', incoming', d))
<1>1. /\ queries \in Seq(Query) /\ pending \in Entries /\ incoming \in Seq(Decoded)
  BY CountedTypes
<1>2. /\ incoming' \in Seq(Decoded)
      /\ \A c, id : Unsettled(queries, pending, incoming, c, id)
            = Unsettled(queries', pending', incoming', c, id)
                + (IF Message \in From(c, id) THEN 1 ELSE 0)
  BY HandledCounts
<1>3. queries' \in Seq(Query) /\ pending' \in Entries
  BY <1>1
<1>4. ASSUME NEW id \in Hashes
      PROVE  Unsettled(queries, pending, incoming, d, id)
               <= Unsettled(queries', pending', incoming', d, id)
  <2>1. Message \notin From(d, id)
    BY DEF From
  <2>2. Unsettled(queries', pending', incoming', d, id) \in Nat
    BY <1>2, <1>3, UnsettledNat
  <2>3. Unsettled(queries, pending, incoming, d, id)
          = Unsettled(queries', pending', incoming', d, id)
              + (IF Message \in From(d, id) THEN 1 ELSE 0)
    BY <1>2
  <2> QED
    BY <2>1, <2>2, <2>3
<1>5. OnlyIn(searches[d].table, Settled(queries, pending, incoming, d))
  BY DEF Counted, SearchesSettled
<1> QED
  BY <1>1, <1>2, <1>3, <1>4, <1>5, SettledGrows

(* How SearchesSettled' comes about. *)
LEMMA SettledPrimed ==
    ASSUME \A d \in Live' : OnlyIn(searches'[d].table,
                                   Settled(queries', pending', incoming', d))
    PROVE  SearchesSettled'
BY DEF SearchesSettled, OnlyIn, BucketIn, Occupied, Settled, Unsettled,
       Asked, Expected, Answered

(* The messages that belong to no search. *)
LEMMA HandleOtherCounted ==
    ASSUME TypeInv, Counted,
           \/ HandleRError \/ HandleQPing
           \/ HandleInvalidReply \/ HandleInvalidQuery
    PROVE  Counted'
<1>1. /\ incoming # <<>> /\ incoming' = Front(incoming) /\ pc' # "add"
      /\ UNCHANGED <<queries, pending, searches>>
  BY DEF HandleRError, HandleQPing, HandleInvalidReply, HandleInvalidQuery,
         HandlingInvalid, Handling, Elsewhere
<1>2. ContextsOK' /\ Message.context = NULL
  <2>1. Message.type \in {"RError", "QPing", "OddTid"} \/ Message.errors
    BY DEF HandleRError, HandleQPing, HandleInvalidReply, HandleInvalidQuery,
           HandlingInvalid, Handling
  <2> QED
    BY <1>1, <2>1, HandledCounts DEF Flawed
<1>3. ASSUME NEW d \in Live'
      PROVE  OnlyIn(searches'[d].table, Settled(queries', pending', incoming', d))
  <2>1. d \in Live /\ searches'[d] = searches[d] /\ d \in Contexts
    BY <1>1 DEF Live
  <2>2. Message.context # d
    BY <1>2, <2>1, ContextNotNULL
  <2> QED
    BY <1>1, <2>1, <2>2, OthersSettled
<1>4. SearchesSettled'
  BY <1>3, SettledPrimed
<1>5. AddedUnasked'
  BY <1>1 DEF AddedUnasked
<1> QED
  BY <1>2, <1>4, <1>5 DEF Counted

(* The reply to a ping belongs to none either; the searches get a node     *)
(* without queries.                                                        *)
LEMMA HandleRPingCounted ==
    ASSUME TypeInv, Counted, HandleRPing
    PROVE  Counted'
<1>1. /\ incoming # <<>> /\ incoming' = Front(incoming) /\ pc' # "add"
      /\ UNCHANGED <<queries, pending>> /\ Message.type = "RPing"
  BY DEF HandleRPing, Handling, Elsewhere
<1>2. /\ ContextsOK' /\ Message.context = NULL /\ incoming' \in Seq(Decoded)
  BY <1>1, HandledCounts
<1>3. Replier \in Node
  BY <1>1, HandledMessage DEF AddedNodes
<1>4. ASSUME NEW d \in Live'
      PROVE  OnlyIn(searches'[d].table, Settled(queries', pending', incoming', d))
  <2> DEFINE t == searches[d].table
             u == Table_CopyAndAddNode(t, Replier, now)
             S == Settled(queries', pending', incoming', d)
  <2>1. d \in Live /\ d \in Contexts
        /\ searches'[d] = [searches[d] EXCEPT !.table = u]
    BY DEF Live, HandleRPing
  <2>2. searches[d] \in SearchRecord /\ WellFormed(t) /\ now \in Nat
        /\ queries' \in Seq(Query) /\ pending' \in Entries
    BY <1>1, <2>1, CountedTypes DEF TypeInv, SearchesOK, SearchOK
  <2> HIDE DEF u
  <2>3. searches'[d].table = u
    BY <2>1, <2>2 DEF SearchRecord
  <2>4. Message.context # d
    BY <1>2, <2>1, ContextNotNULL
  <2>5. OnlyIn(t, S)
    BY <1>1, <2>1, <2>4, OthersSettled
  <2>6. Node_Copy(Replier) \in Node /\ Node_Copy(Replier).pending_queries = 0
    BY <1>3 DEF Node_Copy, Node_Create, Node
  <2>7. Node_Copy(Replier) \in S
    BY <1>2, <2>2, <2>6, UnaskedIsSettled
  <2> HIDE DEF S, t
  <2>8. OnlyIn(u, S)
    BY <1>3, <2>2, <2>5, <2>7, CopyAndAddIn DEF u
  <2> QED
    BY <2>3, <2>8 DEF S
<1>5. SearchesSettled'
  BY <1>4, SettledPrimed
<1>6. AddedUnasked'
  BY <1>1 DEF AddedUnasked
<1> QED
  BY <1>2, <1>5, <1>6 DEF Counted

(* A reply is marked in the search: one query less for its node. *)
LEMMA MarkedSettled ==
    ASSUME TypeInv, Counted, incoming # <<>>, incoming' = Front(incoming),
           UNCHANGED <<queries, pending>>,
           NEW c \in Live, Message.context = c,
           NEW type, Replier \in Node, Replier.id = Message.from
    PROVE  OnlyIn(Table_MarkReply(searches[c].table, Replier, type, now),
                  Settled(queries', pending', incoming', c))
<1> DEFINE t == searches[c].table
           M == Settled(queries, pending, incoming, c)
           N == Settled(queries', pending', incoming', c)
           Old(id) == Unsettled(queries, pending, incoming, c, id)
           New(id) == Unsettled(queries', pending', incoming', c, id)
<1>1. /\ queries \in Seq(Query) /\ pending \in Entries /\ incoming \in Seq(Decoded)
      /\ now \in Nat /\ WellFormed(t)
  BY CountedTypes
<1>2. /\ incoming' \in Seq(Decoded) /\ Message \in Decoded
      /\ \A d, id : Unsettled(queries, pending, incoming, d, id)
            = Unsettled(queries', pending', incoming', d, id)
                + (IF Message \in From(d, id) THEN 1 ELSE 0)
  BY HandledCounts
<1>3. queries' \in Seq(Query) /\ pending' \in Entries
  BY <1>1
<1>4. \A id : New(id) \in Nat
  BY <1>2, <1>3, UnsettledNat
<1>5. \A id : Old(id) = New(id) + (IF id = Message.from THEN 1 ELSE 0)
  <2>1. \A id : Message \in From(c, id) <=> id = Message.from
    BY <1>2 DEF From
  <2> QED
    BY <1>2, <2>1
<1>6. /\ \A n : n \in M <=> n \in Node /\ n.pending_queries <= Old(n.id)
      /\ \A n : n \in N <=> n \in Node /\ n.pending_queries <= New(n.id)
  BY DEF Settled
<1>7. OnlyIn(t, M)
  BY DEF Counted, SearchesSettled
<1> HIDE DEF t, M, N, Old, New
<1>8. ASSUME NEW n \in M, n.id # Replier.id PROVE n \in N
  <2>1. Old(n.id) = New(n.id)
    BY <1>4, <1>5, <1>8
  <2> QED
    BY <1>6, <2>1
<1>9. ASSUME NEW n \in Node, n.id = Replier.id,
             n.pending_queries <= New(n.id) + 1
      PROVE  AfterReply(n, type, now) \in N
  <2> DEFINE p == n.pending_queries
             r == AfterReply(n, type, now)
             x == Decrement(p)
             s == n.replied \cup ({type} \cap CountedReplies)
             k == New(n.id)
  <2>1. p \in Nat /\ k \in Nat /\ p <= k + 1
    BY <1>4, <1>9 DEF Node
  <2>2. x \in Nat /\ x <= k
    <3> HIDE DEF p, k
    <3> QED
      BY <2>1 DEF Decrement
  <2>3. s \in SUBSET CountedReplies
    BY DEF Node
  <2>4. r = [n EXCEPT !.reply_time = now, !.pending_queries = x, !.replied = s]
    BY DEF AfterReply
  <2> HIDE DEF p, r, x, s, k
  <2>5. r \in Node /\ r.id = n.id /\ r.pending_queries = x
    BY <1>1, <2>2, <2>3, <2>4 DEF Node
  <2>6. r.pending_queries <= New(r.id)
    BY <2>2, <2>5 DEF k
  <2> QED
    BY <1>6, <2>5, <2>6 DEF r
<1>10. ASSUME NEW n \in M \cup {Node_Copy(Replier)}, n \in Node, n.id = Replier.id
       PROVE  AfterReply(n, type, now) \in N
  <2>1. New(n.id) \in Nat
    BY <1>4
  <2>2. CASE n \in M
    <3>1. n.pending_queries <= Old(n.id) /\ Old(n.id) = New(n.id) + 1
      BY <1>5, <1>6, <1>10, <2>2
    <3> QED
      BY <1>9, <1>10, <3>1
  <2>3. CASE n = Node_Copy(Replier)
    <3>1. n.pending_queries = 0
      BY <2>3 DEF Node_Copy, Node_Create
    <3>2. n.pending_queries <= New(n.id) + 1
      BY <2>1, <3>1
    <3> QED
      BY <1>9, <1>10, <3>2
  <2> QED
    BY <1>10, <2>2, <2>3
<1>11. OnlyIn(Table_MarkReply(t, Replier, type, now), N)
  BY <1>1, <1>7, <1>8, <1>10, MarkReplyChanges
<1> QED
  BY <1>11 DEF t, N

(* The nodes of a reply have no queries. *)
LEMMA StartAddingUnasked ==
    ASSUME TypeInv, incoming # <<>>, Message.q \in Query, NEW c, StartAdding(c)
    PROVE  AddedUnasked'
<1> DEFINE ids == Within(Contacts[Message.q.to], Remotes \ {OwnId})
           f == [i \in DOMAIN ids |-> Node_Create(ids[i])]
<1>1. adding' = [context |-> c, nodes |-> f]
  BY DEF StartAdding
<1>2. \A i \in DOMAIN f : f[i].pending_queries = 0
  BY DEF Node_Create
<1> HIDE DEF f
<1>3. adding'.nodes = f
  BY <1>1
<1> QED
  BY <1>2, <1>3 DEF AddedUnasked

(* A reply is handled in its search, or finds that it is gone. *)
LEMMA HandleSearchReplyCounted ==
    ASSUME TypeInv, Counted, HandleRFindNode \/ HandleRGetPeers \/ HandleRAnnouncePeer
    PROVE  Counted'
<1> DEFINE c == Message.context
           type == Message.type
<1>1. /\ incoming # <<>> /\ incoming' = Front(incoming) /\ pc = "handle"
      /\ UNCHANGED <<queries, pending>>
      /\ type \in {"RFindNode", "RGetPeers", "RAnnouncePeer"}
  BY DEF HandleRFindNode, HandleRGetPeers, HandleRAnnouncePeer,
         HandleSearchReply, Handling, Elsewhere
<1>2. ContextsOK'
  BY <1>1, HandledCounts
<1>3. Replier \in Node /\ Replier.id = Message.from /\ Message.q \in Query
  BY <1>1, HandledMessage DEF AddedNodes, DecodedOK, ReplyTypes
<1>4. ASSUME NEW d \in Live, d # c
      PROVE  OnlyIn(searches[d].table, Settled(queries', pending', incoming', d))
  BY <1>1, <1>4, OthersSettled
<1>5. CASE c \notin Live
  <2>1. pc' = "undefined" /\ searches' = searches
    BY <1>5 DEF HandleRFindNode, HandleRGetPeers, HandleRAnnouncePeer,
                HandleSearchReply
  <2>2. \A d \in Live' : d \in Live /\ d # c /\ searches'[d] = searches[d]
    BY <1>5, <2>1 DEF Live
  <2>3. SearchesSettled'
    BY <1>4, <2>2, SettledPrimed
  <2>4. AddedUnasked'
    BY <2>1 DEF AddedUnasked
  <2> QED
    BY <1>2, <2>3, <2>4 DEF Counted
<1>6. CASE c \in Live
  <2> DEFINE u == Table_MarkReply(searches[c].table, Replier, type, now)
  <2>1. searches[c] \in SearchRecord /\ c \in Contexts
        /\ searches \in [Contexts -> SearchRecord \cup {NULL}]
    BY <1>6 DEF TypeInv, SearchesOK, SearchOK, Live
  <2>2. Marked(c, type) = [searches[c] EXCEPT !.table = u]
    BY DEF Marked
  <2> HIDE DEF u
  <2>3. Marked(c, type) \in [table : {u}, tokens : SUBSET Hashes,
                             peers : SUBSET Hashes, send_time : Nat]
    BY <2>1, <2>2 DEF SearchRecord
  <2>4. Marked(c, type).table = u /\ GotPeers(Marked(c, type)).table = u
    BY <2>3 DEF GotPeers
  <2>5. /\ \/ searches' = [searches EXCEPT ![c] = Marked(c, type)]
           \/ searches' = [searches EXCEPT ![c] = GotPeers(Marked(c, type))]
        /\ StartAdding(c) \/ UNCHANGED <<adding, pc>>
    <3>1. CASE HandleRFindNode
      <4>1. type = "RFindNode"
            /\ searches' = [searches EXCEPT ![c] = Marked(c, "RFindNode")]
            /\ StartAdding(c)
        BY <1>6, <3>1 DEF HandleRFindNode, HandleSearchReply, Handling
      <4> QED
        BY <4>1
    <3>2. CASE HandleRGetPeers
      <4>1. type = "RGetPeers"
            /\ searches' = [searches EXCEPT ![c] = GotPeers(Marked(c, "RGetPeers"))]
            /\ (StartAdding(c) \/ UNCHANGED <<adding, pc>>)
        BY <1>6, <3>2 DEF HandleRGetPeers, HandleSearchReply, Handling
      <4> QED
        BY <4>1
    <3>3. CASE HandleRAnnouncePeer
      <4>1. type = "RAnnouncePeer"
            /\ searches' = [searches EXCEPT ![c] = Marked(c, "RAnnouncePeer")]
            /\ UNCHANGED <<adding, pc>>
        BY <1>6, <3>3 DEF HandleRAnnouncePeer, HandleSearchReply, Handling
      <4> QED
        BY <4>1
    <3> QED
      BY <3>1, <3>2, <3>3
  <2>6. OnlyIn(u, Settled(queries', pending', incoming', c))
    <3> HIDE DEF type
    <3> QED
      BY <1>1, <1>3, <1>6, MarkedSettled DEF u
  <2>7. AddedUnasked'
    <3>1. CASE StartAdding(c)
      BY <1>1, <1>3, <3>1, StartAddingUnasked
    <3>2. CASE UNCHANGED <<adding, pc>>
      BY <1>1, <3>2 DEF AddedUnasked
    <3> QED
      BY <2>5, <3>1, <3>2
  <2> HIDE DEF c, type
  <2>8. /\ searches'[c].table = u
        /\ \A d \in Contexts : d # c => searches'[d] = searches[d]
    BY <2>1, <2>4, <2>5
  <2>9. ASSUME NEW d \in Live'
        PROVE  OnlyIn(searches'[d].table, Settled(queries', pending', incoming', d))
    <3>1. CASE d = c
      BY <2>6, <2>8, <3>1
    <3>2. CASE d # c
      <4>1. d \in Live /\ searches'[d] = searches[d]
        BY <2>8, <3>2 DEF Live
      <4> QED
        BY <1>4, <3>2, <4>1
    <3> QED
      BY <3>1, <3>2
  <2>10. SearchesSettled'
    BY <2>9, SettledPrimed
  <2> QED
    BY <1>2, <2>7, <2>10 DEF Counted
<1> QED
  BY <1>5, <1>6

(* How many of these queries go to the node at a place. *)
Sent(qs, p) == Cardinality({i \in DOMAIN qs : qs[i].place = p})

(* CountQueries adds to each node the number of queries made to it. *)
LEMMA CountQueriesAdds ==
    ASSUME NEW t, WellFormed(t), NEW W, NEW qs \in Seq(W),
           NEW b \in 0 .. t.end - 1, NEW s \in Occupied(t.buckets[b])
    PROVE  CountQueries(t, qs).buckets[b].nodes[s].pending_queries
             = t.buckets[b].nodes[s].pending_queries
                 + Sent(qs, <<b, s>>)
<1> DEFINE Slot(r) == IF NodeAt(t, <<b, r>>) = NULL THEN NULL
                      ELSE [NodeAt(t, <<b, r>>) EXCEPT
                               !.pending_queries = @ + Sent(qs, <<b, r>>)]
           nodes == [r \in Slots |-> Slot(r)]
           m == t.buckets[b].nodes[s]
           u == CountQueries(t, qs)
<1>1. IsTable(t) /\ b \in BucketIndexes /\ BucketOK(t.buckets[b]) /\ ~(b >= t.end)
  BY TableAssumption, HashBitsAssumption
     DEF WellFormed, IsTable, BucketIndexes, MaxBuckets
<1>2. t.buckets[b] \in Bucket /\ s \in Slots /\ m \in Node /\ m # NULL
  BY <1>1 DEF BucketOK, Bucket, Occupied
<1>3. u.buckets[b] = [t.buckets[b] EXCEPT !.nodes = nodes]
  BY <1>1 DEF CountQueries, IsTable, Sent
<1> HIDE DEF nodes, u
<1>4. u.buckets[b].nodes = nodes
  BY <1>2, <1>3 DEF Bucket
<1>5. NodeAt(t, <<b, s>>) = m
  BY DEF NodeAt
<1> HIDE DEF m
<1>6. u.buckets[b].nodes[s] = [m EXCEPT !.pending_queries = @ + Sent(qs, <<b, s>>)]
  BY <1>2, <1>4, <1>5 DEF nodes
<1>7. u.buckets[b].nodes[s].pending_queries = m.pending_queries + Sent(qs, <<b, s>>)
  BY <1>2, <1>6 DEF Node
<1> QED
  BY <1>7 DEF u, m

(* The queries f of a search are for it, and for the nodes at the places w. *)
QueriesFor(c, t, w, f) ==
    /\ DOMAIN f = DOMAIN w
    /\ \A i \in DOMAIN w :
          /\ f[i].context = c /\ ~f[i].is_new /\ f[i].type # "QPing"
          /\ f[i].to = NodeAt(t, w[i].place).id

LEMMA QueuedFor ==
    ASSUME TypeInv, NEW c \in Live, NEW w, w = Queries(searches[c]),
           NEW f, f = Queued(c, w)
    PROVE  /\ w \in Seq(Wanted(searches[c].table)) /\ f \in Seq(Query)
           /\ QueriesFor(c, searches[c].table, w, f)
<1> DEFINE t == searches[c].table
<1>1. SearchOK(searches[c])
  BY DEF TypeInv, SearchesOK
<1>2. w \in Seq(Wanted(t))
  BY <1>1, QueriesOK
<1>3. f \in Seq(Query) /\ Len(f) = Len(w) /\ Len(w) \in Nat
  BY QueuedOK
<1>4. DOMAIN f = DOMAIN w
  BY <1>2, <1>3
<1>5. ASSUME NEW i \in DOMAIN w
      PROVE  /\ f[i].context = c /\ ~f[i].is_new /\ f[i].type # "QPing"
             /\ f[i].to = NodeAt(t, w[i].place).id
  <2> DEFINE no == FALSE
             type == w[i].type
             to == NodeAt(t, w[i].place).id
             k == (next_t + i - 1) % TidSpace
  <2>1. f[i] = [type |-> type, to |-> to, is_new |-> no, context |-> c, t |-> k]
    BY DEF Queued, Message_CreateQuery
  <2>2. type \in {"QFindNode", "QGetPeers", "QAnnouncePeer"}
    <3>1. w[i] \in Wanted(t)
      BY <1>2
    <3> QED
      BY ONLY <3>1 DEF Wanted
  <2>3. ~no
    OBVIOUS
  <2> HIDE DEF no, type, to, k
  <2>4. f[i].type = type /\ f[i].to = to /\ f[i].is_new = no /\ f[i].context = c
    BY <2>1
  <2>5. ~f[i].is_new
    BY <2>3, <2>4
  <2> QED
    BY <2>2, <2>4, <2>5 DEF to
<1> QED
  BY <1>2, <1>3, <1>4, <1>5 DEF QueriesFor

(* More queries are queued than a node has counted. *)
LEMMA QueuedCovers ==
    ASSUME NEW w, NEW f \in Seq(Query), NEW c, NEW t, QueriesFor(c, t, w, f), NEW p
    PROVE  Sent(w, p) \in Nat /\ Sent(w, p) <= Asked(f, c, NodeAt(t, p).id)
<1> DEFINE I == {i \in DOMAIN w : w[i].place = p}
           J == {i \in DOMAIN f : f[i].context = c /\ f[i].to = NodeAt(t, p).id}
<1>1. DOMAIN f = 1 .. Len(f) /\ Len(f) \in Nat /\ 1 \in Int
  OBVIOUS
<1>2. IsFiniteSet(DOMAIN f)
  BY <1>1, FS_Interval
<1>3. J \in SUBSET DOMAIN f /\ I \in SUBSET J
  BY DEF QueriesFor
<1>4. Asked(f, c, NodeAt(t, p).id) = Cardinality(J)
  BY DEF Asked
<1> HIDE DEF I, J
<1>5. IsFiniteSet(J)
  BY <1>2, <1>3, FS_Subset
<1>6. IsFiniteSet(I) /\ Cardinality(I) <= Cardinality(J)
  BY <1>3, <1>5, FS_Subset
<1>7. Cardinality(I) \in Nat
  BY <1>6, FS_CardinalityType
<1> QED
  BY <1>4, <1>6, <1>7 DEF I, Sent

(* Search_DoWork counts the queries that it queues. *)
LEMMA HandleSearchesCounted ==
    ASSUME TypeInv, TypeInv', Counted, NEW c \in Live, HandleSearches(c)
    PROVE  Counted'
<1> DEFINE s == searches[c]
           t == s.table
           w == Queries(s)
           f == Queued(c, w)
           u == CountQueries(t, w)
           r == Search_DoWork(s, w, now)
<1>1. /\ queries' = queries \o f
      /\ searches' = [searches EXCEPT ![c] = r]
      /\ UNCHANGED <<pending, incoming>> /\ pc' = pc /\ pc = "searches"
  BY DEF HandleSearches, Queued
<1>2. /\ queries \in Seq(Query) /\ pending \in Entries /\ incoming \in Seq(Decoded)
      /\ c \in Contexts /\ WellFormed(t)
      /\ s \in SearchRecord /\ searches \in [Contexts -> SearchRecord \cup {NULL}]
  BY CountedTypes DEF TypeInv, SearchesOK, SearchOK
<1>3. w \in Seq(Wanted(t)) /\ f \in Seq(Query) /\ QueriesFor(c, t, w, f)
  BY QueuedFor
<1>4. r.table = u
  BY <1>2 DEF Search_DoWork, SearchRecord
<1> HIDE DEF r, w, f
<1>5. /\ queries' \in Seq(Query)
      /\ \A i \in DOMAIN queries' :
            \/ \E j \in DOMAIN queries : queries'[i] = queries[j]
            \/ \E j \in DOMAIN f : queries'[i] = f[j]
  <2>1. /\ queries \o f \in Seq(Query) /\ Len(queries \o f) = Len(queries) + Len(f)
        /\ \A i \in 1 .. Len(queries) + Len(f) :
              (queries \o f)[i] = IF i <= Len(queries) THEN queries[i]
                                  ELSE f[i - Len(queries)]
    BY ONLY <1>2, <1>3, ConcatProperties
  <2>2. /\ Len(queries) \in Nat /\ DOMAIN queries = 1 .. Len(queries)
        /\ Len(f) \in Nat /\ DOMAIN f = 1 .. Len(f)
        /\ DOMAIN (queries \o f) = 1 .. Len(queries) + Len(f)
    BY <1>2, <1>3, <2>1
  <2>3. ASSUME NEW i \in DOMAIN queries'
        PROVE  \/ \E j \in DOMAIN queries : queries'[i] = queries[j]
               \/ \E j \in DOMAIN f : queries'[i] = f[j]
    <3>1. i \in 1 .. Len(queries) + Len(f)
      BY <1>1, <2>2
    <3>2. CASE i <= Len(queries)
      <4>1. i \in DOMAIN queries /\ queries'[i] = queries[i]
        BY <1>1, <2>1, <2>2, <3>1, <3>2
      <4> QED
        BY <4>1
    <3>3. CASE ~(i <= Len(queries))
      <4>1. i - Len(queries) \in DOMAIN f /\ queries'[i] = f[i - Len(queries)]
        BY <1>1, <2>1, <2>2, <3>1, <3>3
      <4> QED
        BY <4>1
    <3> QED
      BY <3>2, <3>3
  <2> QED
    BY <1>1, <2>1, <2>3
<1>6. ContextsOK'
  <2>1. \A i \in DOMAIN queries' : queries'[i].context # NULL =>
           ~queries'[i].is_new /\ queries'[i].type # "QPing"
    BY <1>3, <1>5 DEF Counted, ContextsOK, QueriesFor
  <2> QED
    BY <1>1, <2>1 DEF Counted, ContextsOK
<1>7. AddedUnasked'
  BY <1>1 DEF AddedUnasked
<1>8. \A d, id : /\ Asked(f, d, id) \in Nat
                 /\ Unsettled(queries, pending, incoming, d, id) \in Nat
                 /\ Unsettled(queries', pending', incoming', d, id)
                      = Unsettled(queries, pending, incoming, d, id) + Asked(f, d, id)
  <2> TAKE d, id
  <2> DEFINE a == Asked(queries, d, id)
             b == Asked(queries', d, id)
             g == Asked(f, d, id)
             e == Expected(pending, d, id)
             m == Answered(incoming, d, id)
  <2>1. /\ a = CountOf(queries, To(d, id)) /\ b = CountOf(queries', To(d, id))
        /\ g = CountOf(f, To(d, id)) /\ g \in Nat
    BY <1>2, <1>3, <1>5, AskedIsCount
  <2>2. CountOf(queries', To(d, id)) = CountOf(queries, To(d, id)) + CountOf(f, To(d, id))
    BY <1>1, <1>2, <1>3, CountConcat
  <2>3. a \in Nat /\ e \in Nat /\ m \in Nat
    BY <1>2, UnsettledNat
  <2>4. /\ Unsettled(queries, pending, incoming, d, id) = a + e + m
        /\ Unsettled(queries', pending', incoming', d, id) = b + e + m
    BY <1>1 DEF Unsettled
  <2> HIDE DEF a, b, e, g, m
  <2>5. /\ a + e + m \in Nat /\ b + e + m = (a + e + m) + g
    BY <2>1, <2>2, <2>3
  <2> QED
    BY <2>1, <2>4, <2>5 DEF g
<1>9. OnlyIn(u, Settled(queries', pending', incoming', c))
  <2>1. /\ u.end = t.end
        /\ \A b \in 0 .. t.end - 1 :
              /\ Occupied(u.buckets[b]) = Occupied(t.buckets[b])
              /\ \A k \in Occupied(t.buckets[b]) :
                    SameButCount(t.buckets[b].nodes[k], u.buckets[b].nodes[k])
    BY <1>2, <1>3, CountQueriesOK
  <2>2. OnlyIn(t, Settled(queries, pending, incoming, c))
    BY DEF Counted, SearchesSettled
  <2>3. ASSUME NEW b \in 0 .. t.end - 1, NEW k \in Occupied(t.buckets[b])
        PROVE  u.buckets[b].nodes[k] \in Settled(queries', pending', incoming', c)
    <3> DEFINE n == t.buckets[b].nodes[k]
               m == u.buckets[b].nodes[k]
               x == Sent(w, <<b, k>>)
               y == Unsettled(queries, pending, incoming, c, n.id)
               z == Unsettled(queries', pending', incoming', c, n.id)
               g == Asked(f, c, n.id)
    <3>1. m.pending_queries = n.pending_queries + x
      <4>1. WellFormed(t) /\ w \in Seq(Wanted(t))
        BY <1>2, <1>3
      <4> HIDE DEF t
      <4> QED
        BY ONLY <4>1, CountQueriesAdds, b \in 0 .. t.end - 1,
                k \in Occupied(t.buckets[b])
    <3>2. m \in Node /\ m.id = n.id
      BY <2>1 DEF SameButCount
    <3>3. n \in Node /\ n.pending_queries <= y
      BY <2>2 DEF OnlyIn, BucketIn, Settled
    <3>4. n.pending_queries \in Nat
      BY <3>3 DEF Node
    <3>5. x \in Nat /\ x <= g
      <4>1. NodeAt(t, <<b, k>>) = n
        BY DEF NodeAt
      <4>2. x \in Nat /\ x <= Asked(f, c, NodeAt(t, <<b, k>>).id)
        <5> HIDE DEF t
        <5> QED
          BY <1>3, QueuedCovers
      <4> QED
        BY <4>1, <4>2
    <3>6. z = y + g /\ y \in Nat /\ g \in Nat
      BY <1>8
    <3> HIDE DEF n, m, x, y, z, g
    <3>7. m.pending_queries <= z
      BY <3>1, <3>3, <3>4, <3>5, <3>6
    <3> QED
      BY <3>2, <3>7 DEF Settled, z, m
  <2> HIDE DEF u
  <2> QED
    BY <2>1, <2>3 DEF OnlyIn, BucketIn
<1> HIDE DEF u
<1>10. searches'[c] = r /\ \A d \in Contexts : d # c => searches'[d] = searches[d]
  BY <1>1, <1>2
<1>11. ASSUME NEW d \in Live'
       PROVE  OnlyIn(searches'[d].table, Settled(queries', pending', incoming', d))
  <2>1. CASE d = c
    BY <1>4, <1>9, <1>10, <2>1
  <2>2. CASE d # c
    <3>1. d \in Live /\ searches'[d] = searches[d]
      BY <1>10, <2>2 DEF Live
    <3>2. \A id \in Hashes : Unsettled(queries, pending, incoming, d, id)
                               <= Unsettled(queries', pending', incoming', d, id)
      <4> TAKE id \in Hashes
      <4> DEFINE y == Unsettled(queries, pending, incoming, d, id)
                 z == Unsettled(queries', pending', incoming', d, id)
                 g == Asked(f, d, id)
      <4>1. g \in Nat /\ y \in Nat /\ z = y + g
        BY <1>8
      <4> HIDE DEF y, z, g
      <4>2. y <= z
        BY <4>1
      <4> QED
        BY <4>2 DEF y, z
    <3>3. OnlyIn(searches[d].table, Settled(queries, pending, incoming, d))
      BY <3>1 DEF Counted, SearchesSettled
    <3>4. pending' \in Entries /\ incoming' \in Seq(Decoded)
      BY <1>1, <1>2
    <3> QED
      BY <1>2, <1>5, <3>1, <3>2, <3>3, <3>4, SettledGrows
  <2> QED
    BY <2>1, <2>2
<1>12. SearchesSettled'
  BY <1>11, SettledPrimed
<1> QED
  BY <1>6, <1>7, <1>12 DEF Counted

(* Every step keeps the searches settled. *)
LEMMA NextCounted ==
    ASSUME TypeInv, TidInv, PendingInv, [Next]_vars
    PROVE  PendingInv'
<1> SUFFICES ASSUME ~SendFails, Honest, next_t' <= TidSpace PROVE Counted'
  BY DEF PendingInv, Counted
<1>1. next_t <= TidSpace
  BY TidsGrow
<1>2. Counted /\ Apart
  BY <1>1 DEF PendingInv, TidInv, Counted, Apart
<1>3. TypeInv'
  BY NextTypes
<1>4. ASSUME NEW addr \in Bootstrap, AddNode(addr) PROVE Counted'
  BY <1>2, <1>3, <1>4, AddNodeCounted
<1>5. CASE AddSearch
  BY <1>2, <1>5, AddSearchCounted
<1>6. CASE CopyTable \/ AddSearchNodes
  BY <1>2, <1>6, AddingCounted
<1>7. ASSUME NEW c \in Live, HandleSearches(c) PROVE Counted'
  BY <1>2, <1>3, <1>7, HandleSearchesCounted
<1>8. CASE SendMessage
  BY <1>2, <1>3, <1>8, SendCounted
<1>9. ~SendFailure
  BY DEF SendFailure
<1>10. CASE ReceiveReply
  BY <1>2, <1>3, <1>10, ReceiveReplyCounted
<1>11. CASE ReceiveOther
  BY <1>2, <1>3, <1>11, ReceiveOtherCounted
<1>12. CASE HandleRPing
  BY <1>2, <1>12, HandleRPingCounted
<1>13. CASE HandleRFindNode \/ HandleRGetPeers \/ HandleRAnnouncePeer
  BY <1>2, <1>13, HandleSearchReplyCounted
<1>14. CASE \/ HandleRError \/ HandleQPing
            \/ HandleInvalidReply \/ HandleInvalidQuery
  BY <1>2, <1>14, HandleOtherCounted
<1>15. CASE \/ Process \/ CleanSearches \/ ReceiveUnfit \/ ReceiveFailure
            \/ ReceiveNothing \/ HandledAll
            \/ \E q \in requests : Answer(q) \/ AnswerTwice(q) \/ AnswerError(q)
            \/ \E r \in Queriers : Arrive(r)
            \/ Tick \/ UNCHANGED vars
  BY <1>2, <1>15, UntouchedSteps
<1> QED
  BY <1>4, <1>5, <1>6, <1>7, <1>8, <1>9, <1>10, <1>11, <1>12, <1>13, <1>14,
     <1>15 DEF Next, ClientStep

(* When every send succeeds and every node answers under the id it is      *)
(* known by, each query of a search is queued, expected or being handled   *)
(* for as long as its node counts it.                                      *)
THEOREM PendingInvHolds == Spec => []PendingInv
<1>1. Init => PendingInv
  BY DEF Init, PendingInv, ContextsOK, AddedUnasked, SearchesSettled, Live
<1>2. TypeInv /\ TidInv /\ PendingInv /\ [Next]_vars => PendingInv'
  BY NextCounted
<1> QED
  BY <1>1, <1>2, TypeInvHolds, TidInvHolds, PTL DEF Spec

(* pending_queries, by which Node_Status finds a node Bad, counts no query *)
(* that the node has answered, however late, often or out of order the     *)
(* answers come.  A failed sendto, a node that answers under another id    *)
(* and a transaction id that is used again each lose a query for good.     *)
THEOREM QueriesAreOutstanding ==
    Spec => [](~SendFails /\ Honest /\ next_t <= TidSpace
                 => PendingQueriesAreOutstanding)
<1>1. ASSUME TypeInv, PendingInv, ~SendFails, Honest, next_t <= TidSpace
      PROVE  PendingQueriesAreOutstanding
  <2> SUFFICES ASSUME NEW c \in Live, NEW p \in Places(searches[c].table)
               PROVE  NodeAt(searches[c].table, p).pending_queries
                        <= Outstanding(c, NodeAt(searches[c].table, p).id)
    BY DEF PendingQueriesAreOutstanding
  <2>1. /\ WellFormed(searches[c].table)
        /\ OnlyIn(searches[c].table, Settled(queries, pending, incoming, c))
    BY <1>1, CountedTypes DEF PendingInv, SearchesSettled
  <2>2. NodeAt(searches[c].table, p) \in Settled(queries, pending, incoming, c)
    BY <2>1, NodeAtIn
  <2>3. \A id : Outstanding(c, id) = Unsettled(queries, pending, incoming, c, id)
    BY DEF Outstanding, Unsettled, Asked, Expected, Answered
  <2> QED
    BY <2>2, <2>3 DEF Settled
<1>2. TypeInv /\ PendingInv =>
        (~SendFails /\ Honest /\ next_t <= TidSpace => PendingQueriesAreOutstanding)
  BY <1>1
<1> QED
  BY <1>2, TypeInvHolds, PendingInvHolds, PTL

=============================================================================
