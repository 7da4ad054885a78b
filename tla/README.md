# A TLA+ model of dumhet

dumhet is a C library for a node of the BitTorrent distributed hash table: it
keeps a routing table of other nodes, answers their queries, and runs searches
that look for the peers of a torrent and announce its own. This directory
specifies it in TLA+, checks small instances with TLC and proves with TLAPS what
holds of the routing table, the client, the responder, the containers and the hooks
for every size. The models cover the program from the containers it is built on to the
messages it exchanges. Paths below are relative to `src/src/`.

The program is a single thread. The application creates a client, gives it
addresses (`Dht_AddNode`) and targets (`Dht_AddSearch`), and calls
`Dht_Process` again and again. What is hard about it is not parallelism inside
the process but state that survives from one pass to a later one: pointers held
in tables of pending replies, counters that are raised when a query is queued
and lowered when its reply is handled, a routing table whose shape changes
under the ids that are looked for in it, and a network that answers late,
twice, in another order or never.

## Inventory

| part | source | state | operations | hard about it | correct when |
|---|---|---|---|---|---|
| ids | `hash.c` | - | shared prefix, distance, order | - | used by everything below |
| nodes | `node.c` | times of the last reply and query, pending queries, reply counters | status, copy | status depends on the clock and on counters others change | a node is not given up while it may still answer |
| buckets | `bucket.c` | K sparse slots and a count | contains, replace Bad, replace Questionable, add | slots and count must agree | count = occupied slots |
| routing table | `table.c` | up to 158 buckets, the last one split on demand | insert, copy, find, mark reply, mark query, dump, read | a split changes where an id is looked for | every node is findable, none twice, live nodes stay |
| closest nodes | `close.c` | sorted array of K | add | shifting at the limit | the K nearest, nearest first |
| searches | `search.c` | own table, tokens, peers, time of the last counted query | the queries of a pass, being done | done is decided by a timeout | a search that ends is complete, and it ends |
| work loop | `work.c`, `dht.c` | queues, list of searches | one pass: queries, cleaning, sending, receiving, handling | a search is freed while messages refer to it; early returns | nothing refers to a freed search |
| handlers | `handle.c` | - | one per message type | each trusts the type and context of the message | replies reach the search that asked |
| network | `network.c` | socket | send and expect a reply, receive | a send fails; the entry is made after the send | every query sent is expected |
| pending replies | `pendingresponses.c`, `dht/protocol.h` | map from 16-bit tid | add, remove | the tid wraps; entries never expire | a reply meets its own query |
| message creation | `message_create.c` | `next_t` | one per message type | replies point into the table and copy the query's transaction id | sent before the table changes |
| encoding | `protocol_enc.c` | the client's buffer | one per message type | lengths worked out by hand before unchecked writes; byte order | what is written has the predicted length and is read back |
| decoding | `protocol_dec.c`, `bencode.c` | the same buffer | parse, look up keys, fill in a message | malformed or unexpected input, older bytes after the data | nothing else is accepted than what was written; a message without errors is complete |
| announced peers, tokens | `peers.c`, `client.c` | peers by torrent, two secrets | add, list, new secret | a limit; a grace period | a token lives through one change of secret |
| hooks | `hooks.c`, `lcthw/list.c` | a list per event | add, remove, run | a hook that changes the list | each is run once, no freed node is used |
| containers | `lcthw/darray.c`, `lcthw/hashmap.c` | arrays, buckets of nodes | push, pop, compact; set, get, delete, traverse | resizing, collisions, deletion by a swap | they behave as a sequence and as a partial function |

The parts call each other downwards; the only callbacks are hooks. Tables are
shared by nobody: the client has one, each search has one, and nodes are copied
between them. Searches are shared by address: a query carries its search as
`context`, the pending entry keeps it, and the decoded reply gets it back.

`PROJECT.json` lists all parts with what is left out of each, and the hazards:
the places where something can go wrong that a test would hardly reach.

Assertions are active in the default build: the second assignment to `CFLAGS`
in the `Makefile` has no `-DNDEBUG`.

## Modules

`Hash` - ids as functions from bit positions to bits; shared prefix, distance.

`Table` - nodes, buckets and the routing table as operators on values, with the
names of the C functions. `Table_InsertNode` returns the new table, the return
code and the node thrown out. The free slots of a bucket are NULL; counts are
kept beside the slots as in the code, so that the two can disagree. Left out of
a node: its address, which follows its id, and the size of its reply counters,
of which only zero or not zero is ever asked.

`Close` - what is done with all nodes of a table: the array of the K closest to
an id, as `close.c` builds it node by node, with the definition of what it should
be (`Closest`); `Table_Dump` and `Table_Read`, where a line stands for the id in it.

`RoutingTable` - a table as a state machine: `InsertNode` (a node named in a
reply), `CopyNode` (a node of another table), `MarkReply`, `MarkQuery`,
`SendQuery` (counts a query on any stored node), `Tick`. Every operation that
any part of the program performs on a table is one of these, so what holds
here holds of the client's table and of every search's.

`FoldLemmas`, `TableLemmas`, `CloseLemmas` - what the proofs share: folds as loops,
each operator of `Table`, and the closest nodes.

`TableProofs`, `ClientProofs`, `ResponderProofs`, `ContainerProofs`, `HookProofs` -
the theorems about `RoutingTable`, `Client`, `Responder`, `Array` with `Hashmap`,
and `Hooks`.

`Search` - a search as operators on records: the queries of one pass, in the
order in which they are queued, their effect on the pending counts and on
`send_time`, and when the search is done.

`Client` - the composition: the client, its searches and the environment. The
steps of `Dht_Process` are actions in sequence, ordered by `pc`:

| action | code |
|---|---|
| `AddNode`, `AddSearch` with `CopyTable` | `Dht_AddNode`, `Client_AddSearch`, `Search_CopyTable` |
| `Process`, `HandleSearches(c)` | start of `Dht_Process`, `Client_HandleSearches` and `Search_DoWork` for one search |
| `CleanSearches` | `Client_CleanSearches` |
| `SendMessage`, `SendFailure` | `Client_Send` and `SendMessage` for one query |
| `ReceiveReply`, `ReceiveOther`, `ReceiveUnfit`, `ReceiveFailure`, `ReceiveNothing` | `Client_Receive`, `Message_Decode` |
| `HandleRPing`, `HandleRFindNode`, `HandleRGetPeers`, `HandleRAnnouncePeer`, `HandleRError`, `HandleInvalidReply`, `HandleInvalidQuery`, `HandleQPing` | the handlers |
| `AddSearchNodes` | its loop, one node per step |
| `HandledAll` | the end of the pass |
| `Answer`, `AnswerTwice`, `AnswerError`, `Arrive`, `Tick` | environment: remote nodes, network, clock |

The queues are stacks, as in the code ("LIFO but whatever"). A search is
identified by the number of its creation, which stands for its address and is
never used again; a context that names no live search is a dangling pointer, and a
handler that follows it goes to `pc = "undefined"`. A failed assertion goes to
`pc = "aborted"`. Both states have no successor in the client. Remote nodes are described by
constants: the id each sends, the nodes it names, whether it has peers.

Besides answers, pings arrive from outside, and what the constant `Strays` allows:
data that is no dictionary or has an unknown `y` (`MUnknown`), replies that nothing
is pending for (`Unsolicited`), queries of an unknown method, without a
transaction id, with one that is not two bytes long or with unusable arguments
(`UnknownMethod`, `NoTid`, `OddTid`, `BadData`), and errors without their list
(`NoList`). Only the last two are harmless. The others fail an assertion, each at a
place of its own: `MUnknown` is taken for an invalid reply and handed to
`HandleInvalidReply`, which asserts that it is a reply; the types of an
unsolicited reply and of an unknown method are asserted where the message is filled
in; the answer to a query copies its transaction id. Not among them are an
unsolicited reply whose transaction id happens to be pending for another node,
replies to the client's queries that lack parts or have them wrong (`Protocol` has
their decoding), and an error whose list is not a number and a string.

`Responder` - the client as other nodes see it: a pass without searches of its
own, cut into steps in the same way. `HandleQPing`, `HandleQFindNode`,
`HandleQGetPeers`, `HandleQAnnouncePeer` and `HandleInvalidQuery` are the query
handlers, whole: each marks the query in the table, changes the announced
peers, and queues a reply that is sent (`SendReply`, `SendFailure`) before the
next message is handled. The nodes of a reply are ids standing for pointers into
the table. A handler that fails, at the limit of peers, ends the pass.
`Client_NewSecret` and `CleanPeers` are the application's, between passes;
nothing in the library calls them. Secrets are numbered, and a token is the
pair of a secret's number and an address, which is what SHA1 of the two amounts
to. Queries that the code aborts on (`ReceiveUnknownMethod`,
`HandleQueryWithoutTid`) go to `pc = "aborted"`.

A ping whose transaction id is not two bytes long (`OddTid`) is answered, and
`SendReplyOfOddTid` is the assertion that the answer fails when it is sent.

The two sides share the table, the incoming queue and the loop over it; the pings
that arrive in `Client` do to the table what every query does, and `Responder` lets
replies arrive.

`Bencode` - data as a sequence of lexemes (marks, strings, integers with their
characters, things cut off), and the decoder over it: `BDecode` returns a tree or
`None`. The data is the beginning of a buffer with older bytes after it, of
which the decoder looks at the first when a list is not closed. A string is a name
for its bytes and their number; integers are spelt out, since which spellings are
accepted is the point of `BDecode_integer`. `BNode_GetValue` is the binary search.

`Protocol` - one message on its way: `Message_Encode` writes it, another program
may have written something else (`LeaveOut`, `Replace`) or less (`Shorten`), and
`Message_Decode` makes a message of it with the help of the pending entry, if
any. `PredictedLen` is the length that each encoder compares with the buffer,
added up as in the code; what is written is a sequence of lexemes, whose real
length `TotalWidth` adds up independently. Addresses are sequences of bytes, which
the shifts of the encoder and `ntohl` of the decoder both reverse. The outcome
of decoding is a message with its errors, NULL, or a failed assertion.

`DArray` - the array of `lcthw/darray.c` as operators on its contents, end and
max. New slots are garbage except for those that `memset` clears, which are fewer
than it seems: it is given a number of slots and clears as many bytes.

`Array` and `Hashmap` - an array and a hash table in use, one action per
operation. `ArraySpec` and `MapSpec` are what they promise: a sequence with gaps
that can be swept out, and a partial function. `IsASequence` and `IsAMap` state the
refinement; the mapping takes the slots below `end` for the sequence, and the
nodes of all buckets for the function. The last call and its arguments are recorded
on both sides, so that an operation is only implemented by the one of its name.

`Hooks` - lists as nodes in a heap with their pointers, and the hooks on them. A
run of hooks is a stack of walks: each holds the node whose hook is being called
and the next one, read before the call as `LIST_FOREACH` does. While a hook is
called, hooks can be added and removed and another run can begin.
A walk that takes a freed node ends in `undefined`.

`MCRoutingTable`, `MCClient`, `MCResponder`, `MCProtocol` and `MCContainers` give
the constants values for TLC. `MCContainers` puts the three containers side by
side: they do not interact, so each behaviour is about one of them.

## Runs

Routing table:

- `table_split`: 3-bit ids, buckets of 2, one bit of last bucket; no aging.
  Every order of inserting, copying and marking. Buckets fill, split
  and shift until the last possible bucket exists. Counts, findability,
  uniqueness and room in the last bucket; for each of these tables and every id,
  that `Table_GatherClosest` finds the closest nodes, and that reading a dump never
  leaves a freed node in the table and loses a node only where a bucket has just been
  split and would have to be split again.
- `table_aging`: time passes beyond the respite, so that nodes become
  Questionable and Bad and are replaced. Who is refused and who is thrown out.

Client:

- `client_prompt`: two remote nodes, K = 2, one search, every answer before the
  next pass. Liveness is checked here: a search that knows a node ends, a node
  that the application adds is in the table at last. Safety: nothing refers to a
  destroyed search, and no assertion fails: there are no duplicates, errors or
  strays here (see `client_abort`). All nodes fit into the K closest
  ones, which is what makes `ContextsAreLive` true; see `client_context`.
- `client_slow`: three remote nodes, K = 1, so that nodes are far and buckets
  are full; answers are late, reordered or lost, and passes go on without them.
  Bounded by `MaxT` = 7 queries and two seconds, which allows a search to end
  with replies outstanding. A search ends only when complete, every query that is
  out is expected, and no node is charged for more queries than are outstanding.
  The last fails under the faults of the next run: a node is charged for a query
  that could not be sent, and for one that is answered under another id.
- `client_faults`: three remote nodes; sends fail, replies are duplicated, errors
  arrive, a node answers under another's id, and pings and strays of every kind
  arrive from outside. What the client cannot stand ends in `aborted`; up to there the
  properties hold. `MaxT` = 4
  queries: a ping or a query from outside makes a node known, and two nodes are
  asked. Replies are the answers to their queries all the same, and only nodes
  that were heard from are in the client's table.
- `client_context` (violation): a node that is not among the K closest can be
  learnt of after the last counted query. The pass in which the search
  is found done first queues a find_node query for it; the search is freed and
  the reply is handled in its name. No lateness is needed.
- `client_abort` (violation): every error reply fails an assertion, and so does a
  reply without a pending entry, although `DecodeResponse` records the error
  and goes on. TLC shows the one it meets first.

Responder:

- `responder_nodes`: three nodes, two of which compete for one place, ask, answer
  and age. Replies are sent while the nodes in them exist; that takes a node that
  has become Questionable, asked for and replaced within one pass of two
  messages. Liveness: whatever is received is handled, although the queue is a
  stack. There are no announces in this run: one that fails at the limit
  ends the pass, and with one in every pass the messages below are never reached.
- `responder_tokens`: two nodes ask for tokens and announce, with their own token
  or the other's, across two changes of the secret and up to the limit of two
  peers, with cleaning. Tokens live through exactly one change, nobody is
  stored without having been given one, the count of peers is their number.
- `responder_invalid` (violation): an unknown method or a missing transaction id
  fails an assertion; `message_create.c` has the error replies for both.

Messages and containers:

- `codec`: messages of every type, with empty and full fields, a token that
  nearly fills the buffer and transaction ids of one, two and four bytes, against
  the entry that they answer, another one or none. They are sent as they are;
  with any one or two lexemes left out; with any lexeme replaced by one of eighteen
  others; cut short anywhere, before older bytes of six kinds. The predicted length is
  the written one; what is sent as it was is decoded as it was; a tree written again
  is the data it was read from, and an integer is accepted if and only if it is in the
  range of `long`, both ends included, and in its one spelling; every key is found;
  and a message without errors has all that the handlers use. Older bytes are part of
  what is decoded in one case: an `e` that ends a list which the datagram leaves open;
  otherwise they do not matter. 53 thousand states, each a different datagram or its
  result.
- `containers`: arrays up to six elements with an expansion rate of 2, so that
  they expand and contract several times; five keys in two buckets, with two pairs of
  equal hashes; two hooks on three list nodes with runs nested twice. The refinements
  of `ArraySpec` and `MapSpec`; that there is room for the next push; that lists are
  linked in both directions; that a run calls every hook that was there when it began and
  touches no freed node, as long as hooks remove none but themselves.

  Without that condition the code is not safe: a hook that removes the next one, or
  that is on the list twice and removes itself, or that removes itself within a
  nested run, leaves a walk with the address of a freed node.

Smaller disagreements between comments and code are in the models without a run
of their own:

- `dht/table.h:53` says that good nodes are copied; the code copies every node that
  is not Bad.
- `dht/peers.h:26` says that the time of a peer that is present is updated; at the
  limit it is refused.
- `dht/node.h:23` counts pending queries "after the respite"; a node that never
  replied is Bad as soon as two are queued.
- `dht/protocol.h:11` says that an entry is stored for every query; with fewer ids
  than queries, one is still pending when it comes up again, and the query is sent
  and not expected. `EveryQueryIsPending` holds while ids are fresh.
- `dht/protocol.h:22` says that a transaction id of another length has caused an
  error before the entry is looked up; `DecodeResponse` records the error and looks
  it up all the same, by bytes that a shorter id does not have (`MayFind`).
- `dht/dht.h:24` and `:42` say that ports are in network byte order; the port of an
  announced peer is in host byte order. Compact addresses come out right only when
  the sender, too, is this program on a host of the same byte order.
- An error message without its list makes `Message_Decode` return NULL, which ends
  the receiving of this pass.

Bounds. `HashBits` = 2 or 3 with K = 1 or 2 is the smallest in which buckets
split, overflow and hold nodes with longer prefixes. `LongMax` = 99999 in `codec`
stands for the bound of `long`, which TLC's integers do not reach; among the
integers in the data are both ends of the range, one beyond either of them, and one
that is more than a port can be. `Respite` = 100 in the
client runs keeps nodes from aging (a search takes seconds, the respite is a
quarter of an hour); aging is the subject of `table_aging` and
`responder_nodes`. `MaxInbox` = 2 messages are the fewest that can disturb each
other in one pass. `MaxT` and
`MaxTime` cut behaviours that would repeat; where a bound blocks the client,
deadlock is not checked, and no liveness property is.

Fairness (`FairSpec`, used by `client_prompt` and `responder_nodes`): the
client's own steps are weakly fair, since the application keeps calling
`Dht_Process` and a pass never blocks (`MSG_DONTWAIT`); in `Client` remote
nodes answer, which is the assumption under which the code can end a search at
all; the clock is strongly fair, since it goes on while passes are made, and
the model lets it advance only between them. `Responder` writes the weak
fairness of its steps out, as some step is possible until an assertion fails.
Its `MaxInbox` also means that `Client_Receive` finds the socket empty at some
time. That a pass takes less than a second is a simplification: `time(NULL)` is
read in several places of one pass.

## Proofs

The theorems hold for every value of the constants that the assumptions allow:
any id length, bucket size, respite, number of remote nodes and searches.

| module | theorem | states |
|---|---|---|
| `TableProofs` | `TypeCorrect` | the ranges asserted by `bucket.c` and `table.c` |
| | `CountsAreRight` | a bucket's count is the number of its nodes |
| | `EveryNodeIsFindable`, `NoIdIsStoredTwice` | through any number of splits |
| | `InsertIsTotal`, `LastBucketIsRoomy` | `Bucket_AddNode` finds its empty slot, and the last bucket never needs a split |
| | `NoneIsRefusedWithoutReason`, `LiveNodesStay`, `WorstNodeGoes` | who is turned away and who is thrown out |
| | `ClosestAreGathered` | the array of `close.c` ends up with the K nearest nodes in order |
| `ClientProofs` | `TypeCorrect`, `TableIsFirstHand` | types of the client and its searches; who is in its own table |
| | `QueriesArePending`, `RepliesAreMatched` | while transaction ids are fresh, queries have their entries and replies meet their queries |
| | `HarmlessNeverAborts` | no assertion fails while all that arrives is pings, queries with unusable arguments, errors without their list and at most one reply, not an error, for each query, and ids are fresh |
| | `SearchesEndComplete` | a search ends only with the answers of all its close nodes |
| | `QueriesAreOutstanding` | without failed sends, foreign ids and reused ids, no node is charged for a query it has answered |
| `ResponderProofs` | `TypeCorrect`, `PeerCountsAreRight` | types; the count of announced peers |
| | `TokensLastTheGracePeriod`, `OnlyTokenHoldersArePeers` | how long a token lives, and that a peer was given one |
| | `RepliesPointToLiveNodes` | the nodes in a reply are in the table when it is sent |
| `ContainerProofs` | `PushIsInside`, `ArrayIsASequence` | room for the next push; `Array` implements `ArraySpec` |
| | `BucketsStaySound`, `HashmapIsAMap` | keys are in their buckets, once; `Hashmap` implements `MapSpec` |
| `HookProofs` | `ListsStayLinked` | both directions of a list, its ends and its count agree |
| | `WalksStaySafe` | a run of hooks touches no freed node while hooks remove only themselves |
| | `EveryHookIsRun` | it calls, in order, every hook that was there when it began |

### The routing table

None of the properties is inductive alone. Uniqueness needs findability, because
`Table_InsertNode` looks for an id in one bucket only; findability needs the
exact bucket of each node, which a split must re-establish for the nodes that
stay and for those that move; the counts need the type. The inductive
invariant is that the table is well formed (`WellFormed`): it has its type, each
bucket's count is the cardinality of its occupied slots, and each node is in the
bucket that its shared prefix names; and that the table keeps the client's id. It is
proved for the values first: one lemma for each operator says that it turns a
well-formed table into a well-formed one. The actions then only cite the lemmas. The
split rests on a lemma that the shifted nodes, moved in slot order, take distinct
slots. A second family of lemmas, with `OnlyIn(t, N)`, follows which nodes a table
may hold through the same operators; the clients of the table use it.

The room in the last bucket is a matter of counting: the ids that share all but
`LastBits` bits with the client's are at most `2^LastBits`, and `2^LastBits <= K`.

`close.c` sorts each node into an array of K and forgets the last. The invariant of
that loop is that the array holds the nodes of smallest rank among those met so far,
in order; rank is the number of nodes nearer to the id.

### The client

`TypeInv` says of every step of a pass what the next one relies on: tables are well
formed; the client's own holds only nodes that were heard from; a search's table holds
only remote nodes, and a node that has sent its peers or nodes has its token kept; a
message carries the query that it answers and comes from a remote node unless it is
an error; the nodes on their way into a search are on their way into a live one. The
link between tokens and replies is what makes a search with unanswered announces
busy: `SendAnnouncePeer` skips nodes without a token.

`TidInv`: while `next_t` has not exceeded `TidSpace`, no two of the queued queries
and requests under way have the same transaction id, nor has a reply at hand that of
a query that is not answered; a request's entry is its own, a reply's is its own or
gone, an id that was not given yet has none. The theorems carry the condition on
`next_t`, because without it they are false: an entry of a lost query stays
for ever, and an id comes round again after 65536 queries.

`AbortInv`: without duplicates, errors and strays outside `Harmless`, each reply in
the socket has its entry and no other reply has the same id, and no message has a
type that an assertion rejects. Losing, delaying and reordering are allowed, and so
are answers under another id and sends that fail. The theorem says what the client can
stand, not that it stands what a network may send: drop any one of its hypotheses
and TLC finds an assertion that fails.

`WorkInv`: in the part of a pass that goes through the searches, each one behind
`at` is busy in this very second or has the answers of all its close nodes. A search
that is done was busy before this second, hence has the answers.

`PendingInv` follows a query of a search through the three places where it can be:
queued (`Asked`), with an entry (`Expected`), decoded and not yet handled (`Answered`).
The number that a node counts is at most the sum of the three, each the cardinality
of a set of indexes. Queueing raises the first by as much as the count; sending moves
a query from the first to the second, where its entry must not replace another one, which
is why transaction ids must be fresh; decoding moves it from the second to the third;
handling lowers the third and, since the reply comes under the node's own id, the
count. Besides, what is sent for a search comes back to it with the id of the node
(`ContextsOK`), and nodes named in replies start without queries (`AddedUnasked`). The
hypotheses are necessary: after a failed send, an answer under another id or a reused
transaction id the count stays too high for good. Losing,
delaying, duplicating and reordering replies is allowed.

### The responder

The invariant relates the peers' counts to the stored peers, every secret to the
time it was made, the issued tokens to the secrets, and the nodes of queued replies to
the table. A reply is sent before the next message is handled, which is the reason
why no step changes the table while a reply points into it.

### The containers

`IsRoomy` says that an array has a slot beyond its end. `DArray_compact` moves each
element over the gaps: its loop is followed state by state, and every state stands
for the rest of the sweep in `ArraySpec`. For the map, `AreBuckets` says that each
bucket is such an array, that its nodes hash into it and that no key is there twice;
from this the nodes of all buckets are a function of the keys, and a deletion, which
puts the last node of the bucket into the gap, removes one pair.

### The hooks

The properties walk the lists along their pointers. `HookInv` says instead that each
list is a sequence of different addresses: the first pointer of the list leads to the
first of them, each `next` to the following one, each `prev` to the preceding one, and
the ends to NULL (`IsList`). `WalkIs` shows that following the pointers then yields this
sequence and, backwards, its reverse. Pushing appends an address; removing one, wherever
it is, closes the gap. `List_remove_all` walks a list that it changes: a loop invariant
says that the nodes before the walk are the ones kept and those ahead are still linked.
No address is on two lists, since the type of its hook names its list.

For a run of hooks the invariant (`RunOK`) is about what is ahead: the next address is
the beginning of a segment of one list, the hooks that are due are those of its first
nodes, and none of these nodes is the only one of the hook being called. This last part
is what makes it harmless that a hook removes itself; the run holds another node by
then. An added hook goes to the end of the list, so that it keeps every
segment. `careful` is the hypothesis under which no other node is removed.

### Method and assumptions

Folds of the community modules are recursive functions on sets of indexes.
`FoldLemmas` shows that such a function exists and takes the loop's values in
order, by an induction over a bounded set of numbers that needs no operator
as a parameter; every loop above rests on it.

Assumptions are those stated with the constants. K is positive and `2^LastBits <= K`;
time starts after one respite (0 stands for never); NULL is no node, search, context, entry,
list node or number; there is a hook type, and a hook's is one of them; a hash function
yields natural numbers. A node that answers under another id does
so under one of `Remotes`, since it is reached under that id from then on; `Remotes`
may be all ids. What the network may do is not an assumption but what the constants
(`Strays`, `Duplicates`, `ErrorReplies`) and the environment's actions allow; where a
theorem needs less of it, its statement says so.

### Only model-checked

- Liveness (`SearchesFinish`, `AddedNodesJoin`, `QueriesAreHandled`): fairness is
  beyond the prover.
- `ContextsAreLive`: true of instances in which all nodes are close, false in others,
  as `client_context` shows; there is no theorem for all values of the constants.
- `DumpIsReadBack`: a fold over a fold whose outcome depends on the order of lines.
- `Bencode` and `Protocol`: recursive definitions over the data.

## Not modelled

Text forms (`Dht_*Str`, the characters of a dump's lines), random numbers and the
vendored string library.
Memory that cannot be allocated: many error paths are about it, and they free what
was made so far. Stopping a client, binding its socket. The lists' operations that
nothing uses. The addresses of nodes in `Client` and `Responder`: a node named in a reply is reached
under its id, which is what `RoundTrip` says of two clients on hosts of the same
byte order. The limit on the peers a search stores, which makes
`HandleRGetPeers` fail and leaves the pass. SHA1 and the hash functions of the maps, of
which only collisions matter.

## Plan

The models are complete as far as this file says, and every safety property that
can be proved for all sizes is, but one:

1. `DumpIsReadBack`, as far as it is about nodes that replace others. It needs the order
   in which `Table_Read` meets the lines, through two nested folds.

The rest of "Only model-checked" stays with TLC for the reasons given there.
