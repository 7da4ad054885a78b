------------------------------- MODULE Hooks -------------------------------
(***************************************************************************)
(* The application's callbacks (hooks.c) and the linked lists that hold    *)
(* them (lcthw/list.c).  A hook is called while Client_RunHook walks its   *)
(* list with LIST_FOREACH, and may itself add hooks, remove hooks and, by  *)
(* what it makes the client do, run hooks again.                           *)
(*                                                                         *)
(* heap holds the list nodes that are allocated; a list is the record of   *)
(* its first, its last and its count.                                      *)
(***************************************************************************)
EXTENDS DArray, FiniteSets

CONSTANTS
    HookSet,         \* the application's hooks
    HookTypeMax,     \* the number of hook types
    TypeOf(_),       \* the type of a hook
    ListNodes,       \* the addresses of list nodes, a bound on their number
    MaxDepth         \* bound on the runs of hooks within hooks

ASSUME HookTypeMaxAssumption == HookTypeMax \in Nat \ {0}

(* A hook's type is one of the enumeration; calloc returns no null pointer. *)
ASSUME HooksAssumption ==
    /\ \A hook \in HookSet : TypeOf(hook) \in 0 .. HookTypeMax - 1
    /\ NULL \notin ListNodes

VARIABLES
    hooks,      \* client->hooks, a DArray of lists
    heap,       \* the allocated list nodes
    runs,       \* the calls of Client_RunHook that have not returned, the
                \* innermost first; called is the hook being called and due,
                \* a history, those to be called after it when the run began
    undefined,  \* a freed list node has been used
    careful     \* history: hooks have removed no hook but, once, themselves

hookVars == <<hooks, heap, runs, undefined, careful>>

HookTypes == 0 .. HookTypeMax - 1

EmptyList == [first |-> NULL, last |-> NULL, count |-> 0]

-----------------------------------------------------------------------------
(* Lists, as operators on a state of list and heap *)

(* calloc returns any address that is not in use. *)
List_push(s, node, value) ==
    LET last == s.list.last
    IN  [list |-> [s.list EXCEPT !.first = IF last = NULL THEN node ELSE @,
                                 !.last  = node,
                                 !.count = @ + 1],
         heap |-> [p \in DOMAIN s.heap \cup {node} |->
                      IF p = node
                      THEN [next |-> NULL, prev |-> last, value |-> value]
                      ELSE IF p = last THEN [s.heap[p] EXCEPT !.next = node]
                           ELSE s.heap[p]]]

(* MUTANT: the node before a removed last one still points to it. *)
Unlink_KeepsTail(s, node) ==
    LET before == s.heap[node].prev
        after  == s.heap[node].next
    IN  [list |-> [s.list EXCEPT !.first = IF node = @ THEN after ELSE @,
                                 !.last  = IF node = @ THEN before ELSE @],
         heap |-> [p \in DOMAIN s.heap |->
                      CASE p = after  -> [s.heap[p] EXCEPT !.prev = before]
                        [] p = before /\ after # NULL -> [s.heap[p] EXCEPT !.next = after]
                        [] OTHER     -> s.heap[p]]]

(* The four cases of List_remove: the only node, the first, the last, and  *)
(* one in between.                                                         *)
Unlink(s, node) ==
    LET before == s.heap[node].prev
        after  == s.heap[node].next
    IN  [list |-> [s.list EXCEPT !.first = IF node = @ THEN after ELSE @,
                                 !.last  = IF node = @ THEN before ELSE @],
         heap |-> [p \in DOMAIN s.heap |->
                      CASE p = after  -> [s.heap[p] EXCEPT !.prev = before]
                        [] p = before -> [s.heap[p] EXCEPT !.next = after]
                        [] OTHER      -> s.heap[p]]]

List_remove(s, node) ==
    LET u == Unlink(s, node)
    IN  [list |-> [u.list EXCEPT !.count = @ - 1],
         heap |-> [p \in DOMAIN u.heap \ {node} |-> u.heap[p]]]

(* The addresses met from p on, following the pointers link; one more than *)
(* there are nodes when they go round in a circle.                         *)
Walk(p, link) ==
    LET at[n \in Nat] == IF n = 0 THEN p
                         ELSE IF at[n - 1] \in DOMAIN link
                              THEN link[at[n - 1]] ELSE NULL
        steps == {n \in 1 .. Cardinality(DOMAIN link) + 1 : at[n - 1] # NULL}
    IN  [n \in 1 .. Cardinality(steps) |-> at[n - 1]]

Forward(l, h)  == Walk(l.first, [p \in DOMAIN h |-> h[p].next])
Backward(l, h) == Walk(l.last, [p \in DOMAIN h |-> h[p].prev])

(* List_remove_all reads the next pointer of a node before it frees it. *)
List_remove_all(s, value) ==
    FoldLeft(LAMBDA t, node : IF t.heap[node].value = value
                              THEN List_remove(t, node) ELSE t,
             s, Forward(s.list, s.heap))

-----------------------------------------------------------------------------
(* Operations *)

Hooks_Create ==
    FoldLeft(LAMBDA a, list : DArray_push(a, list), DArray_create(HookTypeMax),
             [i \in 1 .. HookTypeMax |-> EmptyList])

HooksInit ==
    /\ hooks = Hooks_Create
    /\ heap = <<>>
    /\ runs = <<>>
    /\ undefined = FALSE
    /\ careful = TRUE

ListOf(hook) == [list |-> DArray_get(hooks, TypeOf(hook)), heap |-> heap]

(* By the application, between passes of the client or within a hook. *)
Client_AddHook(hook) ==
    /\ ~undefined
    /\ \E node \in ListNodes \ DOMAIN heap :
          LET s == List_push(ListOf(hook), node, hook)
          IN  heap' = s.heap /\ hooks' = DArray_set(hooks, TypeOf(hook), s.list)
    /\ UNCHANGED <<runs, undefined, careful>>

(* The hook being called removes itself, its only node, and this is not    *)
(* within another run.                                                     *)
OnlySelf(hook) ==
    /\ Len(runs) = 1
    /\ Head(runs).called = hook
    /\ Cardinality({p \in DOMAIN heap : heap[p].value = hook}) <= 1

Client_RemoveHook(hook) ==
    /\ ~undefined
    /\ LET s == List_remove_all(ListOf(hook), hook)
       IN  heap' = s.heap /\ hooks' = DArray_set(hooks, TypeOf(hook), s.list)
    /\ careful' = (careful /\ (runs = <<>> \/ OnlySelf(hook)))
    /\ UNCHANGED <<runs, undefined>>

NextOf(node) == IF node = NULL THEN NULL ELSE heap[node].next

(* Client_RunHook up to its first call, or to its end if the list is empty. *)
Client_RunHook(type) ==
    LET list == DArray_get(hooks, type)
        values == [i \in 1 .. list.count |-> heap[Forward(list, heap)[i]].value]
    IN  /\ ~undefined
        /\ Len(runs) < MaxDepth
        /\ list.first # NULL
        /\ runs' = <<[cur |-> list.first, next |-> NextOf(list.first),
                      called |-> Head(values), due |-> Tail(values)]>> \o runs
        /\ UNCHANGED <<hooks, heap, undefined, careful>>

(* MUTANT: the plain loop, which asks the node for its next one last. *)
Following_Late(run) == IF run.cur \in DOMAIN heap THEN heap[run.cur].next
                       ELSE run.cur

(* The node after the one whose hook has been called: LIST_FOREACH has     *)
(* read it before the call.                                                *)
Following(run) == run.next

(* A hook returns, and the next one is called or Client_RunHook returns. *)
HookReturns ==
    /\ ~undefined
    /\ runs # <<>>
    /\ LET run == Head(runs)
           cur == Following(run)
       IN  CASE cur = NULL ->
                  runs' = Tail(runs) /\ UNCHANGED undefined
             [] cur # NULL /\ cur \in DOMAIN heap ->
                  /\ runs' = <<[run EXCEPT !.cur = cur, !.next = NextOf(cur),
                                   !.called = heap[cur].value,
                                   !.due = IF @ = <<>> THEN @ ELSE Tail(@)]>>
                              \o Tail(runs)
                  /\ UNCHANGED undefined
             [] OTHER ->
                  undefined' = TRUE /\ UNCHANGED runs
    /\ UNCHANGED <<hooks, heap, careful>>

(* Hooks_Destroy pops and destroys the lists, but not their hooks. *)
Hooks_Destroy ==
    /\ ~undefined
    /\ runs = <<>>
    /\ heap' = <<>>
    /\ hooks' = Hooks_Create
    /\ UNCHANGED <<runs, undefined, careful>>

HooksNext == \/ \E hook \in HookSet : Client_AddHook(hook) \/ Client_RemoveHook(hook)
             \/ \E type \in HookTypes : Client_RunHook(type)
             \/ HookReturns
             \/ Hooks_Destroy

HooksSpec == HooksInit /\ [][HooksNext]_hookVars

-----------------------------------------------------------------------------
Lists == {DArray_get(hooks, type) : type \in HookTypes}

(* Both directions of a list show the same nodes, as many as it counts,    *)
(* and every allocated node is on one of them, whatever was removed from   *)
(* the ends, from the middle and several at a time.                        *)
ListsAreLinked ==
    /\ \A l \in Lists : /\ Backward(l, heap) = Reverse(Forward(l, heap))
                        /\ Len(Forward(l, heap)) = l.count
    /\ UNION {ToSet(Forward(l, heap)) : l \in Lists} = DOMAIN heap
    /\ \A type \in HookTypes :
          \A p \in ToSet(Forward(DArray_get(hooks, type), heap)) :
              TypeOf(heap[p].value) = type

(* A walk over hooks never uses a freed node as long as the hooks it calls *)
(* remove none but themselves, are on the list once and do so outside of   *)
(* nested runs.                                                            *)
WalksAreSafe ==
    careful => /\ ~undefined
               /\ \A i \in DOMAIN runs : runs[i].next \in DOMAIN heap \cup {NULL}

(* When Client_RunHook returns, every hook that was on the list when it    *)
(* began has been called once and in order, though hooks removed           *)
(* themselves and added others meanwhile.                                  *)
RunsEveryHook ==
    [][runs # <<>> /\ runs' # runs /\ Len(runs') <= Len(runs) /\ careful
          /\ Head(runs).due # <<>>
       => /\ Len(runs') = Len(runs)
          /\ Head(runs').called = Head(Head(runs).due)]_hookVars

=============================================================================
