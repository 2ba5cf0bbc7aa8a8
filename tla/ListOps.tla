------------------------------ MODULE ListOps ------------------------------
(***************************************************************************)
(* The operations of include/os/list.h under the discipline their callers  *)
(* keep in a critical section: a node is added only when it is on no list  *)
(* and removed only when it is on one; the body of a list_for_each removes *)
(* at most the node it stands on.  Under that discipline the lists are the *)
(* sequences of module SeqLists, which is what the other modules use; what *)
(* happens without it is visible in module Mutex.                          *)
(***************************************************************************)
EXTENDS List, FiniteSets

CONSTANTS Heads, Nodes

ASSUME HeadsNodesDisjoint == Heads \cap Nodes = {}

VARIABLES
  links,    \* the next and pre fields of all heads and nodes
  linked,   \* the nodes that are on a list
  walking,  \* the heads being walked (one or none)
  at        \* the variable of list_for_each

lovars == <<links, linked, walking, at>>
AllNodes == Heads \cup Nodes
Idle0 == walking = {}

ListOpsInit ==
  /\ links = [next |-> [n \in AllNodes |-> n], pre |-> [n \in AllNodes |-> n]]
  /\ linked = {} /\ walking = {} /\ at = CHOOSE h \in Heads : TRUE

DoAdd(h, n) == /\ Idle0 /\ n \notin linked
               /\ links' = ListAdd(links, h, n)
               /\ linked' = linked \cup {n}
               /\ UNCHANGED <<walking, at>>

DoAddTail(h, n) == /\ Idle0 /\ n \notin linked
                   /\ links' = ListAddTail(links, h, n)
                   /\ linked' = linked \cup {n}
                   /\ UNCHANGED <<walking, at>>

DoDel(n) == /\ Idle0 /\ n \in linked
            /\ links' = ListUnlink(links, n)
            /\ linked' = linked \ {n}
            /\ UNCHANGED <<walking, at>>

DoDelTail(h) == /\ Idle0 /\ ~IsListEmpty(links, h)
                /\ links' = ListDelTail(links, h)
                /\ linked' = linked \ {links.pre[h]}
                /\ UNCHANGED <<walking, at>>

\* list_for_each(h, at): list = head->next; list != head; list = list->next
ForEachStart(h) == /\ Idle0
                   /\ walking' = IF links.next[h] = h THEN {} ELSE {h}
                   /\ at' = links.next[h]
                   /\ UNCHANGED <<links, linked>>

Advance(l) == /\ at' = l.next[at]
              /\ walking' = IF l.next[at] \in walking THEN {} ELSE walking

ForEachKeep == /\ ~Idle0
               /\ Advance(links)
               /\ UNCHANGED <<links, linked>>

ForEachDel == /\ ~Idle0
              /\ links' = ListUnlink(links, at)
              /\ linked' = linked \ {at}
              /\ Advance(ListUnlink(links, at))

ListOpsNext == \/ \E h \in Heads, n \in Nodes : DoAdd(h, n) \/ DoAddTail(h, n)
               \/ \E n \in Nodes : DoDel(n)
               \/ \E h \in Heads : DoDelTail(h) \/ ForEachStart(h)
               \/ ForEachKeep \/ ForEachDel

ListOpsSpec == ListOpsInit /\ [][ListOpsNext]_lovars

----------------------------------------------------------------------------
Members(h) == Walk(links, h, Cardinality(Nodes) + 1)

\* What the walk in progress has yet to visit: at and what follows it (at
\* alone should it stand off the list).
Rest == IF Idle0 THEN <<>>
        ELSE LET h == CHOOSE g \in walking : TRUE
                 s == Members(h)
                 ks == {i \in 1 .. Len(s) : s[i] = at}
             IN  IF ks = {} THEN <<at>>
                 ELSE SubSeq(s, CHOOSE k \in ks : TRUE, Len(s))

Seqs == INSTANCE SeqLists WITH lists <- [h \in Heads |-> Members(h)],
                               todo <- Rest

\* The pointer operations of list.h do to the linked lists what the same
\* operations do to sequences, and a list_for_each that removes the node it
\* stands on goes on with the next one, because list_del keeps its pointers.
ImplementsSequences == Seqs!SeqSpec

\* The lists can be walked backwards too: pre mirrors next on every node
\* that is linked and on the heads, as list_add_tail and list_del need.
PreMirrorsNext ==
  \A n \in linked \cup Heads : links.pre[links.next[n]] = n
============================================================================
