------------------------------ MODULE SeqLists ------------------------------
(* What include/os/list.h promises: every list is a sequence of nodes, a   *)
(* node is on at most one list, and the walk of list_for_each whose body   *)
(* may remove the node it stands on visits the rest of the list in order.  *)
EXTENDS Integers, Sequences

CONSTANTS Heads, Nodes

VARIABLES
  lists,   \* head -> the nodes on its list
  todo     \* the nodes the walk in progress has yet to visit

Member(s, n) == \E i \in 1 .. Len(s) : s[i] = n
Linked(n) == \E h \in Heads : Member(lists[h], n)
Without(s, n) == SelectSeq(s, LAMBDA x : x # n)

SeqInit == lists = [h \in Heads |-> <<>>] /\ todo = <<>>

AddFirst(h, n) == /\ todo = <<>> /\ ~Linked(n)
                  /\ lists' = [lists EXCEPT ![h] = <<n>> \o @]
                  /\ UNCHANGED todo
AddLast(h, n) == /\ todo = <<>> /\ ~Linked(n)
                 /\ lists' = [lists EXCEPT ![h] = Append(@, n)]
                 /\ UNCHANGED todo
Remove(n) == /\ todo = <<>> /\ Linked(n)
             /\ lists' = [h \in Heads |-> Without(lists[h], n)]
             /\ UNCHANGED todo
RemoveLast(h) == /\ todo = <<>> /\ lists[h] # <<>>
                 /\ lists' = [lists EXCEPT ![h] = SubSeq(@, 1, Len(@) - 1)]
                 /\ UNCHANGED todo

StartVisit(h) == todo = <<>> /\ todo' = lists[h] /\ UNCHANGED lists
VisitKeep == todo # <<>> /\ todo' = Tail(todo) /\ UNCHANGED lists
VisitRemove == /\ todo # <<>>
               /\ lists' = [h \in Heads |-> Without(lists[h], Head(todo))]
               /\ todo' = Tail(todo)

SeqNext == \/ \E h \in Heads, n \in Nodes : AddFirst(h, n) \/ AddLast(h, n)
           \/ \E n \in Nodes : Remove(n)
           \/ \E h \in Heads : RemoveLast(h) \/ StartVisit(h)
           \/ VisitKeep \/ VisitRemove

SeqSpec == SeqInit /\ [][SeqNext]_<<lists, todo>>
=============================================================================
