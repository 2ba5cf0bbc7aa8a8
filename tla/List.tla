-------------------------------- MODULE List --------------------------------
(***************************************************************************)
(* The doubly linked lists of include/os/list.h, on the pointers: a node   *)
(* is a list_head, links.next and links.pre are its two fields.  list_del  *)
(* leaves the fields of the removed node as they are.                      *)
(***************************************************************************)
EXTENDS Integers, Sequences

Links(N) == [next : [N -> N], pre : [N -> N]]

\* init_list(list)
InitList(l, n) == [next |-> [l.next EXCEPT ![n] = n],
                   pre  |-> [l.pre EXCEPT ![n] = n]]

\* list_add(head, new)
ListAdd(l, head, new) ==
  LET first == l.next[head]
      pre1  == [l.pre EXCEPT ![first] = new]
  IN  [next |-> [[l.next EXCEPT ![new] = first] EXCEPT ![head] = new],
       pre  |-> [pre1 EXCEPT ![new] = head]]

\* list_add_tail(head, new); head->pre is read again after the first store,
\* which went to a next field.
ListAddTail(l, head, new) ==
  LET last  == l.pre[head]
      next1 == [l.next EXCEPT ![last] = new]
  IN  [next |-> [next1 EXCEPT ![new] = head],
       pre  |-> [[l.pre EXCEPT ![new] = last] EXCEPT ![head] = new]]

\* Mutations: the back pointer is not repaired; the removed node is
\* initialised again, which strands a walk that stands on it.
ListUnlinkKeepPre(l, n) ==
  [l EXCEPT !.next = [@ EXCEPT ![l.pre[n]] = l.next[n]]]
ListUnlinkInit(l, n) ==
  LET pre1 == [l.pre EXCEPT ![l.next[n]] = l.pre[n]]
  IN  InitList([next |-> [l.next EXCEPT ![pre1[n]] = l.next[n]],
                pre  |-> pre1], n)

\* list_del(n)
ListUnlink(l, n) ==
  LET pre1 == [l.pre EXCEPT ![l.next[n]] = l.pre[n]]
  IN  [next |-> [l.next EXCEPT ![pre1[n]] = l.next[n]],
       pre  |-> pre1]

\* list_del_tail(head)
ListDelTail(l, head) ==
  LET last == l.pre[head]
  IN  [next |-> [l.next EXCEPT ![l.pre[last]] = head],
       pre  |-> [l.pre EXCEPT ![head] = l.pre[last]]]

IsListEmpty(l, head) == l.next[head] = head
IsListLast(l, head, n) == l.next[n] = head

\* The nodes list_for_each visits from head, in at most max rounds.
WalkStep(l, head, s) ==
  LET n == IF s = <<>> THEN l.next[head] ELSE l.next[s[Len(s)]]
  IN  IF n = head THEN s ELSE Append(s, n)
Walk(l, head, max) ==
  LET walk[k \in 0 .. max] ==
        IF k = 0 THEN <<>>
        ELSE IF Len(walk[k - 1]) < k - 1 THEN walk[k - 1]
        ELSE WalkStep(l, head, walk[k - 1])
  IN  walk[max]
=============================================================================
