------------------------------ MODULE TaskChain ------------------------------
(***************************************************************************)
(* The task chain of a capture buffer (aml_task_chain.c): the stages a     *)
(* picture in that buffer goes through, which stage follows which, and the *)
(* pictures each stage has handed on and must get back.  A chain is a      *)
(* value; the operators are the functions that change or read it.          *)
(***************************************************************************)
EXTENDS Naturals

CONSTANT NoFrame    \* an empty slot: a NULL vframe

Task == {"dec", "vpp", "sink"}

Chain(Frames) ==
  [items : SUBSET Task, cur : Task, submit : [Task -> Task], recycle : [Task -> Task],
   vframe : [Task -> [1..3 -> Frames \cup {NoFrame}]]]

(* A chain fresh from kzalloc: no items, and the maps read                 *)
(* TASK_TYPE_DEC, which is zero, everywhere.                               *)
NewChain == [items |-> {}, cur |-> "dec",
             submit |-> [t \in Task |-> "dec"], recycle |-> [t \in Task |-> "dec"],
             vframe |-> [t \in Task |-> [i \in 1..3 |-> NoFrame]]]

(* task_order_attach: stages are attached from the last to the first.      *)
Attach(c, t) == [c EXCEPT !.items = @ \cup {t}, !.cur = t,
                          !.submit[t] = c.cur, !.recycle[c.cur] = t,
                          !.vframe[t] = [i \in 1..3 |-> NoFrame]]

(* task_chain_clean: the items go and with them the pictures they hold,    *)
(* the maps and cur_type stay.                                             *)
Clean(c) == [c EXCEPT !.items = {}, !.vframe = NewChain.vframe]

(* The stage a finished picture is handed to, or a consumed one returned   *)
(* to: nothing happens when either item is missing (task_item_get).        *)
Follows(c, t) == {u \in {c.submit[t]} : {t, u} \subseteq c.items}
Precedes(c, t) == {u \in {c.recycle[t]} : {t, u} \subseteq c.items}

(* task_item_vframe_push: the first empty slot, or none at all.            *)
Push(c, t, f) ==
  LET free == {i \in 1..3 : c.vframe[t][i] = NoFrame}
  IN  IF free = {} THEN c
      ELSE [c EXCEPT !.vframe[t][CHOOSE i \in free : \A j \in free : i <= j] = f]

(* task_item_vframe_pop: the first slot in use; NULL when all are empty.   *)
Held(c, t) == {i \in 1..3 : c.vframe[t][i] # NoFrame}
First(c, t) == CHOOSE i \in Held(c, t) : \A j \in Held(c, t) : i <= j
Top(c, t) == IF Held(c, t) = {} THEN NoFrame ELSE c.vframe[t][First(c, t)]
Pop(c, t) == IF Held(c, t) = {} THEN c ELSE [c EXCEPT !.vframe[t][First(c, t)] = NoFrame]

=============================================================================
