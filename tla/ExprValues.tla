------------------------------ MODULE ExprValues ----------------------------
(***************************************************************************)
(* What a program that uses class expr may rely on (expr_base.hpp, expr.hpp, *)
(* expr_ctors.hpp): an expr is a value.  Copying it gives an equal value,  *)
(* moving takes it out of its source, and nothing done to one variable     *)
(* changes what another one, or a key of the cache, holds.  That values    *)
(* are shared nodes does not show.                                         *)
(***************************************************************************)
EXTENDS Sequences

CONSTANTS Handle, Label, Null, NoObject

VARIABLES
  val,   \* the value of each variable; Null if empty, NoObject outside its life
  args,  \* the exprs being filled
  keys   \* the values in keys of GLOBAL_cache

vars == <<val, args, keys>>

Leaf(l) == [label |-> l, kids |-> <<>>]
Inner(op, kids) == [label |-> op, kids |-> kids]
Holds(h) == val[h] \notin {Null, NoObject}

(* A variable after something was constructed from it. *)
After(h, moved) == IF moved THEN Null ELSE val[h]

Init == val = [h \in Handle |-> NoObject] /\ args = <<>> /\ keys = <<>>

NewLeaf(h, l) ==
  /\ val[h] = NoObject
  /\ val' = [val EXCEPT ![h] = Leaf(l)]
  /\ UNCHANGED <<args, keys>>

NewCall(h, f, moved) ==
  /\ val[h] = NoObject /\ Holds(f)
  /\ val' = [val EXCEPT ![f] = After(f, moved), ![h] = Inner("call", <<val[f]>> \o args)]
  /\ args' = <<>>
  /\ UNCHANGED keys

NewInfix(h, l, r, movedL, movedR) ==
  /\ val[h] = NoObject /\ Holds(l) /\ Holds(r)
  /\ val' = [x \in Handle |-> CASE x = h -> Inner("infix", <<val[l], val[r]>>)
                                [] (x = l /\ movedL) \/ (x = r /\ movedR) -> Null
                                [] OTHER -> val[x]]
  /\ UNCHANGED <<args, keys>>

Push(h, moved) ==
  /\ Holds(h)
  /\ args' = Append(args, val[h])
  /\ val' = [val EXCEPT ![h] = After(h, moved)]
  /\ UNCHANGED keys

Put(h, s, moved) ==  \* construction and assignment
  /\ val[s] # NoObject
  /\ val' = [val EXCEPT ![h] = val[s], ![s] = After(s, moved)]
  /\ UNCHANGED <<args, keys>>

Swap(a, b) ==
  /\ val[a] # NoObject /\ val[b] # NoObject
  /\ val' = [val EXCEPT ![a] = val[b], ![b] = val[a]]
  /\ UNCHANGED <<args, keys>>

Destroy(h) ==
  /\ val[h] # NoObject
  /\ val' = [val EXCEPT ![h] = NoObject]
  /\ UNCHANGED <<args, keys>>

Call ==
  /\ args' = <<>>
  /\ keys' \in {keys, keys \o args}
  /\ UNCHANGED val

Next ==
  \/ \E h \in Handle :
       \/ \E l \in Label : NewLeaf(h, l)
       \/ \E moved \in BOOLEAN :
            \/ Push(h, moved)
            \/ \E s \in Handle : NewCall(h, s, moved) \/ Put(h, s, moved)
       \/ \E l, r \in Handle, movedL, movedR \in BOOLEAN :
            NewInfix(h, l, r, movedL, movedR)
       \/ \E b \in Handle : Swap(h, b)
       \/ Destroy(h)
  \/ Call

Spec == Init /\ [][Next]_vars
=============================================================================
