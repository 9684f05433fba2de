------------------------------- MODULE ExprRefs -----------------------------
(***************************************************************************)
(* The memory of expressions: nodes (expr_impl) shared by handles (expr),  *)
(* with the counts that expr_base.hpp adjusts over construction, copies,   *)
(* moves, assignments and destructors, in one thread.  A program works on  *)
(* variables of its own; the exprs it passes to a constructor or a call    *)
(* is `args`, and what calls leave behind in GLOBAL_cache is `keys`.       *)
(*                                                                         *)
(* A decref that deletes a node deletes the handles in it, one by one:     *)
(* `todo` holds the handles still to be destroyed, and the program goes on *)
(* when it is empty.                                                       *)
(***************************************************************************)
EXTENDS Integers, Sequences, FiniteSets, SequencesExt

CONSTANTS
  Handle,    \* variables of the program
  Node,      \* addresses a node can have
  Label,     \* what leaves say
  Null,      \* a handle without a node
  NoObject,  \* a variable outside its life
  MaxArgs,   \* bound: expressions in one exprs
  MaxKeys    \* bound: expressions kept in the cache

Assignments == [to : Handle, from : Handle, moved : BOOLEAN]

ASSUME NodeAssumption ==
  /\ Null \notin Node /\ NoObject \notin Node /\ Null # NoObject
  /\ Null \notin Assignments
ASSUME BoundAssumption == MaxArgs \in Nat /\ MaxKeys \in Nat

VARIABLES
  live,    \* nodes that are allocated
  count,   \* refcount
  label,
  kids,    \* the handles in a node: fn and args, or left and right
  user,    \* impl of each variable
  args, keys,
  todo,
  assign   \* the assignment in progress, or Null

heap == <<live, label, kids>>
vars == <<heap, count, user, args, keys, todo, assign>>

Init ==
  /\ live = {}
  /\ count = [n \in Node |-> 0]
  /\ label = [n \in Node |-> Null]
  /\ kids = [n \in Node |-> <<>>]
  /\ user = [h \in Handle |-> NoObject]
  /\ args = <<>> /\ keys = <<>> /\ todo = <<>>
  /\ assign = Null

Running == todo = <<>> /\ assign = Null
Holds(h) == user[h] \in Node

(* The reference a handle has, if any. *)
Ref(x) == IF x \in Node THEN <<x>> ELSE <<>>

After(h, moved) == IF moved THEN Null ELSE user[h]

CopyForgets(h, moved) == count  \* mutant: the copy constructor does not count

(* incref, unless the handle is moved from. *)
Taken(h, moved) ==
  IF moved \/ ~Holds(h) THEN count ELSE [count EXCEPT ![user[h]] = @ + 1]

-----------------------------------------------------------------------------
(* Constructors of nodes: dyn_expr, int_expr, char_expr, qname_expr; then  *)
(* call_expr and inst_expr; then infix_expr.  A moved operand gives its    *)
(* reference to the node.                                                  *)

Allocate(n, l, children) ==
  /\ n \notin live
  /\ live' = live \union {n}
  /\ label' = [label EXCEPT ![n] = l]
  /\ kids' = [kids EXCEPT ![n] = children]

NewLeaf(h, n, l) ==
  /\ Running /\ user[h] = NoObject
  /\ Allocate(n, l, <<>>)
  /\ user' = [user EXCEPT ![h] = n]
  /\ count' = [count EXCEPT ![n] = 1]
  /\ UNCHANGED <<args, keys, todo, assign>>

(* exprs{...}: the items one after the other. *)
Push(h, moved) ==
  /\ Running /\ Holds(h)
  /\ Len(args) < MaxArgs
  /\ args' = Append(args, user[h])
  /\ count' = Taken(h, moved)
  /\ user' = [user EXCEPT ![h] = After(h, moved)]
  /\ UNCHANGED <<heap, keys, todo, assign>>

NewCall(h, n, f, moved) ==
  /\ Running /\ user[h] = NoObject /\ Holds(f)
  /\ Allocate(n, "call", <<user[f]>> \o args)
  /\ args' = <<>>
  /\ count' = [Taken(f, moved) EXCEPT ![n] = 1]
  /\ user' = [user EXCEPT ![f] = After(f, moved), ![h] = n]
  /\ UNCHANGED <<keys, todo, assign>>

(* Not one variable moved first and used again. *)
NewInfix(h, n, l, r, movedL, movedR) ==
  /\ Running /\ user[h] = NoObject /\ Holds(l) /\ Holds(r)
  /\ l = r => ~movedL
  /\ Allocate(n, "infix", <<user[l], user[r]>>)
  /\ count' = [m \in Node |->
                 IF m = n THEN 1
                 ELSE count[m] + (IF user[l] = m /\ ~movedL THEN 1 ELSE 0)
                               + (IF user[r] = m /\ ~movedR THEN 1 ELSE 0)]
  /\ user' = [x \in Handle |-> CASE x = h -> n
                                 [] (x = l /\ movedL) \/ (x = r /\ movedR) -> Null
                                 [] OTHER -> user[x]]
  /\ UNCHANGED <<args, keys, todo, assign>>

-----------------------------------------------------------------------------
(* Handles. *)

Construct(h, s, moved) ==
  /\ Running
  /\ user[h] = NoObject /\ user[s] # NoObject
  /\ count' = Taken(s, moved)
  /\ user' = [user EXCEPT ![h] = user[s], ![s] = After(s, moved)]
  /\ UNCHANGED <<heap, args, keys, todo, assign>>

(* operator=: the copying one counts its source first; then both drop what *)
(* they had, and only then take what the source has.                       *)
StartAssign(h, s, moved) ==
  /\ Running
  /\ user[h] # NoObject /\ user[s] # NoObject
  /\ count' = Taken(s, moved)
  /\ todo' = Ref(user[h])
  /\ assign' = [to |-> h, from |-> s, moved |-> moved]
  /\ UNCHANGED <<heap, user, args, keys>>

FinishAssign ==
  /\ todo = <<>> /\ assign # Null
  /\ user' = [user EXCEPT ![assign.to] = user[assign.from],
                          ![assign.from] = IF assign.moved THEN Null ELSE @]
  /\ assign' = Null
  /\ UNCHANGED <<heap, count, args, keys, todo>>

Swap(a, b) ==
  /\ Running
  /\ user[a] # NoObject /\ user[b] # NoObject
  /\ user' = [user EXCEPT ![a] = user[b], ![b] = user[a]]
  /\ UNCHANGED <<heap, count, args, keys, todo, assign>>

Destroy(h) ==
  /\ Running /\ user[h] # NoObject
  /\ todo' = Ref(user[h])
  /\ user' = [user EXCEPT ![h] = NoObject]
  /\ UNCHANGED <<heap, count, args, keys, assign>>

KidsStay(n) == <<>>  \* mutant: a node without a virtual destructor

(* What is deleted with a node: its members, the last one first. *)
Members(n) == Reverse(kids[n])

(* decref of the next handle. *)
Release ==
  /\ todo # <<>>
  /\ LET n == Head(todo) IN
       IF count[n] = 1
         THEN /\ live' = live \ {n}
              /\ count' = [count EXCEPT ![n] = 0]
              /\ label' = [label EXCEPT ![n] = Null]
              /\ kids' = [kids EXCEPT ![n] = <<>>]
              /\ todo' = Members(n) \o Tail(todo)
         ELSE /\ count' = [count EXCEPT ![n] = @ - 1]
              /\ todo' = Tail(todo)
              /\ UNCHANGED heap
  /\ UNCHANGED <<user, args, keys, assign>>

(* internal::call: a new key moves into the cache and stays if its code    *)
(* compiles; otherwise, and if the key is known or the call is refused, the *)
(* expressions go with the temporary.                                      *)
KeepKey ==
  /\ Running
  /\ Len(keys) + Len(args) <= MaxKeys
  /\ keys' = keys \o args
  /\ args' = <<>>
  /\ UNCHANGED <<heap, count, user, todo, assign>>

DropKey ==
  /\ Running
  /\ todo' = args
  /\ args' = <<>>
  /\ UNCHANGED <<heap, count, user, keys, assign>>

Next ==
  \/ \E h \in Handle :
       \/ \E n \in Node :
            \/ \E l \in Label : NewLeaf(h, n, l)
            \/ \E f \in Handle, moved \in BOOLEAN : NewCall(h, n, f, moved)
            \/ \E l, r \in Handle, movedL, movedR \in BOOLEAN :
                 NewInfix(h, n, l, r, movedL, movedR)
       \/ \E moved \in BOOLEAN :
            \/ Push(h, moved)
            \/ \E s \in Handle : Construct(h, s, moved) \/ StartAssign(h, s, moved)
       \/ \E b \in Handle : Swap(h, b)
       \/ Destroy(h)
  \/ FinishAssign \/ Release \/ KeepKey \/ DropKey

Spec == Init /\ [][Next]_vars

-----------------------------------------------------------------------------
(* The types of the variables: a step of the program is only about nodes   *)
(* and variables there are.                                                *)
TypeOK ==
  /\ live \subseteq Node
  /\ count \in [Node -> Nat]
  /\ kids \in [Node -> Seq(Node)]
  /\ user \in [Handle -> Node \union {Null, NoObject}]
  /\ {args, keys, todo} \subseteq Seq(Node)
  /\ assign = Null \/ assign \in Assignments

At(s, n) == {i \in DOMAIN s : s[i] = n}

(* The target of an assignment in progress is stale: what it refers to is  *)
(* in todo.  The source of a copy has been counted for the target.         *)
Stale(h) == assign # Null /\ h = assign.to
Promised(n) == assign # Null /\ ~assign.moved /\ user[assign.from] = n

Referrers(n) ==
  {<<"user", h>> : h \in {x \in Handle : user[x] = n /\ ~Stale(x)}}
    \union {<<"args", i>> : i \in At(args, n)}
    \union {<<"keys", i>> : i \in At(keys, n)}
    \union {<<"todo", i>> : i \in At(todo, n)}
    \union (UNION {{<<"kids", m, i>> : i \in At(kids[m], n)} : m \in live})
    \union {<<"assign">> : x \in {y \in {assign} : Promised(n)}}

(* The count of a node is the number of handles that refer to it, at every *)
(* moment of a release that goes through shared nodes, and in an           *)
(* assignment of a variable to itself (expr_base.hpp:36-48, 54-86); so no  *)
(* node is deleted while it is referred to, or deleted twice, and no       *)
(* handle refers to a node that is gone, even though addresses come back.  *)
CountIsRefs ==
  /\ \A n \in Node : count[n] = Cardinality(Referrers(n))
  /\ live = {n \in Node : count[n] > 0}

(* Nothing leaks: any nodes that are allocated are referred to from        *)
(* outside of themselves (expr_base.hpp:84-86, expr_all.cpp:80-82).        *)
NothingLeaks ==
  \A S \in (SUBSET live) \ {{}} :
    \E n \in S : \E r \in Referrers(n) : r[1] = "kids" => r[2] \notin S

(* The value of a node, and what a variable will hold when the assignment  *)
(* in progress is done.                                                    *)
Value ==
  LET value[n \in Node] ==
    [label |-> label[n], kids |-> [i \in DOMAIN kids[n] |-> value[kids[n][i]]]]
  IN  value

MovedFrom(h) == assign # Null /\ assign.moved /\ h = assign.from

Settled(h) ==
  IF MovedFrom(h) THEN Null ELSE IF Stale(h) THEN user[assign.from] ELSE user[h]

Values(s) == [i \in DOMAIN s |-> Value[s[i]]]

Abstract == INSTANCE ExprValues WITH
  val <- [h \in Handle |-> IF Settled(h) \in Node THEN Value[Settled(h)] ELSE Settled(h)],
  args <- Values(args),
  keys <- Values(keys)

(* Expressions are values: whatever is shared, and whenever nodes are      *)
(* deleted and their addresses used again, each step changes the values of *)
(* the variables it names and of no others (expr_base.hpp:54-91, expr.hpp, *)
(* expr_all.cpp:309-341).                                                  *)
ValueSemantics == Abstract!Spec
=============================================================================
