--------------------------- MODULE ExprRefsProofs ---------------------------
(***************************************************************************)
(* Proofs about ExprRefs, for programs with any number of variables, any   *)
(* number of nodes, and expressions of any size.                           *)
(***************************************************************************)
EXTENDS ExprRefs, FunctionTheorems, FiniteSetTheorems, SequenceTheorems, TLAPS

(* How often a sequence refers to a node. *)
Occ(s, n) == Cardinality(At(s, n))

(* The variables that hold a reference, and the handles within nodes.      *)
Users(n) == {h \in Handle : user[h] = n /\ ~Stale(h)}
KidRefs(n) == UNION {{<<m, i>> : i \in At(kids[m], n)} : m \in live}

Is(x, n) == IF x = n THEN 1 ELSE 0
Pledged(n) == IF Promised(n) THEN 1 ELSE 0

Total(n) ==
  Cardinality(Users(n)) + Cardinality(KidRefs(n))
    + Occ(args, n) + Occ(keys, n) + Occ(todo, n) + Pledged(n)

(* The counts, part by part. *)
Counted ==
  /\ \A n \in Node : IsFiniteSet(Users(n)) /\ IsFiniteSet(KidRefs(n)) /\ count[n] = Total(n)
  /\ live = {n \in Node : count[n] > 0}

(* No nodes refer to each other in a circle: in any set of them there is   *)
(* one that none of them refers to.                                        *)
Acyclic ==
  \A S \in (SUBSET live) \ {{}} : \E n \in S : \A m \in S : At(kids[m], n) = {}

-----------------------------------------------------------------------------
LEMMA SameSize ==
  ASSUME NEW S, NEW T, IsFiniteSet(S), NEW f \in [S -> T],
         \A a, b \in S : f[a] = f[b] => a = b,
         \A t \in T : \E s \in S : f[s] = t
  PROVE  IsFiniteSet(T) /\ Cardinality(T) = Cardinality(S)
<1>1. f \in Bijection(S, T)
  BY Fun_IsBij
<1>2. ExistsBijection(S, T)
  BY <1>1, Fun_ExistsBij
<1> QED BY <1>2, FS_Bijection

LEMMA DisjointSize ==
  ASSUME NEW S, NEW T, IsFiniteSet(S), IsFiniteSet(T), S \intersect T = {}
  PROVE  /\ IsFiniteSet(S \union T)
         /\ Cardinality(S \union T) = Cardinality(S) + Cardinality(T)
<1>1. Cardinality(S) \in Nat /\ Cardinality(T) \in Nat
  BY FS_CardinalityType
<1>2. Cardinality(S \intersect T) = 0
  BY FS_EmptySet
<1>3. /\ IsFiniteSet(S \union T)
      /\ Cardinality(S \union T) = Cardinality(S) + Cardinality(T) - Cardinality(S \intersect T)
  BY FS_Union
<1> QED BY <1>1, <1>2, <1>3

LEMMA OccType ==
  ASSUME NEW s \in Seq(Node), NEW n
  PROVE  IsFiniteSet(At(s, n)) /\ Occ(s, n) \in Nat
<1>1. IsFiniteSet(1 .. Len(s))
  BY FS_Interval
<1>2. At(s, n) \in SUBSET (1 .. Len(s))
  BY DEF At
<1>3. IsFiniteSet(At(s, n))
  BY <1>1, <1>2, FS_Subset
<1> QED BY <1>3, FS_CardinalityType DEF Occ

LEMMA OccEmpty == \A n : Occ(<<>>, n) = 0
<1>1. \A n : At(<<>>, n) = {}
  BY DEF At
<1> QED BY <1>1, FS_EmptySet DEF Occ

LEMMA OccOne == \A x, n : Occ(<<x>>, n) = Is(x, n)
<1> SUFFICES ASSUME NEW x, NEW n PROVE Occ(<<x>>, n) = Is(x, n)
  OBVIOUS
<1>1. CASE x = n
  <2>1. At(<<x>>, n) = {1}
    BY <1>1 DEF At
  <2> QED BY <1>1, <2>1, FS_Singleton DEF Occ, Is
<1>2. CASE x # n
  <2>1. At(<<x>>, n) = {}
    BY <1>2 DEF At
  <2> QED BY <1>2, <2>1, FS_EmptySet DEF Occ, Is
<1> QED BY <1>1, <1>2

LEMMA OccConcat ==
  ASSUME NEW s \in Seq(Node), NEW t \in Seq(Node), NEW n
  PROVE  Occ(s \o t, n) = Occ(s, n) + Occ(t, n)
<1> DEFINE T == {i \in DOMAIN (s \o t) : i > Len(s) /\ (s \o t)[i] = n}
           f == [i \in At(t, n) |-> Len(s) + i]
<1>1. At(s \o t, n) = At(s, n) \union T /\ At(s, n) \intersect T = {}
  BY DEF At
<1>2. f \in [At(t, n) -> T]
  BY DEF At
<1>3. \A a, b \in At(t, n) : f[a] = f[b] => a = b
  BY DEF At
<1>4. \A j \in T : \E i \in At(t, n) : f[i] = j
  <2> TAKE j \in T
  <2>1. j - Len(s) \in At(t, n) /\ Len(s) + (j - Len(s)) = j
    BY DEF At
  <2> QED BY <2>1
<1> HIDE DEF f, T
<1>5. IsFiniteSet(At(t, n)) /\ IsFiniteSet(At(s, n))
  BY OccType
<1>6. IsFiniteSet(T) /\ Cardinality(T) = Cardinality(At(t, n))
  BY <1>2, <1>3, <1>4, <1>5, SameSize
<1> QED BY <1>1, <1>5, <1>6, DisjointSize DEF Occ

LEMMA OccTail ==
  ASSUME NEW s \in Seq(Node), s # <<>>, NEW n
  PROVE  /\ Head(s) \in Node /\ Tail(s) \in Seq(Node)
         /\ Occ(s, n) = Is(Head(s), n) + Occ(Tail(s), n)
<1>1. /\ Head(s) \in Node /\ Tail(s) \in Seq(Node) /\ << Head(s) >> \in Seq(Node)
      /\ s = << Head(s) >> \o Tail(s)
  OBVIOUS
<1>2. Occ(<< Head(s) >> \o Tail(s), n) = Occ(<< Head(s) >>, n) + Occ(Tail(s), n)
  BY <1>1, OccConcat
<1>3. Occ(s, n) = Occ(<< Head(s) >> \o Tail(s), n)
  BY <1>1
<1> QED BY <1>1, <1>2, <1>3, OccOne

LEMMA OccReverse ==
  ASSUME NEW s \in Seq(Node), NEW n
  PROVE  Reverse(s) \in Seq(Node) /\ Occ(Reverse(s), n) = Occ(s, n)
<1>1. /\ Reverse(s) \in Seq(Node) /\ DOMAIN Reverse(s) = 1 .. Len(s)
      /\ \A i \in 1 .. Len(s) : Reverse(s)[i] = s[Len(s) - i + 1]
  BY DEF Reverse
<1> DEFINE f == [i \in At(s, n) |-> Len(s) - i + 1]
<1>2. f \in [At(s, n) -> At(Reverse(s), n)]
  <2> SUFFICES ASSUME NEW i \in At(s, n) PROVE Len(s) - i + 1 \in At(Reverse(s), n)
    OBVIOUS
  <2>1. i \in 1 .. Len(s) /\ s[i] = n /\ Len(s) - i + 1 \in 1 .. Len(s)
        /\ Len(s) - (Len(s) - i + 1) + 1 = i
    BY DEF At
  <2> QED BY <1>1, <2>1 DEF At
<1>3. \A a, b \in At(s, n) : f[a] = f[b] => a = b
  BY DEF At
<1>4. \A j \in At(Reverse(s), n) : \E i \in At(s, n) : f[i] = j
  <2> TAKE j \in At(Reverse(s), n)
  <2>1. j \in 1 .. Len(s) /\ Reverse(s)[j] = n /\ Len(s) - j + 1 \in 1 .. Len(s)
        /\ Len(s) - (Len(s) - j + 1) + 1 = j
    BY <1>1 DEF At
  <2>2. Len(s) - j + 1 \in At(s, n)
    BY <1>1, <2>1 DEF At
  <2> QED BY <2>1, <2>2
<1> HIDE DEF f
<1> QED BY <1>1, <1>2, <1>3, <1>4, SameSize, OccType DEF Occ

(* What an assignment to one variable changes. *)
In(u, n) == {x \in Handle : u[x] = n}

Updated(u, w, h, v) == w[h] = v /\ \A x \in Handle : x # h => w[x] = u[x]

LEMMA OneUser ==
  ASSUME NEW u, NEW w, NEW h \in Handle, NEW v, NEW n, IsFiniteSet(In(u, n)),
         Updated(u, w, h, v)
  PROVE  /\ IsFiniteSet(In(w, n))
         /\ Cardinality(In(w, n)) + Is(u[h], n) = Cardinality(In(u, n)) + Is(v, n)
<1>2. In(w, n) \ {h} = In(u, n) \ {h} /\ (h \in In(u, n) <=> u[h] = n) /\ (h \in In(w, n) <=> v = n)
  BY DEF In, Updated
<1>3. /\ IsFiniteSet(In(u, n) \ {h})
      /\ Cardinality(In(u, n) \ {h})
           = IF h \in In(u, n) THEN Cardinality(In(u, n)) - 1 ELSE Cardinality(In(u, n))
  BY FS_RemoveElement
<1>4. Cardinality(In(u, n)) \in Nat
  BY FS_CardinalityType
<1>5. CASE v = n
  <2>1. In(w, n) = (In(u, n) \ {h}) \union {h} /\ h \notin In(u, n) \ {h}
    BY <1>2, <1>5
  <2>2. /\ IsFiniteSet((In(u, n) \ {h}) \union {h})
        /\ Cardinality((In(u, n) \ {h}) \union {h})
             = IF h \in In(u, n) \ {h} THEN Cardinality(In(u, n) \ {h}) ELSE Cardinality(In(u, n) \ {h}) + 1
    BY <1>3, FS_AddElement
  <2>3. IsFiniteSet(In(w, n)) /\ Cardinality(In(w, n)) = Cardinality(In(u, n) \ {h}) + 1
    BY <2>1, <2>2
  <2> QED BY <1>2, <1>3, <1>4, <1>5, <2>3 DEF Is
<1>6. CASE v # n
  <2>1. In(w, n) = In(u, n) \ {h}
    BY <1>2, <1>6
  <2>2. IsFiniteSet(In(w, n))
        /\ Cardinality(In(w, n)) = IF u[h] = n THEN Cardinality(In(u, n)) - 1 ELSE Cardinality(In(u, n))
    BY <1>2, <1>3, <2>1
  <2> QED BY <1>4, <1>6, <2>2 DEF Is
<1> QED BY <1>5, <1>6

LEMMA PairSize ==
  ASSUME NEW m, NEW S, IsFiniteSet(S)
  PROVE  IsFiniteSet({<<m, i>> : i \in S}) /\ Cardinality({<<m, i>> : i \in S}) = Cardinality(S)
<1> DEFINE T == {<<m, i>> : i \in S}
           f == [i \in S |-> <<m, i>>]
<1>1. f \in [S -> T] /\ (\A a, b \in S : f[a] = f[b] => a = b) /\ \A t \in T : \E i \in S : f[i] = t
  OBVIOUS
<1> HIDE DEF f, T
<1>2. IsFiniteSet(T) /\ Cardinality(T) = Cardinality(S)
  BY <1>1, SameSize
<1> QED BY <1>2 DEF T

-----------------------------------------------------------------------------
LEMMA PartTypes ==
  ASSUME TypeOK, Counted, NEW n \in Node
  PROVE  /\ Cardinality(Users(n)) \in Nat /\ Cardinality(KidRefs(n)) \in Nat
         /\ Occ(args, n) \in Nat /\ Occ(keys, n) \in Nat /\ Occ(todo, n) \in Nat
         /\ Pledged(n) \in {0, 1}
         /\ count[n] = Total(n) /\ count[n] \in Nat
         /\ n \in live <=> count[n] > 0
<1>1. IsFiniteSet(Users(n)) /\ IsFiniteSet(KidRefs(n)) /\ count[n] = Total(n)
  BY DEF Counted
<1>2. Cardinality(Users(n)) \in Nat /\ Cardinality(KidRefs(n)) \in Nat
  BY <1>1, FS_CardinalityType
<1>3. args \in Seq(Node) /\ keys \in Seq(Node) /\ todo \in Seq(Node) /\ count[n] \in Nat
  BY DEF TypeOK
<1>4. Occ(args, n) \in Nat /\ Occ(keys, n) \in Nat /\ Occ(todo, n) \in Nat
  BY <1>3, OccType
<1>5. Pledged(n) \in {0, 1}
  BY DEF Pledged
<1>6. n \in live <=> count[n] > 0
  BY DEF Counted
<1> QED BY <1>1, <1>2, <1>3, <1>4, <1>5, <1>6

(* What is referred to is there. *)
LEMMA InUse ==
  ASSUME TypeOK, Counted, NEW n \in Node
  PROVE  /\ \A h \in Handle : user[h] = n /\ ~Stale(h) => n \in live
         /\ \A m \in live : At(kids[m], n) # {} => n \in live
         /\ Occ(args, n) > 0 \/ Occ(keys, n) > 0 \/ Occ(todo, n) > 0 => n \in live
<1>1. IsFiniteSet(Users(n)) /\ IsFiniteSet(KidRefs(n))
  BY DEF Counted
<1>2. Cardinality(Users(n)) > 0 => n \in live
  BY PartTypes DEF Total
<1>3. Cardinality(KidRefs(n)) > 0 => n \in live
  BY PartTypes DEF Total
<1>4. Occ(args, n) > 0 \/ Occ(keys, n) > 0 \/ Occ(todo, n) > 0 => n \in live
  BY PartTypes DEF Total
<1>5. (Users(n) # {} => Cardinality(Users(n)) > 0) /\ (KidRefs(n) # {} => Cardinality(KidRefs(n)) > 0)
  BY <1>1, FS_EmptySet, PartTypes
<1>6. \A h \in Handle : user[h] = n /\ ~Stale(h) => Users(n) # {}
  BY DEF Users
<1>7. ASSUME NEW m \in live, NEW i \in At(kids[m], n) PROVE KidRefs(n) # {}
  <2>1. <<m, i>> \in KidRefs(n)
    BY DEF KidRefs
  <2> QED BY <2>1
<1> QED BY <1>2, <1>3, <1>4, <1>5, <1>6, <1>7

LEMMA AllocateRefs ==
  ASSUME TypeOK, Counted, NEW m \in Node, NEW l, NEW children \in Seq(Node),
         Allocate(m, l, children), NEW n \in Node
  PROVE  /\ IsFiniteSet(KidRefs(n)')
         /\ Cardinality(KidRefs(n)') = Cardinality(KidRefs(n)) + Occ(children, n)
<1> DEFINE own == {<<m, i>> : i \in At(children, n)}
<1>1. KidRefs(n)' = KidRefs(n) \union own /\ KidRefs(n) \intersect own = {}
  BY DEF Allocate, KidRefs, TypeOK
<1>2. IsFiniteSet(At(children, n))
  BY OccType
<1>3. IsFiniteSet(own) /\ Cardinality(own) = Occ(children, n)
  BY <1>2, PairSize DEF Occ
<1>4. IsFiniteSet(KidRefs(n))
  BY DEF Counted
<1> HIDE DEF own
<1> QED BY <1>1, <1>3, <1>4, DisjointSize

LEMMA ReleaseRefs ==
  ASSUME TypeOK, Counted, NEW m \in live, live' = live \ {m},
         kids' = [kids EXCEPT ![m] = <<>>], NEW n \in Node
  PROVE  /\ IsFiniteSet(KidRefs(n)')
         /\ Cardinality(KidRefs(n)) = Cardinality(KidRefs(n)') + Occ(kids[m], n)
<1> DEFINE own == {<<m, i>> : i \in At(kids[m], n)}
<1>1. KidRefs(n) = KidRefs(n)' \union own /\ KidRefs(n)' \intersect own = {}
  BY DEF KidRefs, TypeOK
<1>2. IsFiniteSet(At(kids[m], n))
  BY OccType DEF TypeOK
<1>3. IsFiniteSet(own) /\ Cardinality(own) = Occ(kids[m], n)
  BY <1>2, PairSize DEF Occ
<1>4. IsFiniteSet(KidRefs(n)) /\ KidRefs(n)' \in SUBSET KidRefs(n)
  BY <1>1 DEF Counted
<1> HIDE DEF own
<1>5. IsFiniteSet(KidRefs(n)')
  BY <1>4, FS_Subset
<1> QED BY <1>1, <1>3, <1>5, DisjointSize

LEMMA SameRefs ==
  ASSUME UNCHANGED <<live, kids>>, NEW n
  PROVE  KidRefs(n)' = KidRefs(n)
  BY DEF KidRefs

(* A step that assigns to two variables, or to one. *)
Assigned(a, v, b, w) ==
  /\ user'[b] = w /\ (a # b => user'[a] = v)
  /\ \A x \in Handle : x # a /\ x # b => user'[x] = user[x]

LEMMA AssignedUser ==
  ASSUME TypeOK, NEW a \in Handle, NEW b \in Handle, NEW v, NEW w
  PROVE  /\ user' = [user EXCEPT ![a] = v, ![b] = w] => Assigned(a, v, b, w)
         /\ user' = [user EXCEPT ![a] = v] => Assigned(a, v, a, v)
  BY DEF TypeOK, Assigned

LEMMA TwoUpdates ==
  ASSUME NEW u, NEW z, DOMAIN u = Handle,
         NEW a \in Handle, NEW b \in Handle, NEW v, NEW w, NEW n, IsFiniteSet(In(u, n)),
         z[b] = w, a # b => z[a] = v,
         \A x \in Handle : x # a /\ x # b => z[x] = u[x]
  PROVE  /\ IsFiniteSet(In(z, n))
         /\ Cardinality(In(z, n)) \in Nat /\ Cardinality(In(u, n)) \in Nat
         /\ a # b => Cardinality(In(z, n)) + Is(u[a], n) + Is(u[b], n)
                       = Cardinality(In(u, n)) + Is(v, n) + Is(w, n)
         /\ a = b => Cardinality(In(z, n)) + Is(u[a], n) = Cardinality(In(u, n)) + Is(w, n)
<1> DEFINE y == [u EXCEPT ![a] = v]
<1>1. IsFiniteSet(In(u, n))
  OBVIOUS
<1>2. Updated(u, y, a, v)
  BY DEF Updated
<1>3. Updated(y, z, b, w) /\ y[b] = IF a = b THEN v ELSE u[b]
  BY DEF Updated
<1> HIDE DEF y
<1>4. /\ IsFiniteSet(In(y, n))
      /\ Cardinality(In(y, n)) + Is(u[a], n) = Cardinality(In(u, n)) + Is(v, n)
  BY <1>1, <1>2, OneUser
<1>5. /\ IsFiniteSet(In(z, n))
      /\ Cardinality(In(z, n)) + Is(y[b], n) = Cardinality(In(y, n)) + Is(w, n)
  BY <1>3, <1>4, OneUser
<1>6. Cardinality(In(u, n)) \in Nat /\ Cardinality(In(y, n)) \in Nat /\ Cardinality(In(z, n)) \in Nat
  BY <1>1, <1>4, <1>5, FS_CardinalityType
<1>7. Is(u[a], n) \in {0, 1} /\ Is(u[b], n) \in {0, 1} /\ Is(v, n) \in {0, 1} /\ Is(w, n) \in {0, 1}
  BY DEF Is
<1>8. CASE a = b
  BY <1>3, <1>4, <1>5, <1>6, <1>7, <1>8
<1>9. CASE a # b
  BY <1>3, <1>4, <1>5, <1>6, <1>7, <1>9
<1> QED BY <1>5, <1>6, <1>8, <1>9

LEMMA TwoUsers ==
  ASSUME TypeOK, NEW a \in Handle, NEW b \in Handle, NEW v, NEW w, NEW n \in Node,
         IsFiniteSet(In(user, n)), Assigned(a, v, b, w)
  PROVE  /\ IsFiniteSet(In(user', n))
         /\ Cardinality(In(user', n)) \in Nat /\ Cardinality(In(user, n)) \in Nat
         /\ a # b => Cardinality(In(user', n)) + Is(user[a], n) + Is(user[b], n)
                       = Cardinality(In(user, n)) + Is(v, n) + Is(w, n)
         /\ a = b => Cardinality(In(user', n)) + Is(user[a], n)
                       = Cardinality(In(user, n)) + Is(w, n)
<1>1. DOMAIN user = Handle /\ IsFiniteSet(In(user, n))
      /\ user'[b] = w /\ (a # b => user'[a] = v)
      /\ \A x \in Handle : x # a /\ x # b => user'[x] = user[x]
  BY DEF TypeOK, Assigned
<1> QED BY <1>1, TwoUpdates

(* The variables in and outside of an assignment. *)
LEMMA UsersIn ==
  ASSUME TypeOK, Counted, NEW n \in Node
  PROVE  /\ IsFiniteSet(In(user, n)) /\ Cardinality(In(user, n)) \in Nat
         /\ assign = Null => Users(n) = In(user, n)
         /\ assign # Null => Cardinality(In(user, n)) = Cardinality(Users(n)) + Is(user[assign.to], n)
<1>1. IsFiniteSet(Users(n)) /\ Cardinality(Users(n)) \in Nat
  BY PartTypes DEF Counted
<1>2. CASE assign = Null
  <2>1. Users(n) = In(user, n)
    BY <1>2 DEF Users, In, Stale
  <2> QED BY <1>1, <1>2, <2>1
<1>3. CASE assign # Null
  <2>1. assign.to \in Handle /\ assign.to \notin Users(n)
    BY <1>3 DEF TypeOK, Assignments, Users, Stale
  <2>2. CASE user[assign.to] = n
    <3>1. In(user, n) = Users(n) \union {assign.to}
      BY <1>3, <2>1, <2>2 DEF Users, In, Stale
    <3>2. IsFiniteSet(Users(n) \union {assign.to})
          /\ Cardinality(Users(n) \union {assign.to}) = Cardinality(Users(n)) + 1
      BY <1>1, <2>1, FS_AddElement
    <3> QED BY <1>1, <1>3, <2>2, <3>1, <3>2 DEF Is
  <2>3. CASE user[assign.to] # n
    <3>1. In(user, n) = Users(n)
      BY <1>3, <2>3 DEF Users, In, Stale
    <3> QED BY <1>1, <1>3, <2>3, <3>1 DEF Is
  <2> QED BY <2>2, <2>3
<1> QED BY <1>2, <1>3

LEMMA NotInUse ==
  /\ \A n \in Node : Is(Null, n) = 0 /\ Is(NoObject, n) = 0
  /\ \A x, n : Is(x, n) \in {0, 1} /\ (Is(x, n) = 1 <=> x = n)
  /\ \A x : \A n \in Node : Occ(Ref(x), n) = Is(x, n)
<1>1. \A n \in Node : Is(Null, n) = 0 /\ Is(NoObject, n) = 0
  BY NodeAssumption DEF Is
<1>2. \A x, n : Is(x, n) \in {0, 1} /\ (Is(x, n) = 1 <=> x = n)
  BY DEF Is
<1>3. ASSUME NEW x, NEW n \in Node PROVE Occ(Ref(x), n) = Is(x, n)
  <2>1. CASE x \in Node
    BY <2>1, OccOne DEF Ref
  <2>2. CASE x \notin Node
    BY <2>2, OccEmpty DEF Ref, Is
  <2> QED BY <2>1, <2>2
<1> QED BY <1>1, <1>2, <1>3

LEMMA RefType == \A x : Ref(x) \in Seq(Node)
  BY DEF Ref

(* Taking a reference. *)
LEMMA TakenCount ==
  ASSUME TypeOK, Counted, Running, NEW h \in Handle, NEW moved \in BOOLEAN
  PROVE  /\ Taken(h, moved) \in [Node -> Nat]
         /\ \A n \in Node :
              /\ Taken(h, moved)[n] = count[n] + IF moved THEN 0 ELSE Is(user[h], n)
              /\ Taken(h, moved)[n] > 0 <=> n \in live
              /\ user[h] = n => n \in live
<1>1. count \in [Node -> Nat]
  BY DEF TypeOK
<1>2. ~Stale(h)
  BY DEF Running, Stale
<1>3. \A n \in Node : (n \in live <=> count[n] > 0) /\ (user[h] = n => n \in live)
  BY <1>2, InUse, PartTypes
<1>4. CASE moved \/ ~Holds(h)
  <2>1. \A n \in Node : moved \/ Is(user[h], n) = 0
    BY <1>4 DEF Holds, Is
  <2> QED BY <1>1, <1>3, <1>4, <2>1 DEF Taken
<1>5. CASE ~moved /\ Holds(h)
  <2>1. Taken(h, moved) = [count EXCEPT ![user[h]] = @ + 1] /\ user[h] \in Node
    BY <1>5 DEF Taken, Holds
  <2>2. Taken(h, moved) \in [Node -> Nat]
        /\ \A n \in Node : Taken(h, moved)[n] = IF n = user[h] THEN count[n] + 1 ELSE count[n]
    BY <1>1, <2>1
  <2>3. \A n \in Node : Is(user[h], n) = IF n = user[h] THEN 1 ELSE 0
    BY DEF Is
  <2> QED BY <1>1, <1>3, <1>5, <2>2, <2>3
<1> QED BY <1>4, <1>5

(* Between assignments all variables count, and nothing is promised. *)
LEMMA Settling ==
  ASSUME NEW n \in Node
  PROVE  /\ assign = Null => Users(n) = In(user, n) /\ Pledged(n) = 0
         /\ assign' = Null => Users(n)' = In(user', n) /\ Pledged(n)' = 0
  BY DEF Users, Stale, In, Pledged, Promised

LEMMA RunningUsers ==
  ASSUME TypeOK, Counted, assign = Null, assign' = Null,
         NEW a \in Handle, NEW b \in Handle, NEW v, NEW w, NEW n \in Node,
         Assigned(a, v, b, w)
  PROVE  /\ IsFiniteSet(Users(n)') /\ Cardinality(Users(n)') \in Nat
         /\ a # b => Cardinality(Users(n)') + Is(user[a], n) + Is(user[b], n)
                       = Cardinality(Users(n)) + Is(v, n) + Is(w, n)
         /\ a = b => Cardinality(Users(n)') + Is(user[a], n) = Cardinality(Users(n)) + Is(w, n)
<1>1. IsFiniteSet(In(user, n)) /\ Users(n) = In(user, n) /\ Users(n)' = In(user', n)
  BY UsersIn, Settling
<1>2. /\ IsFiniteSet(In(user', n)) /\ Cardinality(In(user', n)) \in Nat
      /\ a # b => Cardinality(In(user', n)) + Is(user[a], n) + Is(user[b], n)
                    = Cardinality(In(user, n)) + Is(v, n) + Is(w, n)
      /\ a = b => Cardinality(In(user', n)) + Is(user[a], n)
                    = Cardinality(In(user, n)) + Is(w, n)
  BY <1>1, TwoUsers
<1> QED BY <1>1, <1>2

LEMMA Totals ==
  \A n : /\ Total(n) = Cardinality(Users(n)) + Cardinality(KidRefs(n))
                        + Occ(args, n) + Occ(keys, n) + Occ(todo, n) + Pledged(n)
         /\ Total(n)' = Cardinality(Users(n)') + Cardinality(KidRefs(n)')
                        + Occ(args', n) + Occ(keys', n) + Occ(todo', n) + Pledged(n)'
  BY DEF Total, Occ, At

(* What has to be shown of a step. *)
LEMMA CountedNext ==
  ASSUME TypeOK',
         \A n \in Node : /\ IsFiniteSet(Users(n)') /\ IsFiniteSet(KidRefs(n)')
                         /\ count'[n] = Total(n)'
                         /\ n \in live' <=> count'[n] > 0
  PROVE  Counted'
<1>1. live' \subseteq Node
  BY DEF TypeOK
<1> QED BY <1>1 DEF Counted

(* A new node is referred to by the variable it is made for, and its       *)
(* children have one more reference.                                       *)
LEMMA AllocateType ==
  ASSUME TypeOK, NEW m \in Node, NEW l, NEW children \in Seq(Node), Allocate(m, l, children)
  PROVE  /\ live' \subseteq Node /\ kids' \in [Node -> Seq(Node)]
         /\ m \notin live /\ live' = live \union {m}
  BY DEF Allocate, TypeOK

LEMMA NewLeafCounts ==
  ASSUME TypeOK, Counted, NEW h \in Handle, NEW m \in Node, NEW l \in Label, NewLeaf(h, m, l)
  PROVE  TypeOK' /\ Counted'
<1>1. /\ Allocate(m, l, <<>>) /\ <<>> \in Seq(Node)
      /\ assign = Null /\ assign' = Null /\ user[h] = NoObject
      /\ user' = [user EXCEPT ![h] = m] /\ count' = [count EXCEPT ![m] = 1]
      /\ UNCHANGED <<args, keys, todo, assign>>
  BY DEF NewLeaf, Running
<1>2. TypeOK'
  BY <1>1, AllocateType DEF TypeOK
<1>3. ASSUME NEW n \in Node
      PROVE  /\ IsFiniteSet(Users(n)') /\ IsFiniteSet(KidRefs(n)')
             /\ count'[n] = Total(n)' /\ (n \in live' <=> count'[n] > 0)
  <2>1. Assigned(h, m, h, m)
    BY <1>1, AssignedUser
  <2>2. Pledged(n) = 0 /\ Pledged(n)' = 0
    BY <1>1, Settling
  <2>3. IsFiniteSet(Users(n)') /\ Cardinality(Users(n)') \in Nat
        /\ Cardinality(Users(n)') + Is(NoObject, n) = Cardinality(Users(n)) + Is(m, n)
    BY <1>1, <2>1, RunningUsers
  <2>4. IsFiniteSet(KidRefs(n)') /\ Cardinality(KidRefs(n)') = Cardinality(KidRefs(n)) + Occ(<<>>, n)
    BY <1>1, AllocateRefs
  <2>5. Total(n)' = Total(n) + Is(m, n)
    <3>1. Occ(args', n) = Occ(args, n) /\ Occ(keys', n) = Occ(keys, n) /\ Occ(todo', n) = Occ(todo, n)
          /\ Occ(<<>>, n) = 0 /\ Is(NoObject, n) = 0 /\ Is(m, n) \in {0, 1}
      BY <1>1, OccEmpty, NotInUse
    <3>2. /\ Total(n) = Cardinality(Users(n)) + Cardinality(KidRefs(n))
                        + Occ(args, n) + Occ(keys, n) + Occ(todo, n) + Pledged(n)
          /\ Total(n)' = Cardinality(Users(n)') + Cardinality(KidRefs(n)')
                        + Occ(args', n) + Occ(keys', n) + Occ(todo', n) + Pledged(n)'
      BY Totals
    <3>3. /\ Cardinality(Users(n)) \in Nat /\ Cardinality(KidRefs(n)) \in Nat
          /\ Occ(args, n) \in Nat /\ Occ(keys, n) \in Nat /\ Occ(todo, n) \in Nat
      BY PartTypes
    <3>4. Cardinality(Users(n)') = Cardinality(Users(n)) + Is(m, n)
      BY <2>3, <3>1, <3>3
    <3>5. Cardinality(KidRefs(n)') = Cardinality(KidRefs(n))
      BY <2>4, <3>1, <3>3
    <3>6. Total(n)' = (Cardinality(Users(n)) + Is(m, n)) + Cardinality(KidRefs(n))
                        + Occ(args, n) + Occ(keys, n) + Occ(todo, n) + 0
      BY <2>2, <3>1, <3>2, <3>4, <3>5
    <3>7. Total(n) = Cardinality(Users(n)) + Cardinality(KidRefs(n))
                        + Occ(args, n) + Occ(keys, n) + Occ(todo, n) + 0
      BY <2>2, <3>2
    <3> QED BY <3>1, <3>3, <3>6, <3>7
  <2>6. m \notin live /\ live' = live \union {m} /\ count[m] = 0
    <3>1. m \notin live /\ live' = live \union {m}
      BY <1>1, AllocateType
    <3>2. (m \in live <=> count[m] > 0) /\ count[m] \in Nat
      BY PartTypes
    <3> QED BY <3>1, <3>2
  <2>7. count'[n] = IF n = m THEN 1 ELSE count[n]
    BY <1>1 DEF TypeOK
  <2> QED BY <2>3, <2>4, <2>5, <2>6, <2>7, NotInUse, PartTypes
<1> QED BY <1>2, <1>3, CountedNext

LEMMA NewCallCounts ==
  ASSUME TypeOK, Counted, NEW h \in Handle, NEW m \in Node, NEW f \in Handle, NEW moved \in BOOLEAN,
         NewCall(h, m, f, moved)
  PROVE  TypeOK' /\ Counted'
<1> DEFINE children == <<user[f]>> \o args
<1>1. /\ Allocate(m, "call", children) /\ Running /\ Holds(f)
      /\ assign = Null /\ assign' = Null /\ user[h] = NoObject
      /\ user' = [user EXCEPT ![f] = After(f, moved), ![h] = m]
      /\ count' = [Taken(f, moved) EXCEPT ![m] = 1]
      /\ args' = <<>> /\ UNCHANGED <<keys, todo, assign>>
  BY DEF NewCall, Running
<1>2. user[f] \in Node /\ f # h /\ args \in Seq(Node) /\ <<user[f]>> \in Seq(Node) /\ <<>> \in Seq(Node)
  BY <1>1, NodeAssumption DEF Holds, TypeOK
<1>3. children \in Seq(Node) /\ \A n \in Node : Occ(children, n) = Is(user[f], n) + Occ(args, n)
  <2>1. \A n : Occ(children, n) = Occ(<<user[f]>>, n) + Occ(args, n)
    BY <1>2, OccConcat
  <2> QED BY <1>2, <2>1, OccOne
<1> HIDE DEF children
<1>4. TypeOK'
  <2>1. Taken(f, moved) \in [Node -> Nat]
    BY <1>1, TakenCount
  <2>2. After(f, moved) \in Node \union {Null, NoObject}
    BY <1>2 DEF After
  <2> QED BY <1>1, <1>2, <1>3, <2>1, <2>2, AllocateType DEF TypeOK
<1>5. ASSUME NEW n \in Node
      PROVE  /\ IsFiniteSet(Users(n)') /\ IsFiniteSet(KidRefs(n)')
             /\ count'[n] = Total(n)' /\ (n \in live' <=> count'[n] > 0)
  <2>2. Pledged(n) = 0 /\ Pledged(n)' = 0
    BY <1>1, Settling
  <2>3. IsFiniteSet(Users(n)') /\ Cardinality(Users(n)') \in Nat
        /\ Cardinality(Users(n)') + Is(user[f], n) + Is(NoObject, n)
             = Cardinality(Users(n)) + Is(After(f, moved), n) + Is(m, n)
    <3>1. Assigned(f, After(f, moved), h, m)
      BY <1>1, AssignedUser
    <3> QED BY <1>1, <1>2, <3>1, RunningUsers
  <2>4. IsFiniteSet(KidRefs(n)')
        /\ Cardinality(KidRefs(n)') = Cardinality(KidRefs(n)) + Is(user[f], n) + Occ(args, n)
    <3>1. /\ IsFiniteSet(KidRefs(n)')
          /\ Cardinality(KidRefs(n)') = Cardinality(KidRefs(n)) + Occ(children, n)
      BY <1>1, <1>3, AllocateRefs, Zenon
    <3>2. Occ(children, n) = Is(user[f], n) + Occ(args, n)
      BY <1>3, Zenon
    <3>3. Is(user[f], n) \in Nat
      BY NotInUse
    <3>4. Cardinality(KidRefs(n)) \in Nat /\ Occ(args, n) \in Nat
      BY PartTypes, Zenon
    <3>5. \A x, y, z \in Nat : x + (y + z) = x + y + z
      OBVIOUS
    <3>6. Cardinality(KidRefs(n)) + (Is(user[f], n) + Occ(args, n))
            = Cardinality(KidRefs(n)) + Is(user[f], n) + Occ(args, n)
      BY <3>3, <3>4, <3>5, Zenon
    <3> QED BY <3>1, <3>2, <3>6, Zenon
  <2>5. Is(After(f, moved), n) = IF moved THEN 0 ELSE Is(user[f], n)
    BY NotInUse DEF After
  <2>6. Total(n)' = Total(n) + Is(m, n) + IF moved THEN 0 ELSE Is(user[f], n)
    <3>1. Occ(args', n) = 0 /\ Occ(keys', n) = Occ(keys, n) /\ Occ(todo', n) = Occ(todo, n)
          /\ Is(NoObject, n) = 0 /\ Is(m, n) \in {0, 1} /\ Is(user[f], n) \in {0, 1}
      BY <1>1, OccEmpty, NotInUse
    <3>2. /\ Cardinality(Users(n)) \in Nat /\ Cardinality(KidRefs(n)) \in Nat
          /\ Occ(args, n) \in Nat /\ Occ(keys, n) \in Nat /\ Occ(todo, n) \in Nat
      BY PartTypes
    <3>3. Cardinality(Users(n)') + Is(user[f], n)
            = Cardinality(Users(n)) + (IF moved THEN 0 ELSE Is(user[f], n)) + Is(m, n)
      BY <2>3, <2>5, <3>1, <3>2
    <3>4. Total(n)' = Cardinality(Users(n)') + (Cardinality(KidRefs(n)) + Is(user[f], n) + Occ(args, n))
                        + 0 + Occ(keys, n) + Occ(todo, n) + 0
      BY <2>2, <2>4, <3>1, Totals
    <3>5. Total(n) = Cardinality(Users(n)) + Cardinality(KidRefs(n))
                        + Occ(args, n) + Occ(keys, n) + Occ(todo, n) + 0
      BY <2>2, Totals
    <3> QED BY <2>3, <3>1, <3>2, <3>3, <3>4, <3>5
  <2>7. m \notin live /\ live' = live \union {m} /\ count[m] = 0
    BY <1>1, <1>3, AllocateType, PartTypes
  <2>8. /\ Taken(f, moved) \in [Node -> Nat]
        /\ Taken(f, moved)[n] = count[n] + IF moved THEN 0 ELSE Is(user[f], n)
        /\ Taken(f, moved)[n] > 0 <=> n \in live
        /\ user[f] = n => n \in live
    BY <1>1, TakenCount
  <2>9. count'[n] = IF n = m THEN 1 ELSE Taken(f, moved)[n]
    BY <1>1, <2>8
  <2>10. CASE n = m
    BY <2>3, <2>4, <2>6, <2>7, <2>8, <2>9, <2>10, NotInUse, PartTypes
  <2>11. CASE n # m
    BY <2>3, <2>4, <2>6, <2>7, <2>8, <2>9, <2>11, NotInUse, PartTypes
  <2> QED BY <2>10, <2>11
<1> QED BY <1>4, <1>5, CountedNext

LEMMA NewInfixUsers ==
  ASSUME TypeOK, Counted, NEW h \in Handle, NEW m \in Node, NEW l \in Handle, NEW r \in Handle,
         NEW movedL \in BOOLEAN, NEW movedR \in BOOLEAN, NewInfix(h, m, l, r, movedL, movedR),
         NEW n \in Node
  PROVE  /\ IsFiniteSet(Users(n)') /\ Cardinality(Users(n)') \in Nat
         /\ Cardinality(Users(n)') + Is(user[l], n) + Is(user[r], n)
              = Cardinality(Users(n)) + (IF movedL THEN 0 ELSE Is(user[l], n))
                  + (IF movedR THEN 0 ELSE Is(user[r], n)) + Is(m, n)
<1> DEFINE y == [user EXCEPT ![l] = After(l, movedL)]
           z == [y EXCEPT ![r] = After(r, movedR)]
<1>1. /\ assign = Null /\ assign' = Null /\ user[h] = NoObject /\ h # l /\ h # r
      /\ DOMAIN user = Handle /\ (l = r => ~movedL)
  BY NodeAssumption DEF NewInfix, Running, Holds, TypeOK
<1>2. IsFiniteSet(In(user, n)) /\ Users(n) = In(user, n) /\ Users(n)' = In(user', n)
  BY <1>1, UsersIn, Settling
<1>3. Updated(user, y, l, After(l, movedL)) /\ y[r] = user[r]
  BY <1>1 DEF Updated, After
<1>4. Updated(y, z, r, After(r, movedR)) /\ z[h] = NoObject
  BY <1>1 DEF Updated
<1>5. Updated(z, user', h, m)
  BY <1>1 DEF Updated, NewInfix, After
<1> HIDE DEF y, z
<1>6. /\ IsFiniteSet(In(y, n))
      /\ Cardinality(In(y, n)) + Is(user[l], n) = Cardinality(In(user, n)) + Is(After(l, movedL), n)
  BY <1>2, <1>3, OneUser
<1>7. /\ IsFiniteSet(In(z, n))
      /\ Cardinality(In(z, n)) + Is(user[r], n) = Cardinality(In(y, n)) + Is(After(r, movedR), n)
  BY <1>3, <1>4, <1>6, OneUser
<1>8. /\ IsFiniteSet(In(user', n))
      /\ Cardinality(In(user', n)) + Is(NoObject, n) = Cardinality(In(z, n)) + Is(m, n)
  BY <1>4, <1>5, <1>7, OneUser
<1>9. /\ Is(After(l, movedL), n) = IF movedL THEN 0 ELSE Is(user[l], n)
      /\ Is(After(r, movedR), n) = IF movedR THEN 0 ELSE Is(user[r], n)
      /\ Is(NoObject, n) = 0 /\ Is(m, n) \in {0, 1}
      /\ Is(user[l], n) \in {0, 1} /\ Is(user[r], n) \in {0, 1}
  BY NotInUse DEF After
<1>10. /\ Cardinality(In(user, n)) \in Nat /\ Cardinality(In(y, n)) \in Nat
       /\ Cardinality(In(z, n)) \in Nat /\ Cardinality(In(user', n)) \in Nat
  BY <1>2, <1>6, <1>7, <1>8, FS_CardinalityType
<1> QED BY <1>2, <1>6, <1>7, <1>8, <1>9, <1>10

LEMMA NewInfixCounts ==
  ASSUME TypeOK, Counted, NEW h \in Handle, NEW m \in Node, NEW l \in Handle, NEW r \in Handle,
         NEW movedL \in BOOLEAN, NEW movedR \in BOOLEAN, NewInfix(h, m, l, r, movedL, movedR)
  PROVE  TypeOK' /\ Counted'
<1> DEFINE children == <<user[l], user[r]>>
           Kept(x, moved, n) == IF moved THEN 0 ELSE Is(user[x], n)
<1>1. /\ Allocate(m, "infix", children) /\ Running /\ Holds(l) /\ Holds(r)
      /\ assign = Null /\ assign' = Null /\ user[l] \in Node /\ user[r] \in Node
      /\ UNCHANGED <<args, keys, todo, assign>>
  BY DEF NewInfix, Running, Holds
<1>2. children \in Seq(Node) /\ \A n \in Node : Occ(children, n) = Is(user[l], n) + Is(user[r], n)
  <2>1. <<user[l]>> \in Seq(Node) /\ <<user[r]>> \in Seq(Node) /\ children = <<user[l]>> \o <<user[r]>>
    BY <1>1
  <2>2. \A n : Occ(<<user[l]>> \o <<user[r]>>, n) = Occ(<<user[l]>>, n) + Occ(<<user[r]>>, n)
    BY <2>1, OccConcat
  <2> HIDE DEF children
  <2>3. \A n : Occ(children, n) = Occ(<<user[l]>>, n) + Occ(<<user[r]>>, n)
    BY <2>1, <2>2
  <2>4. children \in Seq(Node)
    BY <1>1 DEF children
  <2> QED BY <2>3, <2>4, OccOne
<1> HIDE DEF children
<1>3. \A n \in Node : count'[n] = IF n = m THEN 1 ELSE count[n] + Kept(l, movedL, n) + Kept(r, movedR, n)
  BY DEF NewInfix, Is
<1>4. \A n \in Node : Kept(l, movedL, n) \in {0, 1} /\ Kept(r, movedR, n) \in {0, 1}
                      /\ (user[l] = n => n \in live) /\ (user[r] = n => n \in live)
  <2>1. \A x \in Handle : ~Stale(x)
    BY <1>1 DEF Stale
  <2> QED BY <2>1, InUse, NotInUse
<1> HIDE DEF Kept
<1>5. TypeOK'
  <2>1. count' \in [Node -> Nat]
    <3>1. \A n \in Node : count[n] \in Nat
      BY DEF TypeOK
    <3>2. \A n \in Node : count'[n] \in Nat
      BY <1>3, <1>4, <3>1
    <3>3. count' = [n \in Node |-> count'[n]]
      BY DEF NewInfix
    <3> QED BY <3>2, <3>3
  <2>2. user' \in [Handle -> Node \union {Null, NoObject}]
    BY DEF NewInfix, TypeOK
  <2> QED BY <1>1, <1>2, <2>1, <2>2, AllocateType DEF TypeOK
<1>6. ASSUME NEW n \in Node
      PROVE  /\ IsFiniteSet(Users(n)') /\ IsFiniteSet(KidRefs(n)')
             /\ count'[n] = Total(n)' /\ (n \in live' <=> count'[n] > 0)
  <2>1. Pledged(n) = 0 /\ Pledged(n)' = 0
    BY <1>1, Settling
  <2>2. IsFiniteSet(Users(n)') /\ Cardinality(Users(n)') \in Nat
        /\ Cardinality(Users(n)') + Is(user[l], n) + Is(user[r], n)
             = Cardinality(Users(n)) + Kept(l, movedL, n) + Kept(r, movedR, n) + Is(m, n)
    BY NewInfixUsers DEF Kept
  <2>3. IsFiniteSet(KidRefs(n)')
        /\ Cardinality(KidRefs(n)') = Cardinality(KidRefs(n)) + (Is(user[l], n) + Is(user[r], n))
    BY <1>1, <1>2, AllocateRefs
  <2>4. Total(n)' = Total(n) + Kept(l, movedL, n) + Kept(r, movedR, n) + Is(m, n)
    <3>1. Occ(args', n) = Occ(args, n) /\ Occ(keys', n) = Occ(keys, n) /\ Occ(todo', n) = Occ(todo, n)
          /\ Is(m, n) \in {0, 1} /\ Is(user[l], n) \in {0, 1} /\ Is(user[r], n) \in {0, 1}
      BY <1>1, NotInUse
    <3>2. /\ Cardinality(Users(n)) \in Nat /\ Cardinality(KidRefs(n)) \in Nat
          /\ Occ(args, n) \in Nat /\ Occ(keys, n) \in Nat /\ Occ(todo, n) \in Nat
      BY PartTypes
    <3>3. Total(n)' = Cardinality(Users(n)') + (Cardinality(KidRefs(n)) + (Is(user[l], n) + Is(user[r], n)))
                        + Occ(args, n) + Occ(keys, n) + Occ(todo, n) + 0
      BY <2>1, <2>3, <3>1, Totals
    <3>4. Total(n) = Cardinality(Users(n)) + Cardinality(KidRefs(n))
                        + Occ(args, n) + Occ(keys, n) + Occ(todo, n) + 0
      BY <2>1, Totals
    <3> QED BY <1>4, <2>2, <3>1, <3>2, <3>3, <3>4
  <2>5. m \notin live /\ live' = live \union {m} /\ count[m] = 0
    <3>1. m \notin live /\ live' = live \union {m}
      BY <1>1, <1>2, AllocateType
    <3>2. (m \in live <=> count[m] > 0) /\ count[m] \in Nat
      BY PartTypes
    <3> QED BY <3>1, <3>2
  <2>6. CASE n = m
    <3>1. Kept(l, movedL, n) = 0 /\ Kept(r, movedR, n) = 0
      BY <1>4, <2>5, <2>6, NotInUse DEF Kept
    <3> QED BY <1>3, <2>2, <2>3, <2>4, <2>5, <2>6, <3>1, NotInUse, PartTypes
  <2>7. CASE n # m
    <3>1. Kept(l, movedL, n) + Kept(r, movedR, n) > 0 => n \in live
      BY <1>4, NotInUse DEF Kept
    <3> QED BY <1>3, <1>4, <2>2, <2>3, <2>4, <2>5, <2>7, <3>1, NotInUse, PartTypes
  <2> QED BY <2>6, <2>7
<1> QED BY <1>5, <1>6, CountedNext

(* A step that leaves the nodes where they are. *)
LEMMA SameHeap ==
  ASSUME TypeOK, Counted, UNCHANGED heap, NEW n \in Node
  PROVE  /\ IsFiniteSet(KidRefs(n)') /\ Cardinality(KidRefs(n)') = Cardinality(KidRefs(n))
         /\ live' = live /\ kids' = kids
<1>1. IsFiniteSet(KidRefs(n)) /\ live' = live /\ kids' = kids
  BY DEF heap, Counted
<1> QED BY <1>1, SameRefs

LEMMA PushCounts ==
  ASSUME TypeOK, Counted, NEW h \in Handle, NEW moved \in BOOLEAN, Push(h, moved)
  PROVE  TypeOK' /\ Counted'
<1>1. /\ Running /\ assign = Null /\ assign' = Null /\ user[h] \in Node
      /\ args' = args \o <<user[h]>> /\ <<user[h]>> \in Seq(Node) /\ args \in Seq(Node)
      /\ count' = Taken(h, moved) /\ user' = [user EXCEPT ![h] = After(h, moved)]
      /\ UNCHANGED heap /\ UNCHANGED <<keys, todo, assign>>
  BY DEF Push, Running, Holds, TypeOK
<1>2. TypeOK'
  <2>1. Taken(h, moved) \in [Node -> Nat]
    BY <1>1, TakenCount
  <2>2. After(h, moved) \in Node \union {Null, NoObject}
    BY <1>1 DEF After
  <2> QED BY <1>1, <2>1, <2>2 DEF TypeOK, heap
<1>3. ASSUME NEW n \in Node
      PROVE  /\ IsFiniteSet(Users(n)') /\ IsFiniteSet(KidRefs(n)')
             /\ count'[n] = Total(n)' /\ (n \in live' <=> count'[n] > 0)
  <2>1. Pledged(n) = 0 /\ Pledged(n)' = 0
    BY <1>1, Settling
  <2>2. IsFiniteSet(Users(n)') /\ Cardinality(Users(n)') \in Nat
        /\ Cardinality(Users(n)') + Is(user[h], n) = Cardinality(Users(n)) + Is(After(h, moved), n)
    <3>1. Assigned(h, After(h, moved), h, After(h, moved))
      BY <1>1, AssignedUser
    <3> QED BY <1>1, <3>1, RunningUsers
  <2>3. Is(After(h, moved), n) = (IF moved THEN 0 ELSE Is(user[h], n)) /\ Is(user[h], n) \in {0, 1}
    BY NotInUse DEF After
  <2>4. Occ(args', n) = Occ(args, n) + Is(user[h], n)
        /\ Occ(keys', n) = Occ(keys, n) /\ Occ(todo', n) = Occ(todo, n)
    <3>1. Occ(args \o <<user[h]>>, n) = Occ(args, n) + Occ(<<user[h]>>, n)
      BY <1>1, OccConcat
    <3> QED BY <1>1, <3>1, OccOne
  <2>5. IsFiniteSet(KidRefs(n)') /\ Cardinality(KidRefs(n)') = Cardinality(KidRefs(n)) /\ live' = live
    BY <1>1, SameHeap
  <2>6. Total(n)' = Total(n) + (IF moved THEN 0 ELSE Is(user[h], n))
    <3>1. /\ Cardinality(Users(n)) \in Nat /\ Cardinality(KidRefs(n)) \in Nat
          /\ Occ(args, n) \in Nat /\ Occ(keys, n) \in Nat /\ Occ(todo, n) \in Nat
      BY PartTypes
    <3>2. Total(n)' = Cardinality(Users(n)') + Cardinality(KidRefs(n))
                        + (Occ(args, n) + Is(user[h], n)) + Occ(keys, n) + Occ(todo, n) + 0
      BY <2>1, <2>4, <2>5, Totals
    <3>3. Total(n) = Cardinality(Users(n)) + Cardinality(KidRefs(n))
                        + Occ(args, n) + Occ(keys, n) + Occ(todo, n) + 0
      BY <2>1, Totals
    <3> QED BY <2>2, <2>3, <3>1, <3>2, <3>3
  <2>7. /\ Taken(h, moved)[n] = count[n] + (IF moved THEN 0 ELSE Is(user[h], n))
        /\ (Taken(h, moved)[n] > 0 <=> n \in live) /\ count[n] = Total(n)
    BY <1>1, TakenCount, PartTypes
  <2> QED BY <1>1, <2>2, <2>5, <2>6, <2>7
<1> QED BY <1>2, <1>3, CountedNext

LEMMA ConstructCounts ==
  ASSUME TypeOK, Counted, NEW h \in Handle, NEW s \in Handle, NEW moved \in BOOLEAN,
         Construct(h, s, moved)
  PROVE  TypeOK' /\ Counted'
<1>1. /\ Running /\ assign = Null /\ assign' = Null /\ user[h] = NoObject /\ h # s
      /\ user[s] \in Node \union {Null, NoObject}
      /\ count' = Taken(s, moved) /\ user' = [user EXCEPT ![h] = user[s], ![s] = After(s, moved)]
      /\ UNCHANGED heap /\ UNCHANGED <<args, keys, todo, assign>>
  BY DEF Construct, Running, TypeOK
<1>2. TypeOK'
  <2>1. Taken(s, moved) \in [Node -> Nat]
    BY <1>1, TakenCount
  <2>2. After(s, moved) \in Node \union {Null, NoObject}
    BY <1>1 DEF After
  <2> QED BY <1>1, <2>1, <2>2 DEF TypeOK, heap
<1>3. ASSUME NEW n \in Node
      PROVE  /\ IsFiniteSet(Users(n)') /\ IsFiniteSet(KidRefs(n)')
             /\ count'[n] = Total(n)' /\ (n \in live' <=> count'[n] > 0)
  <2>1. Pledged(n) = 0 /\ Pledged(n)' = 0
    BY <1>1, Settling
  <2>2. IsFiniteSet(Users(n)') /\ Cardinality(Users(n)') \in Nat
        /\ Cardinality(Users(n)') + Is(NoObject, n) + Is(user[s], n)
             = Cardinality(Users(n)) + Is(user[s], n) + Is(After(s, moved), n)
    <3>1. Assigned(h, user[s], s, After(s, moved))
      BY <1>1, AssignedUser
    <3> QED BY <1>1, <3>1, RunningUsers
  <2>3. /\ Is(After(s, moved), n) = (IF moved THEN 0 ELSE Is(user[s], n))
        /\ Is(user[s], n) \in {0, 1} /\ Is(NoObject, n) = 0
    BY NotInUse DEF After
  <2>4. Occ(args', n) = Occ(args, n) /\ Occ(keys', n) = Occ(keys, n) /\ Occ(todo', n) = Occ(todo, n)
    BY <1>1
  <2>5. IsFiniteSet(KidRefs(n)') /\ Cardinality(KidRefs(n)') = Cardinality(KidRefs(n)) /\ live' = live
    BY <1>1, SameHeap
  <2>6. Total(n)' = Total(n) + (IF moved THEN 0 ELSE Is(user[s], n))
    <3>1. /\ Cardinality(Users(n)) \in Nat /\ Cardinality(KidRefs(n)) \in Nat
          /\ Occ(args, n) \in Nat /\ Occ(keys, n) \in Nat /\ Occ(todo, n) \in Nat
      BY PartTypes
    <3>2. Total(n)' = Cardinality(Users(n)') + Cardinality(KidRefs(n))
                        + Occ(args, n) + Occ(keys, n) + Occ(todo, n) + 0
      BY <2>1, <2>4, <2>5, Totals
    <3>3. Total(n) = Cardinality(Users(n)) + Cardinality(KidRefs(n))
                        + Occ(args, n) + Occ(keys, n) + Occ(todo, n) + 0
      BY <2>1, Totals
    <3> QED BY <2>2, <2>3, <3>1, <3>2, <3>3
  <2>7. /\ Taken(s, moved)[n] = count[n] + (IF moved THEN 0 ELSE Is(user[s], n))
        /\ (Taken(s, moved)[n] > 0 <=> n \in live) /\ count[n] = Total(n)
    BY <1>1, TakenCount, PartTypes
  <2> QED BY <1>1, <2>2, <2>5, <2>6, <2>7
<1> QED BY <1>2, <1>3, CountedNext

LEMMA StartAssignCounts ==
  ASSUME TypeOK, Counted, NEW h \in Handle, NEW s \in Handle, NEW moved \in BOOLEAN,
         StartAssign(h, s, moved)
  PROVE  TypeOK' /\ Counted'
<1>1. /\ Running /\ assign = Null /\ todo = <<>>
      /\ assign' = [to |-> h, from |-> s, moved |-> moved]
      /\ assign' \in Assignments /\ assign' # Null
      /\ count' = Taken(s, moved) /\ todo' = Ref(user[h])
      /\ UNCHANGED heap /\ UNCHANGED <<user, args, keys>>
  BY NodeAssumption DEF StartAssign, Running, Assignments
<1>2. TypeOK'
  <2>1. Taken(s, moved) \in [Node -> Nat]
    BY <1>1, TakenCount
  <2>2. Ref(user[h]) \in Seq(Node)
    BY RefType
  <2> QED BY <1>1, <2>1, <2>2 DEF TypeOK, heap
<1>3. ASSUME NEW n \in Node
      PROVE  /\ IsFiniteSet(Users(n)') /\ IsFiniteSet(KidRefs(n)')
             /\ count'[n] = Total(n)' /\ (n \in live' <=> count'[n] > 0)
  <2>1. Pledged(n) = 0 /\ Pledged(n)' = IF moved THEN 0 ELSE Is(user[s], n)
    BY <1>1, Settling DEF Pledged, Promised, Is
  <2>2. IsFiniteSet(Users(n)') /\ Cardinality(Users(n)') \in Nat
        /\ Cardinality(Users(n)') + Is(user[h], n) = Cardinality(Users(n))
    <3>1. IsFiniteSet(In(user, n)) /\ Users(n) = In(user, n) /\ Cardinality(In(user, n)) \in Nat
      BY <1>1, UsersIn
    <3>2. Users(n)' = In(user, n) \ {h} /\ (h \in In(user, n) <=> user[h] = n)
      BY <1>1 DEF Users, Stale, In
    <3>3. /\ IsFiniteSet(In(user, n) \ {h})
          /\ Cardinality(In(user, n) \ {h})
               = IF h \in In(user, n) THEN Cardinality(In(user, n)) - 1 ELSE Cardinality(In(user, n))
      BY <3>1, FS_RemoveElement
    <3>4. Cardinality(In(user, n) \ {h}) \in Nat
      BY <3>3, FS_CardinalityType
    <3> QED BY <3>1, <3>2, <3>3, <3>4 DEF Is
  <2>3. /\ Is(user[s], n) \in {0, 1} /\ Is(user[h], n) \in {0, 1}
        /\ Occ(todo, n) = 0 /\ Occ(todo', n) = Is(user[h], n)
        /\ Occ(args', n) = Occ(args, n) /\ Occ(keys', n) = Occ(keys, n)
    BY <1>1, NotInUse, OccEmpty
  <2>4. IsFiniteSet(KidRefs(n)') /\ Cardinality(KidRefs(n)') = Cardinality(KidRefs(n)) /\ live' = live
    BY <1>1, SameHeap
  <2>5. Total(n)' = Total(n) + (IF moved THEN 0 ELSE Is(user[s], n))
    <3>1. /\ Cardinality(Users(n)) \in Nat /\ Cardinality(KidRefs(n)) \in Nat
          /\ Occ(args, n) \in Nat /\ Occ(keys, n) \in Nat
      BY PartTypes
    <3>2. Total(n)' = Cardinality(Users(n)') + Cardinality(KidRefs(n)) + Occ(args, n) + Occ(keys, n)
                        + Is(user[h], n) + (IF moved THEN 0 ELSE Is(user[s], n))
      BY <2>1, <2>3, <2>4, Totals
    <3>3. Total(n) = Cardinality(Users(n)) + Cardinality(KidRefs(n))
                        + Occ(args, n) + Occ(keys, n) + 0 + 0
      BY <2>1, <2>3, Totals
    <3> QED BY <2>2, <2>3, <3>1, <3>2, <3>3
  <2>6. /\ Taken(s, moved)[n] = count[n] + (IF moved THEN 0 ELSE Is(user[s], n))
        /\ (Taken(s, moved)[n] > 0 <=> n \in live) /\ count[n] = Total(n)
    BY <1>1, TakenCount, PartTypes
  <2> QED BY <1>1, <2>2, <2>4, <2>5, <2>6
<1> QED BY <1>2, <1>3, CountedNext

(* A step that only moves references about. *)
LEMMA MovesAbout ==
  ASSUME TypeOK, Counted, TypeOK', UNCHANGED heap, count' = count,
         \A n \in Node : IsFiniteSet(Users(n)') /\ Total(n)' = Total(n)
  PROVE  Counted'
<1>1. ASSUME NEW n \in Node
      PROVE  /\ IsFiniteSet(Users(n)') /\ IsFiniteSet(KidRefs(n)')
             /\ count'[n] = Total(n)' /\ (n \in live' <=> count'[n] > 0)
  <2>1. count[n] = Total(n) /\ (n \in live <=> count[n] > 0)
    BY PartTypes
  <2> QED BY <2>1, SameHeap
<1> QED BY <1>1, CountedNext

LEMMA FinishAssignCounts ==
  ASSUME TypeOK, Counted, FinishAssign
  PROVE  TypeOK' /\ Counted'
<1>1. /\ todo = <<>> /\ assign # Null /\ assign' = Null
      /\ assign.to \in Handle /\ assign.from \in Handle /\ assign.moved \in BOOLEAN
      /\ user' = [user EXCEPT ![assign.to] = user[assign.from],
                              ![assign.from] = IF assign.moved THEN Null ELSE @]
      /\ UNCHANGED heap /\ UNCHANGED <<count, args, keys, todo>>
  BY DEF FinishAssign, TypeOK, Assignments
<1>2. TypeOK'
  BY <1>1 DEF TypeOK, heap
<1>3. PICK a, b, v, w :
        /\ a \in Handle /\ a = assign.to
        /\ b \in Handle /\ b = assign.from
        /\ v = user[assign.from] /\ w = IF assign.moved THEN Null ELSE user[assign.from]
  BY <1>1
<1>4. Assigned(a, v, b, w)
  BY <1>1, <1>3 DEF TypeOK, Assigned
<1>5. ASSUME NEW n \in Node PROVE IsFiniteSet(Users(n)') /\ Total(n)' = Total(n)
  <2>1. Pledged(n)' = 0 /\ Pledged(n) = Is(w, n) /\ Is(w, n) \in {0, 1}
    <3>1. Pledged(n)' = 0 /\ Is(w, n) \in {0, 1} /\ Is(Null, n) = 0
      BY <1>1, Settling, NotInUse
    <3>2. Pledged(n) = Is(w, n)
      BY <1>1, <1>3, <3>1 DEF Pledged, Promised, Is
    <3> QED BY <3>1, <3>2
  <2>2. /\ IsFiniteSet(In(user, n)) /\ Cardinality(In(user, n)) = Cardinality(Users(n)) + Is(user[a], n)
        /\ Users(n)' = In(user', n)
    BY <1>1, <1>3, UsersIn, Settling
  <2>3. /\ IsFiniteSet(In(user', n)) /\ Cardinality(In(user', n)) \in Nat
        /\ a # b => Cardinality(In(user', n)) + Is(user[a], n) + Is(user[b], n)
                      = Cardinality(In(user, n)) + Is(v, n) + Is(w, n)
        /\ a = b => Cardinality(In(user', n)) + Is(user[a], n) = Cardinality(In(user, n)) + Is(w, n)
    <3>1. IsFiniteSet(In(user, n))
      BY UsersIn
    <3>2. a \in Handle /\ b \in Handle
      BY <1>3
    <3> QED BY <1>4, <3>1, <3>2, TwoUsers
  <2>4. /\ Cardinality(Users(n)) \in Nat /\ Cardinality(KidRefs(n)) \in Nat
        /\ Occ(args, n) \in Nat /\ Occ(keys, n) \in Nat /\ Occ(todo, n) \in Nat
        /\ Is(user[a], n) \in {0, 1} /\ Is(user[b], n) \in {0, 1}
    BY PartTypes, NotInUse
  <2>5. Cardinality(Users(n)') = Cardinality(Users(n)) + Is(w, n)
    BY <1>3, <2>1, <2>2, <2>3, <2>4
  <2>6. Cardinality(KidRefs(n)') = Cardinality(KidRefs(n)) /\ Occ(args', n) = Occ(args, n)
        /\ Occ(keys', n) = Occ(keys, n) /\ Occ(todo', n) = Occ(todo, n)
    BY <1>1, SameHeap
  <2>7. Total(n)' = (Cardinality(Users(n)) + Is(w, n)) + Cardinality(KidRefs(n))
                      + Occ(args, n) + Occ(keys, n) + Occ(todo, n) + 0
    BY <2>1, <2>5, <2>6, Totals
  <2>8. Total(n) = Cardinality(Users(n)) + Cardinality(KidRefs(n))
                      + Occ(args, n) + Occ(keys, n) + Occ(todo, n) + Is(w, n)
    BY <2>1, Totals
  <2> QED BY <2>1, <2>2, <2>3, <2>4, <2>7, <2>8
<1> QED BY <1>1, <1>2, <1>5, MovesAbout

LEMMA SwapCounts ==
  ASSUME TypeOK, Counted, NEW a \in Handle, NEW b \in Handle, Swap(a, b)
  PROVE  TypeOK' /\ Counted'
<1>1. /\ assign = Null /\ assign' = Null
      /\ user' = [user EXCEPT ![a] = user[b], ![b] = user[a]]
      /\ UNCHANGED heap /\ UNCHANGED <<count, args, keys, todo, assign>>
  BY DEF Swap, Running
<1>2. TypeOK'
  BY <1>1 DEF TypeOK, heap
<1>3. ASSUME NEW n \in Node PROVE IsFiniteSet(Users(n)') /\ Total(n)' = Total(n)
  <2>1. Pledged(n) = 0 /\ Pledged(n)' = 0
    BY <1>1, Settling
  <2>2. /\ IsFiniteSet(Users(n)') /\ Cardinality(Users(n)') \in Nat
        /\ a # b => Cardinality(Users(n)') + Is(user[a], n) + Is(user[b], n)
                      = Cardinality(Users(n)) + Is(user[b], n) + Is(user[a], n)
        /\ a = b => Cardinality(Users(n)') + Is(user[a], n) = Cardinality(Users(n)) + Is(user[a], n)
    <3>1. Assigned(a, user[b], b, user[a])
      BY <1>1, AssignedUser
    <3> QED BY <1>1, <3>1, RunningUsers
  <2>3. Cardinality(Users(n)') = Cardinality(Users(n))
    BY <2>2, NotInUse, PartTypes
  <2>4. Cardinality(KidRefs(n)') = Cardinality(KidRefs(n)) /\ Occ(args', n) = Occ(args, n)
        /\ Occ(keys', n) = Occ(keys, n) /\ Occ(todo', n) = Occ(todo, n)
    BY <1>1, SameHeap
  <2> QED BY <2>1, <2>2, <2>3, <2>4, Totals
<1> QED BY <1>1, <1>2, <1>3, MovesAbout

LEMMA DestroyCounts ==
  ASSUME TypeOK, Counted, NEW h \in Handle, Destroy(h)
  PROVE  TypeOK' /\ Counted'
<1>1. /\ assign = Null /\ assign' = Null /\ todo = <<>> /\ todo' = Ref(user[h])
      /\ user' = [user EXCEPT ![h] = NoObject]
      /\ UNCHANGED heap /\ UNCHANGED <<count, args, keys, assign>>
  BY DEF Destroy, Running
<1>2. TypeOK'
  <2>1. Ref(user[h]) \in Seq(Node)
    BY RefType
  <2> QED BY <1>1, <2>1 DEF TypeOK, heap
<1>3. ASSUME NEW n \in Node PROVE IsFiniteSet(Users(n)') /\ Total(n)' = Total(n)
  <2>1. Pledged(n) = 0 /\ Pledged(n)' = 0
    BY <1>1, Settling
  <2>2. /\ IsFiniteSet(Users(n)') /\ Cardinality(Users(n)') \in Nat
        /\ Cardinality(Users(n)') + Is(user[h], n) = Cardinality(Users(n)) + Is(NoObject, n)
    <3>1. Assigned(h, NoObject, h, NoObject)
      BY <1>1, AssignedUser
    <3> QED BY <1>1, <3>1, RunningUsers
  <2>3. Occ(todo, n) = 0 /\ Occ(todo', n) = Is(user[h], n) /\ Is(user[h], n) \in {0, 1}
        /\ Is(NoObject, n) = 0
    BY <1>1, NotInUse, OccEmpty
  <2>4. Cardinality(KidRefs(n)') = Cardinality(KidRefs(n)) /\ Occ(args', n) = Occ(args, n)
        /\ Occ(keys', n) = Occ(keys, n)
    BY <1>1, SameHeap
  <2>5. /\ Cardinality(Users(n)) \in Nat /\ Cardinality(KidRefs(n)) \in Nat
        /\ Occ(args, n) \in Nat /\ Occ(keys, n) \in Nat
    BY PartTypes
  <2>6. Total(n)' = Cardinality(Users(n)') + Cardinality(KidRefs(n))
                      + Occ(args, n) + Occ(keys, n) + Is(user[h], n) + 0
    BY <2>1, <2>3, <2>4, Totals
  <2>7. Total(n) = Cardinality(Users(n)) + Cardinality(KidRefs(n)) + Occ(args, n) + Occ(keys, n) + 0 + 0
    BY <2>1, <2>3, Totals
  <2> QED BY <2>2, <2>3, <2>5, <2>6, <2>7
<1> QED BY <1>1, <1>2, <1>3, MovesAbout

(* What a call does to the sequence of the keys, and to the expressions it *)
(* was given.                                                              *)
LEMMA KeyCounts ==
  ASSUME TypeOK, Counted, KeepKey \/ DropKey
  PROVE  TypeOK' /\ Counted'
<1>1. /\ assign = Null /\ assign' = Null /\ todo = <<>> /\ args' = <<>> /\ <<>> \in Seq(Node)
      /\ UNCHANGED heap /\ UNCHANGED <<count, user>>
      /\ args \in Seq(Node) /\ keys \in Seq(Node)
      /\ \/ keys' = keys \o args /\ todo' = todo
         \/ keys' = keys /\ todo' = args
  BY DEF KeepKey, DropKey, Running, TypeOK
<1>2. keys' \in Seq(Node) /\ todo' \in Seq(Node)
  <2>1. keys \o args \in Seq(Node)
    BY <1>1
  <2> QED BY <1>1, <2>1
<1>3. TypeOK'
  BY <1>1, <1>2 DEF TypeOK, heap
<1>4. ASSUME NEW n \in Node PROVE IsFiniteSet(Users(n)') /\ Total(n)' = Total(n)
  <2>1. Pledged(n) = 0 /\ Pledged(n)' = 0
    BY <1>1, Settling
  <2>2. IsFiniteSet(Users(n)') /\ Users(n)' = Users(n)
    BY <1>1, UsersIn, Settling
  <2>3. Cardinality(KidRefs(n)') = Cardinality(KidRefs(n))
    BY <1>1, SameHeap
  <2>4. /\ Cardinality(Users(n)) \in Nat /\ Cardinality(KidRefs(n)) \in Nat
        /\ Occ(args, n) \in Nat /\ Occ(keys, n) \in Nat
    BY PartTypes
  <2>5. Occ(args', n) = 0 /\ Occ(todo, n) = 0
    BY <1>1, OccEmpty
  <2>6. Occ(keys', n) + Occ(todo', n) = Occ(keys, n) + Occ(args, n)
    <3>1. Occ(keys \o args, n) = Occ(keys, n) + Occ(args, n)
      BY <1>1, OccConcat
    <3>2. CASE keys' = keys \o args /\ todo' = todo
      BY <2>4, <2>5, <3>1, <3>2
    <3>3. CASE keys' = keys /\ todo' = args
      BY <3>3
    <3> QED BY <1>1, <3>2, <3>3
  <2>7. Occ(keys', n) \in Nat /\ Occ(todo', n) \in Nat
    BY <1>2, OccType
  <2>8. Total(n)' = Cardinality(Users(n)) + Cardinality(KidRefs(n))
                      + 0 + Occ(keys', n) + Occ(todo', n) + 0
    BY <2>1, <2>2, <2>3, <2>5, Totals
  <2>9. Total(n) = Cardinality(Users(n)) + Cardinality(KidRefs(n)) + Occ(args, n) + Occ(keys, n) + 0 + 0
    BY <2>1, <2>5, Totals
  <2> QED BY <2>2, <2>4, <2>6, <2>7, <2>8, <2>9
<1> QED BY <1>1, <1>3, <1>4, MovesAbout

(* The next handle is destroyed: its node loses one reference, and if it   *)
(* was the last, the references of the node go to todo.                    *)
LEMMA ReleaseCounts ==
  ASSUME TypeOK, Counted, Release
  PROVE  TypeOK' /\ Counted'
<1>1. /\ todo # <<>> /\ todo \in Seq(Node) /\ UNCHANGED <<user, args, keys, assign>>
      /\ count \in [Node -> Nat] /\ kids \in [Node -> Seq(Node)] /\ live \subseteq Node
  BY DEF Release, TypeOK
<1>2. PICK m \in Node : m = Head(todo)
  BY <1>1, OccTail
<1>3. Tail(todo) \in Seq(Node) /\ \A n : Occ(todo, n) = Is(m, n) + Occ(Tail(todo), n)
  BY <1>1, <1>2, OccTail
<1>4. \A n : Occ(Tail(todo), n) \in Nat
  BY <1>3, OccType
<1>5. count[m] \in Nat /\ count[m] > 0 /\ m \in live
  <2>1. Occ(todo, m) > 0
    BY <1>3, <1>4, NotInUse
  <2> QED BY <2>1, InUse, PartTypes
<1>6. \A n : Users(n)' = Users(n) /\ Pledged(n)' = Pledged(n)
             /\ Occ(args', n) = Occ(args, n) /\ Occ(keys', n) = Occ(keys, n)
  BY <1>1 DEF Users, Stale, Pledged, Promised
<1>7. \A n \in Node : count'[n] = count[n] - Is(m, n)
  BY <1>1, <1>2, <1>5 DEF Release, Is
<1>8. CASE count[m] = 1
  <2>1. /\ live' = live \ {m} /\ kids' = [kids EXCEPT ![m] = <<>>] /\ count' = [count EXCEPT ![m] = 0]
        /\ todo' = Reverse(kids[m]) \o Tail(todo)
    BY <1>2, <1>8 DEF Release, Members
  <2>2. Reverse(kids[m]) \in Seq(Node) /\ kids[m] \in Seq(Node)
        /\ \A n : Occ(Reverse(kids[m]), n) = Occ(kids[m], n)
    BY <1>1, OccReverse
  <2>3. todo' \in Seq(Node) /\ \A n : Occ(todo', n) = Occ(kids[m], n) + Occ(Tail(todo), n)
    <3>1. \A n : Occ(Reverse(kids[m]) \o Tail(todo), n) = Occ(Reverse(kids[m]), n) + Occ(Tail(todo), n)
      BY <1>3, <2>2, OccConcat
    <3> QED BY <1>3, <2>1, <2>2, <3>1
  <2>4. TypeOK'
    BY <1>1, <2>1, <2>3 DEF TypeOK
  <2>5. ASSUME NEW n \in Node
        PROVE  /\ IsFiniteSet(Users(n)') /\ IsFiniteSet(KidRefs(n)')
               /\ count'[n] = Total(n)' /\ (n \in live' <=> count'[n] > 0)
    <3>1. IsFiniteSet(Users(n)') /\ Users(n)' = Users(n)
      BY <1>6 DEF Counted
    <3>2. IsFiniteSet(KidRefs(n)') /\ Cardinality(KidRefs(n)) = Cardinality(KidRefs(n)') + Occ(kids[m], n)
      BY <1>5, <2>1, ReleaseRefs
    <3>3. /\ Cardinality(Users(n)) \in Nat /\ Cardinality(KidRefs(n)') \in Nat
          /\ Occ(args, n) \in Nat /\ Occ(keys, n) \in Nat /\ Occ(Tail(todo), n) \in Nat
          /\ Occ(kids[m], n) \in Nat /\ Pledged(n) \in {0, 1} /\ Is(m, n) \in {0, 1}
      BY <1>4, <2>2, <3>2, PartTypes, OccType, FS_CardinalityType, NotInUse
    <3>4. Total(n)' = Cardinality(Users(n)) + Cardinality(KidRefs(n)')
                        + Occ(args, n) + Occ(keys, n) + (Occ(kids[m], n) + Occ(Tail(todo), n)) + Pledged(n)
      BY <1>6, <2>3, <3>1, Totals
    <3>5. Total(n) = Cardinality(Users(n)) + (Cardinality(KidRefs(n)') + Occ(kids[m], n))
                        + Occ(args, n) + Occ(keys, n) + (Is(m, n) + Occ(Tail(todo), n)) + Pledged(n)
      BY <1>3, <3>2, Totals
    <3>6. Total(n) = Total(n)' + Is(m, n)
      BY <3>3, <3>4, <3>5
    <3>7. count[n] = Total(n) /\ count[n] \in Nat /\ (n \in live <=> count[n] > 0)
      BY PartTypes
    <3>8. Total(n)' \in Nat
      BY <3>3, <3>4
    <3>9. count'[n] = Total(n)'
      BY <1>7, <3>3, <3>6, <3>7, <3>8
    <3>10. n \in live' <=> count'[n] > 0
      BY <1>1, <2>1, <3>7
    <3> QED BY <3>1, <3>2, <3>9, <3>10
  <2> QED BY <2>4, <2>5, CountedNext
<1>9. CASE count[m] # 1
  <2>1. /\ count' = [count EXCEPT ![m] = @ - 1] /\ todo' = Tail(todo) /\ UNCHANGED heap
    BY <1>2, <1>9 DEF Release
  <2>2. TypeOK'
    BY <1>1, <1>3, <1>5, <2>1 DEF TypeOK, heap
  <2>3. ASSUME NEW n \in Node
        PROVE  /\ IsFiniteSet(Users(n)') /\ IsFiniteSet(KidRefs(n)')
               /\ count'[n] = Total(n)' /\ (n \in live' <=> count'[n] > 0)
    <3>1. IsFiniteSet(Users(n)') /\ Users(n)' = Users(n)
      BY <1>6 DEF Counted
    <3>2. IsFiniteSet(KidRefs(n)') /\ Cardinality(KidRefs(n)') = Cardinality(KidRefs(n)) /\ live' = live
      BY <2>1, SameHeap
    <3>3. /\ Cardinality(Users(n)) \in Nat /\ Cardinality(KidRefs(n)) \in Nat
          /\ Occ(args, n) \in Nat /\ Occ(keys, n) \in Nat /\ Occ(Tail(todo), n) \in Nat
          /\ Pledged(n) \in {0, 1} /\ Is(m, n) \in {0, 1}
      BY <1>4, PartTypes, NotInUse
    <3>4. Total(n)' = Cardinality(Users(n)) + Cardinality(KidRefs(n))
                        + Occ(args, n) + Occ(keys, n) + Occ(Tail(todo), n) + Pledged(n)
      BY <1>6, <2>1, <3>1, <3>2, Totals
    <3>5. Total(n) = Cardinality(Users(n)) + Cardinality(KidRefs(n))
                        + Occ(args, n) + Occ(keys, n) + (Is(m, n) + Occ(Tail(todo), n)) + Pledged(n)
      BY <1>3, Totals
    <3>6. Total(n) = Total(n)' + Is(m, n)
      BY <3>3, <3>4, <3>5
    <3>7. count[n] = Total(n) /\ count[n] \in Nat /\ (n \in live <=> count[n] > 0)
      BY PartTypes
    <3>8. Total(n)' \in Nat
      BY <3>3, <3>4
    <3>9. count'[n] = Total(n)'
      BY <1>7, <3>3, <3>6, <3>7, <3>8
    <3>10. n \in live' <=> count'[n] > 0
      BY <1>1, <1>5, <1>9, <2>1, <3>2, <3>7
    <3> QED BY <3>1, <3>2, <3>9, <3>10
  <2> QED BY <2>2, <2>3, CountedNext
<1> QED BY <1>8, <1>9

LEMMA CountsInit == Init => TypeOK /\ Counted
<1> SUFFICES ASSUME Init PROVE TypeOK /\ Counted
  OBVIOUS
<1>1. TypeOK
  BY DEF Init, TypeOK
<1>2. ASSUME NEW n \in Node
      PROVE  IsFiniteSet(Users(n)) /\ IsFiniteSet(KidRefs(n)) /\ count[n] = Total(n) /\ count[n] = 0
  <2>1. Users(n) = {} /\ KidRefs(n) = {} /\ Pledged(n) = 0 /\ count[n] = 0
    BY NodeAssumption DEF Init, Users, KidRefs, Pledged, Promised
  <2>2. Occ(args, n) = 0 /\ Occ(keys, n) = 0 /\ Occ(todo, n) = 0
    BY OccEmpty DEF Init
  <2> QED BY <2>1, <2>2, FS_EmptySet DEF Total
<1>3. live = {}
  BY DEF Init
<1> QED BY <1>1, <1>2, <1>3 DEF Counted

LEMMA CountsKept == TypeOK /\ Counted /\ [Next]_vars => TypeOK' /\ Counted'
<1> SUFFICES ASSUME TypeOK, Counted, [Next]_vars PROVE TypeOK' /\ Counted'
  OBVIOUS
<1>1. ASSUME NEW h \in Handle, NEW n \in Node, NEW l \in Label, NewLeaf(h, n, l)
      PROVE  TypeOK' /\ Counted'
  BY <1>1, NewLeafCounts
<1>2. ASSUME NEW h \in Handle, NEW n \in Node, NEW f \in Handle, NEW moved \in BOOLEAN,
             NewCall(h, n, f, moved)
      PROVE  TypeOK' /\ Counted'
  BY <1>2, NewCallCounts
<1>3. ASSUME NEW h \in Handle, NEW n \in Node, NEW l \in Handle, NEW r \in Handle,
             NEW movedL \in BOOLEAN, NEW movedR \in BOOLEAN, NewInfix(h, n, l, r, movedL, movedR)
      PROVE  TypeOK' /\ Counted'
  BY <1>3, NewInfixCounts
<1>4. ASSUME NEW h \in Handle, NEW moved \in BOOLEAN, Push(h, moved)
      PROVE  TypeOK' /\ Counted'
  BY <1>4, PushCounts
<1>5. ASSUME NEW h \in Handle, NEW s \in Handle, NEW moved \in BOOLEAN, Construct(h, s, moved)
      PROVE  TypeOK' /\ Counted'
  BY <1>5, ConstructCounts
<1>6. ASSUME NEW h \in Handle, NEW s \in Handle, NEW moved \in BOOLEAN, StartAssign(h, s, moved)
      PROVE  TypeOK' /\ Counted'
  BY <1>6, StartAssignCounts
<1>7. ASSUME NEW h \in Handle, NEW b \in Handle, Swap(h, b)
      PROVE  TypeOK' /\ Counted'
  BY <1>7, SwapCounts
<1>8. ASSUME NEW h \in Handle, Destroy(h)
      PROVE  TypeOK' /\ Counted'
  BY <1>8, DestroyCounts
<1>9. CASE FinishAssign
  BY <1>9, FinishAssignCounts
<1>10. CASE Release
  BY <1>10, ReleaseCounts
<1>11. CASE KeepKey \/ DropKey
  BY <1>11, KeyCounts
<1>12. CASE UNCHANGED vars
  <2>1. UNCHANGED heap /\ UNCHANGED <<count, user, args, keys, todo, assign>>
    BY <1>12 DEF vars
  <2>2. TypeOK'
    BY <2>1 DEF TypeOK, heap
  <2>3. ASSUME NEW n \in Node PROVE IsFiniteSet(Users(n)') /\ Total(n)' = Total(n)
    <3>1. Users(n)' = Users(n) /\ Pledged(n)' = Pledged(n) /\ KidRefs(n)' = KidRefs(n)
          /\ Occ(args', n) = Occ(args, n) /\ Occ(keys', n) = Occ(keys, n) /\ Occ(todo', n) = Occ(todo, n)
      BY <2>1 DEF Users, Stale, Pledged, Promised, KidRefs, heap
    <3>2. IsFiniteSet(Users(n))
      BY DEF Counted
    <3> QED BY <3>1, <3>2, Totals
  <2> QED BY <2>1, <2>2, <2>3, MovesAbout
<1> QED BY <1>1, <1>2, <1>3, <1>4, <1>5, <1>6, <1>7, <1>8, <1>9, <1>10, <1>11, <1>12 DEF Next

-----------------------------------------------------------------------------
(* The handles that refer to a node are as many as its parts add up to.    *)
LEMMA ReferrersSize ==
  ASSUME TypeOK, Counted, NEW n \in Node
  PROVE  IsFiniteSet(Referrers(n)) /\ Cardinality(Referrers(n)) = Total(n)
<1> DEFINE U == {<<"user", h>> : h \in {x \in Handle : user[x] = n /\ ~Stale(x)}}
           A == {<<"args", i>> : i \in At(args, n)}
           K == {<<"keys", i>> : i \in At(keys, n)}
           D == {<<"todo", i>> : i \in At(todo, n)}
           C == UNION {{<<"kids", m, i>> : i \in At(kids[m], n)} : m \in live}
           P == {<<"assign">> : x \in {y \in {assign} : Promised(n)}}
<1>1. Referrers(n) = U \union A \union K \union D \union C \union P
  BY DEF Referrers
<1>2. /\ \A r \in U : r[1] = "user"
      /\ \A r \in A : r[1] = "args"
      /\ \A r \in K : r[1] = "keys"
      /\ \A r \in D : r[1] = "todo"
      /\ \A r \in C : r[1] = "kids"
      /\ \A r \in P : r[1] = "assign"
  OBVIOUS
<1>3. args \in Seq(Node) /\ keys \in Seq(Node) /\ todo \in Seq(Node)
      /\ IsFiniteSet(Users(n)) /\ IsFiniteSet(KidRefs(n))
  BY DEF TypeOK, Counted
<1>4. IsFiniteSet(U) /\ Cardinality(U) = Cardinality(Users(n))
  <2>1. {x \in Handle : user[x] = n /\ ~Stale(x)} = Users(n)
    BY DEF Users
  <2> QED BY <1>3, <2>1, PairSize, ZenonT(40)
<1>5. IsFiniteSet(A) /\ Cardinality(A) = Occ(args, n)
  BY <1>3, OccType, PairSize DEF Occ
<1>6. IsFiniteSet(K) /\ Cardinality(K) = Occ(keys, n)
  BY <1>3, OccType, PairSize DEF Occ
<1>7. IsFiniteSet(D) /\ Cardinality(D) = Occ(todo, n)
  BY <1>3, OccType, PairSize DEF Occ
<1>8. IsFiniteSet(C) /\ Cardinality(C) = Cardinality(KidRefs(n))
  <2> DEFINE f == [p \in KidRefs(n) |-> <<"kids", p[1], p[2]>>]
  <2>1. f \in [KidRefs(n) -> C]
    BY DEF KidRefs
  <2>2. \A a, b \in KidRefs(n) : f[a] = f[b] => a = b
    BY DEF KidRefs
  <2>3. \A t \in C : \E p \in KidRefs(n) : f[p] = t
    <3> TAKE t \in C
    <3>1. PICK m \in live : \E i \in At(kids[m], n) : t = <<"kids", m, i>>
      OBVIOUS
    <3>2. PICK i \in At(kids[m], n) : t = <<"kids", m, i>>
      BY <3>1
    <3>3. <<m, i>> \in KidRefs(n)
      BY DEF KidRefs
    <3> QED BY <3>2, <3>3
  <2> HIDE DEF f, C
  <2> QED BY <1>3, <2>1, <2>2, <2>3, SameSize
<1>9. IsFiniteSet(P) /\ Cardinality(P) = Pledged(n)
  <2>1. CASE Promised(n)
    <3>1. P = {<<"assign">>}
      BY <2>1
    <3> QED BY <2>1, <3>1, FS_Singleton DEF Pledged
  <2>2. CASE ~Promised(n)
    <3>1. P = {}
      BY <2>2
    <3> QED BY <2>2, <3>1, FS_EmptySet DEF Pledged
  <2> QED BY <2>1, <2>2
<1> HIDE DEF U, A, K, D, C, P
<1>10. IsFiniteSet(U \union A) /\ Cardinality(U \union A) = Cardinality(U) + Cardinality(A)
  <2>1. U \intersect A = {}
    BY <1>2
  <2> QED BY <1>4, <1>5, <2>1, DisjointSize
<1>11. IsFiniteSet(U \union A \union K)
       /\ Cardinality(U \union A \union K) = Cardinality(U \union A) + Cardinality(K)
  <2>1. (U \union A) \intersect K = {}
    BY <1>2
  <2> QED BY <1>6, <1>10, <2>1, DisjointSize
<1>12. IsFiniteSet(U \union A \union K \union D)
       /\ Cardinality(U \union A \union K \union D) = Cardinality(U \union A \union K) + Cardinality(D)
  <2>1. (U \union A \union K) \intersect D = {}
    BY <1>2
  <2> QED BY <1>7, <1>11, <2>1, DisjointSize
<1>13. IsFiniteSet(U \union A \union K \union D \union C)
       /\ Cardinality(U \union A \union K \union D \union C)
            = Cardinality(U \union A \union K \union D) + Cardinality(C)
  <2>1. (U \union A \union K \union D) \intersect C = {}
    BY <1>2
  <2> QED BY <1>8, <1>12, <2>1, DisjointSize
<1>14. IsFiniteSet(Referrers(n))
       /\ Cardinality(Referrers(n)) = Cardinality(U \union A \union K \union D \union C) + Cardinality(P)
  <2>1. (U \union A \union K \union D \union C) \intersect P = {}
    BY <1>2
  <2> QED BY <1>1, <1>9, <1>13, <2>1, DisjointSize
<1>15. Total(n) = Cardinality(Users(n)) + Cardinality(KidRefs(n))
                    + Occ(args, n) + Occ(keys, n) + Occ(todo, n) + Pledged(n)
  BY DEF Total
<1>16. /\ Cardinality(Users(n)) \in Nat /\ Cardinality(KidRefs(n)) \in Nat
       /\ Occ(args, n) \in Nat /\ Occ(keys, n) \in Nat /\ Occ(todo, n) \in Nat
       /\ Pledged(n) \in {0, 1}
  BY PartTypes
<1> QED BY <1>4, <1>5, <1>6, <1>7, <1>8, <1>9, <1>10, <1>11, <1>12, <1>13, <1>14, <1>15, <1>16

(* The count of a node is the number of handles that refer to it, and a    *)
(* node is there exactly as long as there is one (expr_base.hpp:36-91).    *)
THEOREM CountsAreExact == Spec => []CountIsRefs
<1>1. Init => TypeOK /\ Counted
  BY CountsInit
<1>2. TypeOK /\ Counted /\ [Next]_vars => TypeOK' /\ Counted'
  BY CountsKept
<1>3. TypeOK /\ Counted => CountIsRefs
  <2> SUFFICES ASSUME TypeOK, Counted PROVE CountIsRefs
    OBVIOUS
  <2>1. \A n \in Node : count[n] = Cardinality(Referrers(n))
    BY PartTypes, ReferrersSize
  <2>2. live = {n \in Node : count[n] > 0}
    BY DEF Counted
  <2> QED BY <2>1, <2>2 DEF CountIsRefs
<1> QED BY <1>1, <1>2, <1>3, PTL DEF Spec

-----------------------------------------------------------------------------
(* Nodes refer to nodes that were there before them. *)
LEMMA AcyclicAfterAllocate ==
  ASSUME TypeOK, Counted, Acyclic, NEW m \in Node, NEW l, NEW children \in Seq(Node),
         Allocate(m, l, children), At(children, m) = {}
  PROVE  Acyclic'
<1>1. m \notin live /\ live' = live \union {m} /\ kids' = [kids EXCEPT ![m] = children]
      /\ live \subseteq Node /\ kids \in [Node -> Seq(Node)]
  BY DEF Allocate, TypeOK
<1>2. \A x \in live : At(kids[x], m) = {}
  BY <1>1, InUse
<1>3. /\ kids'[m] = children
      /\ \A x \in live : kids'[x] = kids[x]
  BY <1>1
<1>4. ASSUME NEW S \in (SUBSET live') \ {{}}
      PROVE  \E n \in S : \A x \in S : At(kids'[x], n) = {}
  <2>1. CASE m \in S
    <3>1. \A x \in S : x = m \/ x \in live
      BY <1>1
    <3>2. \A x \in S : At(kids'[x], m) = {}
      BY <1>2, <1>3, <3>1
    <3> QED BY <2>1, <3>2
  <2>2. CASE m \notin S
    <3>1. S \in (SUBSET live) \ {{}}
      BY <1>1, <2>2
    <3>2. PICK n \in S : \A x \in S : At(kids[x], n) = {}
      BY <3>1 DEF Acyclic
    <3>3. \A x \in S : kids'[x] = kids[x]
      BY <1>3, <3>1
    <3> QED BY <3>2, <3>3
  <2> QED BY <2>1, <2>2
<1> QED BY <1>4 DEF Acyclic, At

LEMMA AcyclicAfterRelease ==
  ASSUME Acyclic, live' \subseteq live, \A x \in live' : kids'[x] = kids[x]
  PROVE  Acyclic'
<1>1. ASSUME NEW S \in (SUBSET live') \ {{}}
      PROVE  \E n \in S : \A x \in S : At(kids'[x], n) = {}
  <2>1. S \in (SUBSET live) \ {{}}
    OBVIOUS
  <2>2. PICK n \in S : \A x \in S : At(kids[x], n) = {}
    BY <2>1 DEF Acyclic
  <2> QED BY <2>2
<1> QED BY <1>1 DEF Acyclic, At

(* What a step may do to the nodes. *)
NodeMade ==
  \E m \in Node, children \in Seq(Node) :
    At(children, m) = {} /\ \E l : Allocate(m, l, children)

NodeGone ==
  \E m \in live : /\ live' = live \ {m}
                 /\ kids' = [kids EXCEPT ![m] = <<>>]
                 /\ label' = [label EXCEPT ![m] = Null]

HeapMoves == NodeMade \/ NodeGone \/ UNCHANGED heap

LEMMA HeapStep ==
  ASSUME TypeOK, Counted, [Next]_vars
  PROVE  HeapMoves
<1>1. ASSUME NEW n \in Node, n \notin live
      PROVE  /\ At(<<>>, n) = {} /\ At(args, n) = {}
             /\ \A x \in Handle : ~Stale(x) => user[x] # n
  <2>1. Occ(args, n) = 0 /\ \A x \in Handle : ~Stale(x) => user[x] # n
    BY <1>1, InUse, PartTypes
  <2>2. At(args, n) = {}
    BY <2>1, OccType, FS_EmptySet DEF Occ, TypeOK
  <2> QED BY <2>1, <2>2 DEF At
<1>2. Running => \A x \in Handle : ~Stale(x)
  BY DEF Running, Stale
<1>3. ASSUME NEW h \in Handle, NEW n \in Node, NEW l \in Label, NewLeaf(h, n, l)
      PROVE  HeapMoves
  <2>1. Allocate(n, l, <<>>) /\ n \notin live /\ <<>> \in Seq(Node)
    BY <1>3 DEF NewLeaf, Allocate
  <2> QED BY <1>1, <2>1 DEF HeapMoves, NodeMade
<1>4. ASSUME NEW h \in Handle, NEW n \in Node, NEW f \in Handle, NEW moved \in BOOLEAN,
             NewCall(h, n, f, moved)
      PROVE  HeapMoves
  <2>1. Allocate(n, "call", <<user[f]>> \o args) /\ n \notin live /\ Running /\ user[f] \in Node
        /\ args \in Seq(Node)
    BY <1>4 DEF NewCall, Allocate, Holds, TypeOK
  <2>2. user[f] # n /\ At(args, n) = {}
    BY <1>1, <1>2, <2>1
  <2>3. At(<<user[f]>> \o args, n) = {} /\ <<user[f]>> \o args \in Seq(Node)
    BY <2>1, <2>2 DEF At
  <2> QED BY <2>1, <2>3 DEF HeapMoves, NodeMade
<1>5. ASSUME NEW h \in Handle, NEW n \in Node, NEW l \in Handle, NEW r \in Handle,
             NEW movedL \in BOOLEAN, NEW movedR \in BOOLEAN, NewInfix(h, n, l, r, movedL, movedR)
      PROVE  HeapMoves
  <2>1. Allocate(n, "infix", <<user[l], user[r]>>) /\ n \notin live /\ Running
        /\ user[l] \in Node /\ user[r] \in Node
    BY <1>5 DEF NewInfix, Allocate, Holds
  <2>2. user[l] # n /\ user[r] # n
    BY <1>1, <1>2, <2>1
  <2>3. At(<<user[l], user[r]>>, n) = {} /\ <<user[l], user[r]>> \in Seq(Node)
    BY <2>1, <2>2 DEF At
  <2> QED BY <2>1, <2>3 DEF HeapMoves, NodeMade
<1>6. CASE Release
  <2>1. todo # <<>> /\ Head(todo) \in Node /\ Head(todo) \in live
    <3>1. todo # <<>> /\ todo \in Seq(Node)
      BY <1>6 DEF Release, TypeOK
    <3>2. PICK n \in Node : n = Head(todo)
      BY <3>1
    <3>3. Occ(todo, n) = Is(Head(todo), n) + Occ(Tail(todo), n) /\ Occ(Tail(todo), n) \in Nat
      BY <3>1, OccTail, OccType
    <3>4. Occ(todo, n) > 0
      BY <3>2, <3>3 DEF Is
    <3> QED BY <3>1, <3>2, <3>4, InUse
  <2> QED BY <1>6, <2>1 DEF Release, HeapMoves, NodeGone
<1>9. ASSUME NEW h \in Handle, NEW moved \in BOOLEAN, Push(h, moved) PROVE HeapMoves
  BY <1>9 DEF Push, HeapMoves
<1>10. ASSUME NEW h \in Handle, NEW s \in Handle, NEW moved \in BOOLEAN,
              Construct(h, s, moved) \/ StartAssign(h, s, moved)
       PROVE  HeapMoves
  BY <1>10 DEF HeapMoves, Construct, StartAssign
<1>11. ASSUME NEW h \in Handle, NEW b \in Handle, Swap(h, b) PROVE HeapMoves
  BY <1>11 DEF HeapMoves, Swap
<1>12. ASSUME NEW h \in Handle, Destroy(h) PROVE HeapMoves
  BY <1>12 DEF HeapMoves, Destroy
<1>13. CASE FinishAssign \/ KeepKey \/ DropKey \/ UNCHANGED vars
  BY <1>13 DEF HeapMoves, heap, FinishAssign, KeepKey, DropKey, vars
<1> QED BY <1>3, <1>4, <1>5, <1>6, <1>9, <1>10, <1>11, <1>12, <1>13 DEF Next

LEMMA AcyclicKept == TypeOK /\ Counted /\ Acyclic /\ [Next]_vars => Acyclic'
<1> SUFFICES ASSUME TypeOK, Counted, Acyclic, [Next]_vars PROVE Acyclic'
  OBVIOUS
<1>1. CASE NodeMade
  BY <1>1, AcyclicAfterAllocate DEF NodeMade
<1>2. ASSUME NEW m \in live, live' = live \ {m}, kids' = [kids EXCEPT ![m] = <<>>]
      PROVE  Acyclic'
  <2>1. live' \subseteq live /\ \A x \in live' : kids'[x] = kids[x]
    BY <1>2 DEF TypeOK
  <2> QED BY <2>1, AcyclicAfterRelease
<1>3. CASE UNCHANGED heap
  BY <1>3, AcyclicAfterRelease DEF heap
<1> QED BY <1>1, <1>2, <1>3, HeapStep DEF HeapMoves, NodeGone

(* Nothing leaks: in any set of allocated nodes there is one that          *)
(* something outside of the set refers to, so that when no handle is left, *)
(* no node is (expr_base.hpp:84-86, expr_all.cpp:80-82).                   *)
THEOREM NoLeaks == Spec => []NothingLeaks
<1>1. Init => TypeOK /\ Counted /\ Acyclic
  <2>1. Init => Acyclic
    BY DEF Init, Acyclic
  <2> QED BY <2>1, CountsInit
<1>2. TypeOK /\ Counted /\ Acyclic /\ [Next]_vars => TypeOK' /\ Counted' /\ Acyclic'
  BY CountsKept, AcyclicKept
<1>3. TypeOK /\ Counted /\ Acyclic => NothingLeaks
  <2> SUFFICES ASSUME TypeOK, Counted, Acyclic, NEW S \in (SUBSET live) \ {{}}
               PROVE  \E n \in S : \E r \in Referrers(n) : r[1] = "kids" => r[2] \notin S
    BY DEF NothingLeaks
  <2>1. PICK n \in S : \A m \in S : At(kids[m], n) = {}
    BY DEF Acyclic
  <2>2. n \in live /\ n \in Node
    BY DEF TypeOK
  <2>3. PICK r \in Referrers(n) : TRUE
    <3>1. Cardinality(Referrers(n)) > 0 /\ IsFiniteSet(Referrers(n))
      BY <2>2, PartTypes, ReferrersSize
    <3> QED BY <3>1, FS_EmptySet
  <2>4. r[1] = "kids" => \E m \in live : r[2] = m /\ At(kids[m], n) # {}
    BY DEF Referrers
  <2> QED BY <2>1, <2>3, <2>4
<1> QED BY <1>1, <1>2, <1>3, PTL DEF Spec

-----------------------------------------------------------------------------
(* Expressions are values.  Value, the value of a node, is written by      *)
(* recursion over the nodes, and a function defined so need not exist.  It *)
(* does when every set of nodes has one with no child in the set (Grounds): *)
(* partial functions that satisfy the equation where they are defined      *)
(* agree, since there is no first node where they differ, so that their    *)
(* union is one too, and it could be extended if a node were missing.      *)
(* Free nodes have no children (Bare), so whatever is allocated, the nodes *)
(* stay grounded.                                                          *)

(* The values of nodes, for any children K and labels L. *)
Cell(K, L, f, n) == [label |-> L[n], kids |-> [i \in DOMAIN K[n] |-> f[K[n][i]]]]

IsValue(K, L, f) == f = [n \in Node |-> Cell(K, L, f, n)]

Closed(K, S) == S \subseteq Node /\ \A n \in S : \A i \in DOMAIN K[n] : K[n][i] \in S

Grounds(K) ==
  \A S \in (SUBSET Node) \ {{}} : \E n \in S : \A i \in DOMAIN K[n] : K[n][i] \notin S

Part(K, L, f) == Closed(K, DOMAIN f) /\ \A n \in DOMAIN f : f[n] = Cell(K, L, f, n)

LEMMA SameCell ==
  ASSUME NEW K, NEW L, NEW f, NEW M, NEW O, NEW g, NEW n, M[n] = K[n], O[n] = L[n],
         \A i \in DOMAIN K[n] : g[K[n][i]] = f[K[n][i]]
  PROVE  Cell(M, O, g, n) = Cell(K, L, f, n)
<1>1. [i \in DOMAIN M[n] |-> g[M[n][i]]] = [i \in DOMAIN K[n] |-> f[K[n][i]]]
  BY Zenon
<1> QED BY <1>1, Zenon DEF Cell

(* Values depend only on what is below a node. *)
LEMMA Agreement ==
  ASSUME NEW K, NEW L, NEW f, NEW M, NEW O, NEW g, NEW S, Grounds(K), Closed(K, S),
         \A n \in S : M[n] = K[n] /\ O[n] = L[n],
         \A n \in S : f[n] = Cell(K, L, f, n) /\ g[n] = Cell(M, O, g, n)
  PROVE  \A n \in S : g[n] = f[n]
<1> DEFINE T == {n \in S : g[n] # f[n]}
<1> SUFFICES ASSUME T # {} PROVE FALSE
  OBVIOUS
<1>1. T \in (SUBSET Node) \ {{}}
  BY DEF Closed
<1>2. PICK n \in T : \A i \in DOMAIN K[n] : K[n][i] \notin T
  <2> HIDE DEF T
  <2> QED BY <1>1 DEF Grounds
<1>3. n \in S /\ \A i \in DOMAIN K[n] : g[K[n][i]] = f[K[n][i]]
  BY <1>2, Zenon DEF Closed
<1> HIDE DEF T
<1>a. M[n] = K[n] /\ O[n] = L[n] /\ f[n] = Cell(K, L, f, n) /\ g[n] = Cell(M, O, g, n)
  BY <1>3
<1>4. Cell(M, O, g, n) = Cell(K, L, f, n)
  BY <1>3, <1>a, SameCell
<1>5. g[n] = f[n]
  BY <1>a, <1>4
<1> QED BY <1>2, <1>5 DEF T

(* The equation for values has a solution.                                 *)
LEMMA ValueExists ==
  ASSUME NEW K, NEW L, Grounds(K), Closed(K, Node)
  PROVE  \E f : IsValue(K, L, f)
<1> DEFINE U == {n \in Node : \E f : Part(K, L, f) /\ n \in DOMAIN f}
           G(n) == CHOOSE f : Part(K, L, f) /\ n \in DOMAIN f
           F == [n \in U |-> G(n)[n]]
<1>1. \A n \in U : Part(K, L, G(n)) /\ n \in DOMAIN G(n) /\ F[n] = G(n)[n]
  <2> SUFFICES ASSUME NEW n \in U PROVE Part(K, L, G(n)) /\ n \in DOMAIN G(n)
    OBVIOUS
  <2>1. \E f : Part(K, L, f) /\ n \in DOMAIN f
    OBVIOUS
  <2> QED BY <2>1, Zenon
<1>2. ASSUME NEW f, Part(K, L, f), NEW n \in DOMAIN f PROVE n \in U /\ f[n] = F[n]
  <2>1. n \in U
    BY <1>2 DEF Part, Closed
  <2>2. PICK g : Part(K, L, g) /\ n \in DOMAIN g /\ F[n] = g[n]
    <3> HIDE DEF F, G, U
    <3> QED BY <1>1, <2>1
  <2>3. Closed(K, DOMAIN f \intersect DOMAIN g)
    BY <1>2, <2>2 DEF Part, Closed
  <2>4. \A x \in DOMAIN f \intersect DOMAIN g : f[x] = Cell(K, L, f, x) /\ g[x] = Cell(K, L, g, x)
    BY <1>2, <2>2 DEF Part
  <2>5. \A x \in DOMAIN f \intersect DOMAIN g : g[x] = f[x]
    <3>1. PICK S : S = DOMAIN f \intersect DOMAIN g
      OBVIOUS
    <3>2. Closed(K, S) /\ \A x \in S : f[x] = Cell(K, L, f, x) /\ g[x] = Cell(K, L, g, x)
      BY <2>3, <2>4, <3>1
    <3> HIDE DEF F, G, U
    <3>3. PICK M, O : M = K /\ O = L
      OBVIOUS
    <3>4. \A x \in S : M[x] = K[x] /\ O[x] = L[x] /\ f[x] = Cell(K, L, f, x) /\ g[x] = Cell(M, O, g, x)
      BY <3>2, <3>3
    <3>5. \A x \in S : g[x] = f[x]
      BY <3>2, <3>4, Agreement
    <3> QED BY <3>1, <3>5
  <2> HIDE DEF F, U
  <2> QED BY <1>2, <2>1, <2>2, <2>5
<1>3. \A n \in U : F[n] = Cell(K, L, F, n) /\ \A i \in DOMAIN K[n] : K[n][i] \in U
  <2> SUFFICES ASSUME NEW n \in U
               PROVE  F[n] = Cell(K, L, F, n) /\ \A i \in DOMAIN K[n] : K[n][i] \in U
    OBVIOUS
  <2>1. PICK g : Part(K, L, g) /\ n \in DOMAIN g /\ F[n] = g[n]
    <3> HIDE DEF F, G, U
    <3> QED BY <1>1
  <2> HIDE DEF F, U
  <2>2. g[n] = Cell(K, L, g, n) /\ \A i \in DOMAIN K[n] : K[n][i] \in DOMAIN g
    BY <2>1 DEF Part, Closed
  <2>3. \A i \in DOMAIN K[n] : K[n][i] \in U /\ g[K[n][i]] = F[K[n][i]]
    BY <1>2, <2>1, <2>2
  <2>4. Cell(K, L, g, n) = Cell(K, L, F, n)
    BY <2>3, SameCell
  <2> QED BY <2>1, <2>2, <2>3, <2>4
<1>4. DOMAIN F = U /\ U \subseteq Node
  OBVIOUS
<1>5. U = Node
  <2> SUFFICES ASSUME Node \ U # {} PROVE FALSE
    OBVIOUS
  <2>1. PICK m \in Node \ U : \A i \in DOMAIN K[m] : K[m][i] \notin Node \ U
    <3>1. Node \ U \in (SUBSET Node) \ {{}}
      OBVIOUS
    <3> HIDE DEF U
    <3> QED BY <3>1 DEF Grounds
  <2>2. \A i \in DOMAIN K[m] : K[m][i] \in U
    BY <2>1 DEF Closed
  <2> DEFINE h == [n \in U \union {m} |-> IF n = m THEN Cell(K, L, F, m) ELSE F[n]]
  <2>3. DOMAIN h = U \union {m} /\ h[m] = Cell(K, L, F, m) /\ \A n \in U : h[n] = F[n]
    <3> HIDE DEF F, U
    <3> QED BY <2>1
  <2> HIDE DEF h, F, U
  <2>4. \A n \in DOMAIN h : \A i \in DOMAIN K[n] : K[n][i] \in U
    BY <1>3, <2>2, <2>3
  <2>5. \A n \in DOMAIN h : Cell(K, L, h, n) = Cell(K, L, F, n)
    <3> TAKE n \in DOMAIN h
    <3>1. \A i \in DOMAIN K[n] : h[K[n][i]] = F[K[n][i]]
      BY <2>3, <2>4
    <3> QED BY <3>1, SameCell
  <2>6. \A n \in DOMAIN h : h[n] = Cell(K, L, h, n)
    BY <1>3, <2>3, <2>5
  <2>7. Closed(K, DOMAIN h)
    BY <1>4, <2>1, <2>3, <2>4 DEF Closed
  <2>8. Part(K, L, h) /\ m \in DOMAIN h
    BY <2>3, <2>6, <2>7 DEF Part
  <2> QED BY <1>2, <2>1, <2>8
<1>6. F = [n \in Node |-> F[n]]
  BY <1>5
<1>7. IsValue(K, L, F)
  <2> HIDE DEF F, U
  <2>1. \A n \in Node : F[n] = Cell(K, L, F, n)
    BY <1>3, <1>5
  <2>2. [n \in Node |-> F[n]] = [n \in Node |-> Cell(K, L, F, n)]
    BY <2>1, Zenon
  <2> QED BY <1>6, <2>2, Zenon DEF IsValue
<1> QED BY <1>7

-----------------------------------------------------------------------------
(* Nodes refer to each other without circles, and free ones to none.       *)
Grounded == Grounds(kids)
Bare == \A n \in Node \ live : kids[n] = <<>>

LEMMA TheValue ==
  /\ Value = CHOOSE f : IsValue(kids, label, f)
  /\ Value' = CHOOSE f : IsValue(kids', label', f)
<1>1. Value = CHOOSE f : IsValue(kids, label, f)
  BY Zenon DEF Value, IsValue, Cell
<1>2. Value' = CHOOSE f : IsValue(kids', label', f)
  BY Zenon DEF Value, IsValue, Cell
<1> QED BY <1>1, <1>2

LEMMA ValueCells ==
  ASSUME NEW K \in [Node -> Seq(Node)], NEW L, Grounds(K), NEW V, V = CHOOSE f : IsValue(K, L, f)
  PROVE  \A n \in Node : V[n] = Cell(K, L, V, n)
<1>1. Closed(K, Node)
  BY DEF Closed
<1>2. IsValue(K, L, V)
  BY <1>1, ValueExists, Zenon
<1> QED BY <1>2, Zenon DEF IsValue

(* The values of a sequence of nodes.                                      *)
Mapped(V, s) == [i \in DOMAIN s |-> V[s[i]]]

LEMMA MappedType ==
  ASSUME NEW V, NEW s \in Seq(Node)
  PROVE  /\ Mapped(V, s) \in Seq({V[n] : n \in Node}) /\ Len(Mapped(V, s)) = Len(s)
         /\ \A i \in 1 .. Len(s) : Mapped(V, s)[i] = V[s[i]]
<1>1. DOMAIN s = 1 .. Len(s) /\ Len(s) \in Nat /\ \A i \in 1 .. Len(s) : s[i] \in Node
  OBVIOUS
<1>2. Mapped(V, s) = [i \in 1 .. Len(s) |-> V[s[i]]]
  BY <1>1 DEF Mapped
<1>3. [i \in 1 .. Len(s) |-> V[s[i]]] \in [1 .. Len(s) -> {V[n] : n \in Node}]
  BY <1>1
<1>4. Mapped(V, s) \in [1 .. Len(s) -> {V[n] : n \in Node}]
  BY <1>2, <1>3
<1>5. Mapped(V, s) \in Seq({V[n] : n \in Node}) /\ Len(Mapped(V, s)) = Len(s)
  BY <1>1, <1>4
<1> QED BY <1>2, <1>5

LEMMA MappedConcat ==
  ASSUME NEW V, NEW s \in Seq(Node), NEW t \in Seq(Node)
  PROVE  Mapped(V, s \o t) = Mapped(V, s) \o Mapped(V, t)
<1> DEFINE T == {V[n] : n \in Node}
<1>1. /\ Mapped(V, s) \in Seq(T) /\ Len(Mapped(V, s)) = Len(s)
      /\ \A i \in 1 .. Len(s) : Mapped(V, s)[i] = V[s[i]]
  BY MappedType
<1>2. /\ Mapped(V, t) \in Seq(T) /\ Len(Mapped(V, t)) = Len(t)
      /\ \A i \in 1 .. Len(t) : Mapped(V, t)[i] = V[t[i]]
  BY MappedType
<1>3. s \o t \in Seq(Node) /\ Len(s \o t) = Len(s) + Len(t)
  OBVIOUS
<1>4. /\ Mapped(V, s \o t) \in Seq(T) /\ Len(Mapped(V, s \o t)) = Len(s \o t)
      /\ \A i \in 1 .. Len(s \o t) : Mapped(V, s \o t)[i] = V[(s \o t)[i]]
  BY <1>3, MappedType
<1>5. PICK x \in Seq(T) : x = Mapped(V, s)
  BY <1>1
<1>6. PICK y \in Seq(T) : y = Mapped(V, t)
  BY <1>2
<1>7. PICK z \in Seq(T) : z = Mapped(V, s \o t)
  BY <1>4
<1> HIDE DEF T
<1>a. Len(x) = Len(s) /\ Len(y) = Len(t) /\ Len(z) = Len(s) + Len(t)
  BY <1>1, <1>2, <1>3, <1>4, <1>5, <1>6, <1>7, Zenon
<1>8. x \o y \in Seq(T) /\ Len(x \o y) = Len(z)
  <2>1. x \o y \in Seq(T) /\ Len(x \o y) = Len(x) + Len(y)
    OBVIOUS
  <2> QED BY <1>a, <2>1, Zenon
<1>9. \A i \in 1 .. Len(z) : z[i] = (x \o y)[i]
  <2> TAKE i \in 1 .. Len(z)
  <2>0. Len(z) = Len(s) + Len(t) /\ Len(x) = Len(s) /\ Len(y) = Len(t) /\ Len(s) \in Nat /\ Len(t) \in Nat
    BY <1>a
  <2>1. CASE i <= Len(s)
    <3>1. i \in 1 .. Len(s) /\ (s \o t)[i] = s[i] /\ (x \o y)[i] = x[i]
      BY <2>0, <2>1
    <3> QED BY <1>1, <1>3, <1>4, <1>5, <1>7, <2>0, <3>1
  <2>2. CASE i > Len(s)
    <3>1. i - Len(s) \in 1 .. Len(t) /\ (s \o t)[i] = t[i - Len(s)] /\ (x \o y)[i] = y[i - Len(s)]
      BY <2>0, <2>2
    <3> QED BY <1>2, <1>3, <1>4, <1>6, <1>7, <2>0, <3>1
  <2> QED BY <2>0, <2>1, <2>2
<1>10. z = x \o y
  BY <1>8, <1>9, SeqEqual
<1> QED BY <1>5, <1>6, <1>7, <1>10

LEMMA MappedShort ==
  /\ \A V : Mapped(V, <<>>) = <<>>
  /\ \A V, x : Mapped(V, <<x>>) = <<V[x]>>
  /\ \A V, x, y : Mapped(V, <<x, y>>) = <<V[x], V[y]>>
BY DEF Mapped

LEMMA MappedSame ==
  ASSUME NEW V, NEW W, NEW s, \A i \in DOMAIN s : W[s[i]] = V[s[i]]
  PROVE  Mapped(W, s) = Mapped(V, s)
BY Zenon DEF Mapped

LEMMA MappedAppend ==
  ASSUME NEW V, NEW s \in Seq(Node), NEW x \in Node
  PROVE  Mapped(V, Append(s, x)) = Append(Mapped(V, s), V[x])
<1>1. Append(s, x) = s \o <<x>> /\ <<x>> \in Seq(Node)
  OBVIOUS
<1>2. Mapped(V, s \o <<x>>) = Mapped(V, s) \o Mapped(V, <<x>>)
  BY <1>1, MappedConcat
<1>3. Mapped(V, <<x>>) = <<V[x]>>
  BY MappedShort
<1>4. PICK T : Mapped(V, s) \in Seq(T) /\ V[x] \in T
  <2>1. Mapped(V, s) \in Seq({V[n] : n \in Node})
    BY MappedType
  <2> QED BY <2>1
<1>5. PICK z \in Seq(T), v \in T : z = Mapped(V, s) /\ v = V[x]
  BY <1>4
<1>6. Append(z, v) = z \o <<v>>
  OBVIOUS
<1> QED BY <1>1, <1>2, <1>3, <1>5, <1>6

(* Nodes stay grounded when one is allocated over nodes that are there, and *)
(* when one is freed.                                                      *)
LEMMA GroundedAfterAllocate ==
  ASSUME TypeOK, Counted, Grounded, Bare, NEW m \in Node, NEW l, NEW children \in Seq(Node),
         Allocate(m, l, children), At(children, m) = {}
  PROVE  Grounded' /\ Bare'
<1>1. /\ m \notin live /\ live' = live \union {m} /\ kids \in [Node -> Seq(Node)]
      /\ kids'[m] = children /\ \A n \in Node : n # m => kids'[n] = kids[n]
  BY DEF Allocate, TypeOK
<1>2. \A n \in Node : \A i \in DOMAIN kids[n] : kids[n][i] # m
  <2> SUFFICES ASSUME NEW n \in Node, NEW i \in DOMAIN kids[n], kids[n][i] = m PROVE FALSE
    OBVIOUS
  <2>1. n \in live
    BY DEF Bare
  <2>2. At(kids[n], m) # {}
    BY DEF At
  <2> QED BY <1>1, <2>1, <2>2, InUse
<1>3. \A i \in DOMAIN children : children[i] # m
  BY DEF At
<1>4. ASSUME NEW S \in (SUBSET Node) \ {{}}
      PROVE  \E n \in S : \A i \in DOMAIN kids'[n] : kids'[n][i] \notin S
  <2>1. CASE S = {m}
    BY <1>1, <1>3, <2>1
  <2>2. CASE S # {m}
    <3>1. S \ {m} \in (SUBSET Node) \ {{}}
      BY <2>2
    <3>2. PICK n \in S \ {m} : \A i \in DOMAIN kids[n] : kids[n][i] \notin S \ {m}
      BY <3>1 DEF Grounded, Grounds
    <3>3. n \in Node /\ n # m /\ kids'[n] = kids[n]
      BY <1>1, <3>2
    <3> QED BY <1>2, <3>2, <3>3
  <2> QED BY <2>1, <2>2
<1>5. Grounded'
  BY <1>4 DEF Grounded, Grounds
<1>6. Bare'
  BY <1>1 DEF Bare
<1> QED BY <1>5, <1>6

LEMMA GroundedAfterRelease ==
  ASSUME TypeOK, Grounded, Bare, NEW m \in Node,
         live' = live \ {m}, kids' = [kids EXCEPT ![m] = <<>>]
  PROVE  Grounded' /\ Bare'
<1>1. \A n \in Node : kids'[n] = kids[n] \/ DOMAIN kids'[n] = {}
  BY DEF TypeOK
<1>2. ASSUME NEW S \in (SUBSET Node) \ {{}}
      PROVE  \E n \in S : \A i \in DOMAIN kids'[n] : kids'[n][i] \notin S
  <2>1. PICK n \in S : \A i \in DOMAIN kids[n] : kids[n][i] \notin S
    BY DEF Grounded, Grounds
  <2> QED BY <1>1, <2>1
<1>3. Grounded'
  BY <1>2 DEF Grounded, Grounds
<1>4. Bare'
  BY DEF Bare, TypeOK
<1> QED BY <1>3, <1>4

LEMMA GroundedKept ==
  ASSUME TypeOK, Counted, Grounded, Bare, [Next]_vars
  PROVE  Grounded' /\ Bare'
<1>1. ASSUME NEW m \in Node, NEW children \in Seq(Node), NEW l,
             At(children, m) = {}, Allocate(m, l, children)
      PROVE  Grounded' /\ Bare'
  BY <1>1, GroundedAfterAllocate
<1>2. ASSUME NEW m \in live, live' = live \ {m}, kids' = [kids EXCEPT ![m] = <<>>]
      PROVE  Grounded' /\ Bare'
  <2>1. m \in Node
    BY DEF TypeOK
  <2> QED BY <1>2, <2>1, GroundedAfterRelease
<1>3. CASE UNCHANGED heap
  BY <1>3 DEF heap, Grounded, Bare
<1> QED BY <1>1, <1>2, <1>3, HeapStep DEF HeapMoves, NodeMade, NodeGone

-----------------------------------------------------------------------------
(* What is referred to is there; at an assignment it is what the variables *)
(* will refer to.                                                          *)
Sound ==
  /\ \A n \in live : \A i \in DOMAIN kids[n] : kids[n][i] \in live
  /\ \A i \in DOMAIN args : args[i] \in live
  /\ \A i \in DOMAIN keys : keys[i] \in live
  /\ \A h \in Handle : Settled(h) \in live \union {Null, NoObject}

LEMMA Soundness ==
  ASSUME TypeOK, Counted
  PROVE  Sound
<1>1. ASSUME NEW s \in Seq(Node), NEW i \in DOMAIN s
      PROVE  s[i] \in Node /\ Occ(s, s[i]) > 0
  <2>1. s[i] \in Node /\ i \in At(s, s[i])
    BY DEF At
  <2>2. IsFiniteSet(At(s, s[i])) /\ Occ(s, s[i]) \in Nat /\ At(s, s[i]) # {}
    BY <2>1, OccType
  <2>3. Occ(s, s[i]) # 0
    BY <2>2, FS_EmptySet DEF Occ
  <2> QED BY <2>1, <2>2, <2>3
<1>2. args \in Seq(Node) /\ keys \in Seq(Node) /\ live \subseteq Node
  BY DEF TypeOK
<1>3. \A i \in DOMAIN args : args[i] \in live
  BY <1>1, <1>2, InUse
<1>4. \A i \in DOMAIN keys : keys[i] \in live
  BY <1>1, <1>2, InUse
<1>5. ASSUME NEW n \in live, NEW i \in DOMAIN kids[n] PROVE kids[n][i] \in live
  <2>1. kids[n][i] \in Node /\ i \in At(kids[n], kids[n][i])
    BY <1>2 DEF At, TypeOK
  <2> QED BY <2>1, InUse
<1>6. ASSUME NEW h \in Handle PROVE Settled(h) \in live \union {Null, NoObject}
  <2>1. ASSUME NEW x \in Handle, ~Stale(x) PROVE user[x] \in live \union {Null, NoObject}
    BY <2>1, InUse DEF TypeOK
  <2>2. CASE assign = Null
    BY <2>1, <2>2 DEF Settled, MovedFrom, Stale
  <2>3. CASE assign # Null
    <3>1. assign.from \in Handle /\ assign.to \in Handle /\ assign.moved \in BOOLEAN
      BY <2>3 DEF TypeOK, Assignments
    <3>2. CASE assign.moved /\ h = assign.from
      BY <2>3, <3>2 DEF Settled, MovedFrom
    <3>3. CASE h = assign.to /\ ~(assign.moved /\ h = assign.from)
      <4>1. Settled(h) = user[assign.from]
        BY <2>3, <3>3 DEF Settled, MovedFrom, Stale
      <4>2. CASE assign.from # assign.to
        BY <2>1, <3>1, <4>1, <4>2 DEF Stale
      <4>3. CASE assign.from = assign.to
        <5>1. ~assign.moved
          BY <3>3, <4>3
        <5>2. ASSUME NEW n \in Node, user[assign.from] = n PROVE n \in live
          <6>1. Pledged(n) = 1
            BY <2>3, <5>1, <5>2 DEF Pledged, Promised
          <6> QED BY <6>1, PartTypes DEF Total
        <5> QED BY <3>1, <4>1, <5>2 DEF TypeOK
      <4> QED BY <4>2, <4>3
    <3>4. CASE h # assign.to /\ ~(assign.moved /\ h = assign.from)
      BY <2>1, <2>3, <3>4 DEF Settled, MovedFrom, Stale
    <3> QED BY <3>2, <3>3, <3>4
  <2> QED BY <2>2, <2>3
<1> QED BY <1>3, <1>4, <1>5, <1>6 DEF Sound

Labelled == DOMAIN label = Node

ValueInv == TypeOK /\ Counted /\ Grounded /\ Bare /\ Labelled /\ Sound

LEMMA InitValue == Init => TypeOK /\ Counted /\ Grounded /\ Bare /\ Labelled
<1> SUFFICES ASSUME Init PROVE TypeOK /\ Counted /\ Grounded /\ Bare /\ Labelled
  OBVIOUS
<1>1. TypeOK /\ Counted
  BY CountsInit
<1>2. \A n \in Node : kids[n] = <<>>
  BY DEF Init
<1>3. Grounded /\ Bare
  BY <1>2 DEF Grounded, Grounds, Bare
<1>4. Labelled
  BY DEF Init, Labelled
<1> QED BY <1>1, <1>3, <1>4

LEMMA LabelledKept ==
  ASSUME TypeOK, Counted, Labelled, [Next]_vars
  PROVE  Labelled'
BY HeapStep DEF HeapMoves, NodeMade, NodeGone, Allocate, heap, Labelled

LEMMA ValueAlways == Spec => []ValueInv
<1>1. TypeOK /\ Counted => Sound
  BY Soundness
<1>2. TypeOK /\ Counted /\ Grounded /\ Bare /\ Labelled /\ [Next]_vars
        => TypeOK' /\ Counted' /\ Grounded' /\ Bare' /\ Labelled'
  BY CountsKept, GroundedKept, LabelledKept
<1>3. TypeOK /\ Counted /\ Grounded /\ Bare /\ Labelled /\ Sound => ValueInv
  BY DEF ValueInv
<1> QED BY <1>1, <1>2, <1>3, InitValue, PTL DEF Spec

(* A value is none of the marks for variables without one.  This is about  *)
(* the constants only, but of all values, so that TLC cannot evaluate it;  *)
(* its model values are like no other value.                               *)
ValuesApart == \A l, children : [label |-> l, kids |-> children] \notin {Null, NoObject}

(* The state of ExprValues. *)
Val == [h \in Handle |-> IF Settled(h) \in Node THEN Value[Settled(h)] ELSE Settled(h)]
ArgVals == Values(args)
KeyVals == Values(keys)

Left(h, moved) == IF moved THEN Null ELSE Val[h]
Full(h) == Val[h] # Null /\ Val[h] # NoObject

(* A step changes the values of no nodes but those it makes or frees: the  *)
(* ones that stay are closed under children.                               *)
LEMMA ValuesStay ==
  ASSUME ValueInv, ValueInv', HeapMoves
  PROVE  \A n \in live \intersect live' : Value'[n] = Value[n]
<1> DEFINE S == live \intersect live'
<1>1. TypeOK /\ TypeOK' /\ Grounded /\ Grounded' /\ Sound /\ Sound'
  BY DEF ValueInv
<1>2. kids \in [Node -> Seq(Node)] /\ kids' \in [Node -> Seq(Node)] /\ S \subseteq Node
  BY <1>1 DEF TypeOK
<1>3. \A n \in S : kids'[n] = kids[n] /\ label'[n] = label[n]
  <2>1. CASE NodeMade
    <3>1. PICK m \in Node, children \in Seq(Node) : \E l : Allocate(m, l, children)
      BY <2>1 DEF NodeMade
    <3>2. PICK l : Allocate(m, l, children)
      BY <3>1
    <3> QED BY <1>2, <3>2 DEF Allocate
  <2>2. CASE NodeGone
    BY <1>2, <2>2 DEF NodeGone
  <2>3. CASE UNCHANGED heap
    BY <2>3 DEF heap
  <2> QED BY <2>1, <2>2, <2>3 DEF HeapMoves
<1>4. Closed(kids, S)
  <2>1. ASSUME NEW n \in S, NEW i \in DOMAIN kids[n] PROVE kids[n][i] \in S
    <3>1. kids[n][i] \in live
      BY <1>1, <2>1 DEF Sound
    <3>2. i \in DOMAIN kids'[n] /\ kids'[n][i] = kids[n][i]
      BY <1>3, <2>1
    <3>3. kids'[n][i] \in live'
      BY <1>1, <2>1, <3>2 DEF Sound
    <3> QED BY <3>1, <3>2, <3>3
  <2> QED BY <1>2, <2>1 DEF Closed
<1>5. Grounds(kids) /\ Grounds(kids')
  BY <1>1 DEF Grounded
<1>6. \A n \in Node : Value[n] = Cell(kids, label, Value, n)
  BY <1>2, <1>5, TheValue, ValueCells
<1>7. \A n \in Node : Value'[n] = Cell(kids', label', Value', n)
  BY <1>2, <1>5, TheValue, ValueCells
<1>8. \A n \in S : Value[n] = Cell(kids, label, Value, n) /\ Value'[n] = Cell(kids', label', Value', n)
  BY <1>2, <1>6, <1>7
<1> HIDE DEF S
<1>9. PICK K, L, f, M, O, g : /\ K = kids /\ L = label /\ f = Value
                              /\ M = kids' /\ O = label' /\ g = Value'
  OBVIOUS
<1>10. \A n \in S : g[n] = f[n]
  <2>1. \A n \in S : M[n] = K[n] /\ O[n] = L[n]
    BY <1>3, <1>9
  <2>2. \A n \in S : f[n] = Cell(K, L, f, n) /\ g[n] = Cell(M, O, g, n)
    BY <1>8, <1>9
  <2>3. Grounds(K) /\ Closed(K, S)
    BY <1>4, <1>5, <1>9
  <2> QED BY <2>1, <2>2, <2>3, Agreement
<1> QED BY <1>9, <1>10 DEF S

LEMMA NodeValue ==
  ASSUME ValueInv
  PROVE  \A n \in Node : Value[n] = [label |-> label[n], kids |-> Values(kids[n])]
<1>1. kids \in [Node -> Seq(Node)] /\ Grounds(kids)
  BY DEF ValueInv, TypeOK, Grounded
<1>2. \A n \in Node : Value[n] = Cell(kids, label, Value, n)
  BY <1>1, TheValue, ValueCells
<1> QED BY <1>2, Zenon DEF Cell, Values

LEMMA NodeValueNext ==
  ASSUME ValueInv'
  PROVE  \A n \in Node : Value'[n] = [label |-> label'[n], kids |-> Mapped(Value', kids'[n])]
<1>1. kids' \in [Node -> Seq(Node)] /\ Grounds(kids')
  BY DEF ValueInv, TypeOK, Grounded
<1>2. \A n \in Node : Value'[n] = Cell(kids', label', Value', n)
  BY <1>1, TheValue, ValueCells
<1> QED BY <1>2, Zenon DEF Cell, Mapped

(* What variables hold. *)
LEMMA Holding ==
  ASSUME ValuesApart, ValueInv, NEW h \in Handle
  PROVE  /\ Settled(h) \in Node => Val[h] = Value[Settled(h)] /\ Full(h)
         /\ Settled(h) \notin Node => Val[h] = Settled(h)
         /\ Settled(h) = NoObject <=> Val[h] = NoObject
         /\ Settled(h) \in Node \union {Null, NoObject}
<1>1. Val[h] = IF Settled(h) \in Node THEN Value[Settled(h)] ELSE Settled(h)
  BY DEF Val
<1>2. \A n \in Node : Value[n] \notin {Null, NoObject}
  BY NodeValue, Zenon DEF ValuesApart
<1>3. Settled(h) \in Node \union {Null, NoObject}
  BY DEF ValueInv, Sound, TypeOK
<1> QED BY <1>1, <1>2, <1>3, NodeAssumption DEF Full

(* What a step leaves as it is. *)
LEMMA Keeping ==
  ASSUME ValueInv, ValueInv', HeapMoves
  PROVE  /\ \A g, h \in Handle : Settled(h)' = Settled(g) => Val'[h] = Val[g]
         /\ \A h \in Handle : Settled(h)' \notin Node => Val'[h] = Settled(h)'
         /\ args' = args => ArgVals' = ArgVals
         /\ keys' = keys => KeyVals' = KeyVals
         /\ Mapped(Value', args) = ArgVals \/ ~(\A i \in DOMAIN args : args[i] \in live')
<1>1. \A n \in live \intersect live' : Value'[n] = Value[n]
  BY ValuesStay
<1>2. Sound /\ Sound' /\ live \subseteq Node /\ live' \subseteq Node
  BY DEF ValueInv, TypeOK
<1>3. /\ \A h \in Handle : Val[h] = IF Settled(h) \in Node THEN Value[Settled(h)] ELSE Settled(h)
      /\ \A h \in Handle : Val'[h] = IF Settled(h)' \in Node THEN Value'[Settled(h)'] ELSE Settled(h)'
  BY DEF Val
<1>4. ASSUME NEW g \in Handle, NEW h \in Handle, Settled(h)' = Settled(g)
      PROVE  Val'[h] = Val[g]
  <2>1. /\ Settled(g) \in live \union {Null, NoObject}
        /\ Settled(h)' \in live' \union {Null, NoObject}
    BY <1>2 DEF Sound
  <2>2. Settled(g) \in Node => Settled(g) \in live \intersect live'
    BY <1>4, <2>1, NodeAssumption
  <2> QED BY <1>1, <1>3, <1>4, <2>2
<1>5. (\A i \in DOMAIN args : args[i] \in live') => Mapped(Value', args) = ArgVals
  BY <1>1, <1>2, MappedSame DEF Sound, ArgVals, Values, Mapped
<1>6. args' = args => ArgVals' = ArgVals
  BY <1>1, <1>2, MappedSame DEF Sound, ArgVals, Values, Mapped
<1>7. keys' = keys => KeyVals' = KeyVals
  BY <1>1, <1>2, MappedSame DEF Sound, KeyVals, Values, Mapped
<1> QED BY <1>3, <1>4, <1>5, <1>6, <1>7

(* From the values of each variable to the function of them all.           *)
LEMMA TwoChanged ==
  ASSUME NEW f, NEW g, f = [x \in Handle |-> f[x]], g = [x \in Handle |-> g[x]],
         NEW a \in Handle, NEW b \in Handle, NEW v, NEW w, g[b] = w, a # b => g[a] = v,
         \A x \in Handle : x # a /\ x # b => g[x] = f[x]
  PROVE  g = [f EXCEPT ![a] = v, ![b] = w]
OBVIOUS

LEMMA OneChanged ==
  ASSUME NEW f, NEW g, f = [x \in Handle |-> f[x]], g = [x \in Handle |-> g[x]],
         NEW a \in Handle, NEW v, g[a] = v, \A x \in Handle : x # a => g[x] = f[x]
  PROVE  g = [f EXCEPT ![a] = v]
OBVIOUS

LEMMA ValDomain ==
  Val = [x \in Handle |-> Val[x]] /\ Val' = [x \in Handle |-> Val'[x]]
BY DEF Val

LEMMA SettledThen ==
  /\ assign = Null => \A h : Settled(h) = user[h]
  /\ assign' = Null => \A h : Settled(h)' = user'[h]
BY DEF Settled, MovedFrom, Stale

(* Each step of ExprRefs is one of ExprValues.                             *)
LEMMA LeafValue ==
  ASSUME ValuesApart, ValueInv, ValueInv', HeapMoves,
         NEW h \in Handle, NEW n \in Node, NEW l \in Label, NewLeaf(h, n, l)
  PROVE  Abstract!NewLeaf(h, l)
<1>1. /\ assign = Null /\ assign' = Null /\ user[h] = NoObject /\ args' = args /\ keys' = keys
      /\ user' = [user EXCEPT ![h] = n] /\ label' = [label EXCEPT ![n] = l] /\ kids' = [kids EXCEPT ![n] = <<>>]
  BY DEF NewLeaf, Running, Allocate
<1>2. \A x \in Handle : Settled(x) = user[x] /\ Settled(x)' = user'[x]
  BY <1>1, SettledThen
<1>a. user \in [Handle -> Node \union {Null, NoObject}]
  BY DEF ValueInv, TypeOK
<1>3. user'[h] = n /\ \A x \in Handle : x # h => user'[x] = user[x]
  BY <1>1, <1>a
<1>4. Val[h] = NoObject
  BY <1>1, <1>2, Holding
<1>5. Val'[h] = [label |-> l, kids |-> <<>>]
  <2>1. Val'[h] = Value'[n]
    BY <1>2, <1>3 DEF Val
  <2>2. label'[n] = l /\ kids'[n] = <<>>
    BY <1>1 DEF ValueInv, TypeOK, Labelled
  <2> QED BY <2>1, <2>2, NodeValueNext, MappedShort
<1>6. \A x \in Handle : x # h => Val'[x] = Val[x]
  BY <1>2, <1>3, Keeping
<1>7. Val' = [Val EXCEPT ![h] = [label |-> l, kids |-> <<>>]]
  BY <1>5, <1>6, ValDomain, OneChanged
<1>8. ArgVals' = ArgVals /\ KeyVals' = KeyVals
  BY <1>1, Keeping
<1> QED BY <1>4, <1>7, <1>8, Zenon DEF Val, ArgVals, KeyVals, Abstract!NewLeaf, Abstract!Leaf

(* A variable that was an operand. *)
LEMMA LeftValue ==
  ASSUME ValueInv, ValueInv', HeapMoves, assign = Null, assign' = Null,
         NEW f \in Handle, NEW moved \in BOOLEAN,
         user'[f] = IF moved THEN Null ELSE user[f]
  PROVE  Val'[f] = Left(f, moved)
<1>1. Settled(f) = user[f] /\ Settled(f)' = user'[f]
  BY SettledThen
<1>2. CASE moved
  BY <1>1, <1>2, Keeping, NodeAssumption DEF Left
<1>3. CASE ~moved
  BY <1>1, <1>3, Keeping DEF Left
<1> QED BY <1>2, <1>3

LEMMA Operand ==
  ASSUME ValuesApart, ValueInv, ValueInv', HeapMoves, assign = Null,
         NEW f \in Handle, user[f] \in Node
  PROVE  /\ Full(f) /\ user[f] \in live
         /\ user[f] \in live' => Value'[user[f]] = Val[f]
<1>1. Settled(f) = user[f]
  BY SettledThen
<1>2. Val[f] = Value[user[f]] /\ Full(f)
  BY <1>1, Holding
<1>3. user[f] \in live
  BY <1>1, NodeAssumption DEF ValueInv, Sound
<1> QED BY <1>2, <1>3, ValuesStay

LEMMA ArgsSeq == ValueInv => args \in Seq(Node) /\ keys \in Seq(Node)
BY DEF ValueInv, TypeOK

LEMMA CallValue ==
  ASSUME ValuesApart, ValueInv, ValueInv', HeapMoves,
         NEW h \in Handle, NEW n \in Node, NEW f \in Handle, NEW moved \in BOOLEAN,
         NewCall(h, n, f, moved)
  PROVE  Abstract!NewCall(h, f, moved)
<1>1. /\ assign = Null /\ assign' = Null /\ user[h] = NoObject /\ user[f] \in Node
      /\ args' = <<>> /\ keys' = keys /\ live' = live \union {n}
      /\ user' = [user EXCEPT ![f] = After(f, moved), ![h] = n]
      /\ label' = [label EXCEPT ![n] = "call"] /\ kids' = [kids EXCEPT ![n] = <<user[f]>> \o args]
  BY DEF NewCall, Running, Holds, Allocate
<1>2. \A x \in Handle : Settled(x) = user[x] /\ Settled(x)' = user'[x]
  BY <1>1, SettledThen
<1>a. user \in [Handle -> Node \union {Null, NoObject}] /\ h # f
  BY <1>1, NodeAssumption DEF ValueInv, TypeOK
<1>3. /\ user'[h] = n /\ user'[f] = IF moved THEN Null ELSE user[f]
      /\ \A x \in Handle : x # f /\ x # h => user'[x] = user[x]
  BY <1>1, <1>a DEF After
<1>4. Val[h] = NoObject
  BY <1>1, <1>2, Holding
<1>5. Full(f) /\ Value'[user[f]] = Val[f]
  BY <1>1, Operand
<1>6. Val'[h] = [label |-> "call", kids |-> <<Val[f]>> \o ArgVals]
  <2>1. Val'[h] = Value'[n]
    BY <1>2, <1>3 DEF Val
  <2>2. label'[n] = "call" /\ kids'[n] = <<user[f]>> \o args
    BY <1>1 DEF ValueInv, TypeOK, Labelled
  <2>3. Mapped(Value', <<user[f]>> \o args) = Mapped(Value', <<user[f]>>) \o Mapped(Value', args)
    <3>1. <<user[f]>> \in Seq(Node) /\ args \in Seq(Node)
      BY <1>1, ArgsSeq
    <3>2. PICK V : V = Value'
      OBVIOUS
    <3>3. PICK s \in Seq(Node) : s = <<user[f]>>
      BY <3>1
    <3> QED BY <3>1, <3>2, <3>3, MappedConcat
  <2>4. Mapped(Value', <<user[f]>>) = <<Val[f]>>
    BY <1>5, MappedShort
  <2>5. Mapped(Value', args) = ArgVals
    BY <1>1, Keeping DEF ValueInv, Sound
  <2>6. Val'[h] = [label |-> label'[n], kids |-> Mapped(Value', kids'[n])]
    BY <2>1, NodeValueNext
  <2> QED BY <2>2, <2>3, <2>4, <2>5, <2>6, Zenon
<1>7. Val'[f] = Left(f, moved)
  BY <1>1, <1>3, LeftValue
<1>8. \A x \in Handle : x # f /\ x # h => Val'[x] = Val[x]
  BY <1>2, <1>3, Keeping
<1>9. Val' = [Val EXCEPT ![f] = Left(f, moved),
                         ![h] = [label |-> "call", kids |-> <<Val[f]>> \o ArgVals]]
  BY <1>a, <1>6, <1>7, <1>8, ValDomain, TwoChanged
<1>10. ArgVals' = <<>> /\ KeyVals' = KeyVals
  BY <1>1, Keeping DEF ArgVals, Values
<1> QED BY <1>4, <1>5, <1>9, <1>10, Zenon
        DEF Val, ArgVals, KeyVals, Left, Full, Abstract!NewCall, Abstract!Inner, Abstract!After,
            Abstract!Holds

LEMMA InfixValue ==
  ASSUME ValuesApart, ValueInv, ValueInv', HeapMoves,
         NEW h \in Handle, NEW n \in Node, NEW l \in Handle, NEW r \in Handle,
         NEW movedL \in BOOLEAN, NEW movedR \in BOOLEAN,
         NewInfix(h, n, l, r, movedL, movedR)
  PROVE  Abstract!NewInfix(h, l, r, movedL, movedR)
<1>1. /\ assign = Null /\ assign' = Null /\ user[h] = NoObject
      /\ user[l] \in Node /\ user[r] \in Node
      /\ args' = args /\ keys' = keys /\ live' = live \union {n}
      /\ label' = [label EXCEPT ![n] = "infix"] /\ kids' = [kids EXCEPT ![n] = <<user[l], user[r]>>]
  BY DEF NewInfix, Running, Holds, Allocate
<1>2. \A x \in Handle : Settled(x) = user[x] /\ Settled(x)' = user'[x]
  BY <1>1, SettledThen
<1>3. /\ user'[h] = n
      /\ \A x \in Handle : x # h /\ ((x = l /\ movedL) \/ (x = r /\ movedR)) => user'[x] = Null
      /\ \A x \in Handle : x # h /\ ~((x = l /\ movedL) \/ (x = r /\ movedR)) => user'[x] = user[x]
  <2>1. h # l /\ h # r
    BY <1>1, NodeAssumption
  <2>2. user' = [x \in Handle |-> CASE x = h -> n
                                    [] (x = l /\ movedL) \/ (x = r /\ movedR) -> Null
                                    [] OTHER -> user[x]]
    BY DEF NewInfix
  <2> QED BY <2>1, <2>2
<1>4. Val[h] = NoObject
  BY <1>1, <1>2, Holding
<1>5. /\ Full(l) /\ Value'[user[l]] = Val[l]
      /\ Full(r) /\ Value'[user[r]] = Val[r]
  BY <1>1, Operand
<1>6. Val'[h] = [label |-> "infix", kids |-> <<Val[l], Val[r]>>]
  <2>1. Val'[h] = Value'[n]
    BY <1>2, <1>3 DEF Val
  <2>2. label'[n] = "infix" /\ kids'[n] = <<user[l], user[r]>>
    BY <1>1 DEF ValueInv, TypeOK, Labelled
  <2>3. Mapped(Value', <<user[l], user[r]>>) = <<Val[l], Val[r]>>
    BY <1>5, MappedShort
  <2>4. Val'[h] = [label |-> label'[n], kids |-> Mapped(Value', kids'[n])]
    BY <2>1, NodeValueNext
  <2> QED BY <2>2, <2>3, <2>4
<1>7. \A x \in Handle : x # h /\ ((x = l /\ movedL) \/ (x = r /\ movedR)) => Val'[x] = Null
  BY <1>2, <1>3, Keeping, NodeAssumption
<1>8. \A x \in Handle : x # h /\ ~((x = l /\ movedL) \/ (x = r /\ movedR)) => Val'[x] = Val[x]
  BY <1>2, <1>3, Keeping
<1>9. Val' = [x \in Handle |-> CASE x = h -> [label |-> "infix", kids |-> <<Val[l], Val[r]>>]
                                 [] (x = l /\ movedL) \/ (x = r /\ movedR) -> Null
                                 [] OTHER -> Val[x]]
  <2>1. h # l /\ h # r
    BY <1>1, NodeAssumption
  <2>2. \A x \in Handle : Val'[x] = CASE x = h -> [label |-> "infix", kids |-> <<Val[l], Val[r]>>]
                                 [] (x = l /\ movedL) \/ (x = r /\ movedR) -> Null
                                 [] OTHER -> Val[x]
    BY <1>6, <1>7, <1>8, <2>1
  <2>3. Val' = [x \in Handle |-> Val'[x]]
    BY ValDomain
  <2> QED BY <2>2, <2>3, Zenon
<1>10. ArgVals' = ArgVals /\ KeyVals' = KeyVals
  BY <1>1, Keeping
<1> QED BY <1>4, <1>5, <1>9, <1>10, Zenon
        DEF Val, ArgVals, KeyVals, Full, Abstract!NewInfix, Abstract!Inner, Abstract!Holds

LEMMA PushValue ==
  ASSUME ValuesApart, ValueInv, ValueInv', HeapMoves,
         NEW h \in Handle, NEW moved \in BOOLEAN, Push(h, moved)
  PROVE  Abstract!Push(h, moved)
<1>1. /\ assign = Null /\ assign' = Null /\ user[h] \in Node /\ live' = live
      /\ args' = Append(args, user[h]) /\ keys' = keys
      /\ user' = [user EXCEPT ![h] = After(h, moved)]
  BY DEF Push, Running, Holds, heap
<1>2. \A x \in Handle : Settled(x) = user[x] /\ Settled(x)' = user'[x]
  BY <1>1, SettledThen
<1>3. /\ user'[h] = IF moved THEN Null ELSE user[h]
      /\ \A x \in Handle : x # h => user'[x] = user[x]
  BY <1>1 DEF After, ValueInv, TypeOK
<1>4. Full(h) /\ Value'[user[h]] = Val[h]
  BY <1>1, Operand
<1>5. ArgVals' = Append(ArgVals, Val[h])
  <2>1. ArgVals' = Mapped(Value', Append(args, user[h]))
    BY <1>1 DEF ArgVals, Values, Mapped
  <2>2. Mapped(Value', args) = ArgVals
    BY <1>1, Keeping DEF ValueInv, Sound
  <2>3. PICK V, x : V = Value' /\ x = user[h]
    OBVIOUS
  <2>4. Mapped(V, Append(args, x)) = Append(Mapped(V, args), V[x])
    BY <1>1, <2>3, ArgsSeq, MappedAppend
  <2> QED BY <1>4, <2>1, <2>2, <2>3, <2>4
<1>6. Val'[h] = Left(h, moved)
  BY <1>1, <1>3, LeftValue
<1>7. \A x \in Handle : x # h => Val'[x] = Val[x]
  BY <1>2, <1>3, Keeping
<1>8. Val' = [Val EXCEPT ![h] = Left(h, moved)]
  BY <1>6, <1>7, ValDomain, OneChanged
<1>9. KeyVals' = KeyVals
  BY <1>1, Keeping
<1> QED BY <1>4, <1>5, <1>8, <1>9, Zenon
        DEF Val, ArgVals, KeyVals, Left, Full, Abstract!Push, Abstract!After, Abstract!Holds

LEMMA PutValue ==
  ASSUME ValuesApart, ValueInv, ValueInv', HeapMoves,
         NEW h \in Handle, NEW s \in Handle, NEW moved \in BOOLEAN,
         Settled(s) # NoObject, args' = args, keys' = keys,
         Settled(s)' = IF moved THEN Null ELSE Settled(s),
         h # s => Settled(h)' = Settled(s),
         \A x \in Handle : x # h /\ x # s => Settled(x)' = Settled(x)
  PROVE  Abstract!Put(h, s, moved)
<1>1. Val[s] # NoObject
  BY Holding
<1>2. Val'[s] = Left(s, moved)
  <2>1. CASE moved
    BY <2>1, Keeping, NodeAssumption DEF Left
  <2>2. CASE ~moved
    BY <2>2, Keeping DEF Left
  <2> QED BY <2>1, <2>2
<1>3. h # s => Val'[h] = Val[s]
  BY Keeping
<1>4. \A x \in Handle : x # h /\ x # s => Val'[x] = Val[x]
  BY Keeping
<1>5. Val' = [Val EXCEPT ![h] = Val[s], ![s] = Left(s, moved)]
  BY <1>2, <1>3, <1>4, ValDomain, TwoChanged
<1>6. ArgVals' = ArgVals /\ KeyVals' = KeyVals
  BY Keeping
<1> QED BY <1>1, <1>5, <1>6, Zenon
        DEF Val, ArgVals, KeyVals, Left, Abstract!Put, Abstract!After

LEMMA ConstructValue ==
  ASSUME ValuesApart, ValueInv, ValueInv', HeapMoves,
         NEW h \in Handle, NEW s \in Handle, NEW moved \in BOOLEAN, Construct(h, s, moved)
  PROVE  Abstract!Put(h, s, moved)
<1>1. /\ assign = Null /\ assign' = Null /\ user[h] = NoObject /\ user[s] # NoObject
      /\ args' = args /\ keys' = keys
      /\ user' = [user EXCEPT ![h] = user[s], ![s] = After(s, moved)]
  BY DEF Construct, Running
<1>2. \A x \in Handle : Settled(x) = user[x] /\ Settled(x)' = user'[x]
  BY <1>1, SettledThen
<1>3. /\ user'[s] = IF moved THEN Null ELSE user[s]
      /\ user'[h] = user[s]
      /\ \A x \in Handle : x # h /\ x # s => user'[x] = user[x]
  BY <1>1 DEF After, ValueInv, TypeOK
<1> QED BY <1>1, <1>2, <1>3, PutValue

(* An assignment happens when it starts: from then on its variables count  *)
(* as what they will be, and what it releases does not show.               *)
LEMMA StartAssignValue ==
  ASSUME ValuesApart, ValueInv, ValueInv', HeapMoves,
         NEW h \in Handle, NEW s \in Handle, NEW moved \in BOOLEAN, StartAssign(h, s, moved)
  PROVE  Abstract!Put(h, s, moved)
<1>1. /\ assign = Null /\ user[s] # NoObject
      /\ args' = args /\ keys' = keys /\ user' = user
      /\ assign' = [to |-> h, from |-> s, moved |-> moved]
  BY DEF StartAssign, Running
<1>2. \A x \in Handle : Settled(x) = user[x]
  BY <1>1, SettledThen
<1>3. assign' # Null /\ assign'.to = h /\ assign'.from = s /\ assign'.moved = moved
  BY <1>1, NodeAssumption DEF Assignments
<1>4. \A x \in Handle :
        Settled(x)' = IF moved /\ x = s THEN Null ELSE IF x = h THEN user[s] ELSE user[x]
  BY <1>1, <1>3 DEF Settled, MovedFrom, Stale
<1> QED BY <1>1, <1>2, <1>4, PutValue

LEMMA Stutter ==
  ASSUME ValueInv, ValueInv', HeapMoves, args' = args, keys' = keys,
         \A x \in Handle : Settled(x)' = Settled(x)
  PROVE  UNCHANGED Abstract!vars
<1>1. \A x \in Handle : Val'[x] = Val[x]
  BY Keeping
<1>2. Val' = Val
  BY <1>1, ValDomain, Zenon
<1>3. ArgVals' = ArgVals /\ KeyVals' = KeyVals
  BY Keeping
<1> QED BY <1>2, <1>3, Zenon DEF Val, ArgVals, KeyVals, Abstract!vars

LEMMA FinishAssignValue ==
  ASSUME ValueInv, ValueInv', HeapMoves, FinishAssign
  PROVE  UNCHANGED Abstract!vars
<1>1. /\ assign # Null /\ assign' = Null /\ args' = args /\ keys' = keys
      /\ user' = [user EXCEPT ![assign.to] = user[assign.from],
                              ![assign.from] = IF assign.moved THEN Null ELSE @]
  BY DEF FinishAssign
<1>2. PICK h \in Handle, s \in Handle, moved \in BOOLEAN :
        h = assign.to /\ s = assign.from /\ moved = assign.moved
  BY <1>1 DEF ValueInv, TypeOK, Assignments
<1>3. user \in [Handle -> Node \union {Null, NoObject}]
  BY DEF ValueInv, TypeOK
<1>4. user' = [user EXCEPT ![h] = user[s], ![s] = IF moved THEN Null ELSE @]
  BY <1>1, <1>2, Zenon
<1>5. \A x \in Handle :
        user'[x] = IF moved /\ x = s THEN Null ELSE IF x = h THEN user[s] ELSE user[x]
  BY <1>3, <1>4
<1>6. \A x \in Handle :
        Settled(x) = IF moved /\ x = s THEN Null ELSE IF x = h THEN user[s] ELSE user[x]
  BY <1>1, <1>2 DEF Settled, MovedFrom, Stale
<1>7. \A x \in Handle : Settled(x)' = Settled(x)
  <2>1. \A x \in Handle : Settled(x)' = user'[x]
    BY <1>1, SettledThen
  <2>2. \A x \in Handle : Settled(x) = user'[x]
    BY <1>5, <1>6, Zenon
  <2> QED BY <2>1, <2>2, Zenon
<1> QED BY <1>1, <1>7, Stutter

LEMMA SameSettled ==
  user' = user /\ assign' = assign => \A x \in Handle : Settled(x)' = Settled(x)
BY DEF Settled, MovedFrom, Stale

LEMMA SwapValue ==
  ASSUME ValuesApart, ValueInv, ValueInv', HeapMoves,
         NEW a \in Handle, NEW b \in Handle, Swap(a, b)
  PROVE  Abstract!Swap(a, b)
<1>1. /\ assign = Null /\ assign' = Null /\ user[a] # NoObject /\ user[b] # NoObject
      /\ args' = args /\ keys' = keys /\ user' = [user EXCEPT ![a] = user[b], ![b] = user[a]]
  BY DEF Swap, Running
<1>2. \A x \in Handle : Settled(x) = user[x] /\ Settled(x)' = user'[x]
  BY <1>1, SettledThen
<1>3. /\ user'[b] = user[a] /\ user'[a] = user[b]
      /\ \A x \in Handle : x # a /\ x # b => user'[x] = user[x]
  BY <1>1 DEF ValueInv, TypeOK
<1>4. Val[a] # NoObject /\ Val[b] # NoObject
  BY <1>1, <1>2, Holding
<1>5. Val'[a] = Val[b] /\ Val'[b] = Val[a] /\ \A x \in Handle : x # a /\ x # b => Val'[x] = Val[x]
  BY <1>2, <1>3, Keeping
<1>6. Val' = [Val EXCEPT ![a] = Val[b], ![b] = Val[a]]
  BY <1>5, ValDomain, TwoChanged
<1>7. ArgVals' = ArgVals /\ KeyVals' = KeyVals
  BY <1>1, Keeping
<1> QED BY <1>4, <1>6, <1>7, Zenon DEF Val, ArgVals, KeyVals, Abstract!Swap

LEMMA DestroyValue ==
  ASSUME ValuesApart, ValueInv, ValueInv', HeapMoves, NEW h \in Handle, Destroy(h)
  PROVE  Abstract!Destroy(h)
<1>1. /\ assign = Null /\ assign' = Null /\ user[h] # NoObject
      /\ args' = args /\ keys' = keys /\ user' = [user EXCEPT ![h] = NoObject]
  BY DEF Destroy, Running
<1>2. \A x \in Handle : Settled(x) = user[x] /\ Settled(x)' = user'[x]
  BY <1>1, SettledThen
<1>3. user'[h] = NoObject /\ \A x \in Handle : x # h => user'[x] = user[x]
  BY <1>1 DEF ValueInv, TypeOK
<1>4. Val[h] # NoObject
  BY <1>1, <1>2, Holding
<1>5. Val'[h] = NoObject /\ \A x \in Handle : x # h => Val'[x] = Val[x]
  BY <1>2, <1>3, Keeping, NodeAssumption
<1>6. Val' = [Val EXCEPT ![h] = NoObject]
  BY <1>5, ValDomain, OneChanged
<1>7. ArgVals' = ArgVals /\ KeyVals' = KeyVals
  BY <1>1, Keeping
<1> QED BY <1>4, <1>6, <1>7, Zenon DEF Val, ArgVals, KeyVals, Abstract!Destroy

LEMMA CallsValue ==
  ASSUME ValueInv, ValueInv', HeapMoves, KeepKey \/ DropKey
  PROVE  Abstract!Call
<1>1. /\ args' = <<>> /\ user' = user /\ assign' = assign /\ live' = live
      /\ keys' = keys \/ keys' = keys \o args
  BY DEF KeepKey, DropKey, heap
<1>2. Val' = Val
  <2>1. \A x \in Handle : Val'[x] = Val[x]
    BY <1>1, SameSettled, Keeping
  <2> QED BY <2>1, ValDomain, Zenon
<1>3. ArgVals' = <<>>
  BY <1>1 DEF ArgVals, Values
<1>4. KeyVals' \in {KeyVals, KeyVals \o ArgVals}
  <2>1. CASE keys' = keys
    BY <2>1, Keeping
  <2>2. CASE keys' = keys \o args
    <3>1. Mapped(Value', args) = ArgVals
      BY <1>1, Keeping DEF ValueInv, Sound
    <3>2. Mapped(Value', keys) = KeyVals
      BY <1>1, ValuesStay, MappedSame DEF ValueInv, Sound, KeyVals, Values, Mapped
    <3>3. PICK V : V = Value'
      OBVIOUS
    <3>4. Mapped(V, keys \o args) = Mapped(V, keys) \o Mapped(V, args)
      BY ArgsSeq, MappedConcat
    <3>5. KeyVals' = Mapped(Value', keys \o args)
      BY <2>2 DEF KeyVals, Values, Mapped
    <3> QED BY <3>1, <3>2, <3>3, <3>4, <3>5
  <2> QED BY <1>1, <2>1, <2>2
<1> QED BY <1>2, <1>3, <1>4, Zenon DEF Val, ArgVals, KeyVals, Abstract!Call

LEMMA ValuesInit == Init => Abstract!Init
<1> SUFFICES ASSUME Init PROVE Abstract!Init
  OBVIOUS
<1>1. /\ assign = Null /\ args = <<>> /\ keys = <<>>
      /\ \A h \in Handle : user[h] = NoObject
  BY DEF Init
<1>2. \A h \in Handle : Settled(h) = NoObject
  BY <1>1, SettledThen
<1>3. Val = [h \in Handle |-> NoObject]
  BY <1>2, NodeAssumption DEF Val
<1>4. ArgVals = <<>> /\ KeyVals = <<>>
  BY <1>1 DEF ArgVals, KeyVals, Values
<1> QED BY <1>3, <1>4, Zenon DEF Val, ArgVals, KeyVals, Abstract!Init

LEMMA ValuesStep ==
  ASSUME ValuesApart, ValueInv, ValueInv', [Next]_vars
  PROVE  [Abstract!Next]_(Abstract!vars)
<1>1. HeapMoves
  BY HeapStep DEF ValueInv
<1>2. ASSUME NEW h \in Handle, NEW n \in Node, NEW l \in Label, NewLeaf(h, n, l)
      PROVE  Abstract!Next
  BY <1>1, <1>2, LeafValue, Zenon DEF Abstract!Next
<1>3. ASSUME NEW h \in Handle, NEW n \in Node, NEW f \in Handle, NEW moved \in BOOLEAN,
             NewCall(h, n, f, moved)
      PROVE  Abstract!Next
  BY <1>1, <1>3, CallValue, Zenon DEF Abstract!Next
<1>4. ASSUME NEW h \in Handle, NEW n \in Node, NEW l \in Handle, NEW r \in Handle,
             NEW movedL \in BOOLEAN, NEW movedR \in BOOLEAN,
             NewInfix(h, n, l, r, movedL, movedR)
      PROVE  Abstract!Next
  <2>1. Abstract!NewInfix(h, l, r, movedL, movedR)
    BY <1>1, <1>4, InfixValue
  <2>2. \E x \in Handle : \E y, z \in Handle, mY, mZ \in BOOLEAN : Abstract!NewInfix(x, y, z, mY, mZ)
    BY <2>1
  <2> QED BY <2>2, Zenon DEF Abstract!Next
<1>5. ASSUME NEW h \in Handle, NEW moved \in BOOLEAN, Push(h, moved)
      PROVE  Abstract!Next
  BY <1>1, <1>5, PushValue, Zenon DEF Abstract!Next
<1>6. ASSUME NEW h \in Handle, NEW s \in Handle, NEW moved \in BOOLEAN,
             Construct(h, s, moved) \/ StartAssign(h, s, moved)
      PROVE  Abstract!Next
  BY <1>1, <1>6, ConstructValue, StartAssignValue, Zenon DEF Abstract!Next
<1>7. ASSUME NEW a \in Handle, NEW b \in Handle, Swap(a, b)
      PROVE  Abstract!Next
  BY <1>1, <1>7, SwapValue, Zenon DEF Abstract!Next
<1>8. ASSUME NEW h \in Handle, Destroy(h)
      PROVE  Abstract!Next
  BY <1>1, <1>8, DestroyValue, Zenon DEF Abstract!Next
<1>9. CASE FinishAssign
  BY <1>1, <1>9, FinishAssignValue, Zenon
<1>10. CASE Release \/ UNCHANGED vars
  <2>1. user' = user /\ assign' = assign /\ args' = args /\ keys' = keys
    BY <1>10 DEF Release, vars
  <2> QED BY <1>1, <2>1, SameSettled, Stutter, Zenon
<1>11. CASE KeepKey \/ DropKey
  BY <1>1, <1>11, CallsValue, Zenon DEF Abstract!Next
<1>12. CASE \E h \in Handle, n \in Node :
              \/ \E l \in Label : NewLeaf(h, n, l)
              \/ \E f \in Handle, moved \in BOOLEAN : NewCall(h, n, f, moved)
              \/ \E l, r \in Handle, movedL, movedR \in BOOLEAN :
                   NewInfix(h, n, l, r, movedL, movedR)
  <2>1. PICK h \in Handle, n \in Node :
          \/ \E l \in Label : NewLeaf(h, n, l)
          \/ \E f \in Handle, moved \in BOOLEAN : NewCall(h, n, f, moved)
          \/ \E l, r \in Handle, movedL, movedR \in BOOLEAN :
               NewInfix(h, n, l, r, movedL, movedR)
    BY <1>12
  <2>2. Abstract!Next
    BY <1>2, <1>3, <1>4, <2>1, ZenonT(40)
  <2> QED BY <2>2, Zenon
<1>13. CASE \/ \E h \in Handle, moved \in BOOLEAN : Push(h, moved)
            \/ \E h, s \in Handle, moved \in BOOLEAN : Construct(h, s, moved) \/ StartAssign(h, s, moved)
            \/ \E a, b \in Handle : Swap(a, b)
            \/ \E h \in Handle : Destroy(h)
  <2>1. Abstract!Next
    BY <1>5, <1>6, <1>7, <1>8, <1>13, Zenon
  <2> QED BY <2>1, Zenon
<1>14. \/ \E h \in Handle, n \in Node :
            \/ \E l \in Label : NewLeaf(h, n, l)
            \/ \E f \in Handle, moved \in BOOLEAN : NewCall(h, n, f, moved)
            \/ \E l, r \in Handle, movedL, movedR \in BOOLEAN :
                 NewInfix(h, n, l, r, movedL, movedR)
       \/ \E h \in Handle, moved \in BOOLEAN : Push(h, moved)
       \/ \E h, s \in Handle, moved \in BOOLEAN : Construct(h, s, moved) \/ StartAssign(h, s, moved)
       \/ \E a, b \in Handle : Swap(a, b)
       \/ \E h \in Handle : Destroy(h)
       \/ FinishAssign \/ (Release \/ UNCHANGED vars) \/ (KeepKey \/ DropKey)
  BY Zenon DEF Next
<1> QED BY <1>9, <1>10, <1>11, <1>12, <1>13, <1>14, Zenon

(* Expressions are values: each step of the nodes and their counts,        *)
(* sharing, deletion and reuse of addresses included, is a step of         *)
(* ExprValues or changes no value at all (expr_base.hpp:54-91, expr.hpp,   *)
(* expr_all.cpp:309-341).                                                  *)
THEOREM ExpressionsAreValues ==
  ASSUME ValuesApart
  PROVE  Spec => ValueSemantics
<1>1. Init => Abstract!Init
  BY ValuesInit
<1>2. ValueInv /\ ValueInv' /\ [Next]_vars => [Abstract!Next]_(Abstract!vars)
  BY ValuesStep
<1> QED BY <1>1, <1>2, ValueAlways, PTL DEF Spec, ValueSemantics, Abstract!Spec
=============================================================================
