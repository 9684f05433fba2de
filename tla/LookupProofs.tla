---------------------------- MODULE LookupProofs ----------------------------
(***************************************************************************)
(* Proofs about what is looked up: the tools of dcc (ToolLookup), for any  *)
(* number of tools, any PATH, anything on the disk, and any limit on the   *)
(* number of descriptors; the options of dcc (OptionTable), for any words; *)
(* and the code for a call (ExprCode), for any expressions and calls.      *)
(***************************************************************************)
EXTENDS ExprCode, TextProofs

Points == {"main", "dev_fd", "slash", "path", "tools", "found", "none", "failed"}
Types ==
  /\ disk \in [(0 .. NumElems) \X Tool!Tools -> FileKinds]
  /\ slash \in SUBSET Tool!Tools
  /\ DOMAIN fds \subseteq Nat
  /\ exec_fd \in [Tool!Tools -> Nat]
  /\ elem \in Nat \ {0} /\ i \in Tool!Tools /\ pc \in Points

(* Where the search is, and that the standard streams are taken by then.   *)
Stage ==
  /\ pc \in {"main", "dev_fd", "path"} => i = 1
  /\ pc \in {"main", "dev_fd", "slash"} => elem = 1
  /\ pc = "tools" => elem \in Tool!Elems /\ Tool!Opens(elem)
  /\ pc \notin {"main", "failed"} => 0 .. 2 \subseteq DOMAIN fds

(* What has been found is right, and what has not been found is not in the *)
(* places looked at, unless descriptors have run out: they never come back *)
(* before the search has ended.                                            *)
Somewhere(t) == t \in slash \/ Tool!Candidates(t) # {}
Found(t) ==
  /\ Somewhere(t)
  /\ exec_fd[t] \in DOMAIN fds /\ exec_fd[t] >= 3 /\ fds[exec_fd[t]] = Tool!File(Tool!Place(t), t)

Ahead(e, t) == e > elem \/ (e = elem /\ (pc = "tools" => t >= i))

Looked ==
  \A t \in Tool!Tools :
    /\ ~Tool!Missing(t) => Found(t)
    /\ pc \in {"main", "dev_fd"} => Tool!Missing(t)
    /\ pc = "slash" => (t \in slash /\ t < i <=> ~Tool!Missing(t))
    /\ pc \in {"path", "tools"} /\ t \in slash => ~Tool!Missing(t)
    /\ pc \in {"path", "tools"} /\ t \notin slash /\ Tool!Missing(t) /\ Tool!Free # {} =>
         \A e \in Tool!Candidates(t) : Ahead(e, t)

LookupInv ==
  Tool!SizeAssumption /\ Types /\ Stage /\ Looked /\ Tool!StandardStreams /\ Tool!DescriptorsKept /\ Tool!FirstOnPath /\ Tool!ReportedMissing

-----------------------------------------------------------------------------
LEMMA ToolSizes ==
  Tool!SizeAssumption => /\ NumTools \in Nat /\ NumTools > 0 /\ NumElems \in Nat
                    /\ Limit \in Nat /\ Limit > 2
<1>1. Tool!SizeAssumption => NumTools \in Nat \ {0} /\ NumElems \in Nat /\ Limit \in Nat \ (0 .. 2)
  BY DEF Tool!SizeAssumption
<1> QED BY <1>1

LEMMA FreeMin ==
  ASSUME Tool!SizeAssumption, Tool!Free # {}
  PROVE  Tool!Min(Tool!Free) \in Tool!Free /\ \A n \in Tool!Free : Tool!Min(Tool!Free) <= n
<1>1. Tool!Free \subseteq Nat
  BY ToolSizes DEF Tool!Free
<1>2. IsWellFoundedOn(OpToRel(<, Nat), Nat)
  BY NatLessThanWellFounded
<1>3. PICK x \in Tool!Free : \A y \in Tool!Free : ~(<<y, x>> \in OpToRel(<, Nat))
  BY <1>1, <1>2, WFMin
<1>4. \A m, n \in Nat : m < n => <<m, n>> \in OpToRel(<, Nat)
  BY DEF OpToRel
<1>5. x \in Tool!Free /\ \A y \in Tool!Free : ~(y < x)
  BY <1>1, <1>3, <1>4, Zenon
<1>6. \A y \in Tool!Free : x <= y
  BY <1>1, <1>5
<1> QED BY <1>5, <1>6 DEF Tool!Min

LEMMA OpenFacts ==
  ASSUME Tool!SizeAssumption, NEW what, Tool!Open(what)
  PROVE  /\ Tool!Min(Tool!Free) \in 0 .. Limit - 1 /\ Tool!Min(Tool!Free) \notin DOMAIN fds
         /\ DOMAIN fds' = DOMAIN fds \union {Tool!Min(Tool!Free)}
         /\ fds'[Tool!Min(Tool!Free)] = what
         /\ \A fd \in DOMAIN fds : fds'[fd] = fds[fd]
         /\ Tool!Free # {} /\ Tool!Free' \subseteq Tool!Free
         /\ Tool!Min(Tool!Free) >= 3 => 0 .. 2 \subseteq DOMAIN fds
<1>1. Tool!Min(Tool!Free) \in Tool!Free /\ \A n \in Tool!Free : Tool!Min(Tool!Free) <= n
  BY FreeMin DEF Tool!Open
<1>2. Tool!Min(Tool!Free) \in 0 .. Limit - 1 /\ Tool!Min(Tool!Free) \notin DOMAIN fds
  BY <1>1 DEF Tool!Free
<1>3. /\ DOMAIN fds' = DOMAIN fds \union {Tool!Min(Tool!Free)}
      /\ fds'[Tool!Min(Tool!Free)] = what
      /\ \A fd \in DOMAIN fds : fds'[fd] = fds[fd]
  BY <1>2 DEF Tool!Open
<1>4. Tool!Free # {} /\ Tool!Free' \subseteq Tool!Free
  BY <1>3 DEF Tool!Open, Tool!Free
<1>5. Tool!Min(Tool!Free) >= 3 => 0 .. 2 \subseteq DOMAIN fds
  BY <1>1, ToolSizes DEF Tool!Free
<1> QED BY <1>2, <1>3, <1>4, <1>5

LEMMA Apart == \A q, t : Tool!File(q, t) # Tool!DevFd
<1> SUFFICES ASSUME NEW q, NEW t, Tool!File(q, t) = Tool!DevFd PROVE FALSE
  OBVIOUS
<1>1. DOMAIN Tool!File(q, t) = {"file"} /\ DOMAIN Tool!DevFd = {"dev"}
  BY DEF Tool!File, Tool!DevFd
<1> QED BY <1>1

LEMMA InitLookup == Tool!SizeAssumption /\ Tool!Init => LookupInv
<1> SUFFICES ASSUME Tool!SizeAssumption, Tool!Init PROVE LookupInv
  OBVIOUS
<1>1. Types
  <2>1. DOMAIN fds \subseteq Nat
    <3>1. PICK closed \in SUBSET (0 .. 2) : fds = [fd \in (0 .. 2) \ closed |-> Tool!Std]
      BY DEF Tool!Init
    <3> QED BY <3>1
  <2>2. exec_fd \in [Tool!Tools -> Nat] /\ elem = 1 /\ i = 1 /\ pc = "main"
    BY DEF Tool!Init
  <2>3. disk \in [(0 .. NumElems) \X Tool!Tools -> FileKinds] /\ slash \in SUBSET Tool!Tools
    BY DEF Tool!Init
  <2>4. 1 \in Tool!Tools
    BY ToolSizes DEF Tool!Tools
  <2> QED BY <2>1, <2>2, <2>3, <2>4 DEF Types, Points
<1>2. Stage /\ Looked
  BY DEF Tool!Init, Stage, Looked, Tool!Missing
<1>3. Tool!StandardStreams /\ Tool!DescriptorsKept
  BY DEF Tool!Init, Tool!StandardStreams, Tool!DescriptorsKept
<1>4. Tool!FirstOnPath /\ Tool!ReportedMissing
  BY DEF Tool!Init, Tool!FirstOnPath, Tool!ReportedMissing
<1> QED BY <1>1, <1>2, <1>3, <1>4 DEF LookupInv

-----------------------------------------------------------------------------
(* What holds of the disk and of PATH all the time. *)
LEMMA SameWorld ==
  ASSUME UNCHANGED Tool!world
  PROVE  /\ \A t : Tool!Candidates(t)' = Tool!Candidates(t) /\ Tool!Place(t)' = Tool!Place(t)
         /\ \A t : Somewhere(t)' <=> Somewhere(t)
         /\ \A e : Tool!Opens(e)' <=> Tool!Opens(e)
<1>1. \A e : Tool!Opens(e)' <=> Tool!Opens(e)
  BY DEF Tool!world, Tool!Opens
<1>2. \A t : Tool!Candidates(t)' = Tool!Candidates(t)
  BY DEF Tool!world, Tool!Candidates, Tool!Opens
<1>3. \A t : Tool!Place(t)' = Tool!Place(t)
  BY <1>2 DEF Tool!world, Tool!Place
<1>4. \A t : Somewhere(t)' <=> Somewhere(t)
  BY <1>2 DEF Tool!world, Somewhere
<1> QED BY <1>1, <1>2, <1>3, <1>4

LEMMA Assemble ==
  ASSUME LookupInv, UNCHANGED Tool!world, DOMAIN fds' \subseteq Nat, exec_fd' \in [Tool!Tools -> Nat],
         elem' \in Nat \ {0}, i' \in Tool!Tools, pc' \in Points, pc' # "found", pc' # "none",
         Stage', Looked', Tool!StandardStreams', Tool!DescriptorsKept'
  PROVE  LookupInv'
<1>1. Types'
  BY DEF LookupInv, Types, Tool!world
<1>2. Tool!FirstOnPath' /\ Tool!ReportedMissing'
  BY DEF Tool!FirstOnPath, Tool!ReportedMissing
<1> QED BY <1>1, <1>2 DEF LookupInv

LEMMA FoundStays ==
  ASSUME UNCHANGED Tool!world, NEW t \in Tool!Tools, Found(t), exec_fd'[t] = exec_fd[t],
         exec_fd[t] \in DOMAIN fds', fds'[exec_fd[t]] = fds[exec_fd[t]]
  PROVE  Found(t)'
  BY SameWorld DEF Found

(* A directory or a device takes the lowest free descriptor. *)
LEMMA OpenKeeps ==
  ASSUME LookupInv, UNCHANGED Tool!world, NEW what, Tool!Open(what), UNCHANGED exec_fd, pc # "failed",
         what \in {Tool!DevNull, Tool!DevFd} \union {Tool!Dir(e) : e \in Tool!Elems},
         Tool!Min(Tool!Free) >= 3 \/ pc' = "failed"
  PROVE  /\ DOMAIN fds' \subseteq Nat /\ Tool!StandardStreams' /\ Tool!DescriptorsKept'
         /\ \A t \in Tool!Tools : Found(t) => Found(t)'
<1>1. Tool!SizeAssumption /\ Types /\ Tool!StandardStreams /\ Tool!DescriptorsKept
  BY DEF LookupInv
<1>2. /\ Tool!Min(Tool!Free) \in Nat /\ DOMAIN fds' = DOMAIN fds \union {Tool!Min(Tool!Free)}
      /\ fds'[Tool!Min(Tool!Free)] = what /\ \A fd \in DOMAIN fds : fds'[fd] = fds[fd]
  BY <1>1, OpenFacts
<1>3. DOMAIN fds' \subseteq Nat
  BY <1>1, <1>2 DEF Types
<1>4. Tool!StandardStreams'
  BY <1>1, <1>2 DEF Tool!StandardStreams
<1>5. Tool!DescriptorsKept'
  BY <1>1, <1>2 DEF Tool!DescriptorsKept
<1>6. \A t \in Tool!Tools : Found(t) => Found(t)'
  BY <1>2, FoundStays DEF Found
<1> QED BY <1>3, <1>4, <1>5, <1>6

(* A tool that was missing takes it. *)
LEMMA TakeKeeps ==
  ASSUME LookupInv, UNCHANGED Tool!world, NEW place \in 0 .. NumElems, Tool!Take(place),
         NEW j \in Tool!Tools, j = i, Tool!Missing(j), pc \notin {"main", "failed"}
  PROVE  /\ DOMAIN fds' \subseteq Nat /\ Tool!StandardStreams' /\ Tool!DescriptorsKept'
         /\ exec_fd' \in [Tool!Tools -> Nat] /\ Tool!Free # {} /\ Tool!Free' \subseteq Tool!Free
         /\ 0 .. 2 \subseteq DOMAIN fds'
         /\ \A t \in Tool!Tools : t # j => (Tool!Missing(t)' <=> Tool!Missing(t)) /\ (Found(t) => Found(t)')
         /\ ~Tool!Missing(j)' /\ (Tool!Place(j) = place /\ Somewhere(j) => Found(j)')
<1>0. Tool!SizeAssumption /\ Types /\ Stage /\ Tool!StandardStreams /\ Tool!DescriptorsKept
  BY DEF LookupInv
<1>1. exec_fd \in [Tool!Tools -> Nat] /\ DOMAIN fds \subseteq Nat
  BY <1>0 DEF Types
<1>2. /\ Tool!Min(Tool!Free) \in Nat /\ Tool!Min(Tool!Free) \notin DOMAIN fds
      /\ DOMAIN fds' = DOMAIN fds \union {Tool!Min(Tool!Free)}
      /\ fds'[Tool!Min(Tool!Free)] = Tool!File(place, j) /\ \A fd \in DOMAIN fds : fds'[fd] = fds[fd]
      /\ Tool!Free # {} /\ Tool!Free' \subseteq Tool!Free
  BY <1>0, OpenFacts DEF Tool!Take
<1>3. 0 .. 2 \subseteq DOMAIN fds /\ Tool!Min(Tool!Free) >= 3
  BY <1>0, <1>2 DEF Stage
<1>4. /\ exec_fd' \in [Tool!Tools -> Nat] /\ exec_fd'[j] = Tool!Min(Tool!Free)
      /\ \A t \in Tool!Tools : t # j => exec_fd'[t] = exec_fd[t]
  BY <1>1, <1>2 DEF Tool!Take
<1>5. DOMAIN fds' \subseteq Nat /\ 0 .. 2 \subseteq DOMAIN fds'
  BY <1>1, <1>2, <1>3
<1>6. Tool!StandardStreams'
  BY <1>0, <1>2, <1>3 DEF Tool!StandardStreams
<1>7. Tool!DescriptorsKept'
  <2> SUFFICES ASSUME NEW fd \in DOMAIN fds'
               PROVE  fds'[fd] \in {Tool!Std, Tool!DevNull, Tool!DevFd} \union {Tool!Dir(e) : e \in Tool!Elems}
                        \/ \E t \in Tool!Tools : exec_fd'[t] = fd /\ fds'[fd] \in {Tool!File(q, t) : q \in 0 .. NumElems}
    BY DEF Tool!DescriptorsKept
  <2>1. CASE fd = Tool!Min(Tool!Free)
    BY <1>1, <1>2, <1>4, <2>1
  <2>2. CASE fd \in DOMAIN fds /\ fd <= 2
    BY <1>0, <1>2, <2>2 DEF Tool!StandardStreams
  <2>3. CASE fd \in DOMAIN fds /\ fd > 2
    <3>1. CASE fds[fd] \in {Tool!Std, Tool!DevNull, Tool!DevFd} \union {Tool!Dir(e) : e \in Tool!Elems}
      BY <1>2, <2>3, <3>1
    <3>2. ASSUME NEW t \in Tool!Tools, exec_fd[t] = fd, fds[fd] \in {Tool!File(q, t) : q \in 0 .. NumElems}
          PROVE  exec_fd'[t] = fd /\ fds'[fd] \in {Tool!File(q, t) : q \in 0 .. NumElems}
      BY <1>2, <1>4, <2>3, <3>2 DEF Tool!Missing
    <3> QED BY <1>0, <2>3, <3>1, <3>2 DEF Tool!DescriptorsKept
  <2> QED BY <1>1, <1>2, <2>1, <2>2, <2>3
<1>8. \A t \in Tool!Tools : t # j => (Tool!Missing(t)' <=> Tool!Missing(t)) /\ (Found(t) => Found(t)')
  <2>1. ASSUME NEW t \in Tool!Tools, t # j, Found(t) PROVE Found(t)'
    BY <1>2, <1>4, <2>1, FoundStays DEF Found
  <2> QED BY <1>4, <2>1 DEF Tool!Missing
<1>9. ~Tool!Missing(j)' /\ (Tool!Place(j) = place /\ Somewhere(j) => Found(j)')
  <2>1. exec_fd'[j] \in DOMAIN fds' /\ exec_fd'[j] >= 3 /\ fds'[exec_fd'[j]] = Tool!File(place, j)
    BY <1>2, <1>3, <1>4
  <2>2. Tool!Place(j)' = Tool!Place(j) /\ (Somewhere(j)' <=> Somewhere(j))
    BY SameWorld
  <2> QED BY <2>1, <2>2 DEF Found, Tool!Missing
<1> QED BY <1>2, <1>4, <1>5, <1>6, <1>7, <1>8, <1>9

-----------------------------------------------------------------------------
LEMMA DevicesStep ==
  ASSUME LookupInv, Tool!OpenDevNull \/ Tool!OpenDevFd
  PROVE  LookupInv'
<1>0. Tool!SizeAssumption /\ Types /\ Stage /\ Looked /\ Tool!StandardStreams /\ Tool!DescriptorsKept
  BY DEF LookupInv
<1>1. /\ UNCHANGED Tool!world /\ UNCHANGED <<exec_fd, elem, i>> /\ pc \in {"main", "dev_fd"}
      /\ i = 1 /\ elem = 1 /\ \A t \in Tool!Tools : Tool!Missing(t) /\ Tool!Missing(t)'
  BY <1>0 DEF Tool!OpenDevNull, Tool!OpenDevFd, Stage, Looked, Tool!Missing
<1>2. exec_fd' \in [Tool!Tools -> Nat] /\ elem' \in Nat \ {0} /\ i' \in Tool!Tools
  BY <1>0, <1>1 DEF Types
<1>3. CASE Tool!OpenDevNull /\ Tool!Open(Tool!DevNull)
  <2>1. /\ pc' = IF Tool!Min(Tool!Free) >= 3 THEN "dev_fd" ELSE "failed"
    BY <1>3 DEF Tool!OpenDevNull, Tool!OpenFails, Tool!Open, Tool!Goto, Tool!Fail, Tool!AfterStandard
  <2>2. DOMAIN fds' \subseteq Nat /\ Tool!StandardStreams' /\ Tool!DescriptorsKept'
    BY <1>1, <1>3, <2>1, OpenKeeps
  <2>3. Stage'
    BY <1>0, <1>1, <1>3, <2>1, OpenFacts DEF Stage
  <2>4. Looked'
    BY <1>1, <2>1 DEF Looked
  <2>5. pc' \in Points /\ pc' # "found" /\ pc' # "none"
    BY <2>1 DEF Points
  <2> QED BY <1>1, <1>2, <2>2, <2>3, <2>4, <2>5, Assemble
<1>4. CASE Tool!OpenDevFd /\ Tool!Open(Tool!DevFd)
  <2>1. pc = "dev_fd" /\ pc' = "slash"
    BY <1>4 DEF Tool!OpenDevFd, Tool!OpenFails, Tool!Open, Tool!Goto
  <2>2. 0 .. 2 \subseteq DOMAIN fds /\ Tool!Min(Tool!Free) >= 3
    BY <1>0, <1>4, <2>1, OpenFacts DEF Stage
  <2>3. DOMAIN fds' \subseteq Nat /\ Tool!StandardStreams' /\ Tool!DescriptorsKept'
    BY <1>1, <1>4, <2>1, <2>2, OpenKeeps
  <2>4. Stage'
    BY <1>0, <1>1, <1>4, <2>1, <2>2, OpenFacts DEF Stage
  <2>5. Looked'
    BY <1>1, <2>1 DEF Looked, Tool!Tools
  <2>6. pc' \in Points /\ pc' # "found" /\ pc' # "none"
    BY <2>1 DEF Points
  <2> QED BY <1>1, <1>2, <2>3, <2>4, <2>5, <2>6, Assemble
<1>5. CASE Tool!OpenFails /\ Tool!Fail
  <2>1. pc' = "failed" /\ UNCHANGED fds
    BY <1>5 DEF Tool!OpenFails, Tool!Fail, Tool!Goto
  <2>2. Stage' /\ Looked' /\ Tool!StandardStreams'
    BY <1>1, <2>1 DEF Stage, Looked, Tool!StandardStreams
  <2>3. Tool!DescriptorsKept' /\ DOMAIN fds' \subseteq Nat
    BY <1>0, <1>1, <2>1 DEF Tool!DescriptorsKept, Types
  <2>4. pc' \in Points /\ pc' # "found" /\ pc' # "none"
    BY <2>1 DEF Points
  <2> QED BY <1>1, <1>2, <2>2, <2>3, <2>4, Assemble
<1> QED BY <1>3, <1>4, <1>5 DEF Tool!OpenDevNull, Tool!OpenDevFd

(* Where NextTool may lead. *)
MovesOn(j, label, place) ==
  \/ j < NumTools /\ i' = j + 1 /\ pc' = pc /\ elem' = elem
  \/ j = NumTools /\ i' = 1 /\ pc' = label /\ elem' = place

LEMMA FromTheFirst ==
  ASSUME Tool!SizeAssumption, elem' = 1, pc' = "path"
  PROVE  \A t : \A e \in Tool!Candidates(t)' : Ahead(e, t)'
<1>1. \A t : \A e \in Tool!Candidates(t)' : e \in Nat /\ e >= 1
  <2>1. \A t : Tool!Candidates(t)' \subseteq Tool!Elems
    BY DEF Tool!Candidates
  <2> QED BY <2>1, ToolSizes DEF Tool!Elems
<1> QED BY <1>1 DEF Ahead

LEMMA SlashStep ==
  ASSUME LookupInv, Tool!FindSlash
  PROVE  LookupInv'
<1>0. Tool!SizeAssumption /\ Types /\ Stage /\ Looked /\ Tool!StandardStreams /\ Tool!DescriptorsKept
  BY DEF LookupInv
<1>1. PICK j \in Tool!Tools : j = i
  BY <1>0 DEF Types
<1>2. /\ UNCHANGED Tool!world /\ pc = "slash" /\ elem = 1 /\ 0 .. 2 \subseteq DOMAIN fds
      /\ exec_fd \in [Tool!Tools -> Nat] /\ DOMAIN fds \subseteq Nat /\ NumTools \in Nat /\ 0 \in 0 .. NumElems
      /\ \A t \in Tool!Tools : (t \in slash /\ t < j <=> ~Tool!Missing(t)) /\ (~Tool!Missing(t) => Found(t))
  BY <1>0, <1>1, ToolSizes DEF Tool!FindSlash, Stage, Types, Looked
<1>3. CASE j \notin slash /\ UNCHANGED <<fds, exec_fd>> /\ MovesOn(j, "path", elem)
  <2>1. /\ UNCHANGED slash /\ \A t \in Tool!Tools : (Tool!Missing(t)' <=> Tool!Missing(t)) /\ (Found(t) => Found(t)')
    BY <1>2, <1>3, FoundStays DEF Tool!world, Tool!Missing, Found
  <2>2. Tool!StandardStreams' /\ Tool!DescriptorsKept' /\ Stage'
    BY <1>0, <1>2, <1>3 DEF Tool!StandardStreams, Tool!DescriptorsKept, Stage, MovesOn
  <2>3. Looked'
    <3>1. CASE j < NumTools /\ i' = j + 1 /\ pc' = pc
      BY <1>2, <1>3, <2>1, <3>1 DEF Looked, Tool!Tools
    <3>2. CASE j = NumTools /\ pc' = "path" /\ elem' = 1
      <4>1. \A t \in Tool!Tools : t \in slash => ~Tool!Missing(t)
        BY <1>2, <1>3, <3>2 DEF Tool!Tools
      <4> QED BY <1>0, <1>2, <2>1, <3>2, <4>1, FromTheFirst DEF Looked
    <3> QED BY <1>2, <1>3, <3>1, <3>2 DEF MovesOn
  <2>4. /\ elem' \in Nat \ {0} /\ i' \in Tool!Tools /\ pc' \in Points /\ pc' # "found" /\ pc' # "none"
    BY <1>2, <1>3 DEF MovesOn, Tool!Tools, Points
  <2> QED BY <1>2, <1>3, <2>2, <2>3, <2>4, Assemble
<1>4. CASE j \in slash /\ Tool!Take(0) /\ MovesOn(j, "path", elem)
  <2>1. Tool!Missing(j) /\ Tool!Place(j) = 0 /\ Somewhere(j)
    BY <1>2, <1>4 DEF Tool!Tools, Tool!Place, Somewhere
  <2>2. /\ DOMAIN fds' \subseteq Nat /\ Tool!StandardStreams' /\ Tool!DescriptorsKept'
        /\ exec_fd' \in [Tool!Tools -> Nat] /\ 0 .. 2 \subseteq DOMAIN fds'
        /\ \A t \in Tool!Tools : t # j => (Tool!Missing(t)' <=> Tool!Missing(t)) /\ (Found(t) => Found(t)')
        /\ ~Tool!Missing(j)' /\ Found(j)'
    BY <1>1, <1>2, <1>4, <2>1, TakeKeeps
  <2>3. Stage' /\ UNCHANGED slash
    BY <1>2, <1>4, <2>2 DEF Stage, MovesOn, Tool!world
  <2>4. Looked'
    <3>0. \A t \in Tool!Tools : ~Tool!Missing(t)' => Found(t)'
      BY <1>2, <2>2
    <3>1. CASE j < NumTools /\ i' = j + 1 /\ pc' = pc
      BY <1>2, <1>4, <2>2, <2>3, <3>0, <3>1 DEF Looked, Tool!Tools
    <3>2. CASE j = NumTools /\ pc' = "path" /\ elem' = 1
      <4>1. \A t \in Tool!Tools : t \in slash => ~Tool!Missing(t)'
        BY <1>2, <1>4, <2>2, <3>2 DEF Tool!Tools
      <4> QED BY <1>0, <2>3, <3>0, <3>2, <4>1, FromTheFirst DEF Looked
    <3> QED BY <1>2, <1>4, <3>1, <3>2 DEF MovesOn
  <2>5. /\ elem' \in Nat \ {0} /\ i' \in Tool!Tools /\ pc' \in Points /\ pc' # "found" /\ pc' # "none"
    BY <1>2, <1>4 DEF MovesOn, Tool!Tools, Points
  <2> QED BY <1>2, <2>2, <2>3, <2>4, <2>5, Assemble
<1>5. CASE pc' = "failed" /\ UNCHANGED <<fds, exec_fd, i, elem>>
  <2>1. \A t \in Tool!Tools : (Tool!Missing(t)' <=> Tool!Missing(t)) /\ (Found(t) => Found(t)')
    BY <1>2, <1>5, FoundStays DEF Tool!Missing, Found
  <2>2. Tool!StandardStreams' /\ Tool!DescriptorsKept' /\ Stage' /\ Looked'
    BY <1>0, <1>2, <1>5, <2>1 DEF Tool!StandardStreams, Tool!DescriptorsKept, Stage, Looked
  <2>3. /\ elem' \in Nat \ {0} /\ i' \in Tool!Tools /\ pc' \in Points /\ pc' # "found" /\ pc' # "none"
    BY <1>0, <1>5 DEF Types, Points
  <2> QED BY <1>2, <1>5, <2>2, <2>3, Assemble
<1>6. MovesOn(j, "path", elem) \/ pc' = "failed"
  BY <1>1, <1>2 DEF Tool!FindSlash, Tool!NextTool, Tool!Goto, Tool!Fail, MovesOn, Tool!Tools
<1> QED
  BY <1>1, <1>2, <1>3, <1>4, <1>5, <1>6 DEF Tool!FindSlash, Tool!Fail, Tool!Goto, Tool!NextTool

-----------------------------------------------------------------------------
(* What is missing is still ahead, wherever the search goes on. *)
LEMMA LookFurther ==
  ASSUME LookupInv, UNCHANGED Tool!world, pc \in {"path", "tools"}, pc' \in {"path", "tools"},
         Tool!Free' \subseteq Tool!Free,
         \A t \in Tool!Tools : (Tool!Missing(t)' => Tool!Missing(t)) /\ (~Tool!Missing(t)' => Found(t)'),
         \A t \in Tool!Tools : Tool!Missing(t)' /\ Tool!Free # {} =>
           \A e \in Tool!Candidates(t) : Ahead(e, t) => Ahead(e, t)'
  PROVE  Looked'
<1>1. Looked /\ slash' = slash /\ \A t : Tool!Candidates(t)' = Tool!Candidates(t)
  BY SameWorld DEF LookupInv, Tool!world
<1>2. \A t \in Tool!Tools : t \in slash => ~Tool!Missing(t)'
  BY <1>1 DEF Looked
<1>3. ASSUME NEW t \in Tool!Tools, t \notin slash, Tool!Missing(t)', Tool!Free' # {}, NEW e \in Tool!Candidates(t)
      PROVE  Ahead(e, t)'
  <2>1. Tool!Missing(t) /\ Tool!Free # {}
    BY <1>3
  <2>2. Ahead(e, t)
    BY <1>1, <1>3, <2>1 DEF Looked
  <2> QED BY <1>3, <2>1, <2>2
<1> QED BY <1>1, <1>2, <1>3 DEF Looked

LEMMA OpenElemStep ==
  ASSUME LookupInv, Tool!OpenElem
  PROVE  LookupInv'
<1>0. Tool!SizeAssumption /\ Types /\ Stage /\ Looked /\ Tool!StandardStreams /\ Tool!DescriptorsKept
  BY DEF LookupInv
<1>a. pc = "path" /\ elem <= NumElems /\ UNCHANGED Tool!world /\ UNCHANGED <<exec_fd, i>>
  BY DEF Tool!OpenElem
<1>b. elem \in Nat \ {0}
  BY <1>0 DEF Types
<1>1. PICK here \in Tool!Elems : here = elem
  BY <1>0, <1>a, <1>b, ToolSizes DEF Tool!Elems
<1>2. /\ UNCHANGED Tool!world /\ UNCHANGED <<exec_fd, i>> /\ pc = "path" /\ i = 1
      /\ 0 .. 2 \subseteq DOMAIN fds /\ here \in Nat /\ here >= 1
  BY <1>0, <1>a, <1>b, <1>1 DEF Stage
<1>3. /\ exec_fd' \in [Tool!Tools -> Nat] /\ i' \in Tool!Tools /\ here + 1 \in Nat \ {0}
      /\ DOMAIN fds \subseteq Nat
      /\ \A t \in Tool!Tools : (Tool!Missing(t)' <=> Tool!Missing(t)) /\ (~Tool!Missing(t) => Found(t))
  BY <1>0, <1>2 DEF Types, Tool!Missing, Looked
<1>4. \A t : \A e \in Tool!Candidates(t) : e \in Nat /\ (Ahead(e, t) => e >= here)
  <2>1. \A t : Tool!Candidates(t) \subseteq Tool!Elems
    BY DEF Tool!Candidates
  <2> QED BY <1>1, <1>2, <2>1, ToolSizes DEF Tool!Elems, Ahead
<1>5. CASE Tool!Opens(here) /\ Tool!Open(Tool!Dir(here)) /\ pc' = "tools" /\ elem' = here
  <2>1. Tool!Min(Tool!Free) >= 3 /\ Tool!Free' \subseteq Tool!Free /\ 0 .. 2 \subseteq DOMAIN fds'
    BY <1>0, <1>2, <1>5, OpenFacts
  <2>2. /\ DOMAIN fds' \subseteq Nat /\ Tool!StandardStreams' /\ Tool!DescriptorsKept'
        /\ \A t \in Tool!Tools : Found(t) => Found(t)'
    BY <1>1, <1>2, <1>5, <2>1, OpenKeeps
  <2>3. \A t \in Tool!Tools : \A e \in Tool!Candidates(t) : Ahead(e, t) => Ahead(e, t)'
    BY <1>2, <1>4, <1>5 DEF Ahead, Tool!Tools
  <2>4. Looked'
    BY <1>2, <1>3, <1>5, <2>1, <2>2, <2>3, LookFurther
  <2>5. Tool!Opens(here)'
    BY <1>2, <1>5, SameWorld
  <2>6. Stage' /\ pc' \in Points
    BY <1>1, <1>2, <1>5, <2>1, <2>5 DEF Stage, Points
  <2> QED BY <1>2, <1>3, <1>5, <2>2, <2>4, <2>6, Assemble
<1>6. ASSUME UNCHANGED fds
      PROVE  /\ Tool!StandardStreams' \/ pc' = "failed"
             /\ Tool!DescriptorsKept' /\ DOMAIN fds' \subseteq Nat /\ Tool!Free' \subseteq Tool!Free
             /\ \A t \in Tool!Tools : Found(t) => Found(t)'
  <2>1. \A t \in Tool!Tools : Found(t) => Found(t)'
    BY <1>2, <1>6, FoundStays DEF Found
  <2>2. Tool!StandardStreams'
    BY <1>0, <1>2, <1>6 DEF Tool!StandardStreams
  <2>3. Tool!DescriptorsKept' /\ DOMAIN fds' \subseteq Nat
    BY <1>0, <1>2, <1>3, <1>6 DEF Tool!DescriptorsKept
  <2>4. Tool!Free' \subseteq Tool!Free
    BY <1>6 DEF Tool!Free
  <2> QED BY <2>1, <2>2, <2>3, <2>4
<1>7. CASE (~Tool!Opens(here) \/ Tool!Free = {}) /\ UNCHANGED fds /\ pc' = "path" /\ elem' = here + 1
  <2>1. /\ Tool!StandardStreams' /\ Tool!DescriptorsKept' /\ DOMAIN fds' \subseteq Nat /\ Tool!Free' \subseteq Tool!Free
        /\ \A t \in Tool!Tools : Found(t) => Found(t)'
    BY <1>6, <1>7
  <2>2. ASSUME NEW t \in Tool!Tools, Tool!Free # {}, NEW e \in Tool!Candidates(t), Ahead(e, t) PROVE Ahead(e, t)'
    <3>1. e # here
      BY <1>7, <2>2 DEF Tool!Candidates
    <3> QED BY <1>2, <1>4, <1>7, <2>2, <3>1 DEF Ahead
  <2>3. Looked'
    BY <1>2, <1>3, <1>7, <2>1, <2>2, LookFurther
  <2>4. Stage' /\ pc' \in Points
    BY <1>2, <1>7 DEF Stage, Points
  <2> QED BY <1>2, <1>3, <1>7, <2>1, <2>3, <2>4, Assemble
<1> QED
  BY <1>1, <1>5, <1>7 DEF Tool!OpenElem, Tool!NextElem, Tool!OpenFails, Tool!Goto, Tool!Opens

LEMMA FindInElemStep ==
  ASSUME LookupInv, Tool!FindInElem
  PROVE  LookupInv'
<1>0. Tool!SizeAssumption /\ Types /\ Stage /\ Looked /\ Tool!StandardStreams /\ Tool!DescriptorsKept
  BY DEF LookupInv
<1>a. pc = "tools" /\ UNCHANGED Tool!world
  BY DEF Tool!FindInElem
<1>1. PICK j \in Tool!Tools : j = i
  BY <1>0 DEF Types
<1>2. PICK here \in Tool!Elems : here = elem
  BY <1>0, <1>a DEF Stage
<1>3. /\ Tool!Opens(here) /\ 0 .. 2 \subseteq DOMAIN fds /\ exec_fd \in [Tool!Tools -> Nat] /\ DOMAIN fds \subseteq Nat
      /\ here \in 0 .. NumElems /\ here >= 1 /\ here + 1 \in Nat \ {0} /\ NumTools \in Nat /\ j \in 1 .. NumTools
  BY <1>0, <1>a, <1>1, <1>2, ToolSizes DEF Stage, Types, Tool!Elems, Tool!Tools
<1>4. \A t : \A e \in Tool!Candidates(t) : e \in Nat /\ (Ahead(e, t) => e > here \/ (e = here /\ t >= j))
  <2>1. \A t : Tool!Candidates(t) \subseteq Tool!Elems
    BY DEF Tool!Candidates
  <2>2. \A e \in Tool!Elems : e \in Nat
    BY ToolSizes DEF Tool!Elems
  <2> QED BY <1>a, <1>1, <1>2, <2>1, <2>2 DEF Ahead
<1>5. MovesOn(j, "path", here + 1) /\ pc' \in {"path", "tools"}
  BY <1>a, <1>1, <1>2, <1>3 DEF Tool!FindInElem, Tool!NextTool, Tool!Goto, MovesOn
<1>6. /\ elem' \in Nat \ {0} /\ i' \in Tool!Tools /\ pc' \in Points /\ pc' # "found" /\ pc' # "none"
  BY <1>2, <1>3, <1>5 DEF MovesOn, Tool!Tools, Points
<1>7. ASSUME 0 .. 2 \subseteq DOMAIN fds' PROVE Stage'
  <2>1. Tool!Opens(here)'
    BY <1>a, <1>3, SameWorld
  <2> QED BY <1>2, <1>a, <1>5, <1>7, <2>1 DEF Stage, MovesOn
<1>8. ASSUME NEW t \in Tool!Tools, NEW e \in Tool!Candidates(t), Ahead(e, t), t # j \/ e # here
      PROVE  Ahead(e, t)'
  <2>1. e \in Nat /\ (e > here \/ (e = here /\ t > j)) /\ t \in 1 .. NumTools
    BY <1>3, <1>4, <1>8 DEF Tool!Tools
  <2> QED BY <1>2, <1>3, <1>5, <2>1 DEF Ahead, MovesOn
<1>9. CASE Tool!Missing(j) /\ Tool!Free # {} /\ disk[<<here, j>>] = "readable file" /\ Tool!Take(here)
  <2>1. here \in Tool!Candidates(j)
    BY <1>3, <1>9 DEF Tool!Candidates
  <2>2. j \notin slash /\ \A e \in Tool!Candidates(j) : e \in Nat /\ here <= e
    <3>1. j \notin slash /\ \A e \in Tool!Candidates(j) : Ahead(e, j)
      BY <1>0, <1>a, <1>9 DEF Looked
    <3>2. here \in Nat
      BY <1>3
    <3> QED BY <1>4, <3>1, <3>2
  <2>3. Tool!Place(j) = here /\ Somewhere(j)
    <3>1. \A x \in Tool!Candidates(j) : (\A y \in Tool!Candidates(j) : x <= y) => x = here
      BY <1>3, <2>1, <2>2
    <3>2. Tool!Min(Tool!Candidates(j)) = here
      BY <2>1, <2>2, <3>1 DEF Tool!Min
    <3> QED BY <2>1, <2>2, <3>2 DEF Tool!Place, Somewhere
  <2>4. /\ DOMAIN fds' \subseteq Nat /\ Tool!StandardStreams' /\ Tool!DescriptorsKept'
        /\ exec_fd' \in [Tool!Tools -> Nat] /\ Tool!Free # {} /\ Tool!Free' \subseteq Tool!Free
        /\ 0 .. 2 \subseteq DOMAIN fds'
        /\ \A t \in Tool!Tools : t # j => (Tool!Missing(t)' <=> Tool!Missing(t)) /\ (Found(t) => Found(t)')
        /\ ~Tool!Missing(j)' /\ Found(j)'
    BY <1>a, <1>1, <1>3, <1>9, <2>3, TakeKeeps
  <2>5. \A t \in Tool!Tools : ~Tool!Missing(t) => Found(t)
    BY <1>0 DEF Looked
  <2>6. \A t \in Tool!Tools : (Tool!Missing(t)' => Tool!Missing(t)) /\ (~Tool!Missing(t)' => Found(t)')
    BY <2>4, <2>5, <1>9
  <2>7. \A t \in Tool!Tools : Tool!Missing(t)' => \A e \in Tool!Candidates(t) : Ahead(e, t) => Ahead(e, t)'
    BY <1>8, <2>4
  <2>8. Looked'
    BY <1>a, <1>5, <2>4, <2>6, <2>7, LookFurther
  <2> QED BY <1>a, <1>6, <1>7, <2>4, <2>8, Assemble
<1>10. CASE /\ ~Tool!Missing(j) \/ Tool!Free = {} \/ disk[<<here, j>>] # "readable file"
            /\ UNCHANGED <<fds, exec_fd>>
  <2>1. /\ 0 .. 2 \subseteq DOMAIN fds' /\ DOMAIN fds' \subseteq Nat /\ exec_fd' \in [Tool!Tools -> Nat]
        /\ Tool!Free' \subseteq Tool!Free
    BY <1>3, <1>10 DEF Tool!Free
  <2>2. Tool!StandardStreams' /\ Tool!DescriptorsKept'
    BY <1>0, <1>a, <1>10 DEF Tool!StandardStreams, Tool!DescriptorsKept
  <2>3. \A t \in Tool!Tools : (Tool!Missing(t)' <=> Tool!Missing(t)) /\ (Found(t) => Found(t)')
    BY <1>a, <1>10, FoundStays DEF Tool!Missing, Found
  <2>4. \A t \in Tool!Tools : (Tool!Missing(t)' => Tool!Missing(t)) /\ (~Tool!Missing(t)' => Found(t)')
    BY <1>0, <2>3 DEF Looked
  <2>5. ASSUME NEW t \in Tool!Tools, Tool!Missing(t)', Tool!Free # {}, NEW e \in Tool!Candidates(t), Ahead(e, t)
        PROVE  Ahead(e, t)'
    <3>1. t # j \/ e # here
      BY <1>10, <2>3, <2>5 DEF Tool!Candidates
    <3> QED BY <1>8, <2>5, <3>1
  <2>6. Looked'
    BY <1>a, <1>5, <2>1, <2>4, <2>5, LookFurther
  <2> QED BY <1>a, <1>6, <1>7, <2>1, <2>2, <2>6, Assemble
<1> QED
  BY <1>1, <1>2, <1>9, <1>10 DEF Tool!FindInElem, Tool!is_executable

LEMMA ReportStep ==
  ASSUME LookupInv, Tool!Report
  PROVE  LookupInv'
<1>0. Tool!SizeAssumption /\ Types /\ Stage /\ Looked /\ Tool!StandardStreams /\ Tool!DescriptorsKept
  BY DEF LookupInv
<1>1. /\ pc = "path" /\ elem > NumElems /\ UNCHANGED Tool!world /\ UNCHANGED <<exec_fd, elem, i>>
      /\ pc' \in {"none", "found"}
  BY DEF Tool!Report, Tool!Goto
<1>2. /\ exec_fd' \in [Tool!Tools -> Nat] /\ DOMAIN fds \subseteq Nat /\ elem \in Nat \ {0} /\ i \in Tool!Tools
      /\ NumElems \in Nat /\ 0 .. 2 \subseteq DOMAIN fds
      /\ \A t \in Tool!Tools : (Tool!Missing(t)' <=> Tool!Missing(t)) /\ (~Tool!Missing(t) => Found(t))
      /\ pc' \in Points
  BY <1>0, <1>1, ToolSizes DEF Types, Stage, Looked, Tool!Missing, Points
<1>3. CASE (\E t \in Tool!Tools : Tool!Missing(t)) /\ pc' = "none" /\ UNCHANGED <<fds, cxx>>
  <2>1. \A t \in Tool!Tools : Found(t) => Found(t)'
    BY <1>1, <1>3, FoundStays DEF Found
  <2>2. Looked'
    BY <1>2, <1>3, <2>1 DEF Looked
  <2>3. Stage' /\ Tool!StandardStreams' /\ Tool!DescriptorsKept'
    BY <1>0, <1>1, <1>2, <1>3 DEF Stage, Tool!StandardStreams, Tool!DescriptorsKept
  <2>4. Tool!ReportedMissing'
    <3> SUFFICES ASSUME Tool!Free # {}, NEW t \in Tool!Tools, Tool!Missing(t)
                 PROVE  t \notin slash' /\ Tool!Candidates(t)' = {}
      BY <1>2, <1>3 DEF Tool!ReportedMissing, Tool!Free
    <3>1. t \notin slash /\ \A e \in Tool!Candidates(t) : Ahead(e, t)
      BY <1>0, <1>1 DEF Looked
    <3>2. \A e \in Tool!Candidates(t) : e \in Tool!Elems
      BY DEF Tool!Candidates
    <3>3. Tool!Candidates(t) = {}
      BY <1>1, <1>2, <3>1, <3>2 DEF Ahead, Tool!Elems
    <3> QED BY <1>1, <3>1, <3>3, SameWorld DEF Tool!world
  <2>5. Tool!FirstOnPath' /\ Types'
    BY <1>0, <1>1, <1>2, <1>3 DEF Tool!FirstOnPath, Types, Tool!world
  <2> QED BY <1>0, <2>2, <2>3, <2>4, <2>5 DEF LookupInv
<1>4. CASE /\ ~\E t \in Tool!Tools : Tool!Missing(t)
           /\ pc' = "found" /\ cxx' = fds[exec_fd[1]]
           /\ fds' = [fd \in {f \in DOMAIN fds : fds[f] # Tool!DevFd} |-> fds[fd]]
  <2>1. /\ DOMAIN fds' = {f \in DOMAIN fds : fds[f] # Tool!DevFd}
        /\ \A fd \in DOMAIN fds' : fds'[fd] = fds[fd]
    BY <1>4
  <2>2. \A t \in Tool!Tools : Found(t) /\ Found(t)'
    <3> SUFFICES ASSUME NEW t \in Tool!Tools PROVE Found(t) /\ Found(t)'
      OBVIOUS
    <3>1. Found(t) /\ exec_fd[t] \in DOMAIN fds /\ fds[exec_fd[t]] # Tool!DevFd
      BY <1>2, <1>4, Apart DEF Found
    <3> QED BY <1>1, <2>1, <3>1, FoundStays
  <2>3. 0 .. 2 \subseteq DOMAIN fds'
    <3>1. \A fd \in 0 .. 2 : fd \in DOMAIN fds /\ fds[fd] = Tool!Std
      BY <1>0, <1>1, <1>2 DEF Tool!StandardStreams
    <3>2. Tool!Std # Tool!DevFd
      BY DEF Tool!Std, Tool!DevFd
    <3> QED BY <2>1, <3>1, <3>2
  <2>4. Looked'
    BY <1>4, <2>2 DEF Looked
  <2>5. Stage'
    BY <1>4, <2>3 DEF Stage
  <2>6. Tool!StandardStreams'
    BY <1>0, <1>1, <2>1 DEF Tool!StandardStreams
  <2>7. Tool!DescriptorsKept'
    BY <1>0, <1>1, <2>1 DEF Tool!DescriptorsKept
  <2>8. Tool!FirstOnPath'
    <3>1. 1 \in Tool!Tools
      BY <1>0, ToolSizes DEF Tool!Tools
    <3>2. cxx' = Tool!File(Tool!Place(1), 1)' /\ \A t \in Tool!Tools : Somewhere(t)' /\ fds'[exec_fd'[t]] = Tool!File(Tool!Place(t)', t)
      BY <1>1, <1>4, <2>2, <3>1, SameWorld DEF Found
    <3> QED BY <3>2 DEF Tool!FirstOnPath, Somewhere
  <2>9. Types' /\ Tool!ReportedMissing'
    BY <1>0, <1>1, <1>2, <1>4, <2>1 DEF Tool!ReportedMissing, Types, Tool!world
  <2> QED BY <1>0, <2>4, <2>5, <2>6, <2>7, <2>8, <2>9 DEF LookupInv
<1> QED
  BY <1>3, <1>4 DEF Tool!Report, Tool!Goto

LEMMA StayStep == LookupInv /\ UNCHANGED Tool!vars => LookupInv'
<1> SUFFICES ASSUME LookupInv, UNCHANGED Tool!vars PROVE LookupInv'
  OBVIOUS
<1>1. UNCHANGED <<disk, dirs, slash, fds, exec_fd, cxx, elem, i, pc>>
  BY DEF Tool!vars, Tool!world
<1>2. Types' /\ Stage'
  BY <1>1 DEF LookupInv, Types, Stage, Tool!Opens
<1>a. Tool!Free' = Tool!Free /\ \A t : Tool!Candidates(t)' = Tool!Candidates(t)
  BY <1>1, SameWorld DEF Tool!world, Tool!Free
<1>b. \A t : (Tool!Missing(t)' <=> Tool!Missing(t)) /\ (Found(t)' <=> Found(t))
  BY <1>1, SameWorld DEF Tool!world, Tool!Missing, Found
<1>c. \A e, t : Ahead(e, t)' <=> Ahead(e, t)
  BY <1>1 DEF Ahead
<1>d. Looked'
  BY <1>1, <1>a, <1>b, <1>c DEF LookupInv, Looked
<1>3. Tool!StandardStreams' /\ Tool!DescriptorsKept'
  BY <1>1 DEF LookupInv, Tool!StandardStreams, Tool!DescriptorsKept
<1>4. Tool!FirstOnPath' /\ Tool!ReportedMissing'
  BY <1>1 DEF LookupInv, Tool!FirstOnPath, Tool!ReportedMissing, Tool!Place, Tool!Candidates, Tool!Opens, Tool!Free, Tool!Missing
<1> QED BY <1>2, <1>d, <1>3, <1>4 DEF LookupInv

LEMMA StepLookup == LookupInv /\ [Tool!Next]_(Tool!vars) => LookupInv'
BY DevicesStep, SlashStep, OpenElemStep, FindInElemStep, ReportStep, StayStep DEF Tool!Next, Tool!Over

LEMMA LookupAlways == ASSUME Tool!SizeAssumption PROVE Tool!Spec => []LookupInv
BY InitLookup, StepLookup, PTL DEF Tool!Spec

-----------------------------------------------------------------------------
(* When dcc goes on, every tool is the one that was named with a slash, or *)
(* the first regular file on PATH that may be read, and the compiler       *)
(* recorded for the run time is the one used now.  When it does not, each  *)
(* tool that is missing is in none of the directories named on PATH,       *)
(* unless descriptors have run out (dcc.c:49-138, 226).                    *)
THEOREM SearchIsRight ==
  ASSUME Tool!SizeAssumption
  PROVE  Tool!Spec => []ToolsRight
<1>1. LookupInv => ToolsRight
  BY DEF LookupInv, ToolsRight, Tool!ToolsRight
<1> QED BY <1>1, LookupAlways, PTL

(* A descriptor is for one tool, since it is open for the file of that     *)
(* tool.                                                                   *)
LEMMA EachHasItsOwn == ASSUME Looked PROVE Tool!OneEach
<1> SUFFICES ASSUME NEW t \in Tool!Tools, ~Tool!Missing(t)
             PROVE  /\ exec_fd[t] \in DOMAIN fds
                    /\ \A s \in Tool!Tools : exec_fd[s] = exec_fd[t] => s = t
  BY DEF Tool!OneEach
<1>1. Found(t)
  BY DEF Looked
<1>2. ASSUME NEW s \in Tool!Tools, exec_fd[s] = exec_fd[t] PROVE s = t
  <2>1. Found(s)
    BY <1>2 DEF Looked, Tool!Missing
  <2>2. Tool!File(Tool!Place(s), s) = Tool!File(Tool!Place(t), t)
    BY <1>1, <1>2, <2>1 DEF Found
  <2>3. \A x, y : Tool!File(x, s) = Tool!File(y, t) => <<x, s>> = <<y, t>>
    BY DEF Tool!File
  <2> QED BY <2>2, <2>3
<1> QED BY <1>1, <1>2 DEF Found

(* No tool, directory or device gets the descriptor of a standard stream   *)
(* unless dcc gives up, what was refused is closed again, and what a tool  *)
(* has is open and no other tool's (dcc.c:49-92, 175-184).                 *)
THEOREM DescriptorsApart ==
  ASSUME Tool!SizeAssumption
  PROVE  Tool!Spec => []DescriptorsRight
<1>1. LookupInv => DescriptorsRight
  BY EachHasItsOwn DEF LookupInv, DescriptorsRight, Tool!DescriptorsRight
<1> QED BY <1>1, LookupAlways, PTL

-----------------------------------------------------------------------------
(* The rows behind the one tried last do not begin the word; the cells are *)
(* filled from the nearest row among those tried.                          *)
Row == Opt!Tried(tried)
Table == Opt!option_keys
Str(k) == Table[k].str
OptInv ==
  /\ tried \in 0 .. Len(Table)
  /\ tried > 0 => /\ \E j \in Opt!Rows : Opt!Nearest(Row, j, Opt!Acting) /\ action = Table[j].action
                  /\ Opt!Nearest(Row, desc, Opt!Described)
  /\ \A k \in Opt!Rows : k > Row => ~Opt!IsPrefix(Str(k), word)
  /\ row = <<>> /\ tried > 0 => ~Opt!IsPrefix(Str(Row), word)
  /\ row # <<>> => /\ tried > 0 /\ Opt!IsPrefix(Str(Row), word)
                   /\ row = <<[Table[Row] EXCEPT !.action = action], desc>>

LEMMA TableIs ==
  ASSUME Opt!TableOrder
  PROVE  /\ Len(Table) \in Nat \ {0} /\ Opt!Rows = 1 .. Len(Table)
         /\ \A k \in Opt!Rows : /\ Table[k] \in [str : Seq(STRING), syntax : STRING, described : BOOLEAN, action : STRING]
                                /\ Str(k) \in Seq(STRING)
         /\ Len(Table) \in Opt!Acting /\ Len(Table) \in Opt!Described
<1>1. Table \in Seq([str : Seq(STRING), syntax : STRING, described : BOOLEAN, action : STRING])
  BY DEF Opt!TableOrder, Table
<1>2. Len(Table) \in Nat \ {0} /\ DOMAIN Table = 1 .. Len(Table)
  BY <1>1, LenProperties DEF Opt!TableOrder, Table
<1>3. \A k \in 1 .. Len(Table) : Table[k] \in [str : Seq(STRING), syntax : STRING, described : BOOLEAN, action : STRING]
  BY <1>1, ElementOfSeq
<1>4. \A k \in 1 .. Len(Table) : Str(k) \in Seq(STRING)
  BY <1>3 DEF Str
<1>5. Len(Table) \in 1 .. Len(Table)
  BY <1>2
<1> QED BY <1>2, <1>3, <1>4, <1>5 DEF Opt!Rows, Opt!Acting, Opt!Described, Opt!TableOrder, Table

LEMMA InitTable == Opt!TableOrder /\ Opt!Init => OptInv
<1> SUFFICES ASSUME Opt!TableOrder, Opt!Init PROVE OptInv
  OBVIOUS
<1>1. tried = 0 /\ row = <<>>
  BY DEF Opt!Init
<1>2. \A k \in Opt!Rows : ~(k > Row)
  BY <1>1, TableIs DEF Row, Opt!Tried, Table
<1> QED BY <1>1, <1>2, TableIs DEF OptInv

LEMMA NextNearest ==
  ASSUME NEW S, NEW m \in Int, NEW j \in Int, Opt!Nearest(m + 1, j, S), m \notin S
  PROVE  Opt!Nearest(m, j, S)
<1>1. j \in S /\ j >= m
  BY DEF Opt!Nearest
<1>2. ASSUME NEW l \in S, l \in m .. j - 1 PROVE FALSE
  <2>1. l # m
    BY <1>2
  <2>2. l \in m + 1 .. j - 1
    BY <1>2, <2>1
  <2> QED BY <1>2, <2>2 DEF Opt!Nearest
<1> QED BY <1>1, <1>2 DEF Opt!Nearest

LEMMA OwnNearest == ASSUME NEW S, NEW m \in S, m \in Int PROVE Opt!Nearest(m, m, S)
BY DEF Opt!Nearest

LEMMA TryStep ==
  ASSUME Opt!TableOrder, OptInv, Opt!Try
  PROVE  OptInv'
<1> DEFINE m == Opt!Tried(tried + 1)
<1>1. /\ row = <<>> /\ tried < Len(Table) /\ tried' = tried + 1 /\ word' = word
      /\ desc' = IF Table[m].described THEN m ELSE desc
      /\ action' = Opt!Filled(Table[m].action, action)
      /\ row' = IF Opt!IsPrefix(Str(m), word) THEN <<[Table[m] EXCEPT !.action = action'], desc'>> ELSE <<>>
  BY DEF Opt!Try, Table, Str
<1>2. /\ tried \in 0 .. Len(Table) /\ Len(Table) \in Nat /\ m \in Opt!Rows /\ Row' = m /\ Row = m + 1
      /\ tried' \in 0 .. Len(Table) /\ m \in Int
  BY <1>1, TableIs DEF OptInv, Row, Opt!Tried, Table
<1> HIDE DEF m
<1>3. tried = 0 => m = Len(Table)
  BY <1>2, TableIs DEF Row, Opt!Tried, Table
<1>4. \E j \in Opt!Rows : Opt!Nearest(m, j, Opt!Acting) /\ action' = Table[j].action
  <2>1. CASE m \in Opt!Acting
    <3>1. action' = Table[m].action
      BY <1>1, <2>1 DEF Opt!Acting, Opt!Filled, Table
    <3> QED BY <1>2, <2>1, <3>1, OwnNearest
  <2>2. CASE m \notin Opt!Acting
    <3>1. tried > 0
      BY <1>2, <1>3, <2>2, TableIs
    <3>2. PICK j \in Opt!Rows : Opt!Nearest(m + 1, j, Opt!Acting) /\ action = Table[j].action
      BY <1>2, <3>1 DEF OptInv
    <3>3. j \in Int
      BY TableIs
    <3>4. action' = action
      BY <1>1, <1>2, <2>2 DEF Opt!Acting, Opt!Filled, Table
    <3> QED BY <1>2, <2>2, <3>2, <3>3, <3>4, NextNearest
  <2> QED BY <2>1, <2>2
<1>5. Opt!Nearest(m, desc', Opt!Described)
  <2>1. CASE m \in Opt!Described
    <3>1. desc' = m
      BY <1>1, <2>1 DEF Opt!Described, Table
    <3> QED BY <1>2, <2>1, <3>1, OwnNearest
  <2>2. CASE m \notin Opt!Described
    <3>1. tried > 0
      BY <1>2, <1>3, <2>2, TableIs
    <3>2. Opt!Nearest(m + 1, desc, Opt!Described)
      BY <1>2, <3>1 DEF OptInv
    <3>3. desc \in Int
      BY <3>2, TableIs DEF Opt!Nearest, Opt!Described
    <3>4. desc' = desc
      BY <1>1, <1>2, <2>2 DEF Opt!Described, Table
    <3> QED BY <1>2, <2>2, <3>2, <3>3, <3>4, NextNearest
  <2> QED BY <2>1, <2>2
<1>6. \A k \in Opt!Rows : k > m => ~Opt!IsPrefix(Str(k), word)
  <2>1. SUFFICES ASSUME NEW k \in Opt!Rows, k > m PROVE ~Opt!IsPrefix(Str(k), word)
    OBVIOUS
  <2>2. k \in Int /\ (k = Row \/ k > Row)
    BY <1>2, <2>1, TableIs
  <2>3. tried = 0 => k > Row
    BY <1>2, <1>3, <2>1, TableIs
  <2> QED BY <1>1, <1>2, <2>2, <2>3 DEF OptInv
<1>7. Opt!Rows' = Opt!Rows /\ Opt!Acting' = Opt!Acting /\ Opt!Described' = Opt!Described
  BY DEF Opt!Rows, Opt!Acting, Opt!Described
<1>8. tried' > 0
  BY <1>1, <1>2
<1>9. row' = <<>> => ~Opt!IsPrefix(Str(m), word)
  BY <1>1
<1>10. row' # <<>> => Opt!IsPrefix(Str(m), word) /\ row' = <<[Table[m] EXCEPT !.action = action'], desc'>>
  BY <1>1
<1>11. OptInv' <=>
  /\ tried' \in 0 .. Len(Table)
  /\ tried' > 0 => /\ \E j \in Opt!Rows : Opt!Nearest(m, j, Opt!Acting) /\ action' = Table[j].action
                   /\ Opt!Nearest(m, desc', Opt!Described)
  /\ \A k \in Opt!Rows : k > m => ~Opt!IsPrefix(Str(k), word)
  /\ row' = <<>> /\ tried' > 0 => ~Opt!IsPrefix(Str(m), word)
  /\ row' # <<>> => /\ tried' > 0 /\ Opt!IsPrefix(Str(m), word)
                    /\ row' = <<[Table[m] EXCEPT !.action = action'], desc'>>
  BY <1>1, <1>2 DEF OptInv, Str, Table
<1> QED BY <1>2, <1>4, <1>5, <1>6, <1>8, <1>9, <1>10, <1>11

LEMMA StayInTable == OptInv /\ UNCHANGED Opt!vars => OptInv'
BY DEF OptInv, Opt!vars, Row, Str, Table, Opt!Tried, Opt!Rows, Opt!Acting, Opt!Described, Opt!Nearest

LEMMA StepTable == Opt!TableOrder /\ OptInv /\ [Opt!Next]_(Opt!vars) => OptInv'
BY TryStep, StayInTable DEF Opt!Next, Opt!Found, Opt!NotFound

LEMMA BothBegin ==
  ASSUME NEW s \in Seq(STRING), NEW t \in Seq(STRING), NEW w,
         Opt!IsPrefix(s, w), Opt!IsPrefix(t, w), Len(t) < Len(s)
  PROVE  Opt!Continues(s, t)
<1>1. Len(s) \in Nat /\ Len(t) \in Nat
  BY LenProperties
<1>2. \A k \in 1 .. Len(s) : s[k] = w[k]
  <2>1. SubSeq(s, 1, Len(s)) = SubSeq(w, 1, Len(s))
    BY DEF Opt!IsPrefix
  <2>2. \A k \in 1 .. Len(s) : SubSeq(s, 1, Len(s))[k] = s[k]
    BY <1>1 
  <2>3. \A k \in 1 .. Len(s) : SubSeq(w, 1, Len(s))[k] = w[k]
    BY <1>1 
  <2> QED BY <2>1, <2>2, <2>3
<1>3. \A k \in 1 .. Len(t) : t[k] = w[k]
  <2>1. SubSeq(t, 1, Len(t)) = SubSeq(w, 1, Len(t))
    BY DEF Opt!IsPrefix
  <2>2. \A k \in 1 .. Len(t) : SubSeq(t, 1, Len(t))[k] = t[k]
    BY <1>1 
  <2>3. \A k \in 1 .. Len(t) : SubSeq(w, 1, Len(t))[k] = w[k]
    BY <1>1 
  <2> QED BY <2>1, <2>2, <2>3
<1>4. \A k \in 1 .. Len(t) : t[k] = s[k]
  BY <1>1, <1>2, <1>3
<1>5. SubSeq(t, 1, Len(t)) = SubSeq(s, 1, Len(t))
  BY <1>1, <1>4 
<1> QED BY <1>1, <1>5 DEF Opt!IsPrefix, Opt!Continues

LEMMA RowIsRight == ASSUME Opt!TableOrder, OptInv PROVE RightRow
<1> DEFINE m == Row
<1>1. m \in Int
  BY TableIs DEF OptInv, Row, Opt!Tried, Table
<1>2. tried > 0 => m \in Opt!Rows
  BY TableIs DEF OptInv, Row, Opt!Tried, Table
<1>3. ASSUME row # <<>>
      PROVE  /\ tried > 0 /\ m \in Opt!Rows /\ Opt!IsPrefix(Str(m), word)
             /\ row[1].str = Str(m) /\ row[1].action = action /\ row[2] = desc
  <2>1. tried > 0 /\ m \in Opt!Rows /\ Opt!IsPrefix(Str(m), word) /\ row = <<[Table[m] EXCEPT !.action = action], desc>>
    BY <1>2, <1>3 DEF OptInv
  <2>2. Table[m] \in [str : Seq(STRING), syntax : STRING, described : BOOLEAN, action : STRING]
    BY <2>1, TableIs
  <2>3. row[1] = [Table[m] EXCEPT !.action = action] /\ row[2] = desc
    BY <2>1
  <2> QED BY <2>1, <2>2, <2>3 DEF Str
<1>4. ASSUME row # <<>>, NEW k \in Opt!Options PROVE Len(Table[k].str) <= Len(row[1].str)
  <2>1. k \in Opt!Rows /\ Opt!IsPrefix(Str(k), word)
    BY <1>4 DEF Opt!Options, Str, Table
  <2>2. k \in Int /\ ~(k > m)
    BY <1>1, <2>1, TableIs DEF OptInv
  <2>3. SUFFICES ASSUME ~(Len(Str(k)) <= Len(Str(m))) PROVE FALSE
    BY <1>3, <1>4 DEF Str
  <2>4. Str(k) \in Seq(STRING) /\ Str(m) \in Seq(STRING)
    BY <1>3, <1>4, <2>1, TableIs
  <2>5. Len(Str(m)) < Len(Str(k))
    BY <2>3, <2>4, LenProperties
  <2>6. Opt!Continues(Str(k), Str(m))
    BY <1>3, <1>4, <2>1, <2>4, <2>5, BothBegin
  <2>7. k > m
    BY <1>3, <1>4, <2>1, <2>6 DEF Opt!TableOrder, Str, Table
  <2> QED BY <2>2, <2>7
<1>5. ASSUME tried = Len(Table), row = <<>> PROVE Opt!Options = {}
  <2>1. m = 1 /\ tried > 0
    BY <1>5, TableIs DEF Row, Opt!Tried, Table
  <2>2. \A k \in Opt!Rows : ~Opt!IsPrefix(Str(k), word)
    <3>1. \A k \in Opt!Rows : k = Row \/ k > Row
      BY <2>1, TableIs
    <3> QED BY <1>5, <2>1, <3>1 DEF OptInv
  <2> QED BY <2>2 DEF Opt!Options, Str, Table
<1>6. Opt!LongestOption
  BY <1>3, <1>4, <1>5 DEF Opt!LongestOption, Table
<1>7. ASSUME row # <<>>
      PROVE  (CHOOSE j \in Opt!Rows : Table[j].str = row[1].str) = m
  <2>1. \A j \in Opt!Rows : Table[j].str = row[1].str <=> j = m
    BY <1>3, <1>7 DEF Opt!TableOrder, Str, Table
  <2> QED BY <1>3, <1>7, <2>1
<1>8. row # <<>> => /\ \E j \in Opt!Rows : Opt!Nearest(m, j, Opt!Acting) /\ row[1].action = Table[j].action
                    /\ Opt!Nearest(m, row[2], Opt!Described)
  BY <1>3 DEF OptInv
<1> HIDE DEF m
<1>9. Opt!CellsFilled
  BY <1>7, <1>8 DEF Opt!CellsFilled, Table
<1> QED BY <1>6, <1>9 DEF RightRow, Opt!RightRow

(* The row found for a word is the longest option that begins it, and its  *)
(* empty cells are filled from the nearest row behind, as long as the      *)
(* table is in order, which TLC confirms of the table as it is             *)
(* (dcc_options.c:109-190).                                                *)
THEOREM RowsAreRight ==
  ASSUME Opt!TableOrder
  PROVE  Opt!Spec => []RightRow
<1>1. Opt!Spec => []OptInv
  BY InitTable, StepTable, PTL DEF Opt!Spec
<1>2. OptInv => RightRow
  BY RowIsRight
<1> QED BY <1>1, <1>2, PTL

-----------------------------------------------------------------------------
(* ExprCode.  First the induction that its definitions need: expressions   *)
(* are numbered, and the parts of one have smaller numbers.                *)
LEMMA StrongInduction ==
  ASSUME NEW N \in Nat, NEW S, \A n \in 1 .. N : (\A k \in 1 .. n - 1 : k \in S) => n \in S
  PROVE  \A n \in 1 .. N : n \in S
<1> DEFINE T == {m \in Nat : m <= N => \A k \in 1 .. m : k \in S}
<1>1. 0 \in T
  OBVIOUS
<1>2. ASSUME NEW m \in Nat, m \in T PROVE m + 1 \in T
  <2> SUFFICES ASSUME m + 1 <= N PROVE \A k \in 1 .. m + 1 : k \in S
    OBVIOUS
  <2>1. \A k \in 1 .. m : k \in S
    BY <1>2
  <2>2. m + 1 \in 1 .. N /\ (m + 1) - 1 = m
    OBVIOUS
  <2>3. m + 1 \in S
    BY <2>1, <2>2
  <2>4. \A k \in 1 .. m + 1 : k = m + 1 \/ k \in 1 .. m
    OBVIOUS
  <2> QED BY <2>1, <2>3, <2>4
<1>3. \A m \in Nat : m \in T
  <2> HIDE DEF T
  <2> QED BY <1>1, <1>2, Induction
<1> QED BY <1>3

(* A loop whose counter goes from 1 to n.                                  *)
Loops(V, start, step, n, f) ==
  f \in [0 .. n -> V] /\ f[0] = start /\ \A j \in 1 .. n : f[j] = step[<<j, f[j - 1]>>]

LEMMA Looping ==
  ASSUME NEW V, NEW n \in Nat, NEW start \in V, NEW step, \A j \in 1 .. n : \A v \in V : step[<<j, v>>] \in V
  PROVE  \E f : Loops(V, start, step, n, f)
<1> DEFINE along == [y \in Nat \X V |-> IF y[1] \in 0 .. n - 1 THEN step[<<y[1] + 1, y[2]>>] ELSE start]
<1>1. along \in [Nat \X V -> V]
  <2>1. \A y \in Nat \X V : y[1] \in Nat /\ y[2] \in V
    OBVIOUS
  <2>2. \A y \in Nat \X V : y[1] \in 0 .. n - 1 => y[1] + 1 \in 1 .. n
    BY <2>1
  <2> QED BY <2>1, <2>2
<1>2. \A j \in Nat, v \in V : along[<<j, v>>] = IF j \in 0 .. n - 1 THEN step[<<j + 1, v>>] ELSE start
  <2> TAKE j \in Nat, v \in V
  <2>1. PICK y : y = <<j, v>>
    OBVIOUS
  <2>2. y \in Nat \X V /\ y[1] = j /\ y[2] = v
    BY <2>1
  <2>3. along[y] = IF y[1] \in 0 .. n - 1 THEN step[<<y[1] + 1, y[2]>>] ELSE start
    BY <2>2, Zenon
  <2> QED BY <2>1, <2>2, <2>3
<1> HIDE DEF along
<1>3. PICK h : Obeys(V, start, along, h)
  BY <1>1, Recursion DEF Recurrence
<1>4. h \in [Nat -> V] /\ h[0] = start /\ \A j \in Nat : h[j + 1] = along[<<j, h[j]>>]
  BY <1>3 DEF Obeys
<1>5. \A j \in 1 .. n : h[j] = step[<<j, h[j - 1]>>]
  <2> TAKE j \in 1 .. n
  <2>1. j - 1 \in Nat /\ j - 1 \in 0 .. n - 1 /\ (j - 1) + 1 = j
    OBVIOUS
  <2>2. PICK m \in Nat : m = j - 1
    BY <2>1
  <2>3. PICK v \in V : v = h[m]
    BY <1>4
  <2>4. along[<<m, v>>] = step[<<m + 1, v>>]
    BY <1>2, <2>1, <2>2
  <2>5. h[m + 1] = along[<<m, h[m]>>]
    BY <1>4
  <2>6. m + 1 = j
    BY <2>1, <2>2
  <2> QED BY <2>2, <2>3, <2>4, <2>5, <2>6, Zenon
<1>6. Loops(V, start, step, n, [j \in 0 .. n |-> h[j]])
  <2>1. \A j \in 1 .. n : j - 1 \in 0 .. n /\ j \in 0 .. n
    OBVIOUS
  <2>2. \A j \in 0 .. n : h[j] \in V
    BY <1>4
  <2> QED BY <1>4, <1>5, <2>1, <2>2 DEF Loops
<1> QED BY <1>6

(* Two functions by the same loop, of which one is known to exist.         *)
Follows(V, start, step, n, f) ==
  f[0] = start /\ \A j \in 1 .. n : f[j - 1] \in V => f[j] = step[<<j, f[j - 1]>>]

LEMMA SameLoop ==
  ASSUME NEW V, NEW n \in Nat, NEW start, NEW step, NEW f, NEW g, Loops(V, start, step, n, g),
         Follows(V, start, step, n, f)
  PROVE  \A j \in 0 .. n : f[j] = g[j]
<1>1. f[0] = g[0]
  BY DEF Loops, Follows
<1>2. \A j \in 0 .. n - 1 : f[j] = g[j] => f[j + 1] = g[j + 1]
  <2> SUFFICES ASSUME NEW j \in 0 .. n - 1, f[j] = g[j] PROVE f[j + 1] = g[j + 1]
    OBVIOUS
  <2>1. j + 1 \in 1 .. n /\ (j + 1) - 1 = j /\ j \in 0 .. n
    OBVIOUS
  <2>2. PICK m \in 1 .. n : m = j + 1
    BY <2>1
  <2>3. m - 1 = j
    BY <2>1, <2>2
  <2>4. g[j] \in V
    BY <2>1 DEF Loops
  <2>5. f[m - 1] = g[m - 1] /\ f[m - 1] \in V
    BY <2>3, <2>4
  <2>6. f[m] = step[<<m, f[m - 1]>>]
    BY <2>5 DEF Follows
  <2>7. g[m] = step[<<m, g[m - 1]>>]
    BY DEF Loops
  <2> QED BY <2>2, <2>5, <2>6, <2>7, Zenon
<1> QED BY <1>1, <1>2, Agreeing

(* A function whose value at n is made of those before it.                 *)
Tabulates(V, step, m, f) ==
  f \in [1 .. m -> V] /\ \A n \in 1 .. m : f[n] = step[<<n, [k \in 1 .. n - 1 |-> f[k]]>>]

LEMMA Tabulated ==
  ASSUME NEW N \in Nat, NEW V, NEW step,
         \A n \in 1 .. N : \A t \in [1 .. n - 1 -> V] : step[<<n, t>>] \in V
  PROVE  \E f : Tabulates(V, step, N, f)
<1> DEFINE T == {m \in Nat : m <= N => \E f : Tabulates(V, step, m, f)}
<1>1. 0 \in T
  <2>1. Tabulates(V, step, 0, [n \in 1 .. 0 |-> 0])
    BY DEF Tabulates
  <2> QED BY <2>1
<1>2. ASSUME NEW m \in Nat, m \in T PROVE m + 1 \in T
  <2> SUFFICES ASSUME m + 1 <= N PROVE \E f : Tabulates(V, step, m + 1, f)
    OBVIOUS
  <2>1. m <= N /\ m + 1 \in 1 .. N /\ (m + 1) - 1 = m
    OBVIOUS
  <2>2. PICK g : Tabulates(V, step, m, g)
    BY <1>2, <2>1
  <2>3. g \in [1 .. m -> V]
    BY <2>2 DEF Tabulates
  <2>4. PICK new \in V : new = step[<<m + 1, g>>]
    BY <2>1, <2>3
  <2> DEFINE f == [n \in 1 .. m + 1 |-> IF n = m + 1 THEN new ELSE g[n]]
  <2>5. f \in [1 .. m + 1 -> V] /\ f[m + 1] = new /\ \A n \in 1 .. m : f[n] = g[n]
    BY <2>3, <2>4
  <2> HIDE DEF f
  <2>6. \A n \in 1 .. m + 1 : f[n] = step[<<n, [k \in 1 .. n - 1 |-> f[k]]>>]
    <3> TAKE n \in 1 .. m + 1
    <3>1. \A k \in 1 .. n - 1 : k \in 1 .. m
      OBVIOUS
    <3>2. [k \in 1 .. n - 1 |-> f[k]] = [k \in 1 .. n - 1 |-> g[k]]
      BY <2>5, <3>1
    <3>3. CASE n = m + 1
      <4>1. [k \in 1 .. n - 1 |-> g[k]] = g
        BY <2>1, <2>3, <3>3
      <4> QED BY <2>4, <2>5, <3>2, <3>3, <4>1
    <3>4. CASE n # m + 1
      <4>1. n \in 1 .. m
        BY <3>4
      <4>2. g[n] = step[<<n, [k \in 1 .. n - 1 |-> g[k]]>>]
        BY <2>2, <4>1 DEF Tabulates
      <4> QED BY <2>5, <3>2, <4>1, <4>2
    <3> QED BY <3>3, <3>4
  <2>7. Tabulates(V, step, m + 1, f)
    BY <2>5, <2>6 DEF Tabulates
  <2> QED BY <2>7
<1>3. \A m \in Nat : m \in T
  <2> HIDE DEF T
  <2> QED BY <1>1, <1>2, Induction
<1> QED BY <1>3

-----------------------------------------------------------------------------
(* The loops over arguments, as functions of how far they have come.       *)
Adds(counts, f) ==
  /\ f \in [0 .. Len(counts) -> Nat] /\ f[0] = 0
  /\ \A j \in 1 .. Len(counts) : f[j] = f[j - 1] + counts[j]

LEMMA CountsFacts ==
  ASSUME NEW S, NEW s \in Seq(S)
  PROVE  /\ Len(s) \in Nat /\ DOMAIN s = 1 .. Len(s) /\ \A j \in 1 .. Len(s) : s[j] \in S
         /\ 0 \in 0 .. Len(s) /\ Len(s) \in 0 .. Len(s)
         /\ \A j \in 1 .. Len(s) : j \in Nat /\ j # 0 /\ j \in 0 .. Len(s) /\ j - 1 \in 0 .. Len(s) /\ j - 1 \in Nat
<1>1. Len(s) \in Nat /\ DOMAIN s = 1 .. Len(s)
  BY LenProperties
<1>2. \A j \in 1 .. Len(s) : s[j] \in S
  BY ElementOfSeq
<1> QED BY <1>1, <1>2

(* The function of a LET, once one such function is known.                 *)
LEMMA TotalIs ==
  ASSUME NEW counts \in Seq(Nat)
  PROVE  \E f : Adds(counts, f) /\ Total(counts) = f[Len(counts)]
<1> DEFINE n == Len(counts)
           step == [y \in (1 .. n) \X Nat |-> y[2] + counts[y[1]]]
           Q(f) == [j \in 0 .. Len(counts) |-> IF j = 0 THEN 0 ELSE f[j - 1] + counts[j]]
           first == CHOOSE f : f = Q(f)
<1>1. n \in Nat /\ \A j \in 1 .. n : counts[j] \in Nat
  BY CountsFacts
<1>2. \A j \in 1 .. n, v \in Nat : step[<<j, v>>] = v + counts[j]
  <2> TAKE j \in 1 .. n, v \in Nat
  <2>1. PICK y : y = <<j, v>>
    OBVIOUS
  <2>2. y \in (1 .. n) \X Nat /\ y[1] = j /\ y[2] = v
    BY <2>1
  <2>3. step[y] = y[2] + counts[y[1]]
    BY <2>2, Zenon
  <2> QED BY <2>1, <2>2, <2>3
<1> HIDE DEF step, first
<1>3. \A j \in 1 .. n : \A v \in Nat : step[<<j, v>>] \in Nat
  <2> TAKE j \in 1 .. n
  <2> TAKE v \in Nat
  <2>1. counts[j] \in Nat /\ step[<<j, v>>] = v + counts[j]
    BY <1>1, <1>2
  <2> QED BY <2>1
<1>4. PICK g : Loops(Nat, 0, step, n, g)
  BY <1>1, <1>3, Looping
<1>5. g \in [0 .. n -> Nat] /\ g[0] = 0 /\ \A j \in 1 .. n : g[j] = g[j - 1] + counts[j]
  BY <1>2, <1>4, CountsFacts DEF Loops
<1>6. g = Q(g)
  <2>1. \A j \in 0 .. n : g[j] = IF j = 0 THEN 0 ELSE g[j - 1] + counts[j]
    BY <1>1, <1>5
  <2> QED BY <1>5, <2>1
<1>7. first = Q(first)
  BY <1>6, Zenon DEF first
<1>8. Total(counts) = first[Len(counts)]
  BY Zenon DEF Total, first
<1>9. first[0] = 0 /\ \A j \in 1 .. n : first[j] = first[j - 1] + counts[j]
  BY <1>1, <1>7
<1>10. \A j \in 1 .. n : first[j - 1] \in Nat => first[j] = step[<<j, first[j - 1]>>]
  BY <1>2, <1>9
<1>11. \A j \in 0 .. n : first[j] = g[j]
  <2>1. Follows(Nat, 0, step, n, first)
    BY <1>9, <1>10 DEF Follows
  <2>2. PICK m \in Nat : m = n
    BY <1>1
  <2>3. Loops(Nat, 0, step, m, g) /\ Follows(Nat, 0, step, m, first)
    BY <1>4, <2>1, <2>2
  <2>4. PICK f, st, zero : f = first /\ st = step /\ zero = 0
    OBVIOUS
  <2>5. Loops(Nat, zero, st, m, g) /\ Follows(Nat, zero, st, m, f)
    BY <2>3, <2>4
  <2>6. \A j \in 0 .. m : f[j] = g[j]
    BY <2>5, SameLoop
  <2> QED BY <2>2, <2>4, <2>6
<1>12. Adds(counts, g)
  BY <1>5 DEF Adds
<1> QED BY <1>1, <1>8, <1>11, <1>12

Joins(S, comma, texts, f) ==
  /\ f \in [0 .. Len(texts) -> Seq(S)] /\ f[0] = <<>>
  /\ \A j \in 1 .. Len(texts) : f[j] = f[j - 1] \o (Separator(comma, j) \o texts[j])

LEMMA Separated ==
  ASSUME NEW S, NEW comma \in Seq(S), NEW j
  PROVE  Separator(comma, j) \in Seq(S)
<1>1. <<>> \in Seq(S)
  OBVIOUS
<1> QED BY <1>1 DEF Separator

LEMMA Concatenated ==
  ASSUME NEW S, NEW s \in Seq(S), NEW t \in Seq(S) PROVE s \o t \in Seq(S)
BY ConcatProperties

LEMMA JoinedIs ==
  ASSUME NEW S, NEW comma \in Seq(S), NEW texts \in Seq(Seq(S))
  PROVE  \E f : Joins(S, comma, texts, f) /\ Joined(comma, texts) = f[Len(texts)]
<1> DEFINE n == Len(texts)
           step == [y \in (1 .. n) \X Seq(S) |-> y[2] \o (Separator(comma, y[1]) \o texts[y[1]])]
           Q(f) == [j \in 0 .. Len(texts) |-> IF j = 0 THEN <<>> ELSE f[j - 1] \o (Separator(comma, j) \o texts[j])]
           first == CHOOSE f : f = Q(f)
<1>1. n \in Nat /\ \A j \in 1 .. n : texts[j] \in Seq(S)
  BY CountsFacts
<1>2. \A j \in 1 .. n, v \in Seq(S) : step[<<j, v>>] = v \o (Separator(comma, j) \o texts[j])
  <2> TAKE j \in 1 .. n, v \in Seq(S)
  <2>1. PICK y : y = <<j, v>>
    OBVIOUS
  <2>2. y \in (1 .. n) \X Seq(S) /\ y[1] = j /\ y[2] = v
    BY <2>1
  <2>3. step[y] = y[2] \o (Separator(comma, y[1]) \o texts[y[1]])
    BY <2>2, Zenon
  <2> QED BY <2>1, <2>2, <2>3
<1> HIDE DEF step, first
<1>3. \A j \in 1 .. n : \A v \in Seq(S) : step[<<j, v>>] \in Seq(S)
  <2> TAKE j \in 1 .. n
  <2> TAKE v \in Seq(S)
  <2>1. texts[j] \in Seq(S) /\ Separator(comma, j) \in Seq(S)
    BY <1>1, Separated
  <2>2. Separator(comma, j) \o texts[j] \in Seq(S)
    BY <2>1, Concatenated
  <2>3. v \o (Separator(comma, j) \o texts[j]) \in Seq(S)
    BY <2>2, Concatenated
  <2> QED BY <1>2, <2>3
<1>4. <<>> \in Seq(S)
  OBVIOUS
<1>5. PICK e : e = <<>>
  OBVIOUS
<1>6. PICK g : Loops(Seq(S), e, step, n, g)
  BY <1>1, <1>3, <1>4, <1>5, Looping
<1>7. g \in [0 .. n -> Seq(S)] /\ g[0] = <<>>
  BY <1>5, <1>6 DEF Loops
<1>8. \A j \in 1 .. n : g[j] = g[j - 1] \o (Separator(comma, j) \o texts[j])
  <2> TAKE j \in 1 .. n
  <2>1. j - 1 \in 0 .. n
    BY <1>1
  <2>2. PICK v \in Seq(S) : v = g[j - 1]
    BY <1>7, <2>1
  <2>3. g[j] = step[<<j, g[j - 1]>>]
    BY <1>6 DEF Loops
  <2> QED BY <1>2, <2>2, <2>3, Zenon
<1>9. g = Q(g)
  <2>1. \A j \in 0 .. n : g[j] = IF j = 0 THEN <<>> ELSE g[j - 1] \o (Separator(comma, j) \o texts[j])
    <3>1. \A j \in 0 .. n : j # 0 => j \in 1 .. n
      BY <1>1
    <3> QED BY <1>7, <1>8, <3>1, Zenon
  <2>2. DOMAIN g = 0 .. n /\ g = [j \in 0 .. n |-> g[j]]
    BY <1>7
  <2> QED BY <2>1, <2>2, Zenon
<1>10. first = Q(first)
  BY <1>9, Zenon DEF first
<1>11. Joined(comma, texts) = first[Len(texts)]
  BY Zenon DEF Joined, first
<1>12. \A j \in 0 .. n : first[j] = IF j = 0 THEN <<>> ELSE first[j - 1] \o (Separator(comma, j) \o texts[j])
  BY <1>10, Zenon
<1>13. 0 \in 0 .. n /\ n \in 0 .. n /\ \A j \in 1 .. n : j \in 0 .. n /\ j # 0
  BY <1>1
<1>14. first[0] = e
  BY <1>5, <1>12, <1>13, Zenon
<1>15. \A j \in 1 .. n : first[j - 1] \in Seq(S) => first[j] = step[<<j, first[j - 1]>>]
  BY <1>2, <1>12, <1>13, Zenon
<1>16. \A j \in 0 .. n : first[j] = g[j]
  <2>1. Follows(Seq(S), e, step, n, first)
    BY <1>14, <1>15 DEF Follows
  <2> QED BY <1>1, <1>6, <2>1, SameLoop
<1>17. Joins(S, comma, texts, g)
  BY <1>7, <1>8 DEF Joins
<1> QED BY <1>11, <1>13, <1>16, <1>17

-----------------------------------------------------------------------------
(* All tokens there are.                                                   *)
Texts ==
  {",", "(", ")", "<", ">"} \union {k.fn : k \in Calls} \union {Nodes[n].code : n \in Exprs} \union {Nodes[n].op : n \in Exprs}
    \union {Nodes[n].lbr : n \in Exprs} \union {Nodes[n].rbr : n \in Exprs}
Tags == {Nodes[n].tag : n \in Exprs}
Values == {Nodes[n].value : n \in Exprs}
Symbols ==
  {Token(t) : t \in Texts} \union {Param(k, t) : k \in Nat, t \in Tags}
    \union {Literal(t, v) : t \in Tags, v \in Values}
Output == [code : Seq(Symbols), next : Nat]
Writers == [Nat -> Output]

LEMMA SymbolsAre ==
  /\ Token(",") \in Symbols /\ Token("(") \in Symbols /\ Token(")") \in Symbols
  /\ Token("<") \in Symbols /\ Token(">") \in Symbols /\ \A k \in Calls : Token(k.fn) \in Symbols
  /\ \A n \in Exprs : /\ Token(Nodes[n].code) \in Symbols /\ Token(Nodes[n].op) \in Symbols
                      /\ Token(Nodes[n].lbr) \in Symbols /\ Token(Nodes[n].rbr) \in Symbols
                      /\ Literal(Nodes[n].tag, Nodes[n].value) \in Symbols
                      /\ \A k \in Nat : Param(k, Nodes[n].tag) \in Symbols
                      /\ <<Nodes[n].tag, Nodes[n].value>> \in Tags \X Values
<1>1. \A t \in Texts : Token(t) \in Symbols
  <2> TAKE t \in Texts
  <2>1. Token(t) \in {Token(u) : u \in Texts}
    OBVIOUS
  <2> QED BY <2>1 DEF Symbols
<1>2. /\ "," \in Texts /\ "(" \in Texts /\ ")" \in Texts /\ "<" \in Texts /\ ">" \in Texts
      /\ \A k \in Calls : k.fn \in Texts
  BY Zenon DEF Texts
<1>3. \A n \in Exprs : Nodes[n].code \in Texts /\ Nodes[n].op \in Texts /\ Nodes[n].lbr \in Texts /\ Nodes[n].rbr \in Texts
  BY Zenon DEF Texts
<1>4. \A n \in Exprs : Nodes[n].tag \in Tags /\ Nodes[n].value \in Values
  BY Zenon DEF Tags, Values
<1>5. \A t \in Tags : \A v \in Values : Literal(t, v) \in Symbols
  <2> TAKE t \in Tags
  <2> TAKE v \in Values
  <2>1. Literal(t, v) \in {Literal(u, w) : u \in Tags, w \in Values}
    OBVIOUS
  <2> QED BY <2>1 DEF Symbols
<1>6. \A t \in Tags : \A k \in Nat : Param(k, t) \in Symbols
  <2> TAKE t \in Tags
  <2> TAKE k \in Nat
  <2>1. Param(k, t) \in {Param(j, u) : j \in Nat, u \in Tags}
    OBVIOUS
  <2> QED BY <2>1 DEF Symbols
<1>7. \A t \in Tags : \A v \in Values : <<t, v>> \in Tags \X Values
  OBVIOUS
<1> HIDE DEF Symbols
<1> QED BY <1>1, <1>2, <1>3, <1>4, <1>5, <1>6, <1>7, Zenon

LEMMA OneToken == ASSUME NEW S, NEW s \in S PROVE <<s>> \in Seq(S)
OBVIOUS

LEMMA CommaIs == Comma \in Seq(Symbols)
BY SymbolsAre, OneToken DEF Comma

LEMMA OutputIs ==
  /\ \A s \in Seq(Symbols), k \in Nat : Writes(s, k) \in Output
  /\ \A s, k : Writes(s, k).code = s /\ Writes(s, k).next = k
  /\ \A w \in Output : w.code \in Seq(Symbols) /\ w.next \in Nat /\ w = Writes(w.code, w.next)
BY DEF Output, Writes

WritesAll(writers, param_idx, f) ==
  /\ f \in [0 .. Len(writers) -> Output] /\ f[0] = Writes(<<>>, param_idx)
  /\ \A j \in 1 .. Len(writers) : f[j] = write_next(writers, j, f[j - 1])

LEMMA NextOutput ==
  ASSUME NEW writers \in Seq(Writers), NEW j \in 1 .. Len(writers), NEW w \in Output
  PROVE  write_next(writers, j, w) \in Output
<1>1. w.code \in Seq(Symbols) /\ w.next \in Nat
  BY OutputIs
<1>2. writers[j] \in Writers
  BY CountsFacts
<1>3. writers[j][w.next] \in Output
  BY <1>1, <1>2 DEF Writers
<1>4. PICK one \in Output : one = writers[j][w.next]
  BY <1>3
<1>5. one.code \in Seq(Symbols) /\ one.next \in Nat
  BY OutputIs
<1>6. Separator(Comma, j) \o one.code \in Seq(Symbols)
  BY <1>5, Separated, CommaIs, Concatenated
<1>7. w.code \o (Separator(Comma, j) \o one.code) \in Seq(Symbols)
  BY <1>1, <1>6, Concatenated
<1> QED BY <1>4, <1>5, <1>7, OutputIs DEF write_next

LEMMA WriteAllIs ==
  ASSUME NEW writers \in Seq(Writers), NEW param_idx \in Nat
  PROVE  \E f : WritesAll(writers, param_idx, f) /\ write_all(writers, param_idx) = f[Len(writers)]
<1> DEFINE n == Len(writers)
           step == [y \in (1 .. n) \X Output |-> write_next(writers, y[1], y[2])]
           Q(f) == [j \in 0 .. Len(writers) |->
                      IF j = 0 THEN Writes(<<>>, param_idx) ELSE write_next(writers, j, f[j - 1])]
           first == CHOOSE f : f = Q(f)
<1>1. n \in Nat /\ \A j \in 1 .. n : writers[j] \in Writers
  BY CountsFacts
<1>2. \A j \in 1 .. n, v \in Output : step[<<j, v>>] = write_next(writers, j, v)
  <2> TAKE j \in 1 .. n, v \in Output
  <2>1. PICK y : y = <<j, v>>
    OBVIOUS
  <2>2. y \in (1 .. n) \X Output /\ y[1] = j /\ y[2] = v
    BY <2>1
  <2>3. step[y] = write_next(writers, y[1], y[2])
    BY <2>2, Zenon
  <2> QED BY <2>1, <2>2, <2>3
<1> HIDE DEF step, first
<1>3. \A j \in 1 .. n : \A v \in Output : step[<<j, v>>] \in Output
  <2> TAKE j \in 1 .. n
  <2> TAKE v \in Output
  <2>1. write_next(writers, j, v) \in Output
    BY NextOutput
  <2> QED BY <1>2, <2>1
<1>4. <<>> \in Seq(Symbols)
  OBVIOUS
<1>5. PICK e \in Output : e = Writes(<<>>, param_idx)
  BY <1>4, OutputIs
<1>6. PICK g : Loops(Output, e, step, n, g)
  BY <1>1, <1>3, <1>5, Looping
<1>7. g \in [0 .. n -> Output] /\ g[0] = Writes(<<>>, param_idx)
  BY <1>5, <1>6 DEF Loops
<1>8. \A j \in 1 .. n : g[j] = write_next(writers, j, g[j - 1])
  <2> TAKE j \in 1 .. n
  <2>1. j - 1 \in 0 .. n
    BY <1>1
  <2>2. PICK v \in Output : v = g[j - 1]
    BY <1>7, <2>1
  <2>3. g[j] = step[<<j, g[j - 1]>>]
    BY <1>6 DEF Loops
  <2> QED BY <1>2, <2>2, <2>3, Zenon
<1>9. g = Q(g)
  <2>1. \A j \in 0 .. n : g[j] = IF j = 0 THEN Writes(<<>>, param_idx) ELSE write_next(writers, j, g[j - 1])
    <3>1. \A j \in 0 .. n : j # 0 => j \in 1 .. n
      BY <1>1
    <3> QED BY <1>7, <1>8, <3>1, Zenon
  <2>2. DOMAIN g = 0 .. n /\ g = [j \in 0 .. n |-> g[j]]
    BY <1>7
  <2> QED BY <2>1, <2>2, Zenon
<1>10. first = Q(first)
  BY <1>9, Zenon DEF first
<1>11. write_all(writers, param_idx) = first[Len(writers)]
  BY Zenon DEF write_all, first
<1>12. \A j \in 0 .. n : first[j] = IF j = 0 THEN Writes(<<>>, param_idx) ELSE write_next(writers, j, first[j - 1])
  BY <1>10, Zenon
<1>13. 0 \in 0 .. n /\ n \in 0 .. n /\ \A j \in 1 .. n : j \in 0 .. n /\ j # 0
  BY <1>1
<1>14. first[0] = e
  BY <1>5, <1>12, <1>13, Zenon
<1>15. \A j \in 1 .. n : first[j - 1] \in Output => first[j] = step[<<j, first[j - 1]>>]
  BY <1>2, <1>12, <1>13, Zenon
<1>16. \A j \in 0 .. n : first[j] = g[j]
  <2>1. Follows(Output, e, step, n, first)
    BY <1>14, <1>15 DEF Follows
  <2> QED BY <1>1, <1>6, <2>1, SameLoop
<1>17. WritesAll(writers, param_idx, g)
  BY <1>7, <1>8 DEF WritesAll
<1> QED BY <1>11, <1>13, <1>16, <1>17

-----------------------------------------------------------------------------
(* A piece of code that takes the parameters i to m - 1: read with these   *)
(* values in their places, it says what it should.                         *)
GivenFrom(P, i0, xs) == \A j \in 1 .. Len(xs) : i0 + j <= Len(P) /\ P[i0 + j] = xs[j]
Filled(code, P) == [j \in DOMAIN code |-> Reads(code[j], P)]
Numbered(code, i0, m) ==
  /\ \A j, k \in ParamsIn(code) : j < k => code[j].param < code[k].param
  /\ {code[j].param : j \in ParamsIn(code)} = i0 .. m - 1
Piece(code, i0, m, xs, says) ==
  /\ code \in Seq(Symbols) /\ says \in Seq(Symbols) /\ xs \in Seq(Tags \X Values) /\ i0 \in Nat
  /\ m = i0 + Len(xs)
  /\ Numbered(code, i0, m)
  /\ \A P \in Seq(Tags \X Values) : GivenFrom(P, i0, xs) => Filled(code, P) = says

LEMMA Concats ==
  ASSUME NEW S, NEW s \in Seq(S), NEW t \in Seq(S)
  PROVE  /\ s \o t \in Seq(S) /\ Len(s \o t) = Len(s) + Len(t) /\ Len(s) \in Nat /\ Len(t) \in Nat
         /\ DOMAIN (s \o t) = 1 .. Len(s) + Len(t)
         /\ \A j \in 1 .. Len(s) : j \in DOMAIN (s \o t) /\ (s \o t)[j] = s[j]
         /\ \A j \in 1 .. Len(t) : Len(s) + j \in DOMAIN (s \o t) /\ (s \o t)[Len(s) + j] = t[j]
         /\ \A j \in DOMAIN (s \o t) :
              j \in 1 .. Len(s) \/ (j - Len(s) \in 1 .. Len(t) /\ (s \o t)[j] = t[j - Len(s)] /\ j \notin 1 .. Len(s))
<1>1. Len(s) \in Nat /\ Len(t) \in Nat
  BY CountsFacts
<1>2. s \o t \in Seq(S) /\ Len(s \o t) = Len(s) + Len(t)
  BY ConcatProperties
<1>3. DOMAIN (s \o t) = 1 .. Len(s) + Len(t)
  BY <1>2, CountsFacts
<1>4. \A j \in 1 .. Len(s) + Len(t) : (s \o t)[j] = IF j <= Len(s) THEN s[j] ELSE t[j - Len(s)]
  BY ConcatProperties
<1> QED BY <1>1, <1>2, <1>3, <1>4

LEMMA FilledIs ==
  ASSUME NEW s \in Seq(Symbols), NEW P, NEW S, \A y \in Symbols : Reads(y, P) \in S
  PROVE  /\ Filled(s, P) \in Seq(S) /\ Len(Filled(s, P)) = Len(s)
         /\ \A j \in 1 .. Len(s) : Filled(s, P)[j] = Reads(s[j], P)
<1>1. Len(s) \in Nat /\ DOMAIN s = 1 .. Len(s) /\ \A j \in 1 .. Len(s) : s[j] \in Symbols
  BY CountsFacts
<1>2. \A j \in 1 .. Len(s) : Reads(s[j], P) \in S
  BY <1>1, SMTT(30)
<1>3. PICK n \in Nat : n = Len(s)
  BY <1>1
<1>4. Filled(s, P) = [j \in 1 .. n |-> Reads(s[j], P)]
  BY <1>1, <1>3 DEF Filled
<1>5. [j \in 1 .. n |-> Reads(s[j], P)] \in Seq(S)
  BY <1>2, <1>3
<1>6. Len([j \in 1 .. n |-> Reads(s[j], P)]) = n
  BY <1>3
<1> QED BY <1>3, <1>4, <1>5, <1>6

LEMMA FilledJoin ==
  ASSUME NEW s \in Seq(Symbols), NEW t \in Seq(Symbols), NEW P
  PROVE  Filled(s \o t, P) = Filled(s, P) \o Filled(t, P)
<1> DEFINE S == {Reads(y, P) : y \in Symbols}
<1>1. \A y \in Symbols : Reads(y, P) \in S
  OBVIOUS
<1> HIDE DEF S
<1>2. s \o t \in Seq(Symbols) /\ Len(s \o t) = Len(s) + Len(t) /\ Len(s) \in Nat /\ Len(t) \in Nat
  BY Concats
<1>3. PICK f, g, h : f = Filled(s, P) /\ g = Filled(t, P) /\ h = Filled(s \o t, P)
  OBVIOUS
<1>4. f \in Seq(S) /\ Len(f) = Len(s) /\ \A j \in 1 .. Len(s) : f[j] = Reads(s[j], P)
  BY <1>1, <1>3, FilledIs
<1>5. g \in Seq(S) /\ Len(g) = Len(t) /\ \A j \in 1 .. Len(t) : g[j] = Reads(t[j], P)
  BY <1>1, <1>3, FilledIs
<1>6. h \in Seq(S) /\ Len(h) = Len(s) + Len(t) /\ \A j \in 1 .. Len(s) + Len(t) : h[j] = Reads((s \o t)[j], P)
  BY <1>1, <1>2, <1>3, FilledIs
<1>7. f \o g \in Seq(S) /\ Len(f \o g) = Len(s) + Len(t)
  <2>1. f \o g \in Seq(S) /\ Len(f \o g) = Len(f) + Len(g)
    BY <1>4, <1>5, Concats
  <2> QED BY <1>4, <1>5, <2>1
<1>8. \A j \in 1 .. Len(s) + Len(t) : h[j] = (f \o g)[j]
  <2> TAKE j \in 1 .. Len(s) + Len(t)
  <2>1. j \in DOMAIN (s \o t) /\ j \in DOMAIN (f \o g)
    BY <1>4, <1>5, Concats
  <2>2. CASE j \in 1 .. Len(s)
    <3>1. (s \o t)[j] = s[j] /\ (f \o g)[j] = f[j]
      BY <1>4, <1>5, <2>2, Concats
    <3> QED BY <1>4, <1>6, <2>2, <3>1
  <2>3. CASE j \notin 1 .. Len(s)
    <3>1. j - Len(s) \in 1 .. Len(t) /\ (s \o t)[j] = t[j - Len(s)]
      BY <2>1, <2>3, Concats
    <3>2. (f \o g)[j] = g[j - Len(s)]
      BY <1>4, <1>5, <2>1, <2>3, Concats
    <3> QED BY <1>5, <1>6, <3>1, <3>2
  <2> QED BY <2>2, <2>3
<1>9. h = f \o g
  BY <1>6, <1>7, <1>8, SeqEqual
<1> QED BY <1>3, <1>9

LEMMA NumberedJoin ==
  ASSUME NEW s \in Seq(Symbols), NEW t \in Seq(Symbols), NEW i0 \in Nat, NEW m \in Nat, NEW n \in Nat,
         i0 <= m, m <= n, Numbered(s, i0, m), Numbered(t, m, n)
  PROVE  Numbered(s \o t, i0, n)
<1> DEFINE a == s \o t
<1>1. \A j \in ParamsIn(s) : j \in 1 .. Len(s) /\ s[j].param \in i0 .. m - 1
  BY CountsFacts DEF Numbered, ParamsIn
<1>2. \A j \in ParamsIn(t) : j \in 1 .. Len(t) /\ t[j].param \in m .. n - 1
  BY CountsFacts DEF Numbered, ParamsIn
<1>3. \A j \in ParamsIn(a) : \/ j \in ParamsIn(s) /\ a[j] = s[j]
                             \/ /\ j - Len(s) \in ParamsIn(t) /\ a[j] = t[j - Len(s)]
                                /\ j \in Nat /\ j > Len(s)
  <2> TAKE j \in ParamsIn(a)
  <2>1. j \in DOMAIN a /\ a[j].kind = "param"
    BY DEF ParamsIn
  <2>2. CASE j \in 1 .. Len(s)
    <3>1. a[j] = s[j] /\ j \in DOMAIN s
      BY <2>2, Concats, CountsFacts
    <3> QED BY <2>1, <3>1 DEF ParamsIn
  <2>3. CASE j \notin 1 .. Len(s)
    <3>1. j - Len(s) \in 1 .. Len(t) /\ a[j] = t[j - Len(s)]
      BY <2>1, <2>3, Concats
    <3>2. j - Len(s) \in DOMAIN t
      BY <3>1, CountsFacts
    <3>3. j \in Nat /\ j > Len(s)
      BY <2>1, <3>1, Concats, SMTT(30)
    <3> QED BY <2>1, <3>1, <3>2, <3>3 DEF ParamsIn
  <2> QED BY <2>2, <2>3
<1>4. \A j \in ParamsIn(s) : j \in ParamsIn(a) /\ a[j] = s[j]
  <2> TAKE j \in ParamsIn(s)
  <2>1. j \in DOMAIN a /\ a[j] = s[j]
    BY <1>1, Concats
  <2> QED BY <2>1 DEF ParamsIn
<1>5. \A j \in ParamsIn(t) : Len(s) + j \in ParamsIn(a) /\ a[Len(s) + j] = t[j]
  <2> TAKE j \in ParamsIn(t)
  <2>1. Len(s) + j \in DOMAIN a /\ a[Len(s) + j] = t[j]
    BY <1>2, Concats
  <2> QED BY <2>1 DEF ParamsIn
<1>6. Len(s) \in Nat /\ Len(t) \in Nat
  BY CountsFacts
<1> HIDE DEF a
<1>7. ASSUME NEW j \in ParamsIn(a), NEW k \in ParamsIn(a), j < k
      PROVE  a[j].param < a[k].param
  <2>1. CASE j \in ParamsIn(s) /\ a[j] = s[j] /\ k \in ParamsIn(s) /\ a[k] = s[k]
    BY <1>7, <2>1 DEF Numbered
  <2>2. CASE j \in ParamsIn(s) /\ a[j] = s[j] /\ k - Len(s) \in ParamsIn(t) /\ a[k] = t[k - Len(s)]
    <3>1. s[j].param \in i0 .. m - 1 /\ t[k - Len(s)].param \in m .. n - 1
      BY <1>1, <1>2, <2>2
    <3> QED BY <2>2, <3>1
  <2>3. CASE j - Len(s) \in ParamsIn(t) /\ a[j] = t[j - Len(s)] /\ k - Len(s) \in ParamsIn(t) /\ a[k] = t[k - Len(s)]
             /\ j \in Nat /\ k \in Nat
    <3>1. j - Len(s) < k - Len(s)
      BY <1>6, <1>7, <2>3
    <3> QED BY <2>3, <3>1 DEF Numbered
  <2>4. ~(j \in Nat /\ j > Len(s) /\ k \in ParamsIn(s))
    BY <1>1, <1>6, <1>7
  <2> QED BY <1>3, <2>1, <2>2, <2>3, <2>4
<1>8. \A j \in ParamsIn(a) : a[j].param \in i0 .. n - 1
  <2> TAKE j \in ParamsIn(a)
  <2>1. a[j].param \in i0 .. m - 1 \/ a[j].param \in m .. n - 1
    BY <1>1, <1>2, <1>3
  <2> QED BY <2>1
<1>9. ASSUME NEW v \in i0 .. n - 1 PROVE \E j \in ParamsIn(a) : a[j].param = v
  <2>1. CASE v < m
    <3>1. v \in i0 .. m - 1
      BY <2>1
    <3>2. PICK j \in ParamsIn(s) : s[j].param = v
      BY <3>1 DEF Numbered
    <3> QED BY <1>4, <3>2
  <2>2. CASE ~(v < m)
    <3>1. v \in m .. n - 1
      BY <2>2
    <3>2. PICK j \in ParamsIn(t) : t[j].param = v
      BY <3>1 DEF Numbered
    <3> QED BY <1>5, <3>2
  <2> QED BY <2>1, <2>2
<1>10. {a[j].param : j \in ParamsIn(a)} = i0 .. n - 1
  BY <1>8, <1>9
<1>11. Numbered(a, i0, n)
  BY <1>7, <1>10 DEF Numbered
<1> QED BY <1>11 DEF a

LEMMA JoinPieces ==
  ASSUME NEW s, NEW t, NEW i0, NEW m, NEW n, NEW xs, NEW ys, NEW u, NEW v,
         Piece(s, i0, m, xs, u), Piece(t, m, n, ys, v)
  PROVE  Piece(s \o t, i0, n, xs \o ys, u \o v)
<1> DEFINE Ps == Tags \X Values
<1>1. /\ s \in Seq(Symbols) /\ t \in Seq(Symbols) /\ u \in Seq(Symbols) /\ v \in Seq(Symbols)
      /\ xs \in Seq(Ps) /\ ys \in Seq(Ps) /\ i0 \in Nat /\ m \in Nat /\ m = i0 + Len(xs) /\ n = m + Len(ys)
      /\ Numbered(s, i0, m) /\ Numbered(t, m, n)
  BY DEF Piece
<1> HIDE DEF Ps
<1>2. Len(xs) \in Nat /\ Len(ys) \in Nat /\ xs \o ys \in Seq(Ps) /\ Len(xs \o ys) = Len(xs) + Len(ys)
  BY <1>1, Concats
<1>3. s \o t \in Seq(Symbols) /\ u \o v \in Seq(Symbols)
  BY <1>1, Concats
<1>4. n \in Nat /\ i0 <= m /\ m <= n /\ n = i0 + Len(xs \o ys)
  BY <1>1, <1>2
<1>5. Numbered(s \o t, i0, n)
  BY <1>1, <1>4, NumberedJoin
<1>6. ASSUME NEW P \in Seq(Ps), GivenFrom(P, i0, xs \o ys) PROVE Filled(s \o t, P) = u \o v
  <2>1. GivenFrom(P, i0, xs)
    <3> SUFFICES ASSUME NEW j \in 1 .. Len(xs) PROVE i0 + j <= Len(P) /\ P[i0 + j] = xs[j]
      BY DEF GivenFrom
    <3>1. (xs \o ys)[j] = xs[j] /\ j \in 1 .. Len(xs \o ys)
      BY <1>1, <1>2, Concats
    <3> QED BY <1>6, <3>1 DEF GivenFrom
  <2>2. GivenFrom(P, m, ys)
    <3> SUFFICES ASSUME NEW j \in 1 .. Len(ys) PROVE m + j <= Len(P) /\ P[m + j] = ys[j]
      BY DEF GivenFrom
    <3>1. (xs \o ys)[Len(xs) + j] = ys[j] /\ Len(xs) + j \in 1 .. Len(xs \o ys)
      BY <1>1, <1>2, Concats
    <3>2. i0 + (Len(xs) + j) = m + j
      BY <1>1, <1>2
    <3>3. i0 + (Len(xs) + j) <= Len(P) /\ P[i0 + (Len(xs) + j)] = (xs \o ys)[Len(xs) + j]
      BY <1>6, <3>1 DEF GivenFrom
    <3> QED BY <3>1, <3>2, <3>3
  <2>3. Filled(s, P) = u /\ Filled(t, P) = v
    BY <1>6, <2>1, <2>2 DEF Piece, Ps
  <2>4. Filled(s \o t, P) = Filled(s, P) \o Filled(t, P)
    <3>1. s \in Seq(Symbols) /\ t \in Seq(Symbols)
      BY <1>1
    <3>2. \A a, b \in Seq(Symbols) : \A Q : Filled(a \o b, Q) = Filled(a, Q) \o Filled(b, Q)
      BY FilledJoin
    <3> QED BY <3>1, <3>2, Zenon
  <2> QED BY <2>3, <2>4, Zenon
<1> QED BY <1>1, <1>2, <1>3, <1>4, <1>5, <1>6 DEF Piece, Ps

LEMMA EmptyLeft == ASSUME NEW S, NEW s \in Seq(S) PROVE <<>> \o s = s /\ s \o <<>> = s /\ <<>> \in Seq(S)
OBVIOUS

LEMMA PieceTypes ==
  ASSUME NEW s, NEW i0, NEW m, NEW xs, NEW u, Piece(s, i0, m, xs, u)
  PROVE  /\ s \in Seq(Symbols) /\ u \in Seq(Symbols) /\ xs \in Seq(Tags \X Values) /\ i0 \in Nat
         /\ m = i0 + Len(xs) /\ m \in Nat
<1>1. /\ s \in Seq(Symbols) /\ u \in Seq(Symbols) /\ xs \in Seq(Tags \X Values) /\ i0 \in Nat
      /\ m = i0 + Len(xs)
  BY DEF Piece
<1>2. Len(xs) \in Nat
  BY <1>1, CountsFacts
<1> QED BY <1>1, <1>2

LEMMA Before ==
  ASSUME NEW s, NEW t, NEW i0, NEW n, NEW xs, NEW u, NEW v,
         Piece(s, i0, i0, <<>>, u), Piece(t, i0, n, xs, v)
  PROVE  Piece(s \o t, i0, n, xs, u \o v)
<1>1. Piece(s \o t, i0, n, <<>> \o xs, u \o v)
  BY JoinPieces
<1> QED BY <1>1, PieceTypes, EmptyLeft

LEMMA After ==
  ASSUME NEW s, NEW t, NEW i0, NEW n, NEW xs, NEW u, NEW v,
         Piece(s, i0, n, xs, u), Piece(t, n, n, <<>>, v)
  PROVE  Piece(s \o t, i0, n, xs, u \o v)
<1>1. Piece(s \o t, i0, n, xs \o <<>>, u \o v)
  BY JoinPieces
<1> QED BY <1>1, PieceTypes, EmptyLeft

LEMMA TextPiece ==
  ASSUME NEW t, Token(t) \in Symbols, NEW i0 \in Nat
  PROVE  Piece(<<Token(t)>>, i0, i0, <<>>, <<Token(t)>>)
<1>1. PICK y \in Symbols : y = Token(t)
  OBVIOUS
<1>2. y.kind = "text"
  BY <1>1 DEF Token
<1>3. <<y>> \in Seq(Symbols)
  OBVIOUS
<1>4. ParamsIn(<<y>>) = {}
  BY <1>2 DEF ParamsIn
<1>5. Numbered(<<y>>, i0, i0)
  BY <1>4 DEF Numbered
<1>6. \A P : Filled(<<y>>, P) = <<y>>
  <2> TAKE P
  <2>1. Reads(y, P) = y
    BY <1>2 DEF Reads
  <2> QED BY <2>1 DEF Filled
<1>7. <<>> \in Seq(Tags \X Values) /\ Len(<<>>) = 0
  OBVIOUS
<1> QED BY <1>1, <1>3, <1>5, <1>6, <1>7 DEF Piece

LEMMA ParamPiece ==
  ASSUME NEW n \in Exprs, NEW i0 \in Nat
  PROVE  Piece(<<Param(i0, Nodes[n].tag)>>, i0, i0 + 1, << <<Nodes[n].tag, Nodes[n].value>> >>,
               <<Literal(Nodes[n].tag, Nodes[n].value)>>)
<1>1. PICK t, v : t = Nodes[n].tag /\ v = Nodes[n].value
  OBVIOUS
<1>2. Param(i0, t) \in Symbols /\ Literal(t, v) \in Symbols /\ <<t, v>> \in Tags \X Values
  BY <1>1, SymbolsAre
<1>3. PICK y \in Symbols : y = Param(i0, t)
  BY <1>2
<1>4. y.kind = "param" /\ y.param = i0 /\ y.tag = t
  BY <1>3 DEF Param
<1>5. <<y>> \in Seq(Symbols) /\ <<Literal(t, v)>> \in Seq(Symbols) /\ << <<t, v>> >> \in Seq(Tags \X Values)
  BY <1>2, OneToken
<1>6. ParamsIn(<<y>>) = {1}
  BY <1>4 DEF ParamsIn
<1>7. Numbered(<<y>>, i0, i0 + 1)
  <2>1. \A j, k \in {1} : ~(j < k)
    OBVIOUS
  <2>2. {<<y>>[j].param : j \in {1}} = {i0}
    BY <1>4
  <2>3. {i0} = i0 .. (i0 + 1) - 1
    OBVIOUS
  <2> QED BY <1>6, <2>1, <2>2, <2>3 DEF Numbered
<1>8. ASSUME NEW P, GivenFrom(P, i0, << <<t, v>> >>) PROVE Filled(<<y>>, P) = <<Literal(t, v)>>
  <2>1. i0 + 1 <= Len(P) /\ P[i0 + 1] = <<t, v>>
    <3>1. Len(<< <<t, v>> >>) = 1 /\ << <<t, v>> >>[1] = <<t, v>>
      OBVIOUS
    <3> QED BY <1>8, <3>1 DEF GivenFrom
  <2>2. PICK q : q = P[i0 + 1]
    OBVIOUS
  <2>3. q[1] = t /\ q[2] = v
    BY <2>1, <2>2
  <2>4. Reads(y, P) = Literal(t, v)
    BY <1>4, <2>1, <2>2, <2>3 DEF Reads
  <2> QED BY <2>4 DEF Filled
<1>9. Len(<< <<t, v>> >>) = 1
  OBVIOUS
<1> QED BY <1>1, <1>3, <1>5, <1>7, <1>8, <1>9 DEF Piece

-----------------------------------------------------------------------------
(* Writing: what an expression writes is a piece of code that takes as     *)
(* many parameters as the expression extracts.                             *)
(* What write_to of an expression does, by its parameters and its meaning. *)
Good(writer, xs, says) ==
  writer \in Writers /\ \A i0 \in Nat : Piece(writer[i0].code, i0, writer[i0].next, xs, says)

AllGood(writers, xss, texts) ==
  /\ writers \in Seq(Writers) /\ xss \in Seq(Seq(Tags \X Values)) /\ texts \in Seq(Seq(Symbols))
  /\ Len(xss) = Len(writers) /\ Len(texts) = Len(writers)
  /\ \A j \in 1 .. Len(writers) : Good(writers[j], xss[j], texts[j])

LEMMA NothingWritten ==
  ASSUME NEW i0 \in Nat PROVE Piece(<<>>, i0, i0, <<>>, <<>>)
<1>1. <<>> \in Seq(Symbols) /\ <<>> \in Seq(Tags \X Values) /\ Len(<<>>) = 0
  OBVIOUS
<1>2. ParamsIn(<<>>) = {}
  BY DEF ParamsIn
<1>3. Numbered(<<>>, i0, i0)
  BY <1>2 DEF Numbered
<1>4. \A P : Filled(<<>>, P) = <<>>
  BY DEF Filled
<1> QED BY <1>1, <1>3, <1>4 DEF Piece

LEMMA SeparatorPiece ==
  ASSUME NEW i0 \in Nat, NEW j
  PROVE  Piece(Separator(Comma, j), i0, i0, <<>>, Separator(Comma, j))
<1>1. Piece(Comma, i0, i0, <<>>, Comma)
  BY TextPiece, SymbolsAre DEF Comma
<1> QED BY <1>1, NothingWritten DEF Separator

LEMMA LoopStep ==
  ASSUME NEW writers, NEW xss, NEW texts, AllGood(writers, xss, texts), NEW i0 \in Nat,
         NEW j \in 1 .. Len(writers), NEW w \in Output, NEW xs, NEW u, Piece(w.code, i0, w.next, xs, u)
  PROVE  Piece(write_next(writers, j, w).code, i0, write_next(writers, j, w).next,
               xs \o (Separator(<<>>, j) \o xss[j]), u \o (Separator(Comma, j) \o texts[j]))
<1>1. w.code \in Seq(Symbols) /\ w.next \in Nat
  BY OutputIs
<1>2. Good(writers[j], xss[j], texts[j])
  BY DEF AllGood
<1>3. PICK one : one = writers[j][w.next]
  OBVIOUS
<1>4. Piece(one.code, w.next, one.next, xss[j], texts[j])
  BY <1>1, <1>2, <1>3 DEF Good
<1>5. Piece(Separator(Comma, j) \o one.code, w.next, one.next, xss[j], Separator(Comma, j) \o texts[j])
  BY <1>1, <1>4, SeparatorPiece, Before
<1>6. Piece(w.code \o (Separator(Comma, j) \o one.code), i0, one.next, xs \o xss[j],
            u \o (Separator(Comma, j) \o texts[j]))
  BY <1>5, JoinPieces
<1>7. Separator(<<>>, j) \o xss[j] = xss[j]
  <2>1. Separator(<<>>, j) = <<>>
    BY DEF Separator
  <2> QED BY <1>4, <2>1, PieceTypes, EmptyLeft
<1>8. write_next(writers, j, w) = Writes(w.code \o (Separator(Comma, j) \o one.code), one.next)
  BY <1>3 DEF write_next
<1>9. /\ write_next(writers, j, w).code = w.code \o (Separator(Comma, j) \o one.code)
      /\ write_next(writers, j, w).next = one.next
  <2>1. PICK a, k : a = w.code \o (Separator(Comma, j) \o one.code) /\ k = one.next
    OBVIOUS
  <2>2. Writes(a, k).code = a /\ Writes(a, k).next = k
    BY OutputIs
  <2>3. write_next(writers, j, w) = Writes(a, k)
    BY <1>8, <2>1
  <2> QED BY <2>1, <2>2, <2>3
<1> QED BY <1>6, <1>7, <1>9, Zenon

LEMMA ArgsGood ==
  ASSUME NEW writers, NEW xss, NEW texts, AllGood(writers, xss, texts), NEW i0 \in Nat
  PROVE  /\ write_all(writers, i0) \in Output
         /\ Piece(write_all(writers, i0).code, i0, write_all(writers, i0).next,
                  Joined(<<>>, xss), Joined(Comma, texts))
<1>1. /\ writers \in Seq(Writers) /\ xss \in Seq(Seq(Tags \X Values)) /\ texts \in Seq(Seq(Symbols))
      /\ Len(xss) = Len(writers) /\ Len(texts) = Len(writers)
  BY DEF AllGood
<1>2. PICK f : WritesAll(writers, i0, f) /\ write_all(writers, i0) = f[Len(writers)]
  BY <1>1, WriteAllIs
<1>3. PICK g : Joins(Tags \X Values, <<>>, xss, g) /\ Joined(<<>>, xss) = g[Len(xss)]
  <2>1. <<>> \in Seq(Tags \X Values)
    OBVIOUS
  <2> QED BY <1>1, <2>1, JoinedIs
<1>4. PICK h : Joins(Symbols, Comma, texts, h) /\ Joined(Comma, texts) = h[Len(texts)]
  BY <1>1, CommaIs, JoinedIs
<1>5. PICK n \in Nat : n = Len(writers)
  BY <1>1, CountsFacts
<1>6. /\ f \in [0 .. n -> Output] /\ f[0] = Writes(<<>>, i0)
      /\ \A j \in 1 .. n : f[j] = write_next(writers, j, f[j - 1])
  BY <1>2, <1>5 DEF WritesAll
<1>7. g[0] = <<>> /\ \A j \in 1 .. n : g[j] = g[j - 1] \o (Separator(<<>>, j) \o xss[j])
  BY <1>1, <1>3, <1>5 DEF Joins
<1>8. h[0] = <<>> /\ \A j \in 1 .. n : h[j] = h[j - 1] \o (Separator(Comma, j) \o texts[j])
  BY <1>1, <1>4, <1>5 DEF Joins
<1> DEFINE S == {m \in Nat : m <= n => Piece(f[m].code, i0, f[m].next, g[m], h[m])}
<1>9. 0 \in S
  <2>1. f[0].code = <<>> /\ f[0].next = i0
    BY <1>6, OutputIs
  <2> QED BY <1>7, <1>8, <2>1, NothingWritten
<1>10. ASSUME NEW m \in Nat, m \in S PROVE m + 1 \in S
  <2> SUFFICES ASSUME m + 1 <= n PROVE Piece(f[m + 1].code, i0, f[m + 1].next, g[m + 1], h[m + 1])
    OBVIOUS
  <2>1. Piece(f[m].code, i0, f[m].next, g[m], h[m])
    BY <1>10
  <2>2. PICK j \in 1 .. n : j = m + 1
    OBVIOUS
  <2>3. j - 1 = m
    BY <2>2
  <2>4. PICK w \in Output : w = f[m]
    BY <1>6
  <2>5. f[j] = write_next(writers, j, w)
    BY <1>6, <2>3, <2>4
  <2>6. g[j] = g[m] \o (Separator(<<>>, j) \o xss[j]) /\ h[j] = h[m] \o (Separator(Comma, j) \o texts[j])
    BY <1>7, <1>8, <2>3
  <2>7. Piece(write_next(writers, j, w).code, i0, write_next(writers, j, w).next,
              g[m] \o (Separator(<<>>, j) \o xss[j]), h[m] \o (Separator(Comma, j) \o texts[j]))
    BY <1>5, <2>1, <2>4, LoopStep
  <2> QED BY <2>2, <2>5, <2>6, <2>7
<1>11. \A m \in Nat : m \in S
  <2> HIDE DEF S
  <2> QED BY <1>9, <1>10, Induction
<1>12. Piece(f[n].code, i0, f[n].next, g[n], h[n])
  BY <1>11
<1>13. f[n] \in Output
  BY <1>6
<1> QED BY <1>1, <1>2, <1>3, <1>4, <1>5, <1>12, <1>13

CountedBy(counts, xss) ==
  Len(xss) = Len(counts) /\ \A j \in 1 .. Len(counts) : counts[j] = Len(xss[j])

LEMMA CountsAdd ==
  ASSUME NEW counts \in Seq(Nat), NEW S, NEW xss \in Seq(Seq(S)), CountedBy(counts, xss)
  PROVE  Total(counts) = Len(Joined(<<>>, xss))
<1>0. Len(xss) = Len(counts) /\ \A j \in 1 .. Len(counts) : counts[j] = Len(xss[j])
  BY DEF CountedBy
<1>1. PICK f : Adds(counts, f) /\ Total(counts) = f[Len(counts)]
  BY TotalIs
<1>2. PICK g : Joins(S, <<>>, xss, g) /\ Joined(<<>>, xss) = g[Len(xss)]
  <2>1. <<>> \in Seq(S)
    OBVIOUS
  <2> QED BY <2>1, JoinedIs
<1>3. PICK n \in Nat : n = Len(counts)
  BY CountsFacts
<1>4. f[0] = 0 /\ \A j \in 1 .. n : f[j] = f[j - 1] + counts[j]
  BY <1>1, <1>3 DEF Adds
<1>5. g \in [0 .. n -> Seq(S)] /\ g[0] = <<>> /\ \A j \in 1 .. n : g[j] = g[j - 1] \o (Separator(<<>>, j) \o xss[j])
  BY <1>0, <1>2, <1>3 DEF Joins
<1>6. \A j \in 1 .. n : Separator(<<>>, j) \o xss[j] = xss[j] /\ xss[j] \in Seq(S) /\ counts[j] = Len(xss[j])
  <2> TAKE j \in 1 .. n
  <2>1. Separator(<<>>, j) = <<>>
    BY DEF Separator
  <2>2. xss[j] \in Seq(S) /\ counts[j] = Len(xss[j])
    BY <1>0, <1>3, CountsFacts
  <2> QED BY <2>1, <2>2, EmptyLeft
<1> DEFINE T == {m \in Nat : m <= n => f[m] = Len(g[m])}
<1>7. 0 \in T
  BY <1>4, <1>5
<1>8. ASSUME NEW m \in Nat, m \in T PROVE m + 1 \in T
  <2> SUFFICES ASSUME m + 1 <= n PROVE f[m + 1] = Len(g[m + 1])
    OBVIOUS
  <2>1. f[m] = Len(g[m])
    BY <1>8
  <2>2. PICK j \in 1 .. n : j = m + 1
    OBVIOUS
  <2>3. j - 1 = m
    BY <2>2
  <2>4. g[j] = g[m] \o xss[j] /\ f[j] = f[m] + counts[j]
    BY <1>4, <1>5, <1>6, <2>3
  <2>5. PICK y \in Seq(S) : y = g[m]
    BY <1>5
  <2>6. PICK z \in Seq(S) : z = xss[j]
    BY <1>6
  <2>7. Len(y \o z) = Len(y) + Len(z)
    BY Concats
  <2> QED BY <1>6, <2>1, <2>2, <2>4, <2>5, <2>6, <2>7
<1>9. \A m \in Nat : m \in T
  <2> HIDE DEF T
  <2> QED BY <1>7, <1>8, Induction
<1>10. f[n] = Len(g[n])
  BY <1>9
<1> QED BY <1>0, <1>1, <1>2, <1>3, <1>10

-----------------------------------------------------------------------------
(* Tables over expressions: each function of ExprCode obeys its equation.  *)
LEMMA NodeFacts ==
  ASSUME NodesAssumption, NEW n \in Exprs
  PROVE  /\ Len(Nodes) \in Nat /\ n \in 1 .. Len(Nodes) /\ n \in Nat
         /\ \A k \in 1 .. n - 1 : k \in Exprs
         /\ \/ Nodes[n].cls = "dyn" \/ Nodes[n].cls = "raw" \/ Nodes[n].cls = "call" \/ Nodes[n].cls = "infix"
         /\ Nodes[n].cls = "call" => /\ Nodes[n].fn \in 1 .. n - 1 /\ Nodes[n].args \in Seq(1 .. n - 1)
                                     /\ DOMAIN Nodes[n].args = 1 .. Len(Nodes[n].args)
                                     /\ Len(Nodes[n].args) \in Nat
                                     /\ \A j \in DOMAIN Nodes[n].args : Nodes[n].args[j] \in 1 .. n - 1
         /\ Nodes[n].cls = "infix" => Nodes[n].left \in 1 .. n - 1 /\ Nodes[n].right \in 1 .. n - 1
<1>1. Len(Nodes) \in Nat /\ n \in 1 .. Len(Nodes)
  BY CountsFacts DEF NodesAssumption, Exprs
<1>2. \A k \in 1 .. n - 1 : k \in Exprs
  BY <1>1 DEF Exprs
<1>3. PICK e : e = Nodes[n]
  OBVIOUS
<1>4. /\ e.cls = "dyn" \/ e.cls = "raw" \/ e.cls = "call" \/ e.cls = "infix"
      /\ e.cls = "call" => e.fn \in 1 .. n - 1 /\ e.args \in Seq(1 .. n - 1)
      /\ e.cls = "infix" => e.left \in 1 .. n - 1 /\ e.right \in 1 .. n - 1
  BY <1>3 DEF NodesAssumption
<1>5. e.cls = "call" => DOMAIN e.args = 1 .. Len(e.args) /\ Len(e.args) \in Nat
  BY <1>4, CountsFacts
<1>6. e.cls = "call" => \A j \in DOMAIN e.args : e.args[j] \in 1 .. n - 1
  BY <1>4, <1>5, CountsFacts
<1> QED BY <1>1, <1>2, <1>3, <1>4, <1>5, <1>6

Maps(t, B, V) == \A k \in B : t[k] \in V

LEMMA EachIs ==
  ASSUME NEW B, NEW es \in Seq(B), NEW V, NEW t, Maps(t, B, V)
  PROVE  /\ Each(es, t) \in Seq(V) /\ Len(Each(es, t)) = Len(es)
         /\ \A j \in 1 .. Len(es) : Each(es, t)[j] = t[es[j]]
<1>1. PICK m \in Nat : m = Len(es)
  BY CountsFacts
<1>2. DOMAIN es = 1 .. m /\ \A j \in 1 .. m : t[es[j]] \in V
  BY <1>1, CountsFacts DEF Maps
<1>3. [j \in 1 .. m |-> t[es[j]]] \in Seq(V) /\ Len([j \in 1 .. m |-> t[es[j]]]) = m
  BY <1>2
<1>4. Each(es, t) = [j \in 1 .. m |-> t[es[j]]]
  BY <1>2 DEF Each
<1> QED BY <1>1, <1>3, <1>4

SameBelow(t, u, n) == \A k \in 1 .. n - 1 : t[k] = u[k]

(* What the parts of a node are given by tables that agree.                *)
LEMMA SameParts ==
  ASSUME NodesAssumption, NEW n \in Exprs, NEW t, NEW u, SameBelow(t, u, n)
  PROVE  /\ Nodes[n].cls = "call" =>
              t[Nodes[n].fn] = u[Nodes[n].fn] /\ Each(Nodes[n].args, t) = Each(Nodes[n].args, u)
         /\ Nodes[n].cls = "infix" => t[Nodes[n].left] = u[Nodes[n].left] /\ t[Nodes[n].right] = u[Nodes[n].right]
<1>1. ASSUME Nodes[n].cls = "call"
      PROVE  /\ t[Nodes[n].fn] = u[Nodes[n].fn]
             /\ \A j \in DOMAIN Nodes[n].args : t[Nodes[n].args[j]] = u[Nodes[n].args[j]]
  BY <1>1, NodeFacts DEF SameBelow
<1>2. ASSUME Nodes[n].cls = "infix" PROVE t[Nodes[n].left] = u[Nodes[n].left] /\ t[Nodes[n].right] = u[Nodes[n].right]
  BY <1>2, NodeFacts DEF SameBelow
<1> QED BY <1>1, <1>2 DEF Each

(* The values of a table for the parts of a node.                          *)
LEMMA PartsOf ==
  ASSUME NodesAssumption, NEW n \in Exprs, NEW V, NEW t, \A k \in 1 .. n - 1 : t[k] \in V
  PROVE  /\ Nodes[n].cls = "call" =>
              /\ t[Nodes[n].fn] \in V /\ Each(Nodes[n].args, t) \in Seq(V)
              /\ Len(Each(Nodes[n].args, t)) = Len(Nodes[n].args)
         /\ Nodes[n].cls = "infix" => t[Nodes[n].left] \in V /\ t[Nodes[n].right] \in V
<1>1. ASSUME Nodes[n].cls = "call"
      PROVE  /\ t[Nodes[n].fn] \in V /\ Each(Nodes[n].args, t) \in Seq(V)
             /\ Len(Each(Nodes[n].args, t)) = Len(Nodes[n].args)
  <2>1. Nodes[n].fn \in 1 .. n - 1 /\ Nodes[n].args \in Seq(1 .. n - 1)
    BY <1>1, NodeFacts
  <2>2. PICK B : B = 1 .. n - 1
    OBVIOUS
  <2>3. Nodes[n].args \in Seq(B) /\ Maps(t, B, V)
    BY <2>1, <2>2 DEF Maps
  <2>4. Each(Nodes[n].args, t) \in Seq(V) /\ Len(Each(Nodes[n].args, t)) = Len(Nodes[n].args)
    <3>1. PICK args \in Seq(B) : args = Nodes[n].args
      BY <2>3
    <3>2. Each(args, t) \in Seq(V) /\ Len(Each(args, t)) = Len(args)
      BY <2>3, EachIs
    <3> QED BY <3>1, <3>2
  <2> QED BY <2>1, <2>4
<1>2. ASSUME Nodes[n].cls = "infix" PROVE t[Nodes[n].left] \in V /\ t[Nodes[n].right] \in V
  BY <1>2, NodeFacts
<1> QED BY <1>1, <1>2

(* A table is there if each of its values can be computed from those       *)
(* before; cut is where the table ends.                                    *)
Cut(t, n) == [k \in 1 .. n - 1 |-> t[k]]
Tables(V) == UNION {[1 .. n - 1 -> V] : n \in Exprs}

LEMMA CutSame == ASSUME NEW t, NEW n PROVE SameBelow(Cut(t, n), t, n)
BY DEF SameBelow, Cut

LEMMA ByNumber ==
  ASSUME NodesAssumption, NEW S, \A n \in Exprs : (\A k \in 1 .. n - 1 : k \in S) => n \in S
  PROVE  \A n \in Exprs : n \in S
<1>1. PICK N \in Nat : Exprs = 1 .. N
  BY CountsFacts DEF NodesAssumption, Exprs
<1> QED BY <1>1, StrongInduction

LEMMA TableExists ==
  ASSUME NodesAssumption, NEW V, NEW step,
         \A n \in Exprs : \A t \in [1 .. n - 1 -> V] : step[<<n, t>>] \in V
  PROVE  \E g \in [Exprs -> V] : \A n \in Exprs : g[n] = step[<<n, Cut(g, n)>>] /\ Cut(g, n) \in [1 .. n - 1 -> V]
<1>1. PICK N \in Nat : Exprs = 1 .. N
  BY CountsFacts DEF NodesAssumption, Exprs
<1>2. PICK g : Tabulates(V, step, N, g)
  BY <1>1, Tabulated
<1>3. g \in [Exprs -> V] /\ \A n \in Exprs : g[n] = step[<<n, Cut(g, n)>>]
  BY <1>1, <1>2 DEF Tabulates, Cut
<1>4. \A n \in Exprs : Cut(g, n) \in [1 .. n - 1 -> V]
  BY <1>3, NodeFacts DEF Cut
<1> QED BY <1>3, <1>4

-----------------------------------------------------------------------------
LEMMA TotalType == ASSUME NEW counts \in Seq(Nat) PROVE Total(counts) \in Nat
<1>1. PICK f : Adds(counts, f) /\ Total(counts) = f[Len(counts)]
  BY TotalIs
<1> QED BY <1>1, CountsFacts DEF Adds

LEMMA CountsType ==
  ASSUME NodesAssumption, NEW n \in Exprs, NEW t, \A k \in 1 .. n - 1 : t[k] \in Nat
  PROVE  count_of(Nodes[n], t) \in Nat
<1>1. CASE Nodes[n].cls = "call"
  <2>1. t[Nodes[n].fn] \in Nat /\ Total(Each(Nodes[n].args, t)) \in Nat
    BY <1>1, PartsOf, TotalType
  <2>2. count_of(Nodes[n], t) = t[Nodes[n].fn] + Total(Each(Nodes[n].args, t))
    BY <1>1 DEF count_of
  <2> QED BY <2>1, <2>2
<1>2. CASE Nodes[n].cls = "infix"
  <2>1. t[Nodes[n].left] \in Nat /\ t[Nodes[n].right] \in Nat
    BY <1>2, PartsOf
  <2> QED BY <1>2, <2>1 DEF count_of
<1>3. CASE Nodes[n].cls = "dyn"
  BY <1>3 DEF count_of
<1>4. CASE Nodes[n].cls = "raw"
  BY <1>4 DEF count_of
<1> QED BY <1>1, <1>2, <1>3, <1>4, NodeFacts

LEMMA CountsSame ==
  ASSUME NodesAssumption, NEW n \in Exprs, NEW t, NEW u, SameBelow(t, u, n)
  PROVE  count_of(Nodes[n], t) = count_of(Nodes[n], u)
<1>1. CASE Nodes[n].cls = "call"
  BY <1>1, SameParts DEF count_of
<1>2. CASE Nodes[n].cls = "infix"
  BY <1>2, SameParts DEF count_of
<1>3. CASE Nodes[n].cls = "dyn" \/ Nodes[n].cls = "raw"
  BY <1>3 DEF count_of
<1> QED BY <1>1, <1>2, <1>3, NodeFacts

LEMMA CountsIs ==
  ASSUME NodesAssumption
  PROVE  \A n \in Exprs : num_params[n] = count_of(Nodes[n], num_params) /\ num_params[n] \in Nat
<1> DEFINE step == [y \in Exprs \X Tables(Nat) |-> count_of(Nodes[y[1]], y[2])]
           Q(f) == [n \in Exprs |-> count_of(Nodes[n], f)]
<1>1. \A n \in Exprs : \A t \in [1 .. n - 1 -> Nat] : step[<<n, t>>] = count_of(Nodes[n], t)
  <2> TAKE n \in Exprs
  <2> TAKE t \in [1 .. n - 1 -> Nat]
  <2>1. PICK y : y = <<n, t>>
    OBVIOUS
  <2>2. y \in Exprs \X Tables(Nat) /\ y[1] = n /\ y[2] = t
    BY <2>1 DEF Tables
  <2>3. step[y] = count_of(Nodes[y[1]], y[2])
    BY <2>2, Zenon
  <2> QED BY <2>1, <2>2, <2>3
<1> HIDE DEF step
<1>2. \A n \in Exprs : \A t \in [1 .. n - 1 -> Nat] : step[<<n, t>>] \in Nat
  <2> TAKE n \in Exprs
  <2> TAKE t \in [1 .. n - 1 -> Nat]
  <2>1. \A k \in 1 .. n - 1 : t[k] \in Nat
    OBVIOUS
  <2> QED BY <1>1, <2>1, CountsType
<1>3. PICK g \in [Exprs -> Nat] :
        \A n \in Exprs : g[n] = step[<<n, Cut(g, n)>>] /\ Cut(g, n) \in [1 .. n - 1 -> Nat]
  BY <1>2, TableExists
<1>4. \A n \in Exprs : g[n] = count_of(Nodes[n], g)
  <2> TAKE n \in Exprs
  <2>1. count_of(Nodes[n], Cut(g, n)) = count_of(Nodes[n], g)
    BY CutSame, CountsSame
  <2> QED BY <1>1, <1>3, <2>1
<1>5. g = Q(g)
  <2>1. g = [n \in Exprs |-> g[n]]
    OBVIOUS
  <2> QED BY <1>4, <2>1, Zenon
<1>6. num_params = CHOOSE f : f = Q(f)
  BY Zenon DEF num_params
<1>7. num_params = Q(num_params)
  BY <1>5, <1>6, Zenon
<1>8. \A n \in Exprs : num_params[n] = count_of(Nodes[n], num_params)
  BY <1>7, Zenon
<1> DEFINE S == {n \in Exprs : num_params[n] \in Nat}
<1>9. \A n \in Exprs : (\A k \in 1 .. n - 1 : k \in S) => n \in S
  <2> TAKE n \in Exprs
  <2> SUFFICES ASSUME \A k \in 1 .. n - 1 : k \in S PROVE num_params[n] \in Nat
    OBVIOUS
  <2>1. \A k \in 1 .. n - 1 : num_params[k] \in Nat
    OBVIOUS
  <2> QED BY <1>8, <2>1, CountsType
<1>10. \A n \in Exprs : n \in S
  <2> HIDE DEF S
  <2> QED BY <1>9, ByNumber
<1> QED BY <1>8, <1>10

LEMMA JoinedType ==
  ASSUME NEW S, NEW comma \in Seq(S), NEW texts \in Seq(Seq(S)) PROVE Joined(comma, texts) \in Seq(S)
<1>1. PICK f : Joins(S, comma, texts, f) /\ Joined(comma, texts) = f[Len(texts)]
  BY JoinedIs
<1>2. Len(texts) \in 0 .. Len(texts)
  BY CountsFacts
<1> QED BY <1>1, <1>2 DEF Joins

LEMMA BracketsType ==
  ASSUME NEW lbr, NEW rbr, Token(lbr) \in Symbols, Token(rbr) \in Symbols, NEW code \in Seq(Symbols)
  PROVE  InBrackets(lbr, code, rbr) \in Seq(Symbols)
<1>1. <<Token(lbr)>> \in Seq(Symbols) /\ <<Token(rbr)>> \in Seq(Symbols)
  BY OneToken
<1>2. code \o <<Token(rbr)>> \in Seq(Symbols)
  BY <1>1, Concatenated
<1>3. <<Token(lbr)>> \o (code \o <<Token(rbr)>>) \in Seq(Symbols)
  BY <1>1, <1>2, Concatenated
<1> QED BY <1>3 DEF InBrackets

LEMMA WriteAllType ==
  ASSUME NEW writers \in Seq(Writers), NEW i0 \in Nat PROVE write_all(writers, i0) \in Output
<1>1. PICK f : WritesAll(writers, i0, f) /\ write_all(writers, i0) = f[Len(writers)]
  BY WriteAllIs
<1>2. Len(writers) \in 0 .. Len(writers)
  BY CountsFacts
<1> QED BY <1>1, <1>2 DEF WritesAll

LEMMA WriteCallType ==
  ASSUME NEW n \in Exprs, NEW fn \in Writers, NEW writers \in Seq(Writers), NEW i0 \in Nat
  PROVE  write_call(Nodes[n], fn, writers, i0) \in Output
<1>1. PICK f \in Output : f = fn[i0]
  BY DEF Writers
<1>2. PICK args \in Output : args = write_all(writers, f.next)
  BY WriteAllType, OutputIs
<1>3. f.code \in Seq(Symbols) /\ args.code \in Seq(Symbols) /\ args.next \in Nat
  BY OutputIs
<1>4. InBrackets(Nodes[n].lbr, args.code, Nodes[n].rbr) \in Seq(Symbols)
  BY <1>3, BracketsType, SymbolsAre
<1>5. f.code \o InBrackets(Nodes[n].lbr, args.code, Nodes[n].rbr) \in Seq(Symbols)
  BY <1>3, <1>4, Concatenated
<1>6. write_call(Nodes[n], fn, writers, i0) =
        Writes(f.code \o InBrackets(Nodes[n].lbr, args.code, Nodes[n].rbr), args.next)
  BY <1>1, <1>2 DEF write_call
<1> QED BY <1>3, <1>5, <1>6, OutputIs

LEMMA WriteInfixType ==
  ASSUME NEW n \in Exprs, NEW left \in Writers, NEW right \in Writers, NEW i0 \in Nat
  PROVE  write_infix(Nodes[n], left, right, i0) \in Output
<1>1. PICK l \in Output : l = left[i0]
  BY DEF Writers
<1>2. l.code \in Seq(Symbols) /\ l.next \in Nat
  BY OutputIs
<1>3. PICK r \in Output : r = right[l.next]
  BY <1>2 DEF Writers
<1>4. r.code \in Seq(Symbols) /\ r.next \in Nat
  BY OutputIs
<1>5. <<Token(Nodes[n].op)>> \in Seq(Symbols)
  BY SymbolsAre, OneToken
<1>6. l.code \o (<<Token(Nodes[n].op)>> \o r.code) \in Seq(Symbols)
  BY <1>2, <1>4, <1>5, Concatenated
<1>7. InBrackets("(", l.code \o (<<Token(Nodes[n].op)>> \o r.code), ")") \in Seq(Symbols)
  BY <1>6, BracketsType, SymbolsAre
<1>8. write_infix(Nodes[n], left, right, i0) =
        Writes(InBrackets("(", l.code \o (<<Token(Nodes[n].op)>> \o r.code), ")"), r.next)
  BY <1>1, <1>3 DEF write_infix
<1> QED BY <1>4, <1>7, <1>8, OutputIs

LEMMA ExtractType ==
  ASSUME NodesAssumption, NEW n \in Exprs, NEW t, \A k \in 1 .. n - 1 : t[k] \in Seq(Tags \X Values)
  PROVE  extract_of(Nodes[n], t) \in Seq(Tags \X Values)
<1>1. CASE Nodes[n].cls = "call"
  <2>1. t[Nodes[n].fn] \in Seq(Tags \X Values) /\ Joined(<<>>, Each(Nodes[n].args, t)) \in Seq(Tags \X Values)
    <3>1. <<>> \in Seq(Tags \X Values)
      OBVIOUS
    <3> QED BY <1>1, <3>1, PartsOf, JoinedType
  <2>2. extract_of(Nodes[n], t) = t[Nodes[n].fn] \o Joined(<<>>, Each(Nodes[n].args, t))
    BY <1>1 DEF extract_of
  <2> QED BY <2>1, <2>2, Concatenated
<1>2. CASE Nodes[n].cls = "infix"
  <2>1. t[Nodes[n].left] \in Seq(Tags \X Values) /\ t[Nodes[n].right] \in Seq(Tags \X Values)
    BY <1>2, PartsOf
  <2>2. extract_of(Nodes[n], t) = t[Nodes[n].left] \o t[Nodes[n].right]
    BY <1>2 DEF extract_of
  <2> QED BY <2>1, <2>2, Concatenated
<1>3. CASE Nodes[n].cls = "dyn"
  <2>1. <<Nodes[n].tag, Nodes[n].value>> \in Tags \X Values
    BY SymbolsAre
  <2> QED BY <1>3, <2>1, OneToken DEF extract_of
<1>4. CASE Nodes[n].cls = "raw"
  <2>1. <<>> \in Seq(Tags \X Values)
    OBVIOUS
  <2> QED BY <1>4, <2>1 DEF extract_of
<1> QED BY <1>1, <1>2, <1>3, <1>4, NodeFacts

LEMMA ExtractSame ==
  ASSUME NodesAssumption, NEW n \in Exprs, NEW t, NEW u, SameBelow(t, u, n)
  PROVE  extract_of(Nodes[n], t) = extract_of(Nodes[n], u)
<1>1. CASE Nodes[n].cls = "call"
  BY <1>1, SameParts DEF extract_of
<1>2. CASE Nodes[n].cls = "infix"
  BY <1>2, SameParts DEF extract_of
<1>3. CASE Nodes[n].cls = "dyn" \/ Nodes[n].cls = "raw"
  BY <1>3 DEF extract_of
<1> QED BY <1>1, <1>2, <1>3, NodeFacts

LEMMA ExtractIs ==
  ASSUME NodesAssumption
  PROVE  \A n \in Exprs : extract_params[n] = extract_of(Nodes[n], extract_params) /\ extract_params[n] \in Seq(Tags \X Values)
<1> DEFINE step == [y \in Exprs \X Tables(Seq(Tags \X Values)) |-> extract_of(Nodes[y[1]], y[2])]
           Q(f) == [n \in Exprs |-> extract_of(Nodes[n], f)]
<1>1. \A n \in Exprs : \A t \in [1 .. n - 1 -> Seq(Tags \X Values)] : step[<<n, t>>] = extract_of(Nodes[n], t)
  <2> TAKE n \in Exprs
  <2> TAKE t \in [1 .. n - 1 -> Seq(Tags \X Values)]
  <2>1. PICK y : y = <<n, t>>
    OBVIOUS
  <2>2. y \in Exprs \X Tables(Seq(Tags \X Values)) /\ y[1] = n /\ y[2] = t
    BY <2>1 DEF Tables
  <2>3. step[y] = extract_of(Nodes[y[1]], y[2])
    BY <2>2, Zenon
  <2> QED BY <2>1, <2>2, <2>3
<1> HIDE DEF step
<1>2. \A n \in Exprs : \A t \in [1 .. n - 1 -> Seq(Tags \X Values)] : step[<<n, t>>] \in Seq(Tags \X Values)
  <2> TAKE n \in Exprs
  <2> TAKE t \in [1 .. n - 1 -> Seq(Tags \X Values)]
  <2>1. \A k \in 1 .. n - 1 : t[k] \in Seq(Tags \X Values)
    OBVIOUS
  <2> QED BY <1>1, <2>1, ExtractType
<1>3. PICK g \in [Exprs -> Seq(Tags \X Values)] :
        \A n \in Exprs : g[n] = step[<<n, Cut(g, n)>>] /\ Cut(g, n) \in [1 .. n - 1 -> Seq(Tags \X Values)]
  <2>1. PICK V : V = Seq(Tags \X Values)
    OBVIOUS
  <2>2. \A n \in Exprs : \A t \in [1 .. n - 1 -> V] : step[<<n, t>>] \in V
    BY <1>2, <2>1
  <2>3. \E g \in [Exprs -> V] :
          \A n \in Exprs : g[n] = step[<<n, Cut(g, n)>>] /\ Cut(g, n) \in [1 .. n - 1 -> V]
    BY <2>2, TableExists
  <2> QED BY <2>1, <2>3
<1>4. \A n \in Exprs : g[n] = extract_of(Nodes[n], g)
  <2> TAKE n \in Exprs
  <2>1. extract_of(Nodes[n], Cut(g, n)) = extract_of(Nodes[n], g)
    BY CutSame, ExtractSame
  <2> QED BY <1>1, <1>3, <2>1
<1>5. g = Q(g)
  <2>1. g = [n \in Exprs |-> g[n]]
    OBVIOUS
  <2> QED BY <1>4, <2>1, Zenon
<1>6. extract_params = CHOOSE f : f = Q(f)
  BY Zenon DEF extract_params
<1>7. extract_params = Q(extract_params)
  BY <1>5, <1>6, Zenon
<1>8. \A n \in Exprs : extract_params[n] = extract_of(Nodes[n], extract_params)
  BY <1>7, Zenon
<1> DEFINE S == {n \in Exprs : extract_params[n] \in Seq(Tags \X Values)}
<1>9. \A n \in Exprs : (\A k \in 1 .. n - 1 : k \in S) => n \in S
  <2> TAKE n \in Exprs
  <2> SUFFICES ASSUME \A k \in 1 .. n - 1 : k \in S PROVE extract_params[n] \in Seq(Tags \X Values)
    OBVIOUS
  <2>1. \A k \in 1 .. n - 1 : extract_params[k] \in Seq(Tags \X Values)
    OBVIOUS
  <2> QED BY <1>8, <2>1, ExtractType
<1>10. \A n \in Exprs : n \in S
  <2> HIDE DEF S
  <2> QED BY <1>9, ByNumber
<1> QED BY <1>8, <1>10

-----------------------------------------------------------------------------
LEMMA SaysType ==
  ASSUME NodesAssumption, NEW n \in Exprs, NEW t, \A k \in 1 .. n - 1 : t[k] \in Seq(Symbols)
  PROVE  said_by(Nodes[n], t) \in Seq(Symbols)
<1>1. CASE Nodes[n].cls = "call"
  <2>1. t[Nodes[n].fn] \in Seq(Symbols) /\ Joined(Comma, Each(Nodes[n].args, t)) \in Seq(Symbols)
    BY <1>1, PartsOf, JoinedType, CommaIs
  <2>2. InBrackets(Nodes[n].lbr, Joined(Comma, Each(Nodes[n].args, t)), Nodes[n].rbr) \in Seq(Symbols)
    BY <2>1, BracketsType, SymbolsAre
  <2>3. said_by(Nodes[n], t) =
          t[Nodes[n].fn] \o InBrackets(Nodes[n].lbr, Joined(Comma, Each(Nodes[n].args, t)), Nodes[n].rbr)
    BY <1>1 DEF said_by
  <2> QED BY <2>1, <2>2, <2>3, Concatenated
<1>2. CASE Nodes[n].cls = "infix"
  <2>1. t[Nodes[n].left] \in Seq(Symbols) /\ t[Nodes[n].right] \in Seq(Symbols)
    BY <1>2, PartsOf
  <2>2. <<Token(Nodes[n].op)>> \in Seq(Symbols)
    BY SymbolsAre, OneToken
  <2>3. t[Nodes[n].left] \o (<<Token(Nodes[n].op)>> \o t[Nodes[n].right]) \in Seq(Symbols)
    BY <2>1, <2>2, Concatenated
  <2>4. said_by(Nodes[n], t) =
          InBrackets("(", t[Nodes[n].left] \o (<<Token(Nodes[n].op)>> \o t[Nodes[n].right]), ")")
    BY <1>2 DEF said_by
  <2> QED BY <2>3, <2>4, BracketsType, SymbolsAre
<1>3. CASE Nodes[n].cls = "dyn"
  <2>1. Literal(Nodes[n].tag, Nodes[n].value) \in Symbols
    BY SymbolsAre
  <2> QED BY <1>3, <2>1, OneToken DEF said_by
<1>4. CASE Nodes[n].cls = "raw"
  <2>1. Token(Nodes[n].code) \in Symbols
    BY SymbolsAre
  <2> QED BY <1>4, <2>1, OneToken DEF said_by
<1> QED BY <1>1, <1>2, <1>3, <1>4, NodeFacts

LEMMA SaysSame ==
  ASSUME NodesAssumption, NEW n \in Exprs, NEW t, NEW u, SameBelow(t, u, n)
  PROVE  said_by(Nodes[n], t) = said_by(Nodes[n], u)
<1>1. CASE Nodes[n].cls = "call"
  BY <1>1, SameParts DEF said_by
<1>2. CASE Nodes[n].cls = "infix"
  BY <1>2, SameParts DEF said_by
<1>3. CASE Nodes[n].cls = "dyn" \/ Nodes[n].cls = "raw"
  BY <1>3 DEF said_by
<1> QED BY <1>1, <1>2, <1>3, NodeFacts

LEMMA SaysIs ==
  ASSUME NodesAssumption
  PROVE  \A n \in Exprs : Says[n] = said_by(Nodes[n], Says) /\ Says[n] \in Seq(Symbols)
<1> DEFINE step == [y \in Exprs \X Tables(Seq(Symbols)) |-> said_by(Nodes[y[1]], y[2])]
           Q(f) == [n \in Exprs |-> said_by(Nodes[n], f)]
<1>1. \A n \in Exprs : \A t \in [1 .. n - 1 -> Seq(Symbols)] : step[<<n, t>>] = said_by(Nodes[n], t)
  <2> TAKE n \in Exprs
  <2> TAKE t \in [1 .. n - 1 -> Seq(Symbols)]
  <2>1. PICK y : y = <<n, t>>
    OBVIOUS
  <2>2. y \in Exprs \X Tables(Seq(Symbols)) /\ y[1] = n /\ y[2] = t
    BY <2>1 DEF Tables
  <2>3. step[y] = said_by(Nodes[y[1]], y[2])
    BY <2>2, Zenon
  <2> QED BY <2>1, <2>2, <2>3
<1> HIDE DEF step
<1>2. \A n \in Exprs : \A t \in [1 .. n - 1 -> Seq(Symbols)] : step[<<n, t>>] \in Seq(Symbols)
  <2> TAKE n \in Exprs
  <2> TAKE t \in [1 .. n - 1 -> Seq(Symbols)]
  <2>1. \A k \in 1 .. n - 1 : t[k] \in Seq(Symbols)
    OBVIOUS
  <2> QED BY <1>1, <2>1, SaysType
<1>3. PICK g \in [Exprs -> Seq(Symbols)] :
        \A n \in Exprs : g[n] = step[<<n, Cut(g, n)>>] /\ Cut(g, n) \in [1 .. n - 1 -> Seq(Symbols)]
  <2>1. PICK V : V = Seq(Symbols)
    OBVIOUS
  <2>2. \A n \in Exprs : \A t \in [1 .. n - 1 -> V] : step[<<n, t>>] \in V
    BY <1>2, <2>1
  <2>3. \E g \in [Exprs -> V] :
          \A n \in Exprs : g[n] = step[<<n, Cut(g, n)>>] /\ Cut(g, n) \in [1 .. n - 1 -> V]
    BY <2>2, TableExists
  <2> QED BY <2>1, <2>3
<1>4. \A n \in Exprs : g[n] = said_by(Nodes[n], g)
  <2> TAKE n \in Exprs
  <2>1. said_by(Nodes[n], Cut(g, n)) = said_by(Nodes[n], g)
    BY CutSame, SaysSame
  <2> QED BY <1>1, <1>3, <2>1
<1>5. g = Q(g)
  <2>1. g = [n \in Exprs |-> g[n]]
    OBVIOUS
  <2> QED BY <1>4, <2>1, Zenon
<1>6. Says = CHOOSE f : f = Q(f)
  BY Zenon DEF Says
<1>7. Says = Q(Says)
  BY <1>5, <1>6, Zenon
<1>8. \A n \in Exprs : Says[n] = said_by(Nodes[n], Says)
  BY <1>7, Zenon
<1> DEFINE S == {n \in Exprs : Says[n] \in Seq(Symbols)}
<1>9. \A n \in Exprs : (\A k \in 1 .. n - 1 : k \in S) => n \in S
  <2> TAKE n \in Exprs
  <2> SUFFICES ASSUME \A k \in 1 .. n - 1 : k \in S PROVE Says[n] \in Seq(Symbols)
    OBVIOUS
  <2>1. \A k \in 1 .. n - 1 : Says[k] \in Seq(Symbols)
    OBVIOUS
  <2> QED BY <1>8, <2>1, SaysType
<1>10. \A n \in Exprs : n \in S
  <2> HIDE DEF S
  <2> QED BY <1>9, ByNumber
<1> QED BY <1>8, <1>10

-----------------------------------------------------------------------------
LEMMA WriterType ==
  ASSUME NodesAssumption, NEW n \in Exprs, NEW t, \A k \in 1 .. n - 1 : t[k] \in Writers
  PROVE  writer_of(Nodes[n], t) \in Writers
<1>1. ASSUME NEW i0 \in Nat PROVE write_of(Nodes[n], t, i0) \in Output
  <2>1. CASE Nodes[n].cls = "call"
    <3>1. t[Nodes[n].fn] \in Writers /\ Each(Nodes[n].args, t) \in Seq(Writers)
      BY <2>1, PartsOf
    <3>2. write_of(Nodes[n], t, i0) = write_call(Nodes[n], t[Nodes[n].fn], Each(Nodes[n].args, t), i0)
      BY <2>1 DEF write_of
    <3> QED BY <3>1, <3>2, WriteCallType
  <2>2. CASE Nodes[n].cls = "infix"
    <3>1. t[Nodes[n].left] \in Writers /\ t[Nodes[n].right] \in Writers
      BY <2>2, PartsOf
    <3>2. write_of(Nodes[n], t, i0) = write_infix(Nodes[n], t[Nodes[n].left], t[Nodes[n].right], i0)
      BY <2>2 DEF write_of
    <3> QED BY <3>1, <3>2, WriteInfixType
  <2>3. CASE Nodes[n].cls = "dyn"
    <3>1. Param(i0, Nodes[n].tag) \in Symbols
      BY SymbolsAre
    <3>2. PICK y \in Symbols : y = Param(i0, Nodes[n].tag)
      BY <3>1
    <3>3. write_of(Nodes[n], t, i0) = Writes(<<y>>, i0 + 1)
      BY <2>3, <3>2 DEF write_of
    <3>4. <<y>> \in Seq(Symbols)
      BY OneToken
    <3>5. PICK m \in Nat : m = i0 + 1
      OBVIOUS
    <3>6. Writes(<<y>>, m) \in Output
      BY <3>4, OutputIs
    <3> QED BY <3>3, <3>5, <3>6
  <2>4. CASE Nodes[n].cls = "raw"
    <3>1. <<Token(Nodes[n].code)>> \in Seq(Symbols)
      BY SymbolsAre, OneToken
    <3>2. write_of(Nodes[n], t, i0) = Writes(<<Token(Nodes[n].code)>>, i0)
      BY <2>4 DEF write_of
    <3> QED BY <3>1, <3>2, OutputIs
  <2> QED BY <2>1, <2>2, <2>3, <2>4, NodeFacts
<1>2. [i0 \in Nat |-> write_of(Nodes[n], t, i0)] \in [Nat -> Output]
  BY <1>1
<1> QED BY <1>2 DEF writer_of, Writers

LEMMA WriterSame ==
  ASSUME NodesAssumption, NEW n \in Exprs, NEW t, NEW u, SameBelow(t, u, n)
  PROVE  writer_of(Nodes[n], t) = writer_of(Nodes[n], u)
<1>1. CASE Nodes[n].cls = "call"
  BY <1>1, SameParts DEF writer_of, write_of
<1>2. CASE Nodes[n].cls = "infix"
  BY <1>2, SameParts DEF writer_of, write_of
<1>3. CASE Nodes[n].cls = "dyn" \/ Nodes[n].cls = "raw"
  BY <1>3 DEF writer_of, write_of
<1> QED BY <1>1, <1>2, <1>3, NodeFacts

LEMMA WriterIs ==
  ASSUME NodesAssumption
  PROVE  \A n \in Exprs : write_to[n] = writer_of(Nodes[n], write_to) /\ write_to[n] \in Writers
<1> DEFINE step == [y \in Exprs \X Tables(Writers) |-> writer_of(Nodes[y[1]], y[2])]
           Q(f) == [n \in Exprs |-> writer_of(Nodes[n], f)]
<1>1. \A n \in Exprs : \A t \in [1 .. n - 1 -> Writers] : step[<<n, t>>] = writer_of(Nodes[n], t)
  <2> TAKE n \in Exprs
  <2> TAKE t \in [1 .. n - 1 -> Writers]
  <2>1. PICK y : y = <<n, t>>
    OBVIOUS
  <2>2. y \in Exprs \X Tables(Writers) /\ y[1] = n /\ y[2] = t
    BY <2>1 DEF Tables
  <2>3. step[y] = writer_of(Nodes[y[1]], y[2])
    BY <2>2, Zenon
  <2> QED BY <2>1, <2>2, <2>3
<1> HIDE DEF step
<1>2. \A n \in Exprs : \A t \in [1 .. n - 1 -> Writers] : step[<<n, t>>] \in Writers
  <2> TAKE n \in Exprs
  <2> TAKE t \in [1 .. n - 1 -> Writers]
  <2>1. \A k \in 1 .. n - 1 : t[k] \in Writers
    OBVIOUS
  <2> QED BY <1>1, <2>1, WriterType
<1>3. PICK g \in [Exprs -> Writers] :
        \A n \in Exprs : g[n] = step[<<n, Cut(g, n)>>] /\ Cut(g, n) \in [1 .. n - 1 -> Writers]
  <2>1. PICK V : V = Writers
    OBVIOUS
  <2>2. \A n \in Exprs : \A t \in [1 .. n - 1 -> V] : step[<<n, t>>] \in V
    BY <1>2, <2>1
  <2>3. \E g \in [Exprs -> V] :
          \A n \in Exprs : g[n] = step[<<n, Cut(g, n)>>] /\ Cut(g, n) \in [1 .. n - 1 -> V]
    BY <2>2, TableExists
  <2> QED BY <2>1, <2>3
<1>4. \A n \in Exprs : g[n] = writer_of(Nodes[n], g)
  <2> TAKE n \in Exprs
  <2>1. writer_of(Nodes[n], Cut(g, n)) = writer_of(Nodes[n], g)
    BY CutSame, WriterSame
  <2> QED BY <1>1, <1>3, <2>1
<1>5. g = Q(g)
  <2>1. g = [n \in Exprs |-> g[n]]
    OBVIOUS
  <2> QED BY <1>4, <2>1, Zenon
<1>6. write_to = CHOOSE f : f = Q(f)
  BY Zenon DEF write_to
<1>7. write_to = Q(write_to)
  BY <1>5, <1>6, Zenon
<1>8. \A n \in Exprs : write_to[n] = writer_of(Nodes[n], write_to)
  BY <1>7, Zenon
<1> DEFINE S == {n \in Exprs : write_to[n] \in Writers}
<1>9. \A n \in Exprs : (\A k \in 1 .. n - 1 : k \in S) => n \in S
  <2> TAKE n \in Exprs
  <2> SUFFICES ASSUME \A k \in 1 .. n - 1 : k \in S PROVE write_to[n] \in Writers
    OBVIOUS
  <2>1. \A k \in 1 .. n - 1 : write_to[k] \in Writers
    OBVIOUS
  <2> QED BY <1>8, <2>1, WriterType
<1>10. \A n \in Exprs : n \in S
  <2> HIDE DEF S
  <2> QED BY <1>9, ByNumber
<1> QED BY <1>8, <1>10

-----------------------------------------------------------------------------
LEMMA WritesAre ==
  ASSUME NEW code, NEW next PROVE Writes(code, next).code = code /\ Writes(code, next).next = next
BY OutputIs

LEMMA WrittenPiece ==
  ASSUME NEW w, NEW code, NEW next, w = Writes(code, next), NEW i0, NEW xs, NEW u, Piece(code, i0, next, xs, u)
  PROVE  Piece(w.code, i0, w.next, xs, u)
BY WritesAre

LEMMA BracketsPiece ==
  ASSUME NEW lbr, NEW rbr, Token(lbr) \in Symbols, Token(rbr) \in Symbols,
         NEW code, NEW i0, NEW m, NEW xs, NEW u, Piece(code, i0, m, xs, u)
  PROVE  Piece(InBrackets(lbr, code, rbr), i0, m, xs, InBrackets(lbr, u, rbr))
<1>1. i0 \in Nat /\ m \in Nat
  BY PieceTypes
<1>2. Piece(<<Token(lbr)>>, i0, i0, <<>>, <<Token(lbr)>>) /\ Piece(<<Token(rbr)>>, m, m, <<>>, <<Token(rbr)>>)
  BY <1>1, TextPiece
<1>3. Piece(code \o <<Token(rbr)>>, i0, m, xs, u \o <<Token(rbr)>>)
  BY <1>2, After
<1>4. Piece(<<Token(lbr)>> \o (code \o <<Token(rbr)>>), i0, m, xs, <<Token(lbr)>> \o (u \o <<Token(rbr)>>))
  BY <1>2, <1>3, Before
<1> QED BY <1>4 DEF InBrackets

LEMMA CallPiece ==
  ASSUME NEW e, Token(e.lbr) \in Symbols, Token(e.rbr) \in Symbols,
         NEW fn, NEW xs, NEW u, Good(fn, xs, u),
         NEW writers, NEW xss, NEW texts, AllGood(writers, xss, texts), NEW i0 \in Nat
  PROVE  Piece(write_call(e, fn, writers, i0).code, i0, write_call(e, fn, writers, i0).next,
               xs \o Joined(<<>>, xss), u \o InBrackets(e.lbr, Joined(Comma, texts), e.rbr))
<1>1. PICK f : f = fn[i0]
  OBVIOUS
<1>2. Piece(f.code, i0, f.next, xs, u)
  BY <1>1 DEF Good
<1>3. f.next \in Nat
  BY <1>2, PieceTypes
<1>4. PICK args : args = write_all(writers, f.next)
  OBVIOUS
<1>5. Piece(args.code, f.next, args.next, Joined(<<>>, xss), Joined(Comma, texts))
  BY <1>3, <1>4, ArgsGood
<1>6. Piece(InBrackets(e.lbr, args.code, e.rbr), f.next, args.next, Joined(<<>>, xss),
            InBrackets(e.lbr, Joined(Comma, texts), e.rbr))
  BY <1>5, BracketsPiece
<1>7. Piece(f.code \o InBrackets(e.lbr, args.code, e.rbr), i0, args.next, xs \o Joined(<<>>, xss),
            u \o InBrackets(e.lbr, Joined(Comma, texts), e.rbr))
  BY <1>2, <1>6, JoinPieces
<1>8. write_call(e, fn, writers, i0) = Writes(f.code \o InBrackets(e.lbr, args.code, e.rbr), args.next)
  BY <1>1, <1>4 DEF write_call
<1> QED BY <1>7, <1>8, WrittenPiece

LEMMA InfixPiece ==
  ASSUME NEW e, Token(e.op) \in Symbols,
         NEW left, NEW xs, NEW u, Good(left, xs, u), NEW right, NEW ys, NEW v, Good(right, ys, v), NEW i0 \in Nat
  PROVE  Piece(write_infix(e, left, right, i0).code, i0, write_infix(e, left, right, i0).next, xs \o ys,
               InBrackets("(", u \o (<<Token(e.op)>> \o v), ")"))
<1>1. PICK l : l = left[i0]
  OBVIOUS
<1>2. Piece(l.code, i0, l.next, xs, u)
  BY <1>1 DEF Good
<1>3. l.next \in Nat
  BY <1>2, PieceTypes
<1>4. PICK r : r = right[l.next]
  OBVIOUS
<1>5. Piece(r.code, l.next, r.next, ys, v)
  BY <1>3, <1>4 DEF Good
<1>6. Piece(<<Token(e.op)>>, l.next, l.next, <<>>, <<Token(e.op)>>)
  BY <1>3, TextPiece
<1>7. Piece(<<Token(e.op)>> \o r.code, l.next, r.next, ys, <<Token(e.op)>> \o v)
  BY <1>5, <1>6, Before
<1>8. Piece(l.code \o (<<Token(e.op)>> \o r.code), i0, r.next, xs \o ys, u \o (<<Token(e.op)>> \o v))
  BY <1>2, <1>7, JoinPieces
<1>9. Piece(InBrackets("(", l.code \o (<<Token(e.op)>> \o r.code), ")"), i0, r.next, xs \o ys,
            InBrackets("(", u \o (<<Token(e.op)>> \o v), ")"))
  BY <1>8, BracketsPiece, SymbolsAre
<1>10. write_infix(e, left, right, i0) =
         Writes(InBrackets("(", l.code \o (<<Token(e.op)>> \o r.code), ")"), r.next)
  BY <1>1, <1>4 DEF write_infix
<1> QED BY <1>9, <1>10, WrittenPiece

GoodNode(n) == Good(write_to[n], extract_params[n], Says[n])

LEMMA EachGood ==
  ASSUME NodesAssumption, NEW B, B \subseteq Exprs, NEW es \in Seq(B), \A k \in B : GoodNode(k)
  PROVE  AllGood(Each(es, write_to), Each(es, extract_params), Each(es, Says))
<1>1. Maps(write_to, B, Writers) /\ Maps(extract_params, B, Seq(Tags \X Values)) /\ Maps(Says, B, Seq(Symbols))
  BY WriterIs, ExtractIs, SaysIs DEF Maps
<1>2. /\ Each(es, write_to) \in Seq(Writers) /\ Len(Each(es, write_to)) = Len(es)
      /\ \A j \in 1 .. Len(es) : Each(es, write_to)[j] = write_to[es[j]]
  BY <1>1, EachIs
<1>3. PICK V : V = Seq(Tags \X Values)
  OBVIOUS
<1>4. /\ Each(es, extract_params) \in Seq(V) /\ Len(Each(es, extract_params)) = Len(es)
      /\ \A j \in 1 .. Len(es) : Each(es, extract_params)[j] = extract_params[es[j]]
  BY <1>1, <1>3, EachIs
<1>5. /\ Each(es, Says) \in Seq(Seq(Symbols)) /\ Len(Each(es, Says)) = Len(es)
      /\ \A j \in 1 .. Len(es) : Each(es, Says)[j] = Says[es[j]]
  BY <1>1, EachIs
<1>6. \A j \in 1 .. Len(es) : es[j] \in B
  BY CountsFacts
<1>7. \A j \in 1 .. Len(es) : Good(Each(es, write_to)[j], Each(es, extract_params)[j], Each(es, Says)[j])
  BY <1>2, <1>4, <1>5, <1>6 DEF GoodNode
<1> QED BY <1>2, <1>3, <1>4, <1>5, <1>7 DEF AllGood

LEMMA NodeGood ==
  ASSUME NodesAssumption, NEW n \in Exprs, \A k \in 1 .. n - 1 : GoodNode(k)
  PROVE  GoodNode(n)
<1>1. /\ write_to[n] = writer_of(Nodes[n], write_to) /\ write_to[n] \in Writers
      /\ extract_params[n] = extract_of(Nodes[n], extract_params)
      /\ Says[n] = said_by(Nodes[n], Says)
  BY WriterIs, ExtractIs, SaysIs
<1>2. SUFFICES ASSUME NEW i0 \in Nat
      PROVE  Piece(write_to[n][i0].code, i0, write_to[n][i0].next, extract_params[n], Says[n])
  BY <1>1 DEF GoodNode, Good
<1>3. write_to[n][i0] = write_of(Nodes[n], write_to, i0)
  BY <1>1 DEF writer_of
<1>4. PICK e : e = Nodes[n]
  OBVIOUS
<1>5. Token(e.lbr) \in Symbols /\ Token(e.rbr) \in Symbols /\ Token(e.op) \in Symbols /\ Token(e.code) \in Symbols
  BY <1>4, SymbolsAre, ZenonT(40)
<1>6. CASE e.cls = "call"
  <2>1. PICK B : B = 1 .. n - 1
    OBVIOUS
  <2>2. e.fn \in B /\ e.args \in Seq(B) /\ B \subseteq Exprs /\ \A k \in B : GoodNode(k)
    BY <1>4, <1>6, <2>1, NodeFacts
  <2>3. Good(write_to[e.fn], extract_params[e.fn], Says[e.fn])
    BY <2>2 DEF GoodNode
  <2>4. AllGood(Each(e.args, write_to), Each(e.args, extract_params), Each(e.args, Says))
    <3>1. PICK args \in Seq(B) : args = e.args
      BY <2>2
    <3> QED BY <2>2, <3>1, EachGood
  <2>5. write_of(e, write_to, i0) = write_call(e, write_to[e.fn], Each(e.args, write_to), i0)
    BY <1>6 DEF write_of
  <2>6. extract_of(e, extract_params) = extract_params[e.fn] \o Joined(<<>>, Each(e.args, extract_params))
    BY <1>6 DEF extract_of
  <2>7. said_by(e, Says) = Says[e.fn] \o InBrackets(e.lbr, Joined(Comma, Each(e.args, Says)), e.rbr)
    BY <1>6 DEF said_by
  <2> QED BY <1>1, <1>3, <1>4, <1>5, <2>3, <2>4, <2>5, <2>6, <2>7, CallPiece
<1>7. CASE e.cls = "infix"
  <2>1. e.left \in 1 .. n - 1 /\ e.right \in 1 .. n - 1
    BY <1>4, <1>7, NodeFacts
  <2>2. Good(write_to[e.left], extract_params[e.left], Says[e.left])
    BY <2>1 DEF GoodNode
  <2>3. Good(write_to[e.right], extract_params[e.right], Says[e.right])
    BY <2>1 DEF GoodNode
  <2>4. write_of(e, write_to, i0) = write_infix(e, write_to[e.left], write_to[e.right], i0)
    BY <1>7 DEF write_of
  <2>5. extract_of(e, extract_params) = extract_params[e.left] \o extract_params[e.right]
    BY <1>7 DEF extract_of
  <2>6. said_by(e, Says) = InBrackets("(", Says[e.left] \o (<<Token(e.op)>> \o Says[e.right]), ")")
    BY <1>7 DEF said_by
  <2> QED BY <1>1, <1>3, <1>4, <1>5, <2>2, <2>3, <2>4, <2>5, <2>6, InfixPiece
<1>8. CASE e.cls = "dyn"
  <2>1. write_of(e, write_to, i0) = Writes(<<Param(i0, e.tag)>>, i0 + 1)
    BY <1>8 DEF write_of
  <2>2. extract_of(e, extract_params) = << <<e.tag, e.value>> >> /\ said_by(e, Says) = <<Literal(e.tag, e.value)>>
    BY <1>8 DEF extract_of, said_by
  <2>3. Piece(<<Param(i0, e.tag)>>, i0, i0 + 1, << <<e.tag, e.value>> >>, <<Literal(e.tag, e.value)>>)
    BY <1>4, ParamPiece
  <2> QED BY <1>1, <1>3, <1>4, <2>1, <2>2, <2>3, WrittenPiece
<1>9. CASE e.cls = "raw"
  <2>1. write_of(e, write_to, i0) = Writes(<<Token(e.code)>>, i0)
    BY <1>9 DEF write_of
  <2>2. extract_of(e, extract_params) = <<>> /\ said_by(e, Says) = <<Token(e.code)>>
    BY <1>9 DEF extract_of, said_by
  <2>3. Piece(<<Token(e.code)>>, i0, i0, <<>>, <<Token(e.code)>>)
    BY <1>5, TextPiece
  <2> QED BY <1>1, <1>3, <1>4, <2>1, <2>2, <2>3, WrittenPiece
<1> QED BY <1>4, <1>6, <1>7, <1>8, <1>9, NodeFacts

LEMMA AllNodesGood == NodesAssumption => \A n \in Exprs : GoodNode(n)
<1> SUFFICES ASSUME NodesAssumption PROVE \A n \in Exprs : GoodNode(n)
  OBVIOUS
<1> DEFINE S == {n \in Exprs : GoodNode(n)}
<1>1. \A n \in Exprs : (\A k \in 1 .. n - 1 : k \in S) => n \in S
  BY NodeGood
<1>2. \A n \in Exprs : n \in S
  <2> HIDE DEF S
  <2> QED BY <1>1, ByNumber
<1> QED BY <1>2

-----------------------------------------------------------------------------
CountedRight(n) == num_params[n] = Len(extract_params[n])

LEMMA EachCounted ==
  ASSUME NodesAssumption, NEW B, B \subseteq Exprs, NEW es \in Seq(B), \A k \in B : CountedRight(k)
  PROVE  Total(Each(es, num_params)) = Len(Joined(<<>>, Each(es, extract_params)))
<1>1. PICK S, V : S = Tags \X Values /\ V = Seq(S)
  OBVIOUS
<1>2. Maps(num_params, B, Nat) /\ Maps(extract_params, B, V)
  BY <1>1, CountsIs, ExtractIs DEF Maps
<1>3. PICK counts : counts = Each(es, num_params)
  OBVIOUS
<1>4. counts \in Seq(Nat) /\ Len(counts) = Len(es) /\ \A j \in 1 .. Len(es) : counts[j] = num_params[es[j]]
  BY <1>2, <1>3, EachIs
<1>5. PICK xss : xss = Each(es, extract_params)
  OBVIOUS
<1>6. xss \in Seq(V) /\ Len(xss) = Len(es) /\ \A j \in 1 .. Len(es) : xss[j] = extract_params[es[j]]
  BY <1>2, <1>5, EachIs
<1>7. \A j \in 1 .. Len(es) : es[j] \in B
  BY CountsFacts
<1>8. CountedBy(counts, xss)
  BY <1>4, <1>6, <1>7 DEF CountedRight, CountedBy
<1>9. Total(counts) = Len(Joined(<<>>, xss))
  <2>1. xss \in Seq(Seq(S))
    BY <1>1, <1>6
  <2>2. counts \in Seq(Nat)
    BY <1>4
  <2> QED BY <1>8, <2>1, <2>2, CountsAdd
<1> QED BY <1>3, <1>5, <1>9

LEMMA NodeCounted ==
  ASSUME NodesAssumption, NEW n \in Exprs, \A k \in 1 .. n - 1 : CountedRight(k)
  PROVE  CountedRight(n)
<1>1. num_params[n] = count_of(Nodes[n], num_params) /\ extract_params[n] = extract_of(Nodes[n], extract_params)
  BY CountsIs, ExtractIs
<1>2. PICK e : e = Nodes[n]
  OBVIOUS
<1>3. PICK S : S = Tags \X Values
  OBVIOUS
<1>4. CASE e.cls = "call"
  <2>1. PICK B : B = 1 .. n - 1
    OBVIOUS
  <2>2. e.fn \in B /\ e.args \in Seq(B) /\ B \subseteq Exprs /\ \A k \in B : CountedRight(k)
    BY <1>2, <1>4, <2>1, NodeFacts
  <2>3. Total(Each(e.args, num_params)) = Len(Joined(<<>>, Each(e.args, extract_params)))
    <3>1. PICK args \in Seq(B) : args = e.args
      BY <2>2
    <3> QED BY <2>2, <3>1, EachCounted
  <2>4. PICK s : s = extract_params[e.fn]
    OBVIOUS
  <2>5. s \in Seq(S) /\ num_params[e.fn] = Len(s)
    BY <1>3, <2>2, <2>4, ExtractIs DEF CountedRight
  <2>6. PICK t : t = Joined(<<>>, Each(e.args, extract_params))
    OBVIOUS
  <2>7. t \in Seq(S)
    <3>1. \A k \in 1 .. n - 1 : extract_params[k] \in Seq(S)
      BY <1>3, NodeFacts, ExtractIs
    <3>2. PICK V : V = Seq(S)
      OBVIOUS
    <3>3. Each(e.args, extract_params) \in Seq(V)
      BY <1>2, <1>4, <3>1, <3>2, PartsOf
    <3>4. <<>> \in Seq(S)
      OBVIOUS
    <3> QED BY <2>6, <3>2, <3>3, <3>4, JoinedType
  <2>8. Len(s \o t) = Len(s) + Len(t)
    BY <2>5, <2>7, Concats
  <2>9. count_of(e, num_params) = num_params[e.fn] + Total(Each(e.args, num_params))
    BY <1>4 DEF count_of
  <2>10. extract_of(e, extract_params) = s \o t
    BY <1>4, <2>4, <2>6 DEF extract_of
  <2> QED BY <1>1, <1>2, <2>3, <2>5, <2>6, <2>8, <2>9, <2>10 DEF CountedRight
<1>5. CASE e.cls = "infix"
  <2>1. e.left \in 1 .. n - 1 /\ e.right \in 1 .. n - 1 /\ e.left \in Exprs /\ e.right \in Exprs
    BY <1>2, <1>5, NodeFacts
  <2>2. PICK s, t : s = extract_params[e.left] /\ t = extract_params[e.right]
    OBVIOUS
  <2>3. s \in Seq(S) /\ t \in Seq(S)
    BY <1>3, <2>1, <2>2, ExtractIs
  <2>4. num_params[e.left] = Len(s) /\ num_params[e.right] = Len(t)
    BY <2>1, <2>2 DEF CountedRight
  <2>5. Len(s \o t) = Len(s) + Len(t)
    BY <2>3, Concats
  <2>6. count_of(e, num_params) = num_params[e.left] + num_params[e.right]
    BY <1>5 DEF count_of
  <2>7. extract_of(e, extract_params) = s \o t
    BY <1>5, <2>2 DEF extract_of
  <2> QED BY <1>1, <1>2, <2>4, <2>5, <2>6, <2>7 DEF CountedRight
<1>6. CASE e.cls = "dyn"
  <2>1. count_of(e, num_params) = 1 /\ extract_of(e, extract_params) = << <<e.tag, e.value>> >>
    BY <1>6 DEF count_of, extract_of
  <2>2. Len(<< <<e.tag, e.value>> >>) = 1
    OBVIOUS
  <2> QED BY <1>1, <1>2, <2>1, <2>2 DEF CountedRight
<1>7. CASE e.cls = "raw"
  <2>1. count_of(e, num_params) = 0 /\ extract_of(e, extract_params) = <<>>
    BY <1>7 DEF count_of, extract_of
  <2> QED BY <1>1, <1>2, <2>1 DEF CountedRight
<1> QED BY <1>2, <1>4, <1>5, <1>6, <1>7, NodeFacts

LEMMA AllCounted == NodesAssumption => \A n \in Exprs : CountedRight(n)
<1> SUFFICES ASSUME NodesAssumption PROVE \A n \in Exprs : CountedRight(n)
  OBVIOUS
<1> DEFINE S == {n \in Exprs : CountedRight(n)}
<1>1. \A n \in Exprs : (\A k \in 1 .. n - 1 : k \in S) => n \in S
  BY NodeCounted
<1>2. \A n \in Exprs : n \in S
  <2> HIDE DEF S
  <2> QED BY <1>1, ByNumber
<1> QED BY <1>2

-----------------------------------------------------------------------------
(* A list of expressions is written, extracted and counted alike.          *)
LEMMA ListRight ==
  ASSUME NodesAssumption, NEW es \in Seq(Exprs)
  PROVE  /\ num_params_of(es) = Len(extract_params_of(es)) /\ extract_params_of(es) \in Seq(Tags \X Values)
         /\ Piece(Written(es), 0, num_params_of(es), extract_params_of(es), List(es))
<1>1. \A k \in Exprs : GoodNode(k) /\ CountedRight(k)
  BY AllNodesGood, AllCounted
<1>2. AllGood(Each(es, write_to), Each(es, extract_params), Each(es, Says))
  BY <1>1, EachGood
<1>3. num_params_of(es) = Len(extract_params_of(es))
  BY <1>1, EachCounted DEF num_params_of, extract_params_of
<1>4. PICK w : w = write_all(Each(es, write_to), 0)
  OBVIOUS
<1>5. Piece(w.code, 0, w.next, Joined(<<>>, Each(es, extract_params)), Joined(Comma, Each(es, Says)))
  BY <1>2, <1>4, ArgsGood
<1>6. Piece(Written(es), 0, w.next, extract_params_of(es), List(es))
  BY <1>4, <1>5 DEF Written, extract_params_of, List
<1>7. w.next = num_params_of(es) /\ extract_params_of(es) \in Seq(Tags \X Values)
  <2>1. w.next = 0 + Len(extract_params_of(es)) /\ extract_params_of(es) \in Seq(Tags \X Values)
    BY <1>6, PieceTypes
  <2>2. Len(extract_params_of(es)) \in Nat
    BY <2>1, CountsFacts
  <2> QED BY <1>3, <2>1, <2>2
<1> QED BY <1>3, <1>6, <1>7

LEMMA CallRight ==
  ASSUME NodesAssumption, NEW k \in Calls, Accepted(k)
  PROVE  Piece(Source(k), 0, num_params_of(k.call_args), extract_params_of(k.call_args), Meaning(k))
<1>1. k.tmpl_args \in Seq(Exprs) /\ k.call_args \in Seq(Exprs)
  BY DEF NodesAssumption
<1>2. PICK a, b : a = k.tmpl_args /\ b = k.call_args
  OBVIOUS
<1>3. a \in Seq(Exprs) /\ b \in Seq(Exprs)
  BY <1>1, <1>2
<1>4. PICK xs, ys : xs = extract_params_of(a) /\ ys = extract_params_of(b)
  OBVIOUS
<1>5. /\ Piece(Written(a), 0, num_params_of(a), xs, List(a)) /\ num_params_of(a) = Len(xs) /\ xs \in Seq(Tags \X Values)
      /\ Piece(Written(b), 0, num_params_of(b), ys, List(b))
  BY <1>3, <1>4, ListRight
<1>6. num_params_of(a) = 0 /\ xs = <<>>
  <2>1. num_params_of(a) = 0
    BY <1>2 DEF Accepted
  <2>2. PICK S : S = Tags \X Values
    OBVIOUS
  <2> QED BY <1>5, <2>1, <2>2, EmptySeq
<1>7. /\ Token("<") \in Symbols /\ Token(">") \in Symbols /\ Token("(") \in Symbols /\ Token(")") \in Symbols
      /\ Token(k.fn) \in Symbols
  BY SymbolsAre
<1>8. Piece(InBrackets("<", Written(a), ">"), 0, 0, <<>>, InBrackets("<", List(a), ">"))
  BY <1>5, <1>6, <1>7, BracketsPiece
<1>9. Piece(InBrackets("(", Written(b), ")"), 0, num_params_of(b), ys, InBrackets("(", List(b), ")"))
  BY <1>5, <1>7, BracketsPiece
<1>10. Piece(<<Token(k.fn)>>, 0, 0, <<>>, <<Token(k.fn)>>)
  BY <1>7, TextPiece
<1>11. Piece(<<>>, 0, 0, <<>>, <<>>)
  BY NothingWritten
<1>12. PICK s, u : /\ s = IF k.have_tmpl_args THEN InBrackets("<", Written(a), ">") ELSE <<>>
                   /\ u = IF k.have_tmpl_args THEN InBrackets("<", List(a), ">") ELSE <<>>
  OBVIOUS
<1>13. Piece(s, 0, 0, <<>>, u)
  BY <1>8, <1>11, <1>12
<1>14. Piece(s \o InBrackets("(", Written(b), ")"), 0, num_params_of(b), ys, u \o InBrackets("(", List(b), ")"))
  BY <1>9, <1>13, Before
<1>15. Piece(<<Token(k.fn)>> \o (s \o InBrackets("(", Written(b), ")")), 0, num_params_of(b), ys,
             <<Token(k.fn)>> \o (u \o InBrackets("(", List(b), ")")))
  BY <1>10, <1>14, Before
<1>16. Source(k) = <<Token(k.fn)>> \o (s \o InBrackets("(", Written(b), ")"))
  BY <1>2, <1>12 DEF Source
<1>17. Meaning(k) = <<Token(k.fn)>> \o (u \o InBrackets("(", List(b), ")"))
  BY <1>2, <1>12 DEF Meaning
<1> QED BY <1>2, <1>4, <1>15, <1>16, <1>17

-----------------------------------------------------------------------------
(* Equality, a table over pairs, made of rows.                             *)
SamePairs(f, g, m) == \A k \in 1 .. m - 1 : \A n \in Exprs : f[<<k, n>>] = g[<<k, n>>]

LEMMA EqualSame ==
  ASSUME NodesAssumption, NEW m \in Exprs, NEW n \in Exprs, NEW f, NEW g, SamePairs(f, g, m)
  PROVE  equal_to(m, n, f) = equal_to(m, n, g)
<1>1. CASE Nodes[m].cls # Nodes[n].cls
  BY <1>1 DEF equal_to
<1>2. PICK a, b : a = Nodes[m] /\ b = Nodes[n]
  OBVIOUS
<1>3. CASE a.cls = "call" /\ b.cls = "call"
  <2>1. a.fn \in 1 .. m - 1 /\ b.fn \in Exprs
    BY <1>2, <1>3, NodeFacts
  <2>2. \A j \in DOMAIN a.args : a.args[j] \in 1 .. m - 1
    BY <1>2, <1>3, NodeFacts
  <2>3. \A j \in DOMAIN b.args : b.args[j] \in Exprs
    BY <1>2, <1>3, NodeFacts
  <2>4. DOMAIN a.args = 1 .. Len(a.args) /\ DOMAIN b.args = 1 .. Len(b.args)
    BY <1>2, <1>3, NodeFacts
  <2>5. f[<<a.fn, b.fn>>] = g[<<a.fn, b.fn>>]
    BY <2>1 DEF SamePairs
  <2>6. CASE Len(a.args) = Len(b.args)
    <3>1. \A j \in DOMAIN a.args : f[<<a.args[j], b.args[j]>>] = g[<<a.args[j], b.args[j]>>]
      BY <2>2, <2>3, <2>4, <2>6 DEF SamePairs
    <3>2. equal_parts(a, b, f) = equal_parts(a, b, g)
      BY <1>3, <2>5, <3>1 DEF equal_parts
    <3> QED BY <1>2, <3>2 DEF equal_to
  <2>7. CASE Len(a.args) # Len(b.args)
    <3>1. equal_parts(a, b, f) = equal_parts(a, b, g)
      BY <1>3, <2>7 DEF equal_parts
    <3> QED BY <1>2, <3>1 DEF equal_to
  <2> QED BY <2>6, <2>7
<1>4. CASE a.cls = "infix" /\ b.cls = "infix"
  <2>1. a.left \in 1 .. m - 1 /\ a.right \in 1 .. m - 1 /\ b.left \in Exprs /\ b.right \in Exprs
    BY <1>2, <1>4, NodeFacts
  <2>2. f[<<a.left, b.left>>] = g[<<a.left, b.left>>] /\ f[<<a.right, b.right>>] = g[<<a.right, b.right>>]
    BY <2>1 DEF SamePairs
  <2>3. equal_parts(a, b, f) = equal_parts(a, b, g)
    BY <1>4, <2>2 DEF equal_parts
  <2> QED BY <1>2, <2>3 DEF equal_to
<1>5. CASE a.cls = b.cls /\ (a.cls = "dyn" \/ a.cls = "raw")
  <2>1. equal_parts(a, b, f) = equal_parts(a, b, g)
    BY <1>5 DEF equal_parts
  <2> QED BY <1>2, <2>1 DEF equal_to
<1> QED BY <1>1, <1>2, <1>3, <1>4, <1>5, NodeFacts

Uncurried(t, m) == [both \in (1 .. m - 1) \X Exprs |-> t[both[1]][both[2]]]
EqualRow(m, t) == [n \in Exprs |-> equal_to(m, n, Uncurried(t, m))]

LEMMA EqualIs ==
  ASSUME NodesAssumption
  PROVE  \A m \in Exprs : \A n \in Exprs : Equal[<<m, n>>] = equal_to(m, n, Equal)
<1> DEFINE Rows == [Exprs -> BOOLEAN]
           step == [y \in Exprs \X Tables(Rows) |-> EqualRow(y[1], y[2])]
           Q(f) == [both \in Exprs \X Exprs |-> equal_to(both[1], both[2], f)]
<1>1. \A m \in Exprs : \A t \in [1 .. m - 1 -> Rows] : step[<<m, t>>] = EqualRow(m, t)
  <2> TAKE m \in Exprs
  <2> TAKE t \in [1 .. m - 1 -> Rows]
  <2>1. PICK y : y = <<m, t>>
    OBVIOUS
  <2>2. y \in Exprs \X Tables(Rows) /\ y[1] = m /\ y[2] = t
    <3> HIDE DEF Rows
    <3> QED BY <2>1 DEF Tables
  <2>3. step[y] = EqualRow(y[1], y[2])
    BY <2>2, Zenon
  <2> QED BY <2>1, <2>2, <2>3
<1>2. \A m, t : EqualRow(m, t) \in Rows
  <2> TAKE m, t
  <2>1. \A n \in Exprs : equal_to(m, n, Uncurried(t, m)) \in BOOLEAN
    BY DEF equal_to
  <2> QED BY <2>1 DEF EqualRow
<1>3. PICK V : V = Rows
  OBVIOUS
<1> HIDE DEF step, Rows
<1>4. \A n \in Exprs : \A t \in [1 .. n - 1 -> V] : step[<<n, t>>] \in V
  <2> TAKE n \in Exprs
  <2> TAKE t \in [1 .. n - 1 -> V]
  <2>1. step[<<n, t>>] = EqualRow(n, t)
    BY <1>1, <1>3
  <2> QED BY <1>2, <1>3, <2>1
<1>5. PICK g \in [Exprs -> V] : \A m \in Exprs : g[m] = step[<<m, Cut(g, m)>>] /\ Cut(g, m) \in [1 .. m - 1 -> V]
  BY <1>4, TableExists
<1> DEFINE h == [both \in Exprs \X Exprs |-> g[both[1]][both[2]]]
<1>6. \A m \in Exprs : \A n \in Exprs : h[<<m, n>>] = g[m][n]
  <2> TAKE m \in Exprs
  <2> TAKE n \in Exprs
  <2>1. PICK y : y = <<m, n>>
    OBVIOUS
  <2>2. y \in Exprs \X Exprs /\ y[1] = m /\ y[2] = n
    BY <2>1
  <2>3. h[y] = g[y[1]][y[2]]
    BY <2>2, Zenon
  <2> QED BY <2>1, <2>2, <2>3
<1>7. h = [both \in Exprs \X Exprs |-> h[both]]
  OBVIOUS
<1> HIDE DEF h
<1>8. \A m \in Exprs : \A n \in Exprs : h[<<m, n>>] = equal_to(m, n, h)
  <2> TAKE m \in Exprs
  <2> TAKE n \in Exprs
  <2>1. PICK u : u = Uncurried(Cut(g, m), m)
    OBVIOUS
  <2>2. g[m] = EqualRow(m, Cut(g, m))
    BY <1>1, <1>3, <1>5
  <2>3. g[m][n] = equal_to(m, n, u)
    BY <2>1, <2>2 DEF EqualRow
  <2>4. SamePairs(u, h, m)
    <3> SUFFICES ASSUME NEW k \in 1 .. m - 1, NEW j \in Exprs PROVE u[<<k, j>>] = h[<<k, j>>]
      BY DEF SamePairs
    <3>1. PICK y : y = <<k, j>>
      OBVIOUS
    <3>2. y \in (1 .. m - 1) \X Exprs /\ y[1] = k /\ y[2] = j /\ k \in Exprs
      BY <3>1, NodeFacts
    <3>3. u[y] = Cut(g, m)[y[1]][y[2]]
      BY <2>1, <3>2, Zenon DEF Uncurried
    <3>4. Cut(g, m)[k] = g[k]
      BY DEF Cut
    <3> QED BY <1>6, <3>1, <3>2, <3>3, <3>4
  <2>5. equal_to(m, n, u) = equal_to(m, n, h)
    BY <2>4, EqualSame
  <2> QED BY <1>6, <2>3, <2>5
<1>9. h = Q(h)
  <2>1. \A both \in Exprs \X Exprs : h[both] = equal_to(both[1], both[2], h)
    <3> TAKE both \in Exprs \X Exprs
    <3>1. PICK m, n : m = both[1] /\ n = both[2]
      OBVIOUS
    <3>2. m \in Exprs /\ n \in Exprs /\ both = <<m, n>>
      BY <3>1
    <3> QED BY <1>8, <3>1, <3>2
  <2> QED BY <1>7, <2>1, Zenon
<1>10. Equal = CHOOSE f : f = Q(f)
  BY Zenon DEF Equal
<1>11. Equal = Q(Equal)
  BY <1>9, <1>10, Zenon
<1> TAKE m \in Exprs
<1> TAKE n \in Exprs
<1>12. PICK y : y = <<m, n>>
  OBVIOUS
<1>13. y \in Exprs \X Exprs /\ y[1] = m /\ y[2] = n
  BY <1>12
<1>14. Equal[y] = equal_to(y[1], y[2], Equal)
  BY <1>11, <1>13, Zenon
<1> QED BY <1>12, <1>13, <1>14

-----------------------------------------------------------------------------
(* Equal expressions are written alike.                                    *)
AlikeTo(m) == \A n \in Exprs : Equal[<<m, n>>] => write_to[m] = write_to[n]

LEMMA EachAlike ==
  ASSUME NodesAssumption, NEW B, NEW es \in Seq(B), NEW fs \in Seq(Exprs), \A m \in B : AlikeTo(m),
         Len(es) = Len(fs), \A j \in DOMAIN es : Equal[<<es[j], fs[j]>>]
  PROVE  Each(es, write_to) = Each(fs, write_to)
<1>1. DOMAIN es = 1 .. Len(es) /\ DOMAIN fs = 1 .. Len(fs)
  BY CountsFacts
<1>2. \A j \in 1 .. Len(es) : es[j] \in B /\ fs[j] \in Exprs
  BY CountsFacts
<1>3. \A j \in DOMAIN es : write_to[es[j]] = write_to[fs[j]]
  BY <1>1, <1>2 DEF AlikeTo
<1> QED BY <1>1, <1>3 DEF Each

LEMMA NodeAlike ==
  ASSUME NodesAssumption, NEW m \in Exprs, \A k \in 1 .. m - 1 : AlikeTo(k)
  PROVE  AlikeTo(m)
<1> SUFFICES ASSUME NEW n \in Exprs, Equal[<<m, n>>] PROVE write_to[m] = write_to[n]
  BY DEF AlikeTo
<1>1. equal_to(m, n, Equal)
  BY EqualIs
<1>2. write_to[m] = writer_of(Nodes[m], write_to) /\ write_to[n] = writer_of(Nodes[n], write_to)
  BY WriterIs
<1>3. PICK a, b : a = Nodes[m] /\ b = Nodes[n]
  OBVIOUS
<1>4. SUFFICES ASSUME m # n PROVE writer_of(a, write_to) = writer_of(b, write_to)
  BY <1>2, <1>3
<1>5. a.cls = b.cls /\ equal_parts(a, b, Equal)
  BY <1>1, <1>3, <1>4 DEF equal_to
<1>6. SUFFICES ASSUME NEW i0 \in Nat PROVE write_of(a, write_to, i0) = write_of(b, write_to, i0)
  BY DEF writer_of
<1>7. CASE a.cls = "call"
  <2>1. /\ Equal[<<a.fn, b.fn>>] /\ Len(a.args) = Len(b.args)
        /\ \A j \in DOMAIN a.args : Equal[<<a.args[j], b.args[j]>>]
        /\ a.lbr = b.lbr /\ a.rbr = b.rbr
    BY <1>5, <1>7 DEF equal_parts
  <2>2. a.fn \in 1 .. m - 1 /\ a.args \in Seq(1 .. m - 1) /\ b.fn \in Exprs
    BY <1>3, <1>5, <1>7, NodeFacts
  <2>3. b.args \in Seq(Exprs)
    <3>1. b.args \in Seq(1 .. n - 1) /\ \A k \in 1 .. n - 1 : k \in Exprs
      BY <1>3, <1>5, <1>7, NodeFacts
    <3> QED BY <3>1, SeqMonotonic
  <2>4. write_to[a.fn] = write_to[b.fn]
    BY <2>1, <2>2 DEF AlikeTo
  <2>5. Each(a.args, write_to) = Each(b.args, write_to)
    <3>1. PICK B : B = 1 .. m - 1
      OBVIOUS
    <3>2. PICK es \in Seq(B) : es = a.args
      BY <2>2, <3>1
    <3>3. PICK fs \in Seq(Exprs) : fs = b.args
      BY <2>3
    <3>4. \A k \in B : AlikeTo(k)
      BY <3>1
    <3> QED BY <2>1, <3>2, <3>3, <3>4, EachAlike
  <2>6. write_call(a, write_to[a.fn], Each(a.args, write_to), i0) = write_call(b, write_to[b.fn], Each(b.args, write_to), i0)
    BY <2>1, <2>4, <2>5 DEF write_call
  <2> QED BY <1>5, <1>7, <2>6 DEF write_of
<1>8. CASE a.cls = "infix"
  <2>1. a.op = b.op /\ Equal[<<a.left, b.left>>] /\ Equal[<<a.right, b.right>>]
    BY <1>5, <1>8 DEF equal_parts
  <2>2. a.left \in 1 .. m - 1 /\ a.right \in 1 .. m - 1 /\ b.left \in Exprs /\ b.right \in Exprs
    BY <1>3, <1>5, <1>8, NodeFacts
  <2>3. write_to[a.left] = write_to[b.left] /\ write_to[a.right] = write_to[b.right]
    BY <2>1, <2>2 DEF AlikeTo
  <2>4. write_infix(a, write_to[a.left], write_to[a.right], i0) = write_infix(b, write_to[b.left], write_to[b.right], i0)
    BY <2>1, <2>3 DEF write_infix
  <2> QED BY <1>5, <1>8, <2>4 DEF write_of
<1>9. CASE a.cls = "dyn"
  <2>1. a.tag = b.tag
    BY <1>5, <1>9 DEF equal_parts, DynEqual
  <2> QED BY <1>5, <1>9, <2>1 DEF write_of
<1>10. CASE a.cls = "raw"
  <2>1. a.code = b.code
    BY <1>5, <1>10 DEF equal_parts
  <2> QED BY <1>5, <1>10, <2>1 DEF write_of
<1> QED BY <1>3, <1>7, <1>8, <1>9, <1>10, NodeFacts

LEMMA AllAlike == NodesAssumption => \A n \in Exprs : AlikeTo(n)
<1> SUFFICES ASSUME NodesAssumption PROVE \A n \in Exprs : AlikeTo(n)
  OBVIOUS
<1> DEFINE S == {n \in Exprs : AlikeTo(n)}
<1>1. \A n \in Exprs : (\A k \in 1 .. n - 1 : k \in S) => n \in S
  BY NodeAlike
<1>2. \A n \in Exprs : n \in S
  <2> HIDE DEF S
  <2> QED BY <1>1, ByNumber
<1> QED BY <1>2

LEMMA SameSource ==
  ASSUME NodesAssumption, NEW k \in Calls, NEW l \in Calls, KeyEqual(k, l)
  PROVE  Source(k) = Source(l)
<1>1. /\ k.fn = l.fn /\ k.have_tmpl_args = l.have_tmpl_args
      /\ EqualSeq(k.tmpl_args, l.tmpl_args) /\ EqualSeq(k.call_args, l.call_args)
  BY DEF KeyEqual
<1>2. \A es \in Seq(Exprs) : \A fs \in Seq(Exprs) : EqualSeq(es, fs) => Written(es) = Written(fs)
  <2> TAKE es \in Seq(Exprs)
  <2> TAKE fs \in Seq(Exprs)
  <2> SUFFICES ASSUME EqualSeq(es, fs) PROVE Written(es) = Written(fs)
    OBVIOUS
  <2>1. Each(es, write_to) = Each(fs, write_to)
    BY AllAlike, EachAlike DEF EqualSeq
  <2> QED BY <2>1 DEF Written
<1>3. Written(k.tmpl_args) = Written(l.tmpl_args) /\ Written(k.call_args) = Written(l.call_args)
  BY <1>1, <1>2 DEF NodesAssumption
<1> QED BY <1>1, <1>3 DEF Source

-----------------------------------------------------------------------------
Running(k) ==
  [code |-> Source(k), says |-> Meaning(k),
   room |-> num_params_of(k.call_args), params |-> extract_params_of(k.call_args)]

Entries == {[key |-> k, code |-> Source(k)] : k \in Calls}

(* What is in the cache is the code of its key, and what is run is the     *)
(* code of the call itself, whichever entry it was found in.               *)
CodeInv ==
  /\ cache \in Seq(Entries)
  /\ run = None \/ \E k \in Calls : Accepted(k) /\ run = Running(k)

LEMMA CodeStep ==
  ASSUME NodesAssumption, CodeInv, [Next]_vars PROVE CodeInv'
<1>1. CASE UNCHANGED vars
  BY <1>1 DEF CodeInv, vars
<1>2. ASSUME NEW k \in Calls, Refuse(k) PROVE CodeInv'
  BY <1>2 DEF CodeInv, Refuse
<1>3. ASSUME NEW k \in Calls, Hit(k) PROVE CodeInv'
  <2>1. PICK j \in Matches(k) : Run(cache[j].code, k)
    BY <1>3 DEF Hit
  <2>2. j \in DOMAIN cache /\ KeyEqual(cache[j].key, k)
    BY DEF Matches
  <2>3. cache[j] \in Entries
    BY <2>2, CountsFacts DEF CodeInv
  <2>4. PICK l \in Calls : cache[j].key = l /\ cache[j].code = Source(l)
    BY <2>3 DEF Entries
  <2>5. Source(l) = Source(k)
    BY <2>2, <2>4, SameSource
  <2>6. run' = Running(k)
    BY <2>1, <2>4, <2>5 DEF Run, Running
  <2> QED BY <1>3, <2>6 DEF CodeInv, Hit
<1>4. ASSUME NEW k \in Calls, Miss(k) PROVE CodeInv'
  <2>1. [key |-> k, code |-> Source(k)] \in Entries
    BY DEF Entries
  <2>2. cache' \in Seq(Entries)
    BY <1>4, <2>1, AppendProperties DEF Miss, CodeInv
  <2>3. run' = Running(k)
    BY <1>4 DEF Miss, Run, Running
  <2> QED BY <1>4, <2>2, <2>3 DEF CodeInv, Miss
<1> QED BY <1>1, <1>2, <1>3, <1>4 DEF Next

LEMMA CodeAlways == ASSUME NodesAssumption PROVE Spec => []CodeInv
<1>1. Init => CodeInv
  <2>1. <<>> \in Seq(Entries)
    OBVIOUS
  <2> QED BY <2>1 DEF Init, CodeInv, None
<1>2. CodeInv /\ [Next]_vars => CodeInv'
  BY CodeStep
<1> QED BY <1>1, <1>2, PTL DEF Spec

LEMMA RunPiece ==
  ASSUME NodesAssumption, CodeInv, run # None
  PROVE  /\ Piece(run.code, 0, run.room, run.params, run.says)
         /\ run.room = Len(run.params) /\ run.params \in Seq(Tags \X Values)
<1>1. PICK k \in Calls : Accepted(k) /\ run = Running(k)
  BY DEF CodeInv
<1>2. /\ run.code = Source(k) /\ run.says = Meaning(k) /\ run.room = num_params_of(k.call_args)
      /\ run.params = extract_params_of(k.call_args)
  BY <1>1 DEF Running
<1>3. Piece(Source(k), 0, num_params_of(k.call_args), extract_params_of(k.call_args), Meaning(k))
  BY <1>1, CallRight
<1>4. PICK es \in Seq(Exprs) : es = k.call_args
  BY DEF NodesAssumption
<1>5. num_params_of(es) = Len(extract_params_of(es)) /\ extract_params_of(es) \in Seq(Tags \X Values)
  BY ListRight
<1> QED BY <1>2, <1>3, <1>4, <1>5

(* Code that is run for a call says what the call says, for all trees of   *)
(* expressions and whatever calls were made before, and however hashes     *)
(* collide (expr_all.cpp:90-147, call.cpp:116-133).                        *)
THEOREM CodeSaysTheCall ==
  ASSUME NodesAssumption PROVE Spec => []RunsWhatWasSaid
<1>1. ASSUME CodeInv, run # None PROVE Executed(run) = run.says
  <2>1. Piece(run.code, 0, run.room, run.params, run.says) /\ run.params \in Seq(Tags \X Values)
    BY <1>1, RunPiece
  <2>2. GivenFrom(run.params, 0, run.params)
    <3>1. Len(run.params) \in Nat
      BY <2>1, CountsFacts
    <3> QED BY <3>1 DEF GivenFrom
  <2>3. Filled(run.code, run.params) = run.says
    BY <2>1, <2>2 DEF Piece
  <2> QED BY <2>3 DEF Filled, Executed
<1>2. CodeInv => RunsWhatWasSaid
  BY <1>1 DEF RunsWhatWasSaid
<1> QED BY <1>2, CodeAlways, PTL

(* The array of parameters is as long as its allocation, and code reads    *)
(* each element once and in order (call.cpp:68-70, 97-98, 117-121).        *)
THEOREM ParametersFit ==
  ASSUME NodesAssumption PROVE Spec => []ParamsFit
<1>1. ASSUME CodeInv, run # None
      PROVE  Len(run.params) = run.room /\ Numbered(run.code, 0, run.room)
  BY <1>1, RunPiece DEF Piece
<1>2. CodeInv => ParamsFit
  BY <1>1, Zenon DEF ParamsFit, Numbered
<1> QED BY <1>2, CodeAlways, PTL

-----------------------------------------------------------------------------
NoneFits ==
  /\ cache \in Seq(Entries)
  /\ \A j, k \in DOMAIN cache : j < k => ~KeyEqual(cache[j].key, cache[k].key)

LEMMA FitStep ==
  ASSUME NoneFits, [Next]_vars PROVE NoneFits'
<1>1. CASE UNCHANGED cache
  BY <1>1 DEF NoneFits
<1>2. ASSUME NEW l \in Calls, Miss(l) PROVE NoneFits'
  <2>1. PICK new : new = [key |-> l, code |-> Source(l)]
    OBVIOUS
  <2>2. new \in Entries /\ new.key = l
    BY <2>1 DEF Entries
  <2>3. PICK m \in Nat : m = Len(cache)
    BY CountsFacts DEF NoneFits
  <2>4. DOMAIN cache = 1 .. m
    BY <2>3, CountsFacts DEF NoneFits
  <2>5. cache' = Append(cache, new)
    BY <1>2, <2>1 DEF Miss
  <2>6. /\ cache' \in Seq(Entries) /\ Len(cache') = m + 1
        /\ cache'[m + 1] = new /\ \A j \in 1 .. m : cache'[j] = cache[j]
    BY <2>2, <2>3, <2>5, AppendProperties DEF NoneFits
  <2>7. DOMAIN cache' = 1 .. m + 1
    BY <2>6, CountsFacts
  <2>8. \A j \in 1 .. m : ~KeyEqual(cache[j].key, l)
    BY <1>2, <2>4 DEF Miss, Matches
  <2>9. ASSUME NEW j \in 1 .. m + 1, NEW k \in 1 .. m + 1, j < k
        PROVE  ~KeyEqual(cache'[j].key, cache'[k].key)
    <3>1. j \in 1 .. m /\ cache'[j] = cache[j]
      BY <2>6, <2>9
    <3>2. CASE k = m + 1
      <4>1. cache'[k].key = l
        BY <2>2, <2>6, <3>2
      <4> QED BY <2>8, <3>1, <4>1
    <3>3. CASE k # m + 1
      <4>1. k \in 1 .. m /\ cache'[k] = cache[k]
        BY <2>6, <3>3
      <4>2. ~KeyEqual(cache[j].key, cache[k].key)
        BY <2>4, <2>9, <3>1, <4>1 DEF NoneFits
      <4> QED BY <3>1, <4>1, <4>2
    <3> QED BY <3>2, <3>3
  <2> QED BY <2>6, <2>7, <2>9 DEF NoneFits
<1> QED BY <1>1, <1>2 DEF Next, Refuse, Hit, vars

(* An entry is made only for a call that no entry made before would do     *)
(* for (call.cpp:23-38, 119-124).                                          *)
THEOREM EntriesAreNew == Spec => []NoneFits
<1>1. Init => NoneFits
  <2>1. <<>> \in Seq(Entries)
    OBVIOUS
  <2> QED BY <2>1 DEF Init, NoneFits
<1> QED BY <1>1, FitStep, PTL DEF Spec

-----------------------------------------------------------------------------
(* Code is read back from its end.  A piece stands in a text from a to b.  *)
InText(s, T, a, b) == a \in Nat /\ b = a + Len(s) /\ \A q \in 1 .. Len(s) : T[a + q] = s[q]

LEMMA InTextTypes == ASSUME NEW S, NEW s \in Seq(S), NEW T, NEW a, NEW b, InText(s, T, a, b) PROVE a \in Nat /\ b \in Nat /\ a <= b
<1>1. Len(s) \in Nat
  BY CountsFacts
<1> QED BY <1>1 DEF InText

LEMMA InTextJoin ==
  ASSUME NEW S, NEW s \in Seq(S), NEW u \in Seq(S), NEW T, NEW a, NEW b, InText(s \o u, T, a, b)
  PROVE  \E e \in Nat : InText(s, T, a, e) /\ InText(u, T, e, b)
<1>1. PICK m \in Nat, n \in Nat : m = Len(s) /\ n = Len(u)
  BY CountsFacts
<1>2. PICK v : v = s \o u
  OBVIOUS
<1>3. Len(v) = m + n /\ (\A q \in 1 .. m : v[q] = s[q]) /\ (\A q \in 1 .. n : v[m + q] = u[q])
  BY <1>1, <1>2
<1>4. a \in Nat /\ b = a + (m + n) /\ \A q \in 1 .. m + n : T[a + q] = v[q]
  BY <1>2, <1>3 DEF InText
<1>5. InText(s, T, a, a + m)
  <2>1. \A q \in 1 .. m : q \in 1 .. m + n
    OBVIOUS
  <2> QED BY <1>1, <1>3, <1>4, <2>1 DEF InText
<1>6. InText(u, T, a + m, b)
  <2>1. \A q \in 1 .. n : m + q \in 1 .. m + n /\ (a + m) + q = a + (m + q)
    BY <1>4
  <2>2. \A q \in 1 .. n : T[(a + m) + q] = u[q]
    BY <1>3, <1>4, <2>1
  <2>3. a + m \in Nat /\ b = (a + m) + n
    BY <1>4
  <2> QED BY <1>1, <2>2, <2>3 DEF InText
<1>7. a + m \in Nat
  BY <1>4
<1> QED BY <1>5, <1>6, <1>7

LEMMA InTextOne == ASSUME NEW y, NEW T, NEW a, NEW b, InText(<<y>>, T, a, b) PROVE a \in Nat /\ b \in Nat /\ a = b - 1 /\ T[b] = y
<1>1. Len(<<y>>) = 1 /\ <<y>>[1] = y
  OBVIOUS
<1> QED BY <1>1 DEF InText

LEMMA InTextNone == ASSUME NEW T, NEW a, NEW b, InText(<<>>, T, a, b) PROVE a \in Nat /\ b = a
BY DEF InText

Stands(n, T, a, b) == \E i0 \in Nat : InText(write_to[n][i0].code, T, a, b)
ListStands(es, k, T, a, b) ==
  \E i0 \in Nat : \E f : WritesAll(Each(es, write_to), i0, f) /\ InText(f[k].code, T, a, b)

LEMMA CodeType ==
  ASSUME NodesAssumption, NEW n \in Exprs, NEW i0 \in Nat
  PROVE  write_to[n][i0] \in Output /\ write_to[n][i0].code \in Seq(Symbols) /\ write_to[n][i0].next \in Nat
<1>1. write_to[n] \in Writers
  BY WriterIs
<1>2. write_to[n][i0] \in Output
  BY <1>1 DEF Writers
<1> QED BY <1>2, OutputIs

LEMMA StandsTypes ==
  ASSUME NodesAssumption, NEW n \in Exprs, NEW T, NEW a, NEW b, Stands(n, T, a, b) PROVE a \in Nat /\ b \in Nat
<1>1. PICK i0 \in Nat : InText(write_to[n][i0].code, T, a, b)
  BY DEF Stands
<1>2. write_to[n][i0].code \in Seq(Symbols)
  BY CodeType
<1> QED BY <1>1, <1>2, InTextTypes

LEMMA WritersOf ==
  ASSUME NodesAssumption, NEW es \in Seq(Exprs)
  PROVE  /\ Each(es, write_to) \in Seq(Writers) /\ Len(Each(es, write_to)) = Len(es)
         /\ \A j \in 1 .. Len(es) : Each(es, write_to)[j] = write_to[es[j]]
<1>1. Maps(write_to, Exprs, Writers)
  BY WriterIs DEF Maps
<1> QED BY <1>1, EachIs

LEMMA ListBegins ==
  ASSUME NodesAssumption, NEW es \in Seq(Exprs), NEW T, NEW a, NEW b, ListStands(es, 0, T, a, b)
  PROVE  a \in Nat /\ b = a
<1>0. PICK i0 \in Nat : \E f : WritesAll(Each(es, write_to), i0, f) /\ InText(f[0].code, T, a, b)
  BY DEF ListStands
<1>1. PICK f : WritesAll(Each(es, write_to), i0, f) /\ InText(f[0].code, T, a, b)
  BY <1>0
<1>2. f[0].code = <<>>
  BY <1>1, WritesAre DEF WritesAll
<1> QED BY <1>1, <1>2, InTextNone

(* A list ends in its last expression, and before that is where it begins, *)
(* or a comma and the rest of the list.                                    *)
LEMMA ListEnds ==
  ASSUME NodesAssumption, NEW es \in Seq(Exprs), NEW k \in 1 .. Len(es), NEW T, NEW a, NEW b, ListStands(es, k, T, a, b)
  PROVE  \E e \in Nat : /\ Stands(es[k], T, e, b)
                        /\ \/ k = 1 /\ e = a
                           \/ k > 1 /\ T[e] = Token(",") /\ ListStands(es, k - 1, T, a, e - 1)
<1>0. PICK i0 \in Nat : \E f : WritesAll(Each(es, write_to), i0, f) /\ InText(f[k].code, T, a, b)
  BY DEF ListStands
<1>1. PICK f : WritesAll(Each(es, write_to), i0, f) /\ InText(f[k].code, T, a, b)
  BY <1>0
<1>2. Len(es) \in Nat /\ es[k] \in Exprs
  BY CountsFacts
<1>3. PICK w : w = Each(es, write_to)
  OBVIOUS
<1>4. Len(w) = Len(es) /\ w[k] = write_to[es[k]]
  BY <1>3, WritersOf
<1>5. k - 1 \in 0 .. Len(w) /\ k \in 1 .. Len(w)
  BY <1>2, <1>4
<1>6. f[k - 1] \in Output /\ f[k] = write_next(w, k, f[k - 1])
  BY <1>1, <1>3, <1>5 DEF WritesAll
<1>7. f[k - 1].code \in Seq(Symbols) /\ f[k - 1].next \in Nat
  BY <1>6, OutputIs
<1>8. PICK m \in Nat : m = f[k - 1].next
  BY <1>7
<1>9. PICK one \in Output : one = write_to[es[k]][m]
  BY <1>2, CodeType
<1>10. one.code \in Seq(Symbols)
  BY OutputIs
<1>11. f[k].code = f[k - 1].code \o (Separator(Comma, k) \o one.code)
  <2>1. write_next(w, k, f[k - 1]) = Writes(f[k - 1].code \o (Separator(Comma, k) \o one.code), one.next)
    BY <1>4, <1>8, <1>9 DEF write_next
  <2>2. Writes(f[k - 1].code \o (Separator(Comma, k) \o one.code), one.next).code =
          f[k - 1].code \o (Separator(Comma, k) \o one.code)
    BY WritesAre, Zenon
  <2> QED BY <1>6, <2>1, <2>2, Zenon
<1>12. Separator(Comma, k) \in Seq(Symbols) /\ Separator(Comma, k) \o one.code \in Seq(Symbols)
  BY <1>10, Separated, CommaIs, Concatenated
<1>13. PICK d \in Nat : InText(f[k - 1].code, T, a, d) /\ InText(Separator(Comma, k) \o one.code, T, d, b)
  BY <1>1, <1>7, <1>11, <1>12, InTextJoin
<1>14. PICK e \in Nat : InText(Separator(Comma, k), T, d, e) /\ InText(one.code, T, e, b)
  BY <1>10, <1>12, <1>13, InTextJoin
<1>15. Stands(es[k], T, e, b)
  BY <1>9, <1>14 DEF Stands
<1>16. CASE k = 1
  <2>1. f[k - 1].code = <<>>
    BY <1>1, <1>16, WritesAre DEF WritesAll
  <2>2. d = a
    BY <1>13, <2>1, InTextNone
  <2>3. InText(<<>>, T, d, e)
    BY <1>14, <1>16 DEF Separator
  <2>4. e = d
    BY <2>3, InTextNone
  <2> QED BY <1>15, <1>16, <2>2, <2>4
<1>17. CASE k # 1
  <2>1. InText(<<Token(",")>>, T, d, e)
    BY <1>14, <1>17 DEF Separator, Comma
  <2>2. d = e - 1 /\ T[e] = Token(",")
    BY <2>1, InTextOne
  <2>3. ListStands(es, k - 1, T, a, e - 1)
    BY <1>1, <1>13, <2>2 DEF ListStands
  <2>4. k > 1
    BY <1>17
  <2> QED BY <1>15, <2>2, <2>3, <2>4
<1> QED BY <1>16, <1>17

LEMMA BracketsStand ==
  ASSUME NEW lbr, NEW rbr, Token(lbr) \in Symbols, Token(rbr) \in Symbols, NEW s \in Seq(Symbols),
         NEW T, NEW a, NEW b, InText(InBrackets(lbr, s, rbr), T, a, b)
  PROVE  /\ a \in Nat /\ a + 1 \in Nat /\ b \in Nat /\ b - 1 \in Nat
         /\ T[a + 1] = Token(lbr) /\ InText(s, T, a + 1, b - 1) /\ T[b] = Token(rbr)
<1>1. PICK x \in Symbols, y \in Symbols : x = Token(lbr) /\ y = Token(rbr)
  OBVIOUS
<1>2. <<x>> \in Seq(Symbols) /\ <<y>> \in Seq(Symbols)
  BY OneToken
<1>3. s \o <<y>> \in Seq(Symbols)
  BY <1>2, Concatenated
<1>4. InText(<<x>> \o (s \o <<y>>), T, a, b)
  BY <1>1 DEF InBrackets
<1>5. PICK e \in Nat : InText(<<x>>, T, a, e) /\ InText(s \o <<y>>, T, e, b)
  BY <1>2, <1>3, <1>4, InTextJoin
<1>6. PICK d \in Nat : InText(s, T, e, d) /\ InText(<<y>>, T, d, b)
  BY <1>2, <1>5, InTextJoin
<1>7. a \in Nat /\ a = e - 1 /\ T[e] = x
  BY <1>5, InTextOne
<1>8. b \in Nat /\ d = b - 1 /\ T[b] = y
  BY <1>6, InTextOne
<1>9. e = a + 1
  BY <1>7
<1> QED BY <1>1, <1>6, <1>7, <1>8, <1>9

LEMMA ListWritten ==
  ASSUME NodesAssumption, NEW es \in Seq(Exprs), NEW i0 \in Nat, NEW w, w = write_all(Each(es, write_to), i0)
  PROVE  /\ w.code \in Seq(Symbols)
         /\ \A T, a, b : InText(w.code, T, a, b) => ListStands(es, Len(es), T, a, b)
<1>1. PICK ws \in Seq(Writers) : ws = Each(es, write_to) /\ Len(ws) = Len(es)
  BY WritersOf
<1>2. write_all(ws, i0) \in Output
  BY WriteAllType
<1>3. PICK f : WritesAll(ws, i0, f) /\ write_all(ws, i0) = f[Len(ws)]
  BY WriteAllIs
<1> QED BY <1>1, <1>2, <1>3, OutputIs DEF ListStands

LEMMA AtomStands ==
  ASSUME NodesAssumption, NEW n \in Exprs, NEW T, NEW a, NEW b, Stands(n, T, a, b)
  PROVE  /\ Nodes[n].cls = "dyn" => a = b - 1 /\ \E i0 \in Nat : T[b] = Param(i0, Nodes[n].tag)
         /\ Nodes[n].cls = "raw" => a = b - 1 /\ T[b] = Token(Nodes[n].code)
<1>1. PICK i0 \in Nat : InText(write_to[n][i0].code, T, a, b)
  BY DEF Stands
<1>2. write_to[n][i0] = write_of(Nodes[n], write_to, i0)
  BY WriterIs DEF writer_of
<1>3. ASSUME Nodes[n].cls = "dyn" PROVE a = b - 1 /\ T[b] = Param(i0, Nodes[n].tag)
  <2>1. write_to[n][i0].code = <<Param(i0, Nodes[n].tag)>>
    BY <1>2, <1>3, WritesAre DEF write_of
  <2> QED BY <1>1, <2>1, InTextOne
<1>4. ASSUME Nodes[n].cls = "raw" PROVE a = b - 1 /\ T[b] = Token(Nodes[n].code)
  <2>1. write_to[n][i0].code = <<Token(Nodes[n].code)>>
    BY <1>2, <1>4, WritesAre DEF write_of
  <2> QED BY <1>1, <2>1, InTextOne
<1> QED BY <1>3, <1>4

LEMMA ArgsAre ==
  ASSUME NodesAssumption, NEW n \in Exprs, Nodes[n].cls = "call"
  PROVE  Nodes[n].fn \in Exprs /\ Nodes[n].args \in Seq(Exprs)
<1>1. Nodes[n].args \in Seq(1 .. n - 1) /\ Nodes[n].fn \in 1 .. n - 1 /\ \A k \in 1 .. n - 1 : k \in Exprs
  BY NodeFacts
<1> QED BY <1>1, SeqMonotonic

LEMMA CallStands ==
  ASSUME NodesAssumption, NEW n \in Exprs, NEW T, NEW a, NEW b, Stands(n, T, a, b), Nodes[n].cls = "call"
  PROVE  /\ b \in Nat /\ T[b] = Token(Nodes[n].rbr)
         /\ \E e \in Nat : /\ Stands(Nodes[n].fn, T, a, e - 1)
                           /\ T[e] = Token(Nodes[n].lbr)
                           /\ ListStands(Nodes[n].args, Len(Nodes[n].args), T, e, b - 1)
<1>1. PICK i0 \in Nat : InText(write_to[n][i0].code, T, a, b)
  BY DEF Stands
<1>2. write_to[n][i0] = write_of(Nodes[n], write_to, i0)
  BY WriterIs DEF writer_of
<1>3. PICK fn \in Exprs, es \in Seq(Exprs) : fn = Nodes[n].fn /\ es = Nodes[n].args
  BY ArgsAre
<1>4. write_to[n][i0] = write_call(Nodes[n], write_to[fn], Each(es, write_to), i0)
  BY <1>2, <1>3 DEF write_of
<1>5. PICK f \in Output : f = write_to[fn][i0]
  BY CodeType
<1>6. f.code \in Seq(Symbols) /\ f.next \in Nat
  BY OutputIs
<1>7. PICK j \in Nat : j = f.next
  BY <1>6
<1>8. PICK w : w = write_all(Each(es, write_to), j)
  OBVIOUS
<1>9. w.code \in Seq(Symbols) /\ \A e, d : InText(w.code, T, e, d) => ListStands(es, Len(es), T, e, d)
  BY <1>8, ListWritten
<1>10. PICK lbr, rbr : lbr = Nodes[n].lbr /\ rbr = Nodes[n].rbr
  OBVIOUS
<1>11. Token(lbr) \in Symbols /\ Token(rbr) \in Symbols
  BY <1>10, SymbolsAre
<1>12. write_to[n][i0].code = f.code \o InBrackets(lbr, w.code, rbr)
  <2>1. write_call(Nodes[n], write_to[fn], Each(es, write_to), i0) = Writes(f.code \o InBrackets(lbr, w.code, rbr), w.next)
    BY <1>5, <1>7, <1>8, <1>10 DEF write_call
  <2>2. Writes(f.code \o InBrackets(lbr, w.code, rbr), w.next).code = f.code \o InBrackets(lbr, w.code, rbr)
    BY WritesAre, Zenon
  <2> QED BY <1>4, <2>1, <2>2, Zenon
<1>13. InBrackets(lbr, w.code, rbr) \in Seq(Symbols)
  BY <1>9, <1>11, BracketsType
<1>14. PICK d \in Nat : InText(f.code, T, a, d) /\ InText(InBrackets(lbr, w.code, rbr), T, d, b)
  BY <1>1, <1>6, <1>12, <1>13, InTextJoin
<1>15. b \in Nat /\ T[d + 1] = Token(lbr) /\ InText(w.code, T, d + 1, b - 1) /\ T[b] = Token(rbr)
  BY <1>9, <1>11, <1>14, BracketsStand
<1>16. PICK e \in Nat : e = d + 1 /\ d = e - 1
  OBVIOUS
<1>17. Stands(fn, T, a, e - 1)
  BY <1>5, <1>14, <1>16 DEF Stands
<1>18. ListStands(es, Len(es), T, e, b - 1)
  BY <1>9, <1>15, <1>16
<1> QED BY <1>3, <1>10, <1>15, <1>16, <1>17, <1>18

LEMMA InfixStands ==
  ASSUME NodesAssumption, NEW n \in Exprs, NEW T, NEW a, NEW b, Stands(n, T, a, b), Nodes[n].cls = "infix"
  PROVE  /\ a \in Nat /\ b \in Nat /\ T[b] = Token(")")
         /\ \E e \in Nat : /\ Stands(Nodes[n].left, T, a + 1, e - 1)
                           /\ T[e] = Token(Nodes[n].op)
                           /\ Stands(Nodes[n].right, T, e, b - 1)
<1>1. PICK i0 \in Nat : InText(write_to[n][i0].code, T, a, b)
  BY DEF Stands
<1>2. write_to[n][i0] = write_of(Nodes[n], write_to, i0)
  BY WriterIs DEF writer_of
<1>3. PICK left \in Exprs, right \in Exprs : left = Nodes[n].left /\ right = Nodes[n].right
  BY NodeFacts
<1>4. write_to[n][i0] = write_infix(Nodes[n], write_to[left], write_to[right], i0)
  BY <1>2, <1>3 DEF write_of
<1>5. PICK l \in Output : l = write_to[left][i0]
  BY CodeType
<1>6. l.code \in Seq(Symbols) /\ l.next \in Nat
  BY OutputIs
<1>7. PICK j \in Nat : j = l.next
  BY <1>6
<1>8. PICK r \in Output : r = write_to[right][j]
  BY CodeType
<1>9. r.code \in Seq(Symbols)
  BY OutputIs
<1>10. PICK y \in Symbols : y = Token(Nodes[n].op)
  BY SymbolsAre
<1>11. PICK s : s = l.code \o (<<y>> \o r.code)
  OBVIOUS
<1>12. <<y>> \in Seq(Symbols) /\ <<y>> \o r.code \in Seq(Symbols) /\ s \in Seq(Symbols)
  BY <1>6, <1>9, <1>11, OneToken, Concatenated
<1>13. write_to[n][i0].code = InBrackets("(", s, ")")
  <2>1. write_infix(Nodes[n], write_to[left], write_to[right], i0) = Writes(InBrackets("(", s, ")"), r.next)
    BY <1>5, <1>7, <1>8, <1>10, <1>11, ZenonT(40) DEF write_infix
  <2>2. Writes(InBrackets("(", s, ")"), r.next).code = InBrackets("(", s, ")")
    BY WritesAre, Zenon
  <2> QED BY <1>4, <2>1, <2>2, Zenon
<1>14. a \in Nat /\ a + 1 \in Nat /\ b \in Nat /\ InText(s, T, a + 1, b - 1) /\ T[b] = Token(")")
  <2>1. Token("(") \in Symbols /\ Token(")") \in Symbols
    BY SymbolsAre
  <2>2. InText(InBrackets("(", s, ")"), T, a, b)
    BY <1>1, <1>13
  <2> QED BY <1>12, <2>1, <2>2, BracketsStand
<1>15. PICK d \in Nat : InText(l.code, T, a + 1, d) /\ InText(<<y>> \o r.code, T, d, b - 1)
  BY <1>6, <1>11, <1>12, <1>14, InTextJoin
<1>16. PICK e \in Nat : InText(<<y>>, T, d, e) /\ InText(r.code, T, e, b - 1)
  BY <1>9, <1>12, <1>15, InTextJoin
<1>17. d = e - 1 /\ T[e] = y
  BY <1>16, InTextOne
<1>18. Stands(left, T, a + 1, e - 1)
  BY <1>5, <1>15, <1>17 DEF Stands
<1>19. Stands(right, T, e, b - 1)
  BY <1>8, <1>16 DEF Stands
<1> QED BY <1>3, <1>10, <1>14, <1>17, <1>18, <1>19

(* The tokens that begin a list, or go between expressions, end none.      *)
Openers == {Token("("), Token("<"), Token(","), Token("^")}

LEMMA TokensApart ==
  /\ \A t, u : Token(t) = Token(u) => t = u
  /\ \A t, k, tag : Token(t) # Param(k, tag)
<1>1. \A t, u : Token(t) = Token(u) => t = u
  <2> TAKE t, u
  <2>1. Token(t).text = t /\ Token(u).text = u
    BY DEF Token
  <2> QED BY <2>1
<1>2. \A t, k, tag : Token(t) # Param(k, tag)
  <2> TAKE t, k, tag
  <2>1. Token(t).kind = "text" /\ Param(k, tag).kind = "param"
    BY DEF Token, Param
  <2> QED BY <2>1
<1> QED BY <1>1, <1>2

LEMMA BracketsAre ==
  ASSUME TextAssumption, NEW n \in Exprs, Nodes[n].cls = "call"
  PROVE  \/ Nodes[n].lbr = "(" /\ Nodes[n].rbr = ")"
         \/ Nodes[n].lbr = "<" /\ Nodes[n].rbr = ">"
<1>1. <<Nodes[n].lbr, Nodes[n].rbr>> \in {<<"(", ")">>, <<"<", ">">>}
  BY DEF TextAssumption
<1> QED BY <1>1

(* The last token says of which class the expression is, but for calls and *)
(* infix expressions.                                                      *)
LEMMA LastToken ==
  ASSUME NodesAssumption, TextAssumption, NEW n \in Exprs, NEW T, NEW a, NEW b, Stands(n, T, a, b)
  PROVE  /\ T[b] \notin Openers
         /\ Nodes[n].cls = "dyn" <=> \E k, tag : T[b] = Param(k, tag)
         /\ Nodes[n].cls \in {"call", "infix"} <=> T[b] \in {Token(")"), Token(">")}
<1>1. CASE Nodes[n].cls = "dyn"
  <2>1. PICK k : T[b] = Param(k, Nodes[n].tag)
    BY <1>1, AtomStands
  <2>2. \A t : T[b] # Token(t)
    BY <2>1, TokensApart
  <2>3. T[b] \notin Openers /\ T[b] \notin {Token(")"), Token(">")}
    BY <2>2 DEF Openers
  <2>4. Nodes[n].cls \notin {"call", "infix"}
    BY <1>1
  <2> QED BY <1>1, <2>1, <2>3, <2>4, Zenon
<1>2. CASE Nodes[n].cls = "raw"
  <2>1. T[b] = Token(Nodes[n].code)
    BY <1>2, AtomStands
  <2>2. Nodes[n].code \notin Marks
    BY <1>2 DEF TextAssumption
  <2>3. \A t \in Marks : T[b] # Token(t)
    BY <2>1, <2>2, TokensApart
  <2>4. T[b] \notin Openers /\ T[b] \notin {Token(")"), Token(">")}
    BY <2>3 DEF Openers, Marks
  <2>5. \A k, tag : T[b] # Param(k, tag)
    BY <2>1, TokensApart
  <2>6. Nodes[n].cls \notin {"call", "infix"} /\ Nodes[n].cls # "dyn"
    BY <1>2
  <2> QED BY <2>4, <2>5, <2>6, Zenon
<1>3. CASE Nodes[n].cls = "call"
  <2>1. T[b] = Token(")") \/ T[b] = Token(">")
    BY <1>3, BracketsAre, CallStands
  <2> QED BY <1>3, <2>1, TokensApart DEF Openers
<1>4. CASE Nodes[n].cls = "infix"
  <2>1. T[b] = Token(")")
    BY <1>4, InfixStands
  <2> QED BY <1>4, <2>1, TokensApart DEF Openers
<1> QED BY <1>1, <1>2, <1>3, <1>4, NodeFacts

(* Of two expressions that end at the same place.                          *)
Agree(m) ==
  \A n \in Exprs : \A T, a, b, d : Stands(m, T, a, b) /\ Stands(n, T, d, b) => a = d /\ Equal[<<m, n>>]

ListsAgree(es, fs, k) ==
  \A j \in 0 .. Len(fs) : \A T, a, b, d :
    (/\ ListStands(es, k, T, a, b) /\ T[a] \in {Token("("), Token("<")}
     /\ ListStands(fs, j, T, d, b) /\ T[d] \in {Token("("), Token("<")})
      => a = d /\ j = k /\ \A l \in 1 .. k : Equal[<<es[l], fs[l]>>]

LEMMA ListsStep ==
  ASSUME NodesAssumption, TextAssumption, NEW es \in Seq(Exprs), NEW fs \in Seq(Exprs),
         \A l \in 1 .. Len(es) : Agree(es[l]),
         NEW k \in 0 .. Len(es), k > 0 => ListsAgree(es, fs, k - 1)
  PROVE  ListsAgree(es, fs, k)
<1> SUFFICES ASSUME NEW j \in 0 .. Len(fs), NEW T, NEW a, NEW b, NEW d,
                    ListStands(es, k, T, a, b), T[a] \in {Token("("), Token("<")},
                    ListStands(fs, j, T, d, b), T[d] \in {Token("("), Token("<")}
             PROVE  a = d /\ j = k /\ \A l \in 1 .. k : Equal[<<es[l], fs[l]>>]
  BY Zenon DEF ListsAgree
<1>1. T[a] \in Openers /\ T[d] \in Openers /\ T[a] # Token(",") /\ T[d] # Token(",")
  BY TokensApart DEF Openers
<1>2. Len(es) \in Nat /\ Len(fs) \in Nat /\ k \in Nat /\ j \in Nat
  BY CountsFacts
<1>3. CASE k = 0 /\ j = 0
  <2>1. b = a /\ b = d
    BY <1>3, ListBegins
  <2> QED BY <1>3, <2>1
<1>4. CASE k = 0 /\ j > 0
  <2>1. b = a
    BY <1>4, ListBegins
  <2>2. j \in 1 .. Len(fs) /\ fs[j] \in Exprs
    BY <1>2, <1>4, CountsFacts
  <2>3. \E g : Stands(fs[j], T, g, b)
    BY <2>2, ListEnds
  <2> QED BY <1>1, <2>1, <2>2, <2>3, LastToken
<1>5. CASE k > 0 /\ j = 0
  <2>1. b = d
    BY <1>5, ListBegins
  <2>2. k \in 1 .. Len(es) /\ es[k] \in Exprs
    BY <1>2, <1>5, CountsFacts
  <2>3. \E g : Stands(es[k], T, g, b)
    BY <2>2, ListEnds
  <2> QED BY <1>1, <2>1, <2>2, <2>3, LastToken
<1>6. CASE k > 0 /\ j > 0
  <2>1. k \in 1 .. Len(es) /\ es[k] \in Exprs /\ j \in 1 .. Len(fs) /\ fs[j] \in Exprs
    BY <1>2, <1>6, CountsFacts
  <2>2. PICK g \in Nat : /\ Stands(es[k], T, g, b)
                         /\ \/ k = 1 /\ g = a
                            \/ k > 1 /\ T[g] = Token(",") /\ ListStands(es, k - 1, T, a, g - 1)
    BY <2>1, ListEnds
  <2>3. PICK h \in Nat : /\ Stands(fs[j], T, h, b)
                         /\ \/ j = 1 /\ h = d
                            \/ j > 1 /\ T[h] = Token(",") /\ ListStands(fs, j - 1, T, d, h - 1)
    BY <2>1, ListEnds
  <2>4. g = h /\ Equal[<<es[k], fs[j]>>]
    BY <2>1, <2>2, <2>3 DEF Agree
  <2>5. CASE k = 1
    <3>1. g = a
      BY <2>2, <2>5
    <3>2. T[h] # Token(",")
      BY <1>1, <2>4, <3>1
    <3>3. j = 1 /\ h = d
      BY <2>3, <3>2
    <3>4. Equal[<<es[1], fs[1]>>] /\ a = d
      BY <2>4, <2>5, <3>1, <3>3
    <3>5. \A l \in 1 .. k : l = 1
      BY <2>5
    <3> QED BY <2>5, <3>3, <3>4, <3>5
  <2>6. CASE k # 1
    <3>1. ListStands(es, k - 1, T, a, g - 1) /\ j > 1 /\ ListStands(fs, j - 1, T, d, g - 1)
      BY <1>1, <2>2, <2>3, <2>4, <2>6
    <3>2. j - 1 \in 0 .. Len(fs)
      BY <1>2, <1>6
    <3>3. ListsAgree(es, fs, k - 1)
      BY <1>6
    <3>4. a = d /\ j - 1 = k - 1 /\ \A l \in 1 .. k - 1 : Equal[<<es[l], fs[l]>>]
      BY <3>1, <3>2, <3>3, Zenon DEF ListsAgree
    <3>5. j = k
      BY <1>2, <3>4
    <3>6. \A l \in 1 .. k : l = k \/ l \in 1 .. k - 1
      BY <1>2
    <3> QED BY <2>4, <3>4, <3>5, <3>6
  <2> QED BY <2>5, <2>6
<1> QED BY <1>2, <1>3, <1>4, <1>5, <1>6

LEMMA AllListsAgree ==
  ASSUME NodesAssumption, TextAssumption, NEW es \in Seq(Exprs), NEW fs \in Seq(Exprs),
         \A l \in 1 .. Len(es) : Agree(es[l])
  PROVE  ListsAgree(es, fs, Len(es))
<1> DEFINE S == {k \in Nat : k <= Len(es) => ListsAgree(es, fs, k)}
<1>1. Len(es) \in Nat
  BY CountsFacts
<1>2. 0 \in S
  <2>1. 0 \in 0 .. Len(es)
    BY <1>1
  <2>2. ListsAgree(es, fs, 0)
    BY <2>1, ListsStep
  <2> QED BY <2>2
<1>3. ASSUME NEW k \in Nat, k \in S PROVE k + 1 \in S
  <2> SUFFICES ASSUME k + 1 <= Len(es) PROVE ListsAgree(es, fs, k + 1)
    OBVIOUS
  <2>1. PICK l : l = k + 1
    OBVIOUS
  <2>2. l \in 0 .. Len(es) /\ l - 1 = k
    BY <1>1, <2>1
  <2>3. ListsAgree(es, fs, l - 1)
    BY <1>1, <1>3, <2>1, <2>2
  <2>4. ListsAgree(es, fs, l)
    BY <2>2, <2>3, ListsStep
  <2> QED BY <2>1, <2>4
<1>4. \A k \in Nat : k \in S
  <2> HIDE DEF S
  <2> QED BY <1>2, <1>3, Induction
<1> QED BY <1>1, <1>4

-----------------------------------------------------------------------------
(* Hashes, which need no type: their table is made node by node.           *)
LEMMA HashSame ==
  ASSUME NodesAssumption, NEW n \in Exprs, NEW t, NEW u, SameBelow(t, u, n)
  PROVE  hash_of(Nodes[n], t) = hash_of(Nodes[n], u)
<1>1. CASE Nodes[n].cls = "call"
  BY <1>1, SameParts DEF hash_of
<1>2. CASE Nodes[n].cls = "infix"
  BY <1>2, SameParts DEF hash_of
<1>3. CASE Nodes[n].cls = "dyn" \/ Nodes[n].cls = "raw"
  BY <1>3 DEF hash_of
<1> QED BY <1>1, <1>2, <1>3, NodeFacts

HashedTo(m, g) == g = [k \in 1 .. m |-> g[k]] /\ \A k \in 1 .. m : g[k] = hash_of(Nodes[k], g)

LEMMA HashNext ==
  ASSUME NodesAssumption, NEW m \in Nat, m + 1 \in Exprs, NEW g, HashedTo(m, g)
  PROVE  \E f : HashedTo(m + 1, f)
<1>1. PICK n : n = m + 1
  OBVIOUS
<1>2. PICK f : f = [k \in 1 .. n |-> IF k = n THEN hash_of(Nodes[n], g) ELSE g[k]]
  OBVIOUS
<1>3. \A k \in 1 .. m : k \in 1 .. n /\ k # n
  BY <1>1
<1>4. n \in 1 .. n /\ n \in Exprs /\ n - 1 = m
  BY <1>1
<1>5. f[n] = hash_of(Nodes[n], g) /\ \A k \in 1 .. m : f[k] = g[k]
  BY <1>2, <1>3, <1>4, Zenon
<1>6. ASSUME NEW k \in 1 .. n PROVE f[k] = hash_of(Nodes[k], f)
  <2>1. k \in Exprs /\ \A l \in 1 .. k - 1 : l \in 1 .. m
    BY <1>1, <1>4, NodeFacts
  <2>2. SameBelow(g, f, k)
    BY <1>5, <2>1 DEF SameBelow
  <2>3. hash_of(Nodes[k], g) = hash_of(Nodes[k], f)
    BY <2>1, <2>2, HashSame
  <2>4. CASE k = n
    BY <1>5, <2>3, <2>4
  <2>5. CASE k # n
    <3>1. k \in 1 .. m
      BY <1>1, <2>5
    <3>2. f[k] = g[k] /\ g[k] = hash_of(Nodes[k], g)
      BY <1>5, <3>1 DEF HashedTo
    <3> QED BY <2>3, <3>2
  <2> QED BY <2>4, <2>5
<1>7. f = [k \in 1 .. n |-> f[k]]
  BY <1>2
<1>8. HashedTo(n, f)
  BY <1>6, <1>7 DEF HashedTo
<1> QED BY <1>1, <1>8

LEMMA HashIs == ASSUME NodesAssumption PROVE \A n \in Exprs : Hash[n] = hash_of(Nodes[n], Hash)
<1> DEFINE S == {m \in Nat : m <= Len(Nodes) => \E g : HashedTo(m, g)}
           Q(f) == [n \in Exprs |-> hash_of(Nodes[n], f)]
<1>1. Len(Nodes) \in Nat /\ Exprs = 1 .. Len(Nodes)
  BY CountsFacts DEF NodesAssumption, Exprs
<1>2. 0 \in S
  <2>1. PICK g : g = [k \in 1 .. 0 |-> 0]
    OBVIOUS
  <2>2. g = [k \in 1 .. 0 |-> g[k]]
    BY <2>1
  <2>3. HashedTo(0, g)
    BY <2>2 DEF HashedTo
  <2> QED BY <2>3
<1>3. ASSUME NEW m \in Nat, m \in S PROVE m + 1 \in S
  <2> SUFFICES ASSUME m + 1 <= Len(Nodes) PROVE \E g : HashedTo(m + 1, g)
    OBVIOUS
  <2>1. m + 1 \in Exprs
    BY <1>1
  <2>2. \E g : HashedTo(m, g)
    BY <1>1, <1>3
  <2> QED BY <2>1, <2>2, HashNext
<1>4. \A m \in Nat : m \in S
  <2> HIDE DEF S
  <2> QED BY <1>2, <1>3, Induction
<1>5. PICK g : HashedTo(Len(Nodes), g)
  BY <1>1, <1>4
<1>6. g = Q(g)
  <2>1. g = [n \in Exprs |-> g[n]] /\ \A n \in Exprs : g[n] = hash_of(Nodes[n], g)
    BY <1>1, <1>5 DEF HashedTo
  <2> QED BY <2>1, Zenon
<1>7. Hash = CHOOSE f : f = Q(f)
  BY Zenon DEF Hash
<1>8. Hash = Q(Hash)
  BY <1>6, <1>7, Zenon
<1> QED BY <1>8, Zenon

LEMMA EqualHash ==
  ASSUME NodesAssumption, NEW m \in Exprs, NEW n \in Exprs, Equal[<<m, n>>] PROVE Hash[m] = Hash[n]
<1>1. equal_to(m, n, Equal)
  BY EqualIs
<1> QED BY <1>1 DEF equal_to

LEMMA EachHashed ==
  ASSUME NodesAssumption, NEW es \in Seq(Exprs), NEW fs \in Seq(Exprs), Len(es) = Len(fs),
         \A l \in 1 .. Len(es) : Equal[<<es[l], fs[l]>>]
  PROVE  Each(es, Hash) = Each(fs, Hash)
<1>1. DOMAIN es = 1 .. Len(es) /\ DOMAIN fs = 1 .. Len(fs)
  BY CountsFacts
<1>2. \A l \in 1 .. Len(es) : es[l] \in Exprs /\ fs[l] \in Exprs
  BY CountsFacts
<1>3. \A l \in DOMAIN es : Hash[es[l]] = Hash[fs[l]]
  BY <1>1, <1>2, EqualHash
<1> QED BY <1>1, <1>3 DEF Each

(* Expressions are equal if their parts are.                               *)
LEMMA EqualByParts ==
  ASSUME NodesAssumption, NEW m \in Exprs, NEW n \in Exprs,
         Nodes[m].cls = Nodes[n].cls, equal_parts(Nodes[m], Nodes[n], Equal)
  PROVE  Equal[<<m, n>>]
<1>1. PICK a, b : a = Nodes[m] /\ b = Nodes[n]
  OBVIOUS
<1>2. Hash[m] = hash_of(a, Hash) /\ Hash[n] = hash_of(b, Hash)
  BY <1>1, HashIs
<1>3. a.cls = b.cls /\ equal_parts(a, b, Equal)
  BY <1>1
<1>4. ASSUME hash_of(a, Hash) = hash_of(b, Hash) PROVE Equal[<<m, n>>]
  <2>1. Hash[m] = Hash[n]
    BY <1>2, <1>4, Zenon
  <2>2. equal_to(m, n, Equal)
    BY <2>1, Zenon DEF equal_to
  <2> QED BY <2>2, EqualIs, Zenon
<1>5. CASE a.cls = "dyn"
  <2>1. a.tag = b.tag
    BY <1>3, <1>5 DEF equal_parts, DynEqual
  <2>2. hash_of(a, Hash) = hash_of(b, Hash)
    BY <1>3, <1>5, <2>1 DEF hash_of, DynHash
  <2> QED BY <1>4, <2>2
<1>6. CASE a.cls = "raw"
  <2>1. a.code = b.code
    BY <1>3, <1>6 DEF equal_parts
  <2>2. hash_of(a, Hash) = hash_of(b, Hash)
    BY <1>3, <1>6, <2>1 DEF hash_of
  <2> QED BY <1>4, <2>2
<1>7. CASE a.cls = "call"
  <2>1. /\ Equal[<<a.fn, b.fn>>] /\ Len(a.args) = Len(b.args) /\ a.lbr = b.lbr
        /\ \A l \in DOMAIN a.args : Equal[<<a.args[l], b.args[l]>>]
    BY <1>3, <1>7 DEF equal_parts
  <2>2. PICK es \in Seq(Exprs), fs \in Seq(Exprs) : es = a.args /\ fs = b.args
    BY <1>1, <1>3, <1>7, ArgsAre
  <2>3. a.fn \in Exprs /\ b.fn \in Exprs
    BY <1>1, <1>3, <1>7, ArgsAre
  <2>4. DOMAIN es = 1 .. Len(es)
    BY CountsFacts
  <2>5. Each(es, Hash) = Each(fs, Hash)
    BY <2>1, <2>2, <2>4, EachHashed
  <2>6. Hash[a.fn] = Hash[b.fn]
    BY <2>1, <2>3, EqualHash
  <2>7. hash_of(a, Hash) = hash_of(b, Hash)
    BY <1>3, <1>7, <2>1, <2>2, <2>5, <2>6 DEF hash_of
  <2> QED BY <1>4, <2>7
<1>8. CASE a.cls = "infix"
  <2>1. a.op = b.op /\ Equal[<<a.left, b.left>>] /\ Equal[<<a.right, b.right>>]
    BY <1>3, <1>8 DEF equal_parts
  <2>2. a.left \in Exprs /\ a.right \in Exprs /\ b.left \in Exprs /\ b.right \in Exprs
    BY <1>1, <1>3, <1>8, NodeFacts
  <2>3. Hash[a.left] = Hash[b.left] /\ Hash[a.right] = Hash[b.right]
    BY <2>1, <2>2, EqualHash
  <2>4. hash_of(a, Hash) = hash_of(b, Hash)
    BY <1>3, <1>8, <2>1, <2>3 DEF hash_of
  <2> QED BY <1>4, <2>4
<1> QED BY <1>1, <1>5, <1>6, <1>7, <1>8, NodeFacts

-----------------------------------------------------------------------------
SameStart(m, n) == \A T, a, b, d : Stands(m, T, a, b) /\ Stands(n, T, d, b) => a = d

LEMMA AgreeStart ==
  \A m : Agree(m) => \A n \in Exprs : SameStart(m, n) /\ SameStart(n, m)
<1> SUFFICES ASSUME NEW m, Agree(m), NEW n \in Exprs PROVE SameStart(m, n) /\ SameStart(n, m)
  OBVIOUS
<1>1. \A T, a, b, d : Stands(m, T, a, b) /\ Stands(n, T, d, b) => a = d
  BY DEF Agree
<1> QED BY <1>1 DEF SameStart

(* Before the last expression in brackets is an operator if they are those *)
(* of an infix expression, and of a call none.                             *)
LEMMA CallNotInfix ==
  ASSUME NodesAssumption, TextAssumption, NEW m \in Exprs, NEW n \in Exprs,
         Nodes[m].cls = "call", Nodes[n].cls = "infix",
         \A l \in 1 .. Len(Nodes[m].args) : SameStart(Nodes[m].args[l], Nodes[n].right),
         NEW T, NEW a, NEW b, NEW d, Stands(m, T, a, b), Stands(n, T, d, b)
  PROVE  FALSE
<1>1. PICK es \in Seq(Exprs) : es = Nodes[m].args /\ \A l \in 1 .. Len(es) : SameStart(es[l], Nodes[n].right)
  BY ArgsAre
<1>2. Len(es) \in Nat
  BY CountsFacts
<1>3. PICK g \in Nat : T[g] = Token(Nodes[m].lbr) /\ ListStands(es, Len(es), T, g, b - 1)
  BY <1>1, CallStands
<1>4. PICK h \in Nat : T[h] = Token("^") /\ Stands(Nodes[n].right, T, h, b - 1)
  BY InfixStands DEF TextAssumption
<1>5. Nodes[n].right \in Exprs
  BY NodeFacts
<1>6. Nodes[m].lbr = "(" \/ Nodes[m].lbr = "<"
  BY BracketsAre
<1>7. T[g] \in Openers /\ T[g] # Token("^")
  BY <1>3, <1>6, TokensApart DEF Openers
<1>8. CASE Len(es) = 0
  <2>1. b - 1 = g
    BY <1>3, <1>8, ListBegins
  <2> QED BY <1>4, <1>5, <1>7, <2>1, LastToken
<1>9. CASE Len(es) # 0
  <2>1. PICK k : k = Len(es)
    OBVIOUS
  <2>2. k \in 1 .. Len(es)
    BY <1>2, <1>9, <2>1
  <2>3. ListStands(es, k, T, g, b - 1)
    BY <1>3, <2>1
  <2>4. PICK q \in Nat : /\ Stands(es[k], T, q, b - 1)
                         /\ \/ k = 1 /\ q = g
                            \/ k > 1 /\ T[q] = Token(",") /\ ListStands(es, k - 1, T, g, q - 1)
    BY <2>2, <2>3, ListEnds
  <2>5. SameStart(es[k], Nodes[n].right)
    BY <1>1, <2>2, Zenon
  <2>6. q = h
    BY <1>4, <2>4, <2>5 DEF SameStart
  <2>7. Token(",") # Token("^")
    BY TokensApart
  <2> QED BY <1>4, <1>7, <2>4, <2>6, <2>7
<1> QED BY <1>8, <1>9

LEMMA CallsAgree ==
  ASSUME NodesAssumption, TextAssumption, NEW m \in Exprs, NEW n \in Exprs, \A k \in 1 .. m - 1 : Agree(k),
         Nodes[m].cls = "call", Nodes[n].cls = "call",
         NEW T, NEW a, NEW b, NEW d, Stands(m, T, a, b), Stands(n, T, d, b)
  PROVE  a = d /\ Equal[<<m, n>>]
<1>1. PICK es \in Seq(Exprs) : es = Nodes[m].args /\ \A l \in 1 .. Len(es) : es[l] \in 1 .. m - 1
  BY ArgsAre, NodeFacts
<1>2. PICK fs \in Seq(Exprs) : fs = Nodes[n].args
  BY ArgsAre
<1>3. PICK p0 \in 1 .. m - 1 : p0 = Nodes[m].fn
  BY NodeFacts
<1>4. PICK q0 \in Exprs : q0 = Nodes[n].fn
  BY ArgsAre
<1>5. PICK g \in Nat : /\ Stands(p0, T, a, g - 1) /\ T[g] = Token(Nodes[m].lbr)
                       /\ ListStands(es, Len(es), T, g, b - 1)
  BY <1>1, <1>3, CallStands
<1>6. PICK h \in Nat : /\ Stands(q0, T, d, h - 1) /\ T[h] = Token(Nodes[n].lbr)
                       /\ ListStands(fs, Len(fs), T, h, b - 1)
  BY <1>2, <1>4, CallStands
<1>7. Nodes[m].rbr = Nodes[n].rbr
  BY CallStands, TokensApart
<1>8. Nodes[m].lbr = Nodes[n].lbr /\ T[g] \in {Token("("), Token("<")} /\ T[h] \in {Token("("), Token("<")}
  BY <1>5, <1>6, <1>7, BracketsAre
<1>9. ListsAgree(es, fs, Len(es))
  BY <1>1, AllListsAgree
<1>10. Len(fs) \in 0 .. Len(fs) /\ DOMAIN es = 1 .. Len(es)
  BY CountsFacts
<1>11. g = h /\ Len(fs) = Len(es) /\ \A l \in 1 .. Len(es) : Equal[<<es[l], fs[l]>>]
  BY <1>5, <1>6, <1>8, <1>9, <1>10, Zenon DEF ListsAgree
<1>12. Agree(p0)
  OBVIOUS
<1>13. a = d /\ Equal[<<p0, q0>>]
  BY <1>5, <1>6, <1>11, <1>12 DEF Agree
<1>14. equal_parts(Nodes[m], Nodes[n], Equal)
  BY <1>1, <1>2, <1>3, <1>4, <1>7, <1>8, <1>10, <1>11, <1>13 DEF equal_parts
<1> QED BY <1>13, <1>14, EqualByParts

LEMMA InfixesAgree ==
  ASSUME NodesAssumption, TextAssumption, NEW m \in Exprs, NEW n \in Exprs, \A k \in 1 .. m - 1 : Agree(k),
         Nodes[m].cls = "infix", Nodes[n].cls = "infix",
         NEW T, NEW a, NEW b, NEW d, Stands(m, T, a, b), Stands(n, T, d, b)
  PROVE  a = d /\ Equal[<<m, n>>]
<1>1. PICK l1 \in 1 .. m - 1, r1 \in 1 .. m - 1 : l1 = Nodes[m].left /\ r1 = Nodes[m].right
  BY NodeFacts
<1>2. PICK l2 \in Exprs, r2 \in Exprs : l2 = Nodes[n].left /\ r2 = Nodes[n].right
  BY NodeFacts
<1>3. PICK g \in Nat : Stands(l1, T, a + 1, g - 1) /\ Stands(r1, T, g, b - 1)
  BY <1>1, InfixStands
<1>4. PICK h \in Nat : Stands(l2, T, d + 1, h - 1) /\ Stands(r2, T, h, b - 1)
  BY <1>2, InfixStands
<1>5. Agree(l1) /\ Agree(r1)
  OBVIOUS
<1>6. g = h /\ Equal[<<r1, r2>>]
  BY <1>3, <1>4, <1>5 DEF Agree
<1>7. a + 1 = d + 1 /\ Equal[<<l1, l2>>]
  BY <1>3, <1>4, <1>5, <1>6 DEF Agree
<1>8. a \in Nat /\ d \in Nat
  BY InfixStands
<1>9. Nodes[m].op = Nodes[n].op
  BY DEF TextAssumption
<1>10. equal_parts(Nodes[m], Nodes[n], Equal)
  BY <1>1, <1>2, <1>6, <1>7, <1>9 DEF equal_parts
<1> QED BY <1>7, <1>8, <1>10, EqualByParts

LEMMA NodeAgrees ==
  ASSUME NodesAssumption, TextAssumption, NEW m \in Exprs, \A k \in 1 .. m - 1 : Agree(k)
  PROVE  Agree(m)
<1> SUFFICES ASSUME NEW n \in Exprs, NEW T, NEW a, NEW b, NEW d, Stands(m, T, a, b), Stands(n, T, d, b)
             PROVE  a = d /\ Equal[<<m, n>>]
  BY DEF Agree
<1>1. CASE Nodes[m].cls = "dyn"
  <2>1. PICK k : a = b - 1 /\ T[b] = Param(k, Nodes[m].tag)
    BY <1>1, AtomStands
  <2>2. Nodes[n].cls = "dyn"
    <3>1. \E i0, tag : T[b] = Param(i0, tag)
      BY <2>1
    <3> QED BY <3>1, LastToken, Zenon
  <2>3. PICK l : d = b - 1 /\ T[b] = Param(l, Nodes[n].tag)
    BY <2>2, AtomStands
  <2>4. Nodes[m].tag = Nodes[n].tag
    <3>1. T[b].tag = Nodes[m].tag /\ T[b].tag = Nodes[n].tag
      BY <2>1, <2>3 DEF Param
    <3> QED BY <3>1
  <2>5. equal_parts(Nodes[m], Nodes[n], Equal)
    BY <1>1, <2>4 DEF equal_parts, DynEqual
  <2> QED BY <1>1, <2>1, <2>2, <2>3, <2>5, EqualByParts
<1>2. CASE Nodes[m].cls = "raw"
  <2>1. Nodes[n].cls = "raw"
    <3>1. ~(Nodes[m].cls = "dyn") /\ ~(Nodes[m].cls \in {"call", "infix"})
      BY <1>2
    <3>2. ~(Nodes[n].cls = "dyn")
      BY <3>1, LastToken
    <3>3. ~(Nodes[n].cls \in {"call", "infix"})
      BY <3>1, LastToken
    <3> QED BY <3>2, <3>3, NodeFacts
  <2>2. a = b - 1 /\ T[b] = Token(Nodes[m].code) /\ d = b - 1 /\ T[b] = Token(Nodes[n].code)
    BY <1>2, <2>1, AtomStands
  <2>3. Nodes[m].code = Nodes[n].code
    BY <2>2, TokensApart
  <2>4. equal_parts(Nodes[m], Nodes[n], Equal)
    BY <1>2, <2>3 DEF equal_parts
  <2> QED BY <1>2, <2>1, <2>2, <2>4, EqualByParts
<1>3. ASSUME Nodes[m].cls \in {"call", "infix"} PROVE Nodes[n].cls \in {"call", "infix"}
  BY <1>3, LastToken
<1>4. CASE Nodes[m].cls = "call"
  <2>1. CASE Nodes[n].cls = "infix"
    <3>1. Nodes[n].right \in Exprs /\ \A l \in 1 .. Len(Nodes[m].args) : Agree(Nodes[m].args[l])
      BY <1>4, <2>1, NodeFacts
    <3>2. \A l \in 1 .. Len(Nodes[m].args) : SameStart(Nodes[m].args[l], Nodes[n].right)
      BY <3>1, AgreeStart
    <3> QED BY <1>4, <2>1, <3>2, CallNotInfix
  <2>2. CASE Nodes[n].cls = "call"
    BY <1>4, <2>2, CallsAgree
  <2> QED BY <1>3, <1>4, <2>1, <2>2
<1>5. CASE Nodes[m].cls = "infix"
  <2>1. CASE Nodes[n].cls = "call"
    <3>1. Agree(Nodes[m].right) /\ \A l \in 1 .. Len(Nodes[n].args) : Nodes[n].args[l] \in Exprs
      BY <1>5, <2>1, NodeFacts
    <3>2. \A l \in 1 .. Len(Nodes[n].args) : SameStart(Nodes[n].args[l], Nodes[m].right)
      BY <3>1, AgreeStart
    <3> QED BY <1>5, <2>1, <3>2, CallNotInfix
  <2>2. CASE Nodes[n].cls = "infix"
    BY <1>5, <2>2, InfixesAgree
  <2> QED BY <1>3, <1>5, <2>1, <2>2
<1> QED BY <1>1, <1>2, <1>4, <1>5, NodeFacts

LEMMA AllAgree == NodesAssumption /\ TextAssumption => \A n \in Exprs : Agree(n)
<1> SUFFICES ASSUME NodesAssumption, TextAssumption PROVE \A n \in Exprs : Agree(n)
  OBVIOUS
<1> DEFINE S == {n \in Exprs : Agree(n)}
<1>1. \A n \in Exprs : (\A k \in 1 .. n - 1 : k \in S) => n \in S
  BY NodeAgrees
<1>2. \A n \in Exprs : n \in S
  <2> HIDE DEF S
  <2> QED BY <1>1, ByNumber
<1> QED BY <1>2

LEMMA ListsUnique ==
  ASSUME NodesAssumption, TextAssumption, NEW es \in Seq(Exprs), NEW fs \in Seq(Exprs),
         NEW T, NEW a, NEW b, NEW d,
         ListStands(es, Len(es), T, a, b), T[a] \in {Token("("), Token("<")},
         ListStands(fs, Len(fs), T, d, b), T[d] \in {Token("("), Token("<")}
  PROVE  a = d /\ EqualSeq(es, fs) /\ HashSeq(es) = HashSeq(fs)
<1>1. \A l \in 1 .. Len(es) : es[l] \in Exprs
  BY CountsFacts
<1>2. ListsAgree(es, fs, Len(es))
  BY <1>1, AllAgree, AllListsAgree
<1>3. Len(fs) \in 0 .. Len(fs) /\ DOMAIN es = 1 .. Len(es)
  BY CountsFacts
<1>4. a = d /\ Len(fs) = Len(es) /\ \A l \in 1 .. Len(es) : Equal[<<es[l], fs[l]>>]
  BY <1>2, <1>3, Zenon DEF ListsAgree
<1>5. Each(es, Hash) = Each(fs, Hash)
  BY <1>4, EachHashed
<1> QED BY <1>3, <1>4, <1>5 DEF EqualSeq, HashSeq

-----------------------------------------------------------------------------
(* The code for a call, as a text.                                         *)
LEMMA SourceStands ==
  ASSUME NodesAssumption, NEW k \in Calls, NEW T, NEW b, InText(Source(k), T, 0, b)
  PROVE  /\ T[1] = Token(k.fn) /\ b \in Nat
         /\ \E e \in Nat : /\ T[e] = Token("(") /\ ListStands(k.call_args, Len(k.call_args), T, e, b - 1)
                           /\ ~k.have_tmpl_args => e = 2
                           /\ k.have_tmpl_args =>
                                /\ T[2] = Token("<") /\ e > 2
                                /\ ListStands(k.tmpl_args, Len(k.tmpl_args), T, 2, e - 2)
<1>1. PICK es, fs \in Seq(Exprs) : es = k.tmpl_args /\ fs = k.call_args
  BY DEF NodesAssumption
<1>2. PICK x \in Symbols : x = Token(k.fn)
  BY SymbolsAre
<1>3. PICK s \in Seq(Symbols) : s = Written(es) /\ \A a, d : InText(s, T, a, d) => ListStands(es, Len(es), T, a, d)
  BY ListWritten DEF Written
<1>4. PICK u \in Seq(Symbols) : u = Written(fs) /\ \A a, d : InText(u, T, a, d) => ListStands(fs, Len(fs), T, a, d)
  BY ListWritten DEF Written
<1>5. PICK v : v = InBrackets("(", u, ")")
  OBVIOUS
<1>6. PICK t : t = IF k.have_tmpl_args THEN InBrackets("<", s, ">") ELSE <<>>
  OBVIOUS
<1>7. Token("(") \in Symbols /\ Token(")") \in Symbols /\ Token("<") \in Symbols /\ Token(">") \in Symbols
  BY SymbolsAre
<1>8. v \in Seq(Symbols)
  BY <1>5, <1>7, BracketsType
<1>9. t \in Seq(Symbols)
  <2>1. InBrackets("<", s, ">") \in Seq(Symbols) /\ <<>> \in Seq(Symbols)
    BY <1>7, BracketsType, EmptyLeft
  <2> QED BY <1>6, <2>1
<1>10. t \o v \in Seq(Symbols) /\ <<x>> \in Seq(Symbols)
  BY <1>8, <1>9, Concatenated, OneToken
<1>11. InText(<<x>> \o (t \o v), T, 0, b)
  BY <1>1, <1>2, <1>3, <1>4, <1>5, <1>6, Zenon DEF Source
<1>12. PICK f \in Nat : InText(<<x>>, T, 0, f) /\ InText(t \o v, T, f, b)
  BY <1>10, <1>11, InTextJoin
<1>13. f = 1 /\ T[1] = x
  <2>1. 0 = f - 1 /\ T[f] = x
    BY <1>12, InTextOne
  <2>2. f = 1
    BY <2>1
  <2> QED BY <2>1, <2>2
<1>14. PICK g \in Nat : InText(t, T, 1, g) /\ InText(v, T, g, b)
  BY <1>8, <1>9, <1>12, <1>13, InTextJoin
<1>15. b \in Nat /\ T[g + 1] = Token("(") /\ InText(u, T, g + 1, b - 1)
  BY <1>5, <1>7, <1>14, BracketsStand
<1>16. PICK e \in Nat : e = g + 1
  OBVIOUS
<1>17. ListStands(fs, Len(fs), T, e, b - 1) /\ T[e] = Token("(")
  BY <1>4, <1>15, <1>16
<1>18. ASSUME ~k.have_tmpl_args PROVE e = 2
  <2>1. InText(<<>>, T, 1, g)
    BY <1>6, <1>14, <1>18
  <2>2. g = 1
    BY <2>1, InTextNone
  <2> QED BY <1>16, <2>2
<1>19. ASSUME k.have_tmpl_args PROVE T[2] = Token("<") /\ e > 2 /\ ListStands(es, Len(es), T, 2, e - 2)
  <2>1. InText(InBrackets("<", s, ">"), T, 1, g)
    BY <1>6, <1>14, <1>19
  <2>2. T[1 + 1] = Token("<") /\ InText(s, T, 1 + 1, g - 1)
    BY <1>7, <2>1, BracketsStand
  <2>3. 1 + 1 = 2 /\ g - 1 = e - 2
    BY <1>16
  <2>4. T[2] = Token("<") /\ InText(s, T, 2, e - 2)
    BY <2>2, <2>3
  <2>5. 2 <= e - 2
    BY <2>4, InTextTypes
  <2> QED BY <1>3, <1>16, <2>4, <2>5
<1> QED BY <1>1, <1>2, <1>13, <1>15, <1>17, <1>18, <1>19

LEMMA KeyUnique ==
  ASSUME NodesAssumption, TextAssumption, NEW k \in Calls, NEW l \in Calls, Source(k) = Source(l)
  PROVE  KeyEqual(k, l)
<1>1. PICK T : T = Source(k)
  OBVIOUS
<1>2. PICK b : b = 0 + Len(T)
  OBVIOUS
<1>3. InText(Source(k), T, 0, b) /\ InText(Source(l), T, 0, b)
  <2>1. \A q \in 1 .. Len(T) : 0 + q = q
    OBVIOUS
  <2>2. InText(T, T, 0, b)
    BY <1>2, <2>1 DEF InText
  <2> QED BY <1>1, <2>2
<1>4. PICK es, fs \in Seq(Exprs) : es = k.tmpl_args /\ fs = k.call_args
  BY DEF NodesAssumption
<1>5. PICK us, vs \in Seq(Exprs) : us = l.tmpl_args /\ vs = l.call_args
  BY DEF NodesAssumption
<1>6. PICK g \in Nat : /\ T[g] = Token("(") /\ ListStands(fs, Len(fs), T, g, b - 1)
                       /\ ~k.have_tmpl_args => g = 2
                       /\ k.have_tmpl_args => T[2] = Token("<") /\ g > 2 /\ ListStands(es, Len(es), T, 2, g - 2)
  BY <1>3, <1>4, SourceStands
<1>7. PICK h \in Nat : /\ T[h] = Token("(") /\ ListStands(vs, Len(vs), T, h, b - 1)
                       /\ ~l.have_tmpl_args => h = 2
                       /\ l.have_tmpl_args => T[2] = Token("<") /\ h > 2 /\ ListStands(us, Len(us), T, 2, h - 2)
  BY <1>3, <1>5, SourceStands
<1>8. k.fn = l.fn
  <2>1. T[1] = Token(k.fn) /\ T[1] = Token(l.fn)
    BY <1>3, SourceStands
  <2> QED BY <2>1, TokensApart
<1>9. g = h /\ EqualSeq(fs, vs) /\ HashSeq(fs) = HashSeq(vs)
  <2>1. T[g] \in {Token("("), Token("<")} /\ T[h] \in {Token("("), Token("<")}
    BY <1>6, <1>7
  <2> QED BY <1>6, <1>7, <2>1, ListsUnique
<1>10. k.have_tmpl_args \in BOOLEAN /\ l.have_tmpl_args \in BOOLEAN
  BY DEF TextAssumption
<1>11. k.have_tmpl_args = l.have_tmpl_args
  BY <1>6, <1>7, <1>9, <1>10
<1>12. EqualSeq(es, us) /\ HashSeq(es) = HashSeq(us)
  <2>1. CASE k.have_tmpl_args
    <3>1. T[2] \in {Token("("), Token("<")}
      BY <1>6, <2>1
    <3>2. ListStands(es, Len(es), T, 2, g - 2) /\ ListStands(us, Len(us), T, 2, g - 2)
      BY <1>6, <1>7, <1>9, <1>11, <2>1
    <3> QED BY <3>1, <3>2, ListsUnique
  <2>2. CASE ~k.have_tmpl_args
    <3>1. es = <<>> /\ us = <<>>
      BY <1>4, <1>5, <1>11, <2>2 DEF TextAssumption
    <3> QED BY <3>1 DEF EqualSeq
  <2> QED BY <2>1, <2>2
<1>13. KeyHash(k) = KeyHash(l)
  BY <1>4, <1>5, <1>8, <1>9, <1>11, <1>12 DEF KeyHash
<1> QED BY <1>4, <1>5, <1>8, <1>9, <1>11, <1>12, <1>13 DEF KeyEqual

(* Calls that are not equal have different code, so that a new entry never *)
(* has the code of another: what is compiled is compiled once, for all     *)
(* trees of expressions, however hashes collide (expr_all.cpp:172-300,     *)
(* call.cpp:23-38, 119-124).                                               *)
THEOREM CodeCompiledOnce ==
  ASSUME NodesAssumption, TextAssumption PROVE Spec => []CompiledOnce
<1>1. ASSUME NoneFits PROVE CompiledOnce
  <2> SUFFICES ASSUME NEW j \in DOMAIN cache, NEW k \in DOMAIN cache, j # k, cache[j].code = cache[k].code
               PROVE  FALSE
    BY DEF CompiledOnce
  <2>1. cache \in Seq(Entries)
    BY <1>1 DEF NoneFits
  <2>2. DOMAIN cache = 1 .. Len(cache) /\ Len(cache) \in Nat /\ cache[j] \in Entries /\ cache[k] \in Entries
    BY <2>1, CountsFacts
  <2>3. PICK x \in Calls : cache[j].key = x /\ cache[j].code = Source(x)
    BY <2>2 DEF Entries
  <2>4. PICK y \in Calls : cache[k].key = y /\ cache[k].code = Source(y)
    BY <2>2 DEF Entries
  <2>5. KeyEqual(x, y) /\ KeyEqual(y, x)
    BY <2>3, <2>4, KeyUnique
  <2>6. j < k \/ k < j
    BY <2>2
  <2> QED BY <1>1, <2>3, <2>4, <2>5, <2>6 DEF NoneFits
<1>2. NoneFits => CompiledOnce
  BY <1>1
<1> QED BY <1>2, EntriesAreNew, PTL
=============================================================================
