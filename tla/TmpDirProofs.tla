---------------------------- MODULE TmpDirProofs ----------------------------
(***************************************************************************)
(* Proofs about TmpDir, for any number of attempts and any set of children *)
(* of the host.                                                            *)
(***************************************************************************)
EXTENDS TmpDir, TLAPS

LEMMA InitDir == Init => DirInv
  BY AttemptsAssumption
    DEF Init, DirInv, Types, Holding, Cleaning, AttemptsUndone, Initialising, Attempts

LEMMA RemoveDirType ==
  ASSUME Types, at \in Attempts, RemoveDir
  PROVE  /\ dir' \in [Attempts -> {"none", "there", "gone", "stuck"}]
         /\ dir'[at] # "there"
         /\ \A a \in Attempts : a # at => dir'[a] = dir[a]
  BY DEF Types, RemoveDir

LEMMA InitialisingInv ==
  ASSUME DirInv, HostInit
  PROVE  DirInv'
<1> USE DEF DirInv, Types, Holding, Cleaning, AttemptsUndone, Initialising
<1>1. CASE MakeDir
  <2>1. at' = at + 1 /\ at' \in Attempts /\ host = "start" /\ host' = "made"
    BY <1>1, AttemptsAssumption DEF MakeDir, Attempts
  <2>2. /\ dir' \in [Attempts -> {"none", "there", "gone", "stuck"}]
        /\ dir'[at'] = "there"
        /\ \A a \in Attempts : a # at' => dir'[a] = dir[a]
    BY <1>1, <2>1 DEF MakeDir
  <2>3. \A c \in Children : child[c] # "compiler"
    BY <2>1
  <2> QED BY <1>1, <2>1, <2>2, <2>3, AttemptsAssumption DEF MakeDir, Attempts
<1>2. CASE Pipe
  BY <1>2 DEF Pipe
<1>3. CASE PipeFails
  BY <1>3, RemoveDirType DEF PipeFails
<1>4. CASE Fork
  BY <1>4 DEF Fork
<1>5. CASE ForkFails
  BY <1>5, RemoveDirType DEF ForkFails
<1>6. CASE Return
  BY <1>6 DEF Return
<1> QED BY <1>1, <1>2, <1>3, <1>4, <1>5, <1>6 DEF HostInit

LEMMA LivesInv ==
  ASSUME DirInv,
         HostEnds \/ \E c \in Children : StartChild(c) \/ ChildEnds(c)
  PROVE  DirInv'
<1> USE DEF DirInv, Types, Holding, Cleaning, AttemptsUndone, Initialising
<1>1. CASE HostEnds
  <2>1. \A c \in Children : c # Host
    BY ProcessAssumption
  <2> QED BY <1>1, <2>1 DEF HostEnds, Closed
<1>2. ASSUME NEW c \in Children, StartChild(c) PROVE DirInv'
  <2>1. PICK kind \in {"compiler", "other"} :
          /\ host \in IF kind = "compiler" THEN {"ready"} ELSE {"start", "ready"}
          /\ child' = [child EXCEPT ![c] = kind]
    BY <1>2 DEF StartChild
  <2>2. UNCHANGED <<host, at, dir, cleaner>>
    BY <1>2 DEF StartChild
  <2>3. /\ writers' \in [Attempts -> SUBSET ({Host, Cleaner} \union Children)]
        /\ \A a \in Attempts : writers[a] \subseteq writers'[a]
        /\ \A a \in Attempts : Host \in writers[a] => c \in writers'[a]
    BY <1>2 DEF StartChild, Inherited
  <2>4. kind = "compiler" => host = "ready"
    BY <2>1
  <2>5. child' \in [Children -> {"none", "compiler", "other", "ended"}]
    BY <2>1
  <2>6. \A d \in Children : d # c => child'[d] = child[d]
    BY <2>1
  <2>7. child'[c] = kind
    BY <2>1
  <2>8. Holding'
    BY <2>2, <2>3, <2>4, <2>6, <2>7
  <2>9. Cleaning'
    BY <2>2, <2>4, <2>6, <2>7
  <2> QED BY <2>2, <2>3, <2>5, <2>8, <2>9
<1>3. ASSUME NEW c \in Children, ChildEnds(c) PROVE DirInv'
  <2>1. c # Host
    BY ProcessAssumption
  <2>2. /\ writers' \in [Attempts -> SUBSET ({Host, Cleaner} \union Children)]
        /\ \A a \in Attempts : writers'[a] = writers[a] \ {c}
    BY <1>3 DEF ChildEnds, Closed
  <2>3. /\ child' \in [Children -> {"none", "compiler", "other", "ended"}]
        /\ child'[c] = "ended"
        /\ \A d \in Children : d # c => child'[d] = child[d]
    BY <1>3 DEF ChildEnds
  <2>4. UNCHANGED <<host, at, dir, cleaner>>
    BY <1>3 DEF ChildEnds
  <2>5. Holding'
    BY <2>1, <2>2, <2>3, <2>4 DEF Attempts
  <2> QED BY <2>2, <2>3, <2>4, <2>5
<1> QED BY <1>1, <1>2, <1>3

LEMMA CleanerInv ==
  ASSUME DirInv, CleanerDies \/ BlockSignals \/ CleanerStep
  PROVE  DirInv'
<1> USE DEF DirInv, Types, Holding, Cleaning, AttemptsUndone, Initialising
<1>0. Cleaner # Host /\ \A c \in Children : Cleaner # c
  BY ProcessAssumption
<1>1. CASE CleanerDies
  BY <1>0, <1>1 DEF CleanerDies, Closed
<1>2. CASE BlockSignals
  BY <1>2 DEF BlockSignals
<1>3. CASE CloseWriteEnd
  BY <1>0, <1>3 DEF CloseWriteEnd
<1>4. CASE ReadEnds
  BY <1>4 DEF ReadEnds
<1>5. CASE Remove
  BY <1>5, RemoveDirType DEF Remove
<1> QED BY <1>1, <1>2, <1>3, <1>4, <1>5 DEF CleanerStep

LEMMA StepDir == DirInv /\ [Next]_vars => DirInv'
<1> SUFFICES ASSUME DirInv, [Next]_vars PROVE DirInv'
  OBVIOUS
<1>1. CASE UNCHANGED vars
  BY <1>1 DEF vars, DirInv, Types, Holding, Cleaning, AttemptsUndone
<1>2. CASE Over
  BY <1>1, <1>2 DEF Over
<1> QED BY <1>1, <1>2, InitialisingInv, LivesInv, CleanerInv DEF Next

(* Nobody ever finds the directory gone under it, whatever ends first. *)
THEOREM NeverGoneInUse == Safety => []InUseIsThere
<1>1. DirInv => InUseIsThere
  BY DEF DirInv, Holding, InUseIsThere
<1> QED BY <1>1, InitDir, StepDir, PTL DEF Safety

(* Failed attempts leave no directory behind that could be removed. *)
THEOREM FailedAttempts == Safety => []AttemptsUndone
<1>1. DirInv => AttemptsUndone
  BY DEF DirInv
<1> QED BY <1>1, InitDir, StepDir, PTL DEF Safety
=============================================================================
