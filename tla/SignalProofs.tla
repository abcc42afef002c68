----------------------------- MODULE SignalProofs -----------------------------
(***************************************************************************)
(* Proofs about the programs of processes and signals of stopy2, for any   *)
(* number of processes, files of any length, and so on; and, with those of *)
(* ThreadProofs, about the programs that are checked together.             *)
(***************************************************************************)
EXTENDS MCCoursePrograms, ThreadProofs

-----------------------------------------------------------------------------
(* sop-l2.c: copying in parts                                              *)

\* The parts lie behind each other and reach as far as the parent has read.
PartsInOrder ==
    /\ \A c \in Child : child[c] = "none" <=> c >= forked
    /\ \A c \in Child : child[c] = "none" => partSize[c] = 0
    /\ \A c, d \in Child : c < d /\ d < forked => from[c] + partSize[c] <= from[d]
    /\ \A c \in Child : c < forked => from[c] + partSize[c] <= filePos
    /\ \A i \in 0..(filePos - 1) : \E c \in Child : from[c] <= i /\ i < from[c] + partSize[c]
    /\ filePos = file_size \/ filePos = forked * buf_size

CopiedInside ==
    \A c \in Child : /\ copied[c] <= partSize[c]
                     /\ child[c] = "write" => copied[c] < partSize[c]

\* Only SIGINT cuts anything short.
Uninterrupted ==
    interrupts = 0 =>
       /\ intPending = {} /\ parentFlag = FALSE
       /\ \A c \in Child : /\ got_sigint[c] = FALSE
                           /\ child[c] = "exited" => copied[c] = partSize[c]

CopyPhases ==
    /\ parent \in {"kill", "wait", "exited"} => forked = NChildren
    /\ parent = "exited" => \A c \in Child : child[c] = "exited"

CopyIInv == CopyTypeOK /\ PartsInOrder /\ CopiedInside /\ Uninterrupted /\ CopyPhases

LEMMA PartSize ==
  ASSUME CopyTypeOK
  PROVE  /\ NChildren \in Nat \ {0} /\ file_size \in Nat
         /\ buf_size \in Nat /\ NChildren * buf_size > file_size
         /\ \A k \in Nat : k * buf_size \in Nat /\ (k + 1) * buf_size = k * buf_size + buf_size
<1>1. NChildren \in Nat \ {0} /\ file_size \in Nat
  BY CopyAssumption DEF CopyTypeOK
<1> DEFINE q == file_size \div NChildren
<1>2. q \in Nat /\ file_size = NChildren * q + (file_size % NChildren)
      /\ file_size % NChildren \in 0..(NChildren - 1)
  <2>1. \A n \in Nat, m \in Nat \ {0} : n \div m \in Nat
    OBVIOUS
  <2>2. \A n \in Nat, m \in Nat \ {0} : n = m * (n \div m) + (n % m)
    OBVIOUS
  <2>3. \A n \in Nat, m \in Nat \ {0} : n % m \in 0..(m - 1)
    OBVIOUS
  <2> QED
    BY <1>1, <2>1, <2>2, <2>3
<1>3. buf_size = q + 1
  BY DEF buf_size
<1> HIDE DEF q
<1>4. NChildren * (q + 1) = NChildren * q + NChildren
  BY <1>1, <1>2
<1>5. NChildren * (q + 1) > file_size
  BY <1>1, <1>2, <1>4
<1>6. \A k \in Nat : k * (q + 1) \in Nat /\ (k + 1) * (q + 1) = k * (q + 1) + (q + 1)
  BY <1>2
<1> QED
  BY <1>1, <1>2, <1>3, <1>5, <1>6

LEMMA CopyInitHolds == CopyInit => CopyIInv
<1> SUFFICES ASSUME CopyInit PROVE CopyIInv
  OBVIOUS
<1> USE CopyAssumption DEF CopyInit
<1>1. CopyTypeOK
  <2>1. file_size \in Nat /\ 0 \in 0..file_size /\ 0 \in 0..NChildren /\ 0 \in 0..MaxInterrupts
    OBVIOUS
  <2> QED
    BY <2>1 DEF CopyTypeOK
<1>2. PartsInOrder
  <2>1. 0 = 0 * buf_size
    BY <1>1, PartSize
  <2> QED
    BY <2>1 DEF PartsInOrder, Child
<1>3. CopiedInside /\ Uninterrupted /\ CopyPhases
  BY DEF CopiedInside, Uninterrupted, CopyPhases
<1> QED
  BY <1>1, <1>2, <1>3 DEF CopyIInv

\* The parent gives the next child what it reads next.
LEMMA ForkKeeps == CopyIInv /\ ForkChild => CopyIInv'
<1> SUFFICES ASSUME CopyIInv, ForkChild PROVE CopyIInv'
  OBVIOUS
<1> DEFINE left == file_size - filePos
           size == IF left < buf_size THEN left ELSE buf_size
<1>1. CopyTypeOK /\ PartsInOrder /\ CopiedInside /\ Uninterrupted /\ CopyPhases
  BY DEF CopyIInv
<1>2. /\ forked \in Nat /\ forked + 1 \in 0..NChildren /\ forked \in Child
      /\ filePos \in Nat /\ buf_size \in Nat /\ size \in Nat
      /\ filePos + size \in 0..file_size
      /\ filePos + size = file_size \/ size = buf_size
  <2>1. /\ forked \in Nat /\ NChildren \in Nat /\ forked < NChildren
        /\ filePos \in Nat /\ filePos <= file_size /\ file_size \in Nat /\ buf_size \in Nat
    BY <1>1, PartSize DEF ForkChild, CopyTypeOK
  <2>2. forked + 1 \in 0..NChildren /\ forked \in Child
    BY <2>1 DEF Child
  <2> HIDE DEF Child
  <2>3. size \in Nat /\ filePos + size \in 0..file_size
    BY <2>1
  <2>4. filePos + size = file_size \/ size = buf_size
    BY <2>1
  <2> QED
    BY <2>1, <2>2, <2>3, <2>4
<1>3. /\ from' = [from EXCEPT ![forked] = filePos] /\ partSize' = [partSize EXCEPT ![forked] = size]
      /\ filePos' = filePos + size /\ forked' = forked + 1
      /\ child' = [child EXCEPT ![forked] = "start"]
      /\ got_sigint' = [got_sigint EXCEPT ![forked] = parentFlag]
      /\ UNCHANGED <<file_size, parent, intHandler, parentFlag, copied,
                     usr1Pending, intPending, interrupts>>
      /\ parent = "fork"
  BY DEF ForkChild, ChildGoto
<1> HIDE DEF size
<1>4. CopyTypeOK'
  BY <1>1, <1>2, <1>3 DEF CopyTypeOK
<1>5. /\ from'[forked] = filePos /\ partSize'[forked] = size /\ child'[forked] = "start"
      /\ got_sigint'[forked] = parentFlag
      /\ \A c \in Child : c # forked =>
            /\ from'[c] = from[c] /\ partSize'[c] = partSize[c] /\ child'[c] = child[c]
            /\ got_sigint'[c] = got_sigint[c]
  BY <1>1, <1>2, <1>3 DEF CopyTypeOK
<1>6. child[forked] = "none" /\ partSize[forked] = 0 /\ copied[forked] = 0
  <2>1. child[forked] = "none" /\ partSize[forked] = 0
    BY <1>1, <1>2 DEF PartsInOrder
  <2>2. copied[forked] \in Nat /\ copied[forked] <= 0
    BY <1>1, <1>2, <2>1 DEF CopiedInside, CopyTypeOK
  <2> QED
    BY <2>1, <2>2
<1>7. \A c \in Child : c \in Nat /\ from[c] \in Nat /\ partSize[c] \in Nat /\ copied[c] \in Nat
  BY <1>1 DEF CopyTypeOK, Child
<1>8. PartsInOrder'
  <2>1. \A c \in Child : child'[c] = "none" <=> c >= forked'
    <3>1. \A c \in Child : child[c] = "none" <=> c >= forked
      BY <1>1 DEF PartsInOrder
    <3> QED
      BY <1>2, <1>3, <1>5, <1>7, <3>1
  <2>2. \A c \in Child : child'[c] = "none" => partSize'[c] = 0
    BY <1>1, <1>5 DEF PartsInOrder
  <2>3. \A c \in Child : c < forked => from[c] + partSize[c] <= filePos
    BY <1>1 DEF PartsInOrder
  <2>4. \A c, d \in Child : c < d /\ d < forked' => from'[c] + partSize'[c] <= from'[d]
    <3>1. \A c, d \in Child : c < d /\ d < forked => from[c] + partSize[c] <= from[d]
      BY <1>1 DEF PartsInOrder
    <3> SUFFICES ASSUME NEW c \in Child, NEW d \in Child, c < d, d < forked + 1
                 PROVE  from'[c] + partSize'[c] <= from'[d]
      BY <1>3
    <3>2. c # forked
      BY <1>2, <1>7
    <3>3. CASE d = forked
      BY <1>5, <1>7, <2>3, <3>2, <3>3
    <3>4. CASE d # forked
      <4>1. d < forked
        BY <1>2, <1>7, <3>4
      <4>2. from[c] + partSize[c] <= from[d]
        BY <3>1, <4>1
      <4>3. from'[c] = from[c] /\ partSize'[c] = partSize[c] /\ from'[d] = from[d]
        BY <1>5, <3>2, <3>4
      <4> QED
        BY <4>2, <4>3
    <3> QED
      BY <3>3, <3>4
  <2>5. \A c \in Child : c < forked' => from'[c] + partSize'[c] <= filePos'
    <3> SUFFICES ASSUME NEW c \in Child, c < forked + 1
                 PROVE  from'[c] + partSize'[c] <= filePos + size
      BY <1>3
    <3>1. CASE c = forked
      BY <1>2, <1>5, <3>1
    <3>2. CASE c # forked
      <4>1. from[c] + partSize[c] <= filePos
        BY <1>2, <1>7, <2>3, <3>2
      <4>2. from'[c] + partSize'[c] = from[c] + partSize[c]
        BY <1>5, <3>2
      <4>3. from[c] + partSize[c] <= filePos + size
        BY <1>2, <1>7, <4>1
      <4> QED
        BY <4>2, <4>3
    <3> QED
      BY <3>1, <3>2
  <2>6. \A i \in 0..(filePos' - 1) : \E c \in Child : from'[c] <= i /\ i < from'[c] + partSize'[c]
    <3> SUFFICES ASSUME NEW i \in 0..(filePos + size - 1)
                 PROVE  \E c \in Child : from'[c] <= i /\ i < from'[c] + partSize'[c]
      <4>1. filePos' = filePos + size
        BY <1>3
      <4> QED
        BY <1>2, <4>1
    <3>1. CASE i < filePos
      <4>1. PICK c \in Child : from[c] <= i /\ i < from[c] + partSize[c]
        BY <1>1, <1>2, <3>1 DEF PartsInOrder
      <4>2. c # forked
        BY <1>2, <1>6, <1>7, <4>1
      <4> QED
        BY <1>5, <4>1, <4>2
    <3>2. CASE ~(i < filePos)
      BY <1>2, <1>5, <3>2
    <3> QED
      BY <3>1, <3>2
  <2>7. filePos' = file_size' \/ filePos' = forked' * buf_size'
    <3>1. buf_size' = buf_size
      BY <1>3 DEF buf_size
    <3>2. (forked + 1) * buf_size = forked * buf_size + buf_size
      BY <1>1, <1>2, PartSize
    <3>3. CASE filePos + size = file_size
      BY <1>3, <3>3
    <3>4. CASE size = buf_size /\ filePos = forked * buf_size
      BY <1>3, <3>1, <3>2, <3>4
    <3>5. filePos = file_size => filePos + size = file_size
      BY <1>1, <1>2 DEF CopyTypeOK
    <3> QED
      BY <1>1, <1>2, <3>3, <3>4, <3>5 DEF PartsInOrder
  <2> QED
    BY <2>1, <2>2, <2>4, <2>5, <2>6, <2>7 DEF PartsInOrder
<1>9. CopiedInside'
  BY <1>1, <1>2, <1>3, <1>5, <1>6 DEF CopiedInside
<1>10. Uninterrupted'
  BY <1>1, <1>3, <1>5 DEF Uninterrupted
<1>11. CopyPhases'
  BY <1>3 DEF CopyPhases
<1> QED
  BY <1>4, <1>8, <1>9, <1>10, <1>11 DEF CopyIInv

LEMMA PartsStay ==
  ASSUME PartsInOrder, UNCHANGED <<file_size, filePos, forked, from, partSize>>,
         \A c \in Child : child'[c] = "none" <=> child[c] = "none"
  PROVE  PartsInOrder'
BY DEF PartsInOrder, buf_size

LEMMA ChildKeeps == ASSUME CopyIInv, NEW c \in Child, ChildCopies(c) PROVE CopyIInv'
<1>1. CopyTypeOK /\ PartsInOrder /\ CopiedInside /\ Uninterrupted /\ CopyPhases
  BY DEF CopyIInv
<1>2. /\ UNCHANGED <<parentVars, from, partSize, interrupts>>
      /\ \E l \in {"start", "sigsuspend", "test", "write", "exited", child[c]} :
            /\ child' = [child EXCEPT ![c] = l]
            /\ child[c] = "none" <=> l = "none"
            /\ child[c] = "exited" => l = "exited"
  BY DEF ChildCopies, Suspend, TakeUsr1, ChildTakesInt, TestCopied, WriteByte, ChildGoto
<1>3. PICK l \in {"start", "sigsuspend", "test", "write", "exited", child[c]} :
            /\ child' = [child EXCEPT ![c] = l]
            /\ child[c] = "none" <=> l = "none"
            /\ child[c] = "exited" => l = "exited"
  BY <1>2
<1>4. child'[c] = l /\ \A d \in Child : d # c => child'[d] = child[d]
  BY <1>1, <1>3 DEF CopyTypeOK
<1>5. PartsInOrder'
  BY <1>1, <1>2, <1>3, <1>4, PartsStay DEF parentVars
<1>6. CopyPhases'
  BY <1>1, <1>2, <1>3, <1>4 DEF CopyPhases, parentVars
<1>7. CASE Suspend(c) \/ TakeUsr1(c)
  <2>1. /\ UNCHANGED <<got_sigint, copied, intPending>> /\ usr1Pending' \subseteq usr1Pending
        /\ child'[c] \in {"sigsuspend", "test"}
    BY <1>1, <1>7 DEF Suspend, TakeUsr1, ChildGoto, CopyTypeOK
  <2>2. CopyTypeOK'
    BY <1>1, <1>2, <1>3, <2>1 DEF CopyTypeOK, parentVars
  <2>3. CopiedInside'
    BY <1>1, <1>2, <1>4, <2>1 DEF CopiedInside
  <2>4. Uninterrupted'
    BY <1>1, <1>2, <1>4, <2>1 DEF Uninterrupted, parentVars
  <2> QED
    BY <1>5, <1>6, <2>2, <2>3, <2>4 DEF CopyIInv
<1>8. CASE ChildTakesInt(c)
  <2>1. /\ UNCHANGED <<copied, usr1Pending>> /\ intPending' \subseteq intPending /\ intPending # {}
        /\ got_sigint' = [got_sigint EXCEPT ![c] = TRUE]
        /\ child'[c] = "write" => child[c] = "write"
    BY <1>1, <1>8 DEF ChildTakesInt, ChildGoto, CopyTypeOK
  <2>2. CopyTypeOK'
    BY <1>1, <1>2, <1>3, <2>1 DEF CopyTypeOK, parentVars
  <2>3. CopiedInside'
    BY <1>1, <1>2, <1>4, <2>1 DEF CopiedInside
  <2>4. Uninterrupted'
    BY <1>1, <1>2, <2>1 DEF Uninterrupted
  <2> QED
    BY <1>5, <1>6, <2>2, <2>3, <2>4 DEF CopyIInv
<1>9. CASE TestCopied(c)
  <2>1. /\ UNCHANGED <<copied, got_sigint>> /\ intPending' \subseteq intPending
        /\ usr1Pending' \subseteq usr1Pending
        /\ child[c] = "test"
        /\ \/ child'[c] = "write" /\ copied[c] < partSize[c]
           \/ child'[c] = "exited" /\ (~(copied[c] < partSize[c]) \/ got_sigint[c])
    BY <1>1, <1>9 DEF TestCopied, ChildGoto, CopyTypeOK
  <2>2. CopyTypeOK'
    BY <1>1, <1>2, <1>3, <2>1 DEF CopyTypeOK, parentVars
  <2>3. CopiedInside'
    BY <1>1, <1>2, <1>4, <2>1 DEF CopiedInside
  <2>4. ~(copied[c] < partSize[c]) => copied[c] = partSize[c]
    BY <1>1 DEF CopiedInside, CopyTypeOK
  <2>5. Uninterrupted'
    BY <1>1, <1>2, <1>4, <2>1, <2>4 DEF Uninterrupted, parentVars
  <2> QED
    BY <1>5, <1>6, <2>2, <2>3, <2>5 DEF CopyIInv
<1>10. CASE WriteByte(c)
  <2>1. /\ UNCHANGED <<got_sigint, usr1Pending, intPending>>
        /\ copied' = [copied EXCEPT ![c] = copied[c] + 1]
        /\ child[c] = "write" /\ child'[c] = "test"
    BY <1>1, <1>10 DEF WriteByte, ChildGoto, CopyTypeOK
  <2>2. copied[c] \in Nat /\ partSize[c] \in Nat /\ copied[c] < partSize[c]
    BY <1>1, <2>1 DEF CopyTypeOK, CopiedInside
  <2>3. copied[c] + 1 \in Nat /\ copied[c] + 1 <= partSize[c]
    BY <2>2
  <2>4. copied'[c] = copied[c] + 1 /\ \A d \in Child : d # c => copied'[d] = copied[d]
    BY <1>1, <2>1 DEF CopyTypeOK
  <2>5. CopyTypeOK'
    BY <1>1, <1>2, <1>3, <2>1, <2>3 DEF CopyTypeOK, parentVars
  <2>6. CopiedInside'
    BY <1>1, <1>2, <1>4, <2>1, <2>3, <2>4 DEF CopiedInside
  <2>7. Uninterrupted'
    BY <1>1, <1>2, <1>4, <2>1, <2>4 DEF Uninterrupted, parentVars
  <2> QED
    BY <1>5, <1>6, <2>5, <2>6, <2>7 DEF CopyIInv
<1> QED
  BY <1>7, <1>8, <1>9, <1>10 DEF ChildCopies

LEMMA CopyNextHolds == CopyIInv /\ [CopyNext]_copyVars => CopyIInv'
<1> SUFFICES ASSUME CopyIInv, [CopyNext]_copyVars PROVE CopyIInv'
  OBVIOUS
<1>1. CopyTypeOK /\ PartsInOrder /\ CopiedInside /\ Uninterrupted /\ CopyPhases
  BY DEF CopyIInv
<1>2. Living \subseteq Child
  BY DEF Living
<1>3. CASE UNCHANGED <<file_size, filePos, forked, childVars>>
  <2>1. PartsInOrder' /\ CopiedInside'
    BY <1>1, <1>3, PartsStay DEF CopiedInside, childVars
  <2>2. CASE ChangeHandlers
    BY <1>1, <1>3, <2>1, <2>2 DEF ChangeHandlers, CopyTypeOK, Uninterrupted, CopyPhases, childVars, CopyIInv
  <2>3. CASE StartChildren
    BY <1>1, <1>2, <1>3, <2>1, <2>3 DEF StartChildren, CopyTypeOK, Uninterrupted, CopyPhases, childVars, CopyIInv
  <2>4. CASE ParentExits
    BY <1>1, <1>3, <2>1, <2>4 DEF ParentExits, CopyTypeOK, Uninterrupted, CopyPhases, childVars, CopyIInv
  <2>5. CASE ParentTakesInt
    <3>1. CopyTypeOK'
      BY <1>1, <1>2, <1>3, <2>5 DEF ParentTakesInt, CopyTypeOK, childVars
    <3>2. Uninterrupted'
      BY <1>1, <2>5 DEF ParentTakesInt, Uninterrupted
    <3>3. CopyPhases'
      BY <1>1, <1>3, <2>5 DEF ParentTakesInt, CopyPhases, childVars
    <3> QED
      BY <2>1, <3>1, <3>2, <3>3 DEF CopyIInv
  <2>6. CASE InterruptCopy
    <3>1. interrupts' \in 0..MaxInterrupts /\ interrupts' # 0 /\ UNCHANGED <<parentVars, childVars, usr1Pending>>
      BY <1>1, <2>6, CopyAssumption DEF InterruptCopy, CopyTypeOK
    <3>2. intPending' \subseteq Child \cup {Parent}
      BY <1>1, <1>2, <2>6 DEF InterruptCopy, CopyTypeOK
    <3>3. CopyTypeOK'
      BY <1>1, <3>1, <3>2 DEF CopyTypeOK, parentVars, childVars
    <3>4. Uninterrupted' /\ CopyPhases'
      BY <1>1, <3>1 DEF Uninterrupted, CopyPhases, parentVars, childVars
    <3> QED
      BY <2>1, <3>3, <3>4 DEF CopyIInv
  <2>7. CASE UNCHANGED copyVars
    <3>1. CopyTypeOK'
      BY <1>1, <2>7 DEF CopyTypeOK, copyVars, parentVars, childVars
    <3>2. Uninterrupted' /\ CopyPhases'
      BY <1>1, <2>7 DEF Uninterrupted, CopyPhases, copyVars, parentVars, childVars
    <3> QED
      BY <2>1, <3>1, <3>2 DEF CopyIInv
  <2>8. ChangeHandlers \/ StartChildren \/ ParentExits \/ ParentTakesInt \/ InterruptCopy
        \/ UNCHANGED copyVars \/ ForkChild \/ \E c \in Child : ChildCopies(c)
    BY DEF CopyNext, ParentStep
  <2> QED
    BY <2>2, <2>3, <2>4, <2>5, <2>6, <2>7, <2>8, ForkKeeps, ChildKeeps
<1>4. CASE ~UNCHANGED <<file_size, filePos, forked, childVars>>
  <2>1. ForkChild \/ \E c \in Child : ChildCopies(c)
    BY <1>4 DEF CopyNext, ParentStep, ChangeHandlers, StartChildren, ParentExits, ParentTakesInt,
       InterruptCopy, copyVars, parentVars, childVars
  <2> QED
    BY <2>1, ForkKeeps, ChildKeeps
<1> QED
  BY <1>3, <1>4

\* sop-l2.c: the inductive invariant; the parts given out lie end to end, and
\* what a child has copied lies in its part.
THEOREM CopyInvariance == CopySpec => []CopyIInv
  BY CopyInitHolds, CopyNextHolds, PTL DEF CopySpec

\* The variables of the copying program keep their types.
THEOREM CopyTypeCorrect == CopySpec => []CopyTypeOK
<1>1. CopyIInv => CopyTypeOK
  BY DEF CopyIInv
<1> QED
  BY <1>1, CopyInvariance, PTL

\* No byte of the file is copied twice; without SIGINT none is left out.
THEOREM EveryByteOnceHolds == CopySpec => []EveryByteOnce
<1>1. CopyIInv => EveryByteOnce
  <2> SUFFICES ASSUME CopyIInv PROVE EveryByteOnce
    OBVIOUS
  <2>1. CopyTypeOK /\ PartsInOrder /\ CopiedInside /\ Uninterrupted /\ CopyPhases
    BY DEF CopyIInv
  <2>2. \A c \in Child : /\ c \in Nat /\ from[c] \in Nat /\ partSize[c] \in Nat /\ copied[c] \in Nat
                        /\ copied[c] <= partSize[c] /\ (c >= forked => partSize[c] = 0)
    BY <2>1 DEF CopyTypeOK, Child, CopiedInside, PartsInOrder
  <2>3. \A c, d \in Child : c < d /\ d < forked => from[c] + partSize[c] <= from[d]
    BY <2>1 DEF PartsInOrder
  <2>4. ASSUME NEW i \in 0..(file_size - 1), NEW c \in Child, NEW d \in Child,
               Wrote(c, i), Wrote(d, i), c < d
        PROVE  FALSE
    <3>1. i \in Int /\ from[c] + copied[c] > i /\ from[d] <= i /\ i < from[d] + copied[d]
      BY <2>4 DEF Wrote
    <3>2. copied[d] > 0
      BY <2>2, <3>1
    <3>3. d < forked
      <4>1. forked \in Nat
        BY <2>1 DEF CopyTypeOK
      <4>2. partSize[d] # 0
        BY <2>2, <3>2
      <4> QED
        BY <2>2, <4>1, <4>2
    <3>4. from[c] + partSize[c] <= from[d]
      BY <2>3, <2>4, <3>3
    <3> QED
      BY <2>2, <3>1, <3>4
  <2>5. ASSUME parent = "exited", interrupts = 0, NEW i \in 0..(file_size - 1)
        PROVE  \E c \in Child : Wrote(c, i)
    <3>1. forked = NChildren /\ \A c \in Child : copied[c] = partSize[c]
      BY <2>1, <2>5 DEF CopyPhases, Uninterrupted
    <3>2. filePos = file_size
      <4>1. NChildren * buf_size > file_size /\ filePos <= file_size
            /\ filePos \in Nat /\ file_size \in Nat
        BY <2>1, PartSize DEF CopyTypeOK
      <4>2. filePos # NChildren * buf_size
        BY <4>1
      <4> QED
        BY <2>1, <3>1, <4>2 DEF PartsInOrder
    <3>3. PICK c \in Child : from[c] <= i /\ i < from[c] + partSize[c]
      BY <2>1, <2>5, <3>2 DEF PartsInOrder
    <3> QED
      BY <3>1, <3>3 DEF Wrote
  <2>6. \A c, d \in Child : c # d => c < d \/ d < c
    BY <2>2
  <2> QED
    BY <2>4, <2>5, <2>6 DEF EveryByteOnce
<1> QED
  BY <1>1, CopyInvariance, PTL

-----------------------------------------------------------------------------
(* zadanie1.c: blocks written after an alarm                               *)

AlarmIInv ==
    /\ AlarmTypeOK /\ BlocksAsked
    /\ \A w \in Writer : writer[w] = "write" => w \in got_alarm

LEMMA AlarmInitHolds == AlarmInit => AlarmIInv
<1> SUFFICES ASSUME AlarmInit PROVE AlarmIInv
  OBVIOUS
<1>1. 0 \in 0..Rounds
  BY WriterAssumption
<1> QED
  BY <1>1 DEF AlarmInit, AlarmIInv, AlarmTypeOK, BlocksAsked

LEMMA WriterKeeps ==
  ASSUME AlarmIInv, NEW w \in Writer, WriterStep(w) \/ WriterSignal(w)
  PROVE  AlarmIInv'
<1>1. AlarmTypeOK /\ BlocksAsked /\ \A v \in Writer : writer[v] = "write" => v \in got_alarm
  BY DEF AlarmIInv
<1>2. Rounds \in Nat /\ round \in Nat /\ round <= Rounds
  BY <1>1, WriterAssumption DEF AlarmTypeOK
<1>3. /\ sigCount[w] \in Nat /\ written[w] \in Nat /\ written[w] <= sigCount[w]
      /\ sigCount[w] <= round
      /\ w \in usr1Waits => sigCount[w] + 1 <= round
  BY <1>1, <1>2 DEF BlocksAsked, AlarmTypeOK
<1>4. CASE SetAlarm(w) \/ TestAlarm(w) \/ SuspendWriter(w)
  <2>1. UNCHANGED <<forkedWriters, round, source, got_alarm, sigCount, written, usr1Waits>>
    BY <1>4 DEF SetAlarm, TestAlarm, SuspendWriter
  <2>2. AlarmTypeOK'
    BY <1>1, <1>4 DEF SetAlarm, TestAlarm, SuspendWriter, WriterGoto, AlarmTypeOK
  <2>3. \A v \in Writer : writer'[v] = "write" => v \in got_alarm
    BY <1>1, <1>4 DEF SetAlarm, TestAlarm, SuspendWriter, WriterGoto, AlarmTypeOK
  <2>4. BlocksAsked'
    BY <1>1, <2>1 DEF BlocksAsked
  <2> QED
    BY <2>1, <2>2, <2>3, <2>4 DEF AlarmIInv
<1>5. CASE WriteBlock(w)
  <2>1. CASE written[w] < sigCount[w]
    <3>1. /\ written' = [written EXCEPT ![w] = written[w] + 1]
          /\ UNCHANGED <<forkedWriters, round, source, writer, rings, got_alarm, sigCount, usr1Waits>>
          /\ w \in got_alarm
      BY <1>1, <1>5, <2>1 DEF WriteBlock
    <3>2. written[w] + 1 \in 0..Rounds /\ written[w] + 1 <= sigCount[w]
      BY <1>2, <1>3, <2>1
    <3>3. AlarmTypeOK'
      BY <1>1, <3>1, <3>2 DEF AlarmTypeOK
    <3>4. BlocksAsked'
      <4>1. written'[w] = written[w] + 1 /\ \A v \in Writer : v # w => written'[v] = written[v]
        BY <1>1, <3>1 DEF AlarmTypeOK
      <4> QED
        BY <1>1, <3>1, <3>2, <4>1 DEF BlocksAsked
    <3> QED
      BY <1>1, <3>1, <3>3, <3>4 DEF AlarmIInv
  <2>2. CASE ~(written[w] < sigCount[w])
    <3>1. /\ writer' = [writer EXCEPT ![w] = "exited"] /\ usr1Waits' = usr1Waits \ {w}
          /\ UNCHANGED <<forkedWriters, round, source, rings, got_alarm, sigCount, written>>
      BY <1>5, <2>2 DEF WriteBlock, WriterGoto
    <3>2. AlarmTypeOK'
      BY <1>1, <3>1 DEF AlarmTypeOK
    <3>3. BlocksAsked'
      BY <1>1, <1>3, <3>1 DEF BlocksAsked
    <3>4. \A v \in Writer : writer'[v] = "write" => v \in got_alarm
      BY <1>1, <3>1 DEF AlarmTypeOK
    <3> QED
      BY <3>1, <3>2, <3>3, <3>4 DEF AlarmIInv
  <2> QED
    BY <2>1, <2>2
<1>6. CASE child_sigalrm_handler(w) \/ child_sigusr1_handler(w)
  <2>1. writer' = [writer EXCEPT ![w] = IF writer[w] = "sigsuspend" THEN "test" ELSE writer[w]]
        /\ UNCHANGED <<forkedWriters, round, source, written>>
    BY <1>6 DEF child_sigalrm_handler, child_sigusr1_handler, Awake, WriterGoto
  <2>2. \A v \in Writer : writer'[v] = "write" => v \in got_alarm
    BY <1>1, <2>1 DEF AlarmTypeOK
  <2>3. CASE child_sigalrm_handler(w)
    <3>1. /\ rings' = [rings EXCEPT ![w] = "rung"] /\ got_alarm' = got_alarm \cup {w}
          /\ UNCHANGED <<sigCount, usr1Waits>>
      BY <2>3 DEF child_sigalrm_handler
    <3>2. AlarmTypeOK'
      BY <1>1, <2>1, <3>1 DEF AlarmTypeOK
    <3>3. BlocksAsked'
      BY <1>1, <2>1, <3>1 DEF BlocksAsked
    <3> QED
      BY <2>2, <3>1, <3>2, <3>3 DEF AlarmIInv
  <2>4. CASE child_sigusr1_handler(w)
    <3>1. /\ w \in usr1Waits /\ usr1Waits' = usr1Waits \ {w}
          /\ sigCount' = [sigCount EXCEPT ![w] = sigCount[w] + 1]
          /\ UNCHANGED <<rings, got_alarm>>
      BY <2>4 DEF child_sigusr1_handler
    <3>2. sigCount[w] + 1 \in 0..Rounds /\ sigCount[w] + 1 <= round /\ written[w] <= sigCount[w] + 1
      BY <1>2, <1>3, <3>1
    <3>3. sigCount'[w] = sigCount[w] + 1 /\ \A v \in Writer : v # w => sigCount'[v] = sigCount[v]
      BY <1>1, <3>1 DEF AlarmTypeOK
    <3>4. AlarmTypeOK'
      BY <1>1, <2>1, <3>1, <3>2 DEF AlarmTypeOK
    <3>5. BlocksAsked'
      BY <1>1, <2>1, <3>1, <3>2, <3>3 DEF BlocksAsked
    <3> QED
      BY <2>2, <3>1, <3>4, <3>5 DEF AlarmIInv
  <2> QED
    BY <1>6, <2>3, <2>4
<1> QED
  BY <1>4, <1>5, <1>6 DEF WriterStep, WriterSignal

LEMMA AlarmNextHolds == AlarmIInv /\ [AlarmNext]_alarmVars => AlarmIInv'
<1> SUFFICES ASSUME AlarmIInv, [AlarmNext]_alarmVars PROVE AlarmIInv'
  OBVIOUS
<1>1. AlarmTypeOK /\ BlocksAsked /\ \A v \in Writer : writer[v] = "write" => v \in got_alarm
  BY DEF AlarmIInv
<1>2. CASE ForkWriter
  <2>1. PICK w \in Writer : writer' = [writer EXCEPT ![w] = "start"]
                            /\ forkedWriters' = forkedWriters \cup {w}
    BY <1>2 DEF ForkWriter, WriterGoto
  <2>2. UNCHANGED <<round, rings, got_alarm, sigCount, written, usr1Waits>>
        /\ source' \in {"send", "fork"}
    BY <1>2 DEF ForkWriter
  <2>3. AlarmTypeOK'
    BY <1>1, <2>1, <2>2 DEF AlarmTypeOK
  <2>4. BlocksAsked'
    BY <1>1, <2>2 DEF BlocksAsked
  <2>5. \A v \in Writer : writer'[v] = "write" => v \in got_alarm
    BY <1>1, <2>1 DEF AlarmTypeOK
  <2> QED
    BY <2>2, <2>3, <2>4, <2>5 DEF AlarmIInv
<1>3. CASE SendRound
  <2>1. /\ round' = round + 1 /\ usr1Waits' = usr1Waits \cup AliveWriters /\ AliveWriters \subseteq Writer
        /\ UNCHANGED <<forkedWriters, source, writer, rings, got_alarm, sigCount, written>>
    BY <1>3 DEF SendRound, AliveWriters, writerVars
  <2>2. round \in Nat /\ round + 1 \in 0..Rounds
    BY <1>1, <1>3, WriterAssumption DEF SendRound, AlarmTypeOK
  <2>3. AlarmTypeOK'
    BY <1>1, <2>1, <2>2 DEF AlarmTypeOK
  <2>4. ASSUME NEW v \in Writer PROVE sigCount[v] + 1 <= round + 1 /\ sigCount[v] <= round + 1
    <3>1. sigCount[v] \in Nat /\ sigCount[v] <= round
      BY <1>1, <2>2 DEF BlocksAsked, AlarmTypeOK
    <3> QED
      BY <2>2, <3>1
  <2>5. BlocksAsked'
    <3>1. \A v \in Writer : sigCount[v] \in Nat
      BY <1>1 DEF AlarmTypeOK
    <3> QED
      BY <1>1, <2>1, <2>4, <3>1 DEF BlocksAsked
  <2> QED
    BY <1>1, <2>1, <2>3, <2>5 DEF AlarmIInv
<1>4. CASE SentAll \/ SourceExits \/ UNCHANGED alarmVars
  <2>1. UNCHANGED <<forkedWriters, round, writer, rings, got_alarm, sigCount, written, usr1Waits>>
        /\ source' \in {source, "wait", "exited"}
    BY <1>4 DEF SentAll, SourceExits, alarmVars, writerVars
  <2> QED
    BY <1>1, <2>1 DEF AlarmIInv, AlarmTypeOK, BlocksAsked
<1> QED
  BY <1>2, <1>3, <1>4, WriterKeeps DEF AlarmNext, SourceStep

\* zadanie1.c: a child writes only after its alarm, and no more blocks than it
\* has counted signals, of which there are no more than rounds.
THEOREM AlarmInvariance == AlarmSpec => []AlarmIInv
  BY AlarmInitHolds, AlarmNextHolds, PTL DEF AlarmSpec

-----------------------------------------------------------------------------
(* zadanie2.c: the kindergarten                                            *)

\* Where a cough is known, somebody has coughed, and who coughs or sleeps is ill.
CoughsKnown ==
    /\ coughPending \cup got_usr1 # {} => coughed # {}
    /\ \A c \in Kid : kid[c] = "sleep" => c \in sick

KindergartenIInv == KindergartenTypeOK /\ IllnessHasCause /\ CoughsKnown

LEMMA KindergartenInitHolds == KindergartenInit => KindergartenIInv
<1> SUFFICES ASSUME KindergartenInit PROVE KindergartenIInv
  OBVIOUS
<1>1. 0 \in Kid
  BY KidAssumption DEF Kid
<1> QED
  BY <1>1 DEF KindergartenInit, KindergartenIInv, KindergartenTypeOK, IllnessHasCause, CoughsKnown

LEMMA KindergartenNextHolds ==
  KindergartenIInv /\ [KindergartenNext]_kindergartenVars => KindergartenIInv'
<1> SUFFICES ASSUME KindergartenIInv, [KindergartenNext]_kindergartenVars PROVE KindergartenIInv'
  OBVIOUS
<1>1. KindergartenTypeOK /\ IllnessHasCause /\ CoughsKnown
  BY DEF KindergartenIInv
<1>2. \A s : Handles(s) \subseteq Kid
  BY DEF Handles
<1>3. ASSUME NEW c \in Kid, KidStep(c) PROVE KindergartenIInv'
  <2>1. CASE InstallHandler(c) \/ TestSignals(c) \/ LeaveKindergarten(c)
    <3>1. PICK l \in {"SIGALRM", "SIGUSR1", "test", "leave", "play", "exited"} :
            /\ kid' = [kid EXCEPT ![c] = l]
            /\ l \in {"leave", "exited"} => c \in parents_came \cup told \/ kid[c] = "leave"
      BY <2>1 DEF InstallHandler, TestSignals, LeaveKindergarten, KidGoto
    <3>2. /\ UNCHANGED <<sick, alarmSet, parents_came, told, got_usr1, coughed, carer>>
          /\ coughPending' \subseteq coughPending /\ termPending' \subseteq termPending
      BY <2>1 DEF InstallHandler, TestSignals, LeaveKindergarten
    <3>3. kid'[c] = l /\ \A d \in Kid : d # c => kid'[d] = kid[d]
      BY <1>1, <3>1 DEF KindergartenTypeOK
    <3>4. KindergartenTypeOK'
      BY <1>1, <3>1, <3>2 DEF KindergartenTypeOK
    <3>5. l \in {"leave", "exited"} => c \in parents_came \cup told
      BY <1>1, <3>1 DEF IllnessHasCause
    <3>6. IllnessHasCause'
      BY <1>1, <3>2, <3>3, <3>5 DEF IllnessHasCause
    <3>7. CoughsKnown'
      BY <1>1, <3>1, <3>2, <3>3 DEF CoughsKnown
    <3> QED
      BY <3>4, <3>6, <3>7 DEF KindergartenIInv
  <2>2. CASE Play(c)
    <3>1. /\ kid' = [kid EXCEPT ![c] = IF c \in sick' THEN "sleep" ELSE "test"]
          /\ got_usr1' = got_usr1 \ {c}
          /\ UNCHANGED <<parents_came, told, coughed, coughPending, termPending, carer>>
          /\ \/ c \in got_usr1 /\ c \notin sick /\ sick' = sick \cup {c} /\ alarmSet' = alarmSet \cup {c}
             \/ sick' = sick /\ alarmSet' = alarmSet
      BY <2>2 DEF Play, KidGoto
    <3>2. /\ kid'[c] \in {"sleep", "test"} /\ (kid'[c] = "sleep" => c \in sick')
          /\ \A d \in Kid : d # c => kid'[d] = kid[d]
      BY <1>1, <3>1 DEF KindergartenTypeOK
    <3>3. KindergartenTypeOK'
      BY <1>1, <3>1 DEF KindergartenTypeOK
    <3>4. c \in got_usr1 /\ c \notin sick => \E d \in coughed : d # c
      BY <1>1 DEF CoughsKnown, IllnessHasCause
    <3>5. IllnessHasCause'
      BY <1>1, <3>1, <3>2, <3>4 DEF IllnessHasCause
    <3>6. CoughsKnown'
      BY <1>1, <3>1, <3>2 DEF CoughsKnown
    <3> QED
      BY <3>3, <3>5, <3>6 DEF KindergartenIInv
  <2>3. CASE Cough(c)
    <3>1. /\ kid[c] = "sleep" /\ c \in sick
          /\ UNCHANGED <<sick, alarmSet, parents_came, told, got_usr1, termPending, carer>>
      BY <1>1, <2>3 DEF Cough, CoughsKnown
    <3>2. \/ /\ c \in told /\ kid' = [kid EXCEPT ![c] = "leave"] /\ UNCHANGED <<coughed, coughPending>>
          \/ /\ coughed' = coughed \cup {c} /\ coughPending' = coughPending \cup Handles("SIGUSR1")
             /\ kid' = [kid EXCEPT ![c] = "test"]
      BY <2>3 DEF Cough, KidGoto
    <3>3. KindergartenTypeOK'
      BY <1>1, <1>2, <3>1, <3>2 DEF KindergartenTypeOK
    <3>4. /\ \A d \in Kid : d # c => kid'[d] = kid[d]
          /\ kid'[c] = "test" \/ (kid'[c] = "leave" /\ c \in told)
      BY <1>1, <3>2 DEF KindergartenTypeOK
    <3>5. IllnessHasCause'
      BY <1>1, <3>1, <3>2, <3>4 DEF IllnessHasCause
    <3>6. CoughsKnown'
      BY <1>1, <3>1, <3>2, <3>4 DEF CoughsKnown
    <3> QED
      BY <3>3, <3>5, <3>6 DEF KindergartenIInv
  <2> QED
    BY <1>3, <2>1, <2>2, <2>3 DEF KidStep
<1>4. ASSUME NEW c \in Kid, TakeCough(c) \/ TakeTerm(c) PROVE KindergartenIInv'
  <2>1. UNCHANGED <<kid, sick, alarmSet, parents_came, coughed, carer>>
        /\ coughPending' \cup got_usr1' \subseteq coughPending \cup got_usr1
        /\ told \subseteq told' /\ told' \subseteq told \cup {c} /\ termPending' \subseteq termPending
    BY <1>4 DEF TakeCough, TakeTerm
  <2>2. KindergartenTypeOK'
    BY <1>1, <2>1 DEF KindergartenTypeOK
  <2>3. IllnessHasCause'
    BY <1>1, <2>1 DEF IllnessHasCause
  <2>4. CoughsKnown'
    BY <1>1, <2>1 DEF CoughsKnown
  <2> QED
    BY <2>2, <2>3, <2>4 DEF KindergartenIInv
<1>5. ASSUME NEW c \in Kid, Alarm(c) PROVE KindergartenIInv'
  <2>1. /\ c \in sick /\ alarmSet' = alarmSet \ {c}
        /\ UNCHANGED <<sick, told, got_usr1, coughed, coughPending, carer>>
        /\ \/ parents_came' = parents_came \cup {c} /\ UNCHANGED <<kid, termPending>>
           \/ /\ kid' = [kid EXCEPT ![c] = "killed"] /\ termPending' = termPending \ {c}
              /\ UNCHANGED parents_came
    BY <1>1, <1>5 DEF Alarm, KidGoto, KindergartenTypeOK
  <2>2. KindergartenTypeOK'
    BY <1>1, <2>1 DEF KindergartenTypeOK
  <2>3. \A d \in Kid : kid'[d] = kid[d] \/ kid'[d] = "killed"
    BY <1>1, <2>1 DEF KindergartenTypeOK
  <2>4. IllnessHasCause'
    BY <1>1, <2>1, <2>3 DEF IllnessHasCause
  <2>5. CoughsKnown'
    BY <1>1, <2>1, <2>3 DEF CoughsKnown
  <2> QED
    BY <2>2, <2>4, <2>5 DEF KindergartenIInv
<1>6. CASE EndOfDay \/ CarerExits \/ UNCHANGED kindergartenVars
  <2>1. /\ UNCHANGED <<kidVars, coughPending>>
        /\ termPending' \subseteq Kid /\ carer' \in {"play", "wait", "exited"}
    BY <1>1, <1>2, <1>6 DEF EndOfDay, CarerExits, kindergartenVars, KindergartenTypeOK
  <2> QED
    BY <1>1, <2>1 DEF KindergartenIInv, KindergartenTypeOK, IllnessHasCause, CoughsKnown, kidVars
<1> QED
  BY <1>3, <1>4, <1>5, <1>6 DEF KindergartenNext

\* zadanie2.c: a child but the first falls ill only after another has coughed,
\* and nobody leaves who was neither fetched nor told to go.
THEOREM KindergartenInvariance == KindergartenSpec => []KindergartenIInv
  BY KindergartenInitHolds, KindergartenNextHolds, PTL DEF KindergartenSpec

-----------------------------------------------------------------------------
(* prog15.c: signals reported                                              *)

TallyIInv ==
    /\ TallyTypeOK /\ TallyExact
    /\ tally = "sigsuspend" => usr2_count = reported
    /\ tally = "report" => usr2_count = reported + 1

LEMMA TallyInitHolds == TallyInit => TallyIInv
<1>1. 0 \in 0..SignalsPerRound /\ 0 \in 0..MaxRounds
  BY TallyAssumption
<1> QED
  BY <1>1 DEF TallyInit, TallyIInv, TallyTypeOK, TallyExact

LEMMA TallyNextHolds == TallyIInv /\ [TallyNext]_tallyVars => TallyIInv'
<1> SUFFICES ASSUME TallyIInv, [TallyNext]_tallyVars PROVE TallyIInv'
  OBVIOUS
<1>1. TallyTypeOK /\ TallyExact /\ (tally = "sigsuspend" => usr2_count = reported)
      /\ (tally = "report" => usr2_count = reported + 1)
  BY DEF TallyIInv
<1>2. /\ SignalsPerRound \in Nat /\ MaxRounds \in Nat /\ usr1Sent \in Nat /\ usr2Sent \in Nat
      /\ usr2_count \in Nat /\ reported \in Nat /\ usr2_count <= usr2Sent
      /\ "SIGUSR2" \in tallyPending => usr2_count + 1 <= usr2Sent
      /\ reported <= usr2_count /\ usr2_count <= reported + 1
  BY <1>1, TallyAssumption DEF TallyTypeOK, TallyExact
<1>3. CASE SendUsr
  <2>1. usr2Sent < MaxRounds /\ UNCHANGED <<tally, usr2_count, reported>>
    BY <1>3 DEF SendUsr
  <2>2. CASE usr1Sent < SignalsPerRound
    <3>1. usr1Sent' = usr1Sent + 1 /\ tallyPending' = tallyPending \cup {"SIGUSR1"} /\ usr2Sent' = usr2Sent
      BY <1>3, <2>2 DEF SendUsr
    <3>2. TallyTypeOK'
      BY <1>1, <1>2, <2>1, <2>2, <3>1 DEF TallyTypeOK
    <3> QED
      BY <1>1, <2>1, <3>1, <3>2 DEF TallyIInv, TallyExact
  <2>3. CASE ~(usr1Sent < SignalsPerRound)
    <3>1. usr1Sent' = 0 /\ usr2Sent' = usr2Sent + 1 /\ tallyPending' = tallyPending \cup {"SIGUSR2"}
      BY <1>3, <2>3 DEF SendUsr
    <3>2. TallyTypeOK'
      BY <1>1, <1>2, <2>1, <3>1 DEF TallyTypeOK
    <3>3. usr2_count + 1 <= usr2Sent + 1
      BY <1>2
    <3>4. TallyExact'
      BY <1>2, <2>1, <3>1, <3>3 DEF TallyExact
    <3> QED
      BY <1>1, <2>1, <3>2, <3>4 DEF TallyIInv
  <2> QED
    BY <2>2, <2>3
<1>4. CASE TestCount
  <2>1. UNCHANGED <<usr1Sent, usr2Sent, tallyPending, usr2_count, reported>>
        /\ tally' = IF usr2_count = reported THEN "sigsuspend" ELSE "report"
    BY <1>4 DEF TestCount
  <2>2. usr2_count = reported \/ usr2_count = reported + 1
    BY <1>2
  <2> QED
    BY <1>1, <2>1, <2>2 DEF TallyIInv, TallyTypeOK, TallyExact
<1>5. CASE Sigsuspend
  <2>1. /\ tally' = "test" /\ tallyPending' = {} /\ UNCHANGED <<usr1Sent, usr2Sent, reported>>
        /\ usr2_count = reported
        /\ usr2_count' = IF "SIGUSR2" \in tallyPending THEN usr2_count + 1 ELSE usr2_count
    BY <1>1, <1>5 DEF Sigsuspend
  <2>2. usr2_count' \in Nat /\ usr2_count' <= usr2Sent /\ reported <= usr2_count' /\ usr2_count' <= reported + 1
    BY <1>2, <2>1
  <2>3. TallyTypeOK'
    BY <1>1, <2>1, <2>2 DEF TallyTypeOK
  <2>4. TallyExact'
    BY <1>2, <2>1, <2>2 DEF TallyExact
  <2> QED
    BY <2>1, <2>3, <2>4 DEF TallyIInv
<1>6. CASE Report
  <2>1. /\ tally' = "test" /\ reported' = reported + 1 /\ usr2_count = reported + 1
        /\ UNCHANGED <<usr1Sent, usr2Sent, tallyPending, usr2_count>>
    BY <1>1, <1>6 DEF Report
  <2>2. reported' \in Nat /\ reported' <= usr2_count /\ usr2_count <= reported' + 1
    BY <1>2, <2>1
  <2> QED
    BY <1>1, <2>1, <2>2 DEF TallyIInv, TallyTypeOK, TallyExact
<1>7. CASE UNCHANGED tallyVars
  BY <1>1, <1>7 DEF TallyIInv, TallyTypeOK, TallyExact, tallyVars
<1> QED
  BY <1>3, <1>4, <1>5, <1>6, <1>7 DEF TallyNext, TallyStep

\* prog15.c: no more SIGUSR2s are counted than were sent, and what is counted
\* is reported before the parent sleeps.
THEOREM TallyInvariance == TallySpec => []TallyIInv
  BY TallyInitHolds, TallyNextHolds, PTL DEF TallySpec

-----------------------------------------------------------------------------
(* prog16a.c: blocks copied                                                *)

Copying == {"bulk_read", "bulk_write", "report"}

BlockAtHand ==
    /\ copier \in Copying => block < Blocks
    /\ copier \in {"bulk_write", "report"} => count = BlockSize
    /\ copier \notin {"bulk_read", "bulk_write"} => len = 0

SignalWaits == IF "parent" \in usr1For THEN 1 ELSE 0
OwnSignal == IF copier \in {"before wait", "wait", "exited"} THEN 1 ELSE 0

\* The last signal is the one that ends the wait of the parent.
SignalsSent ==
    /\ sent = MaxSent + 1 => (copier = "wait" /\ "parent" \in usr1For) \/ copier = "exited"
    /\ sig_count + SignalWaits <= sent + OwnSignal

BlocksIInv == BlocksTypeOK /\ BlocksComplete /\ BlockAtHand /\ SignalsSent

LEMMA BlockProducts ==
  /\ Blocks * BlockSize \in Nat
  /\ \A k \in 0..Blocks : k * BlockSize \in Nat
  /\ \A k \in 0..(Blocks - 1) : /\ (k + 1) * BlockSize = k * BlockSize + BlockSize
                               /\ k * BlockSize + BlockSize <= Blocks * BlockSize
<1>1. Blocks \in Nat /\ BlockSize \in Nat
  BY BlocksAssumption
<1>2. \A k \in Nat : k * BlockSize \in Nat /\ (k + 1) * BlockSize = k * BlockSize + BlockSize
  BY <1>1
<1>3. ASSUME NEW k \in 0..(Blocks - 1) PROVE k * BlockSize + BlockSize <= Blocks * BlockSize
  <2>1. PICK j \in Nat : Blocks = (k + 1) + j
    <3>1. Blocks - (k + 1) \in Nat /\ Blocks = (k + 1) + (Blocks - (k + 1))
      BY <1>1
    <3> QED
      BY <3>1
  <2>2. Blocks * BlockSize = (k + 1) * BlockSize + j * BlockSize
    BY <1>1, <2>1
  <2>3. k \in Nat /\ j * BlockSize \in Nat
    BY <1>1, <1>2
  <2> QED
    BY <1>1, <1>2, <2>2, <2>3
<1> QED
  BY <1>1, <1>2, <1>3

LEMMA UpToNext == ASSUME NEW n \in Nat, NEW k \in Nat, k <= n + 1
                  PROVE  k \in 0..(n + 1)
  OBVIOUS

\* The bounds of the type invariant.
LEMMA BlocksBounds ==
  BlocksTypeOK => /\ block \in Nat /\ block <= Blocks /\ len \in Nat /\ len < BlockSize
                  /\ count \in Nat /\ count <= BlockSize /\ fileSize \in Nat
                  /\ sent \in Nat /\ sent <= MaxSent + 1
                  /\ sig_count \in Nat /\ sig_count <= sent + 1
<1> DEFINE all == Blocks * BlockSize
<1> SUFFICES ASSUME BlocksTypeOK
             PROVE  /\ block \in Nat /\ block <= Blocks /\ len \in Nat /\ len < BlockSize
                    /\ count \in Nat /\ count <= BlockSize /\ fileSize \in Nat
                    /\ sent \in Nat /\ sent <= MaxSent + 1
                    /\ sig_count \in Nat /\ sig_count <= sent + 1
  OBVIOUS
<1>1. block \in 0..Blocks /\ len \in 0..(BlockSize - 1) /\ count \in 0..BlockSize
      /\ fileSize \in 0..all /\ sent \in 0..(MaxSent + 1) /\ sig_count \in 0..(sent + 1)
  BY Zenon DEF BlocksTypeOK
<1>2. Blocks \in Nat /\ BlockSize \in Nat \ {0} /\ MaxSent \in Nat /\ all \in Nat
  BY BlocksAssumption, BlockProducts
<1> HIDE DEF all
<1>3. sent \in Nat /\ sent <= MaxSent + 1
  BY <1>1, <1>2
<1> QED
  BY <1>1, <1>2, <1>3

LEMMA BlocksInitHolds == BlocksInit => BlocksIInv
<1> SUFFICES ASSUME BlocksInit PROVE BlocksIInv
  OBVIOUS
<1>1. /\ Blocks \in Nat \ {0} /\ BlockSize \in Nat \ {0} /\ MaxSent \in Nat
      /\ 0 * BlockSize = 0 /\ Blocks * BlockSize \in Nat
  BY BlocksAssumption, BlockProducts
<1>2. BlocksTypeOK
  BY <1>1 DEF BlocksInit, BlocksTypeOK
<1>3. BlocksComplete
  BY <1>1 DEF BlocksInit, BlocksComplete
<1>4. BlockAtHand /\ SignalsSent
  <2>1. SignalWaits = 0 /\ OwnSignal = 0
    BY DEF BlocksInit, SignalWaits, OwnSignal
  <2> QED
    BY <1>1, <2>1 DEF BlocksInit, BlockAtHand, SignalsSent, Copying
<1> QED
  BY <1>2, <1>3, <1>4 DEF BlocksIInv

\* The steps of parent_work that read and write.
LEMMA CopierKeeps == BlocksIInv /\ (bulk_read \/ bulk_write \/ ReportBlock) => BlocksIInv'
<1> SUFFICES ASSUME BlocksIInv, bulk_read \/ bulk_write \/ ReportBlock PROVE BlocksIInv'
  OBVIOUS
<1> DEFINE whole == block * BlockSize
           all == Blocks * BlockSize
<1>1. BlocksTypeOK /\ BlocksComplete /\ BlockAtHand /\ SignalsSent
  BY DEF BlocksIInv
<1>2. /\ Blocks \in Nat /\ BlockSize \in Nat \ {0} /\ block \in Nat /\ len \in Nat /\ len < BlockSize
      /\ count \in Nat /\ count <= BlockSize /\ fileSize \in Nat
      /\ block < Blocks /\ copier \in Copying
  <2>1. copier \in Copying
    BY DEF bulk_read, bulk_write, ReportBlock, Copying
  <2>2. block < Blocks
    BY <1>1, <2>1 DEF BlockAtHand
  <2>3. Blocks \in Nat /\ BlockSize \in Nat \ {0} /\ Blocks * BlockSize \in Nat
    BY BlocksAssumption, BlockProducts
  <2> QED
    BY <1>1, <2>1, <2>2, <2>3, BlocksBounds
<1>3. whole \in Nat /\ all \in Nat /\ whole + BlockSize <= all
      /\ (block + 1) * BlockSize = whole + BlockSize
  BY <1>2, BlockProducts
<1>4. UNCHANGED <<sender, sig_count, sent, usr1For>>
  BY DEF bulk_read, bulk_write, ReportBlock
<1>5. SignalsSent'
  <2>1. copier \notin {"before wait", "wait", "exited"} /\ copier' \notin {"before wait", "wait", "exited"}
    BY <1>2 DEF bulk_read, bulk_write, ReportBlock, Copying
  <2> QED
    BY <1>1, <1>4, <2>1 DEF SignalsSent, SignalWaits, OwnSignal
<1>6. fileSize = whole + (IF copier = "report" THEN BlockSize ELSE IF copier = "bulk_write" THEN len ELSE 0)
  BY <1>1 DEF BlocksComplete
<1>7. UNCHANGED block => whole' = whole
  OBVIOUS
<1>8. all' = all /\ BlocksComplete' <=>
        fileSize' = whole' + (IF copier' = "report" THEN BlockSize
                              ELSE IF copier' = "bulk_write" THEN len' ELSE 0)
  BY DEF BlocksComplete
<1>9. CASE bulk_read
  <2>1. PICK c \in 1..(BlockSize - len) :
          IF len + c = BlockSize
          THEN count' = len + c /\ len' = 0 /\ copier' = "bulk_write"
          ELSE len' = len + c /\ UNCHANGED <<count, copier>>
    BY <1>9 DEF bulk_read
  <2>2. copier = "bulk_read" /\ UNCHANGED <<block, fileSize>>
    BY <1>9 DEF bulk_read
  <2>3. CASE len + c = BlockSize
    <3>1. count' = BlockSize /\ len' = 0 /\ copier' = "bulk_write"
      BY <2>1, <2>3
    <3>2. BlocksTypeOK'
      BY <1>1, <1>2, <1>4, <2>2, <3>1 DEF BlocksTypeOK
    <3>3. BlocksComplete'
      BY <1>3, <1>6, <2>2, <3>1 DEF BlocksComplete
    <3>4. BlockAtHand'
      BY <1>2, <2>2, <3>1 DEF BlockAtHand
    <3> QED
      BY <1>5, <3>2, <3>3, <3>4 DEF BlocksIInv
  <2>4. CASE len + c # BlockSize
    <3>1. len' = len + c /\ UNCHANGED <<count, copier>>
      BY <2>1, <2>4
    <3>2. len' \in 0..(BlockSize - 1)
      BY <1>2, <2>4, <3>1
    <3>3. BlocksTypeOK'
      BY <1>1, <1>4, <2>2, <3>1, <3>2 DEF BlocksTypeOK
    <3>4. BlocksComplete'
      BY <1>1, <2>2, <3>1 DEF BlocksComplete
    <3>5. BlockAtHand'
      BY <1>2, <2>2, <3>1 DEF BlockAtHand
    <3> QED
      BY <1>5, <3>3, <3>4, <3>5 DEF BlocksIInv
  <2> QED
    BY <2>3, <2>4
<1>10. CASE bulk_write
  <2>1. PICK c \in 1..(count - len) :
          /\ fileSize' = fileSize + c
          /\ IF len + c = count
             THEN len' = 0 /\ copier' = "report"
             ELSE len' = len + c /\ UNCHANGED copier
    BY <1>10 DEF bulk_write
  <2>2. copier = "bulk_write" /\ UNCHANGED <<block, count>> /\ count = BlockSize
    BY <1>1, <1>10 DEF bulk_write, BlockAtHand
  <2>3. fileSize = whole + len
    BY <1>6, <2>2
  <2>4. fileSize' \in 0..all
    BY <1>2, <1>3, <2>1, <2>2, <2>3
  <2>5. CASE len + c = BlockSize
    <3>1. len' = 0 /\ copier' = "report" /\ fileSize' = whole + BlockSize
      BY <1>2, <1>3, <2>1, <2>2, <2>3, <2>5
    <3>2. BlocksTypeOK'
      BY <1>1, <1>2, <1>4, <2>2, <2>4, <3>1 DEF BlocksTypeOK
    <3>3. BlocksComplete'
      BY <2>2, <3>1 DEF BlocksComplete
    <3>4. BlockAtHand'
      BY <1>2, <2>2, <3>1 DEF BlockAtHand
    <3> QED
      BY <1>5, <3>2, <3>3, <3>4 DEF BlocksIInv
  <2>6. CASE len + c # BlockSize
    <3>1. len' = len + c /\ UNCHANGED copier
      BY <2>1, <2>2, <2>6
    <3>2. len' \in 0..(BlockSize - 1) /\ fileSize' = whole + len'
      BY <1>2, <1>3, <2>1, <2>2, <2>3, <2>6, <3>1
    <3>3. BlocksTypeOK'
      BY <1>1, <1>4, <2>2, <2>4, <3>1, <3>2 DEF BlocksTypeOK
    <3>4. BlocksComplete'
      BY <2>2, <3>1, <3>2 DEF BlocksComplete
    <3>5. BlockAtHand'
      BY <1>2, <2>2, <3>1 DEF BlockAtHand
    <3> QED
      BY <1>5, <3>3, <3>4, <3>5 DEF BlocksIInv
  <2> QED
    BY <2>5, <2>6
<1>11. CASE ReportBlock
  <2>1. /\ copier = "report" /\ block' = block + 1 /\ UNCHANGED <<len, count, fileSize>>
        /\ copier' = IF block' < Blocks THEN "bulk_read" ELSE "kill"
    BY <1>11 DEF ReportBlock
  <2>2. len = 0 /\ block' \in 0..Blocks
    BY <1>1, <1>2, <2>1 DEF BlockAtHand
  <2>3. BlocksTypeOK'
    BY <1>1, <1>4, <2>1, <2>2 DEF BlocksTypeOK
  <2>4. fileSize' = block' * BlockSize
    BY <1>3, <1>6, <2>1
  <2>5. fileSize' = block' * BlockSize + 0
    BY <1>2, <1>3, <2>1, <2>4
  <2>6. BlocksComplete'
    BY <2>1, <2>5 DEF BlocksComplete
  <2>7. BlockAtHand'
    BY <2>1, <2>2 DEF BlockAtHand, Copying
  <2> QED
    BY <1>5, <2>3, <2>6, <2>7 DEF BlocksIInv
<1> QED
  BY <1>9, <1>10, <1>11

LEMMA BlocksNextHolds == BlocksIInv /\ [BlocksNext]_blocksVars => BlocksIInv'
<1> SUFFICES ASSUME BlocksIInv, [BlocksNext]_blocksVars PROVE BlocksIInv'
  OBVIOUS
<1>1. BlocksTypeOK /\ BlocksComplete /\ BlockAtHand /\ SignalsSent
  BY DEF BlocksIInv
<1>2. sent \in Nat /\ sig_count \in Nat /\ MaxSent \in Nat
  BY <1>1, BlocksAssumption, BlocksBounds
<1>r. /\ sig_count + SignalWaits <= sent + OwnSignal
      /\ sent = MaxSent + 1 => (copier = "wait" /\ "parent" \in usr1For) \/ copier = "exited"
      /\ SignalWaits \in {0, 1} /\ OwnSignal \in {0, 1}
  BY <1>1 DEF SignalsSent, SignalWaits, OwnSignal
<1>t. ASSUME sent' \in Nat, sig_count' \in Nat, sent' <= MaxSent + 1, sig_count' <= sent' + 1,
             copier' \in {copier, "before wait", "wait", "exited"},
             sender' \in {"start", "send", "stray", "dead"}, usr1For' \subseteq {"parent", "child"},
             UNCHANGED <<block, len, count, fileSize>>
      PROVE  BlocksTypeOK'
  <2>1. sent' \in 0..(MaxSent + 1)
    <3>1. sent' \in Nat /\ sent' <= MaxSent + 1 /\ MaxSent \in Nat
      BY <1>2, <1>t
    <3> QED
      BY <3>1
  <2>2. sig_count' \in 0..(sent' + 1)
    <3>1. sent' \in Nat /\ sig_count' \in Nat /\ sig_count' <= sent' + 1
      BY <1>t
    <3> QED
      BY <3>1, UpToNext
  <2> QED
    BY <1>1, <1>t, <2>1, <2>2 DEF BlocksTypeOK
\* Nothing else touches the file.
<1>3. ASSUME UNCHANGED <<block, len, count, fileSize>>,
             copier' \in {"before wait", "wait", "exited"} \/ copier' = copier,
             copier \in {"kill", "before wait", "wait", "exited"} \/ copier' = copier
      PROVE  BlocksComplete' /\ BlockAtHand'
  BY <1>1, <1>3 DEF BlocksComplete, BlockAtHand, Copying
<1>4. CASE KillGroup
  <2>1. /\ copier = "kill" /\ copier' = "before wait" /\ sig_count' = sig_count + 1
        /\ UNCHANGED <<block, len, count, fileSize, sender, sent>>
        /\ usr1For' \subseteq {"parent", "child"} /\ "parent" \notin usr1For'
    BY <1>1, <1>4 DEF KillGroup, BlocksTypeOK
  <2>2. OwnSignal = 0 /\ OwnSignal' = 1 /\ SignalWaits' = 0
    BY <2>1 DEF OwnSignal, SignalWaits
  <2>5. sig_count <= sent
    BY <1>2, <1>r, <2>2
  <2>6. sent # MaxSent + 1 /\ sent <= MaxSent + 1
    BY <1>1, <1>r, <2>1, BlocksBounds
  <2>7. sig_count' = sig_count + 1 /\ sig_count \in Nat /\ sent \in Nat
    BY <1>2, <2>1
  <2>8. sig_count' \in Nat /\ sig_count' <= sent + 1 /\ sig_count' + 0 <= sent + 1
    BY <2>5, <2>7
  <2>3. SignalsSent'
    BY <2>1, <2>2, <2>6, <2>8 DEF SignalsSent
  <2>4. BlocksTypeOK'
    <3>1. sender \in {"start", "send", "stray", "dead"}
      BY <1>1 DEF BlocksTypeOK
    <3> QED
      BY <1>2, <1>t, <2>1, <2>6, <2>8, <3>1
  <2> QED
    BY <1>3, <2>1, <2>3, <2>4 DEF BlocksIInv
<1>5. CASE CallWait \/ WaitReturns \/ ResetHandler \/ UNCHANGED blocksVars
  <2>1. /\ UNCHANGED <<block, len, count, fileSize, sig_count, sent, usr1For>>
        /\ sender' \in {"send", sender}
        /\ \/ copier' = copier
           \/ copier = "before wait" /\ copier' = "wait"
           \/ copier = "wait" /\ copier' = "exited"
    BY <1>5 DEF CallWait, WaitReturns, ResetHandler, blocksVars
  <2>2. SignalsSent'
    <3>1. SignalWaits' = SignalWaits /\ OwnSignal' = OwnSignal
      BY <2>1 DEF SignalWaits, OwnSignal
    <3> QED
      BY <1>r, <2>1, <3>1 DEF SignalsSent
  <2>3. BlocksTypeOK'
    BY <1>1, <2>1 DEF BlocksTypeOK
  <2> QED
    BY <1>3, <2>1, <2>2, <2>3 DEF BlocksIInv
<1>6. CASE TakeUsr1ByParent
  <2>1. /\ "parent" \in usr1For /\ usr1For' = usr1For \ {"parent"} /\ sig_count' = sig_count + 1
        /\ copier' = IF copier = "wait" THEN "exited" ELSE copier
        /\ UNCHANGED <<block, len, count, fileSize, sender, sent>> /\ copier # "exited"
    BY <1>6 DEF TakeUsr1ByParent
  <2>2. SignalWaits = 1 /\ SignalWaits' = 0 /\ OwnSignal' = OwnSignal
    BY <2>1 DEF SignalWaits, OwnSignal
  <2>3. sig_count' \in Nat /\ sig_count' <= sent + OwnSignal /\ sig_count' <= sent + 1
    BY <1>2, <1>r, <2>1, <2>2
  <2>4. SignalsSent'
    <3>1. sent = MaxSent + 1 => copier' = "exited"
      BY <1>r, <2>1
    <3>2. sig_count' + 0 <= sent + OwnSignal
      BY <1>2, <2>3
    <3> QED
      BY <2>1, <2>2, <3>1, <3>2 DEF SignalsSent
  <2>5. BlocksTypeOK'
    <3>1. sender \in {"start", "send", "stray", "dead"} /\ sent <= MaxSent + 1 /\ usr1For \subseteq {"parent", "child"}
      BY <1>1, BlocksBounds DEF BlocksTypeOK
    <3>2. copier' \in {copier, "before wait", "wait", "exited"} /\ usr1For' \subseteq {"parent", "child"}
      BY <2>1, <3>1
    <3> QED
      BY <1>2, <1>t, <2>1, <2>3, <3>1, <3>2
  <2> QED
    BY <1>3, <2>1, <2>4, <2>5 DEF BlocksIInv
<1>7. CASE SendUsr1
  <2>1. /\ sent' = sent + 1 /\ usr1For' = usr1For \cup {"parent"} /\ copier # "exited"
        /\ UNCHANGED <<copier, block, len, count, fileSize, sender, sig_count>>
        /\ \/ sent < MaxSent
           \/ copier = "wait" /\ "parent" \notin usr1For
    BY <1>7 DEF SendUsr1
  <2>2. sent <= MaxSent
    <3>1. sent # MaxSent + 1 /\ sent <= MaxSent + 1
      BY <1>1, <1>2, <1>r, <2>1, BlocksBounds
    <3> QED
      BY <1>2, <3>1
  <2>3. sent' \in Nat /\ sent' <= MaxSent + 1 /\ sig_count <= sent' + 1
    <3>1. sig_count <= sent + 1
      BY <1>1, BlocksBounds
    <3> QED
      BY <1>2, <2>1, <2>2, <3>1
  <2>4. SignalsSent'
    <3>1. SignalWaits' = 1 /\ OwnSignal' = OwnSignal
      BY <2>1 DEF SignalWaits, OwnSignal
    <3>2. sig_count + 1 <= sent + 1 + OwnSignal
      <4>1. CASE SignalWaits = 0 \/ SignalWaits = 1
        BY <1>2, <1>r, <4>1
      <4> QED
        BY <1>r, <4>1
    <3>3. sent' = MaxSent + 1 => copier' = "wait" /\ "parent" \in usr1For'
      BY <1>2, <2>1
    <3> QED
      BY <1>2, <2>1, <3>1, <3>2, <3>3 DEF SignalsSent
  <2>5. BlocksTypeOK'
    <3>1. sender \in {"start", "send", "stray", "dead"} /\ usr1For \subseteq {"parent", "child"}
      BY <1>1 DEF BlocksTypeOK
    <3> QED
      BY <1>2, <1>t, <2>1, <2>3, <3>1
  <2> QED
    BY <1>3, <2>1, <2>4, <2>5 DEF BlocksIInv
<1>8. CASE SendAsOrphan \/ TakeUsr1ByChild
  <2>1. /\ UNCHANGED <<copier, block, len, count, fileSize, sig_count, sent>>
        /\ usr1For' \subseteq usr1For /\ sender' \in {"start", "stray", "dead"}
        /\ copier = "exited" \/ ("parent" \in usr1For' <=> "parent" \in usr1For)
    BY <1>8 DEF SendAsOrphan, TakeUsr1ByChild
  <2>2. SignalsSent'
    <3>1. OwnSignal' = OwnSignal /\ (copier = "exited" \/ SignalWaits' = SignalWaits)
          /\ SignalWaits' \in {0, 1} /\ SignalWaits' <= SignalWaits
      BY <2>1 DEF SignalWaits, OwnSignal
    <3>2. sig_count + SignalWaits' <= sent + OwnSignal
      <4>1. CASE copier # "exited"
        BY <1>r, <3>1, <4>1
      <4>2. CASE SignalWaits' = 0 \/ SignalWaits' = SignalWaits
        BY <1>2, <1>r, <4>2
      <4> QED
        BY <1>r, <3>1, <4>2
    <3> QED
      BY <1>r, <2>1, <3>1, <3>2 DEF SignalsSent
  <2>3. BlocksTypeOK'
    BY <1>1, <2>1 DEF BlocksTypeOK
  <2> QED
    BY <1>3, <2>1, <2>2, <2>3 DEF BlocksIInv
<1> QED
  BY <1>4, <1>5, <1>6, <1>7, <1>8, CopierKeeps DEF BlocksNext, CopierStep, SenderStep

\* prog16a.c: what is copied are whole blocks but for the one at hand, however
\* often a signal cuts a read or a write short.
THEOREM BlocksInvariance == BlocksSpec => []BlocksIInv
  BY BlocksInitHolds, BlocksNextHolds, PTL DEF BlocksSpec

-----------------------------------------------------------------------------
(* zadanie3.c: work in turns                                               *)

\* The child whose turn it is has nothing that waits for it but SIGUSR1, or both
\* signals, which it takes together.
TurnKept ==
    relay \notin {"handlers", "start"} =>
        \/ ~Runs(turn)
        \/ "SIGUSR1" \in usrPending[turn]
        \/ order[turn] = "work" /\ usrPending[turn] = {}

TurnsIInv == TurnsTypeOK /\ TurnKept /\ (relay = "handlers" => turn = 0)

LEMMA TurnsInitHolds == TurnsInit => TurnsIInv
<1> SUFFICES ASSUME TurnsInit PROVE TurnsIInv
  OBVIOUS
<1>1. 0 \in Runner /\ 0 \in 0..MaxTurns
  BY TurnsAssumption DEF Runner
<1> QED
  BY <1>1 DEF TurnsInit, TurnsIInv, TurnsTypeOK, TurnKept

\* What a child does on its own, or does with a signal.
LEMMA RunnerKeeps ==
  ASSUME TurnsIInv, NEW r \in Runner, RunnerStep(r) \/ RunnerSignal(r)
  PROVE  TurnsIInv'
<1>1. TurnsTypeOK /\ TurnKept /\ (relay = "handlers" => turn = 0)
  BY DEF TurnsIInv
<1>2. CASE SaveCount(r) \/ KilledEarly(r)
  <2>1. PICK how \in {"exited", "killed"} : RunnerEnds(r, how)
    BY <1>2 DEF SaveCount, KilledEarly
  <2>2. /\ runner' = [runner EXCEPT ![r] = how] /\ order' = [order EXCEPT ![r] = "none"]
        /\ runnerEnd' = runnerEnd \ {r} /\ usrPending' = [usrPending EXCEPT ![r] = {}]
        /\ runnerInt' = runnerInt \ {r}
        /\ UNCHANGED <<relay, turn, work2, relayEnd, turnsAsked, relayPending>>
    BY <2>1 DEF RunnerEnds, RunnerGoto, relayVars
  <2>3. TurnsTypeOK'
    BY <1>1, <2>2 DEF TurnsTypeOK
  <2>4. turn \in Runner /\ runner'[r] = how
        /\ \A v \in Runner : v # r =>
              runner'[v] = runner[v] /\ order'[v] = order[v] /\ usrPending'[v] = usrPending[v]
    BY <1>1, <2>2 DEF TurnsTypeOK
  <2>5. TurnKept'
    BY <1>1, <2>2, <2>4 DEF TurnKept, Runs
  <2> QED
    BY <1>1, <2>2, <2>3, <2>5 DEF TurnsIInv
<1>3. CASE TakeUsr(r)
  <2> DEFINE o == IF "SIGUSR1" \in usrPending[r] THEN "work" ELSE "pause"
  <2>1. /\ runner' = [runner EXCEPT ![r] = Awakened(r)] /\ order' = [order EXCEPT ![r] = o]
        /\ usrPending' = [usrPending EXCEPT ![r] = {}] /\ usrPending[r] # {}
        /\ UNCHANGED <<runnerEnd, runnerInt, relay, turn, work2, relayEnd, turnsAsked, relayPending>>
    BY <1>3 DEF TakeUsr, RunnerGoto, relayVars
  <2>2. Awakened(r) \in {"test_work", "test_end", runner[r]}
    BY DEF Awakened
  <2>3. TurnsTypeOK'
    BY <1>1, <2>1, <2>2 DEF TurnsTypeOK
  <2>4. turn \in Runner /\ order'[r] = o /\ usrPending'[r] = {} /\ runner'[r] = Awakened(r)
        /\ \A v \in Runner : v # r =>
              runner'[v] = runner[v] /\ order'[v] = order[v] /\ usrPending'[v] = usrPending[v]
    BY <1>1, <2>1 DEF TurnsTypeOK
  <2>5. ~Runs(r) => ~Runs(r)'
    BY <2>4 DEF Runs, Awakened
  <2>6. TurnKept'
    <3>1. CASE turn = r
      BY <1>1, <2>1, <2>4, <2>5, <3>1 DEF TurnKept
    <3>2. CASE turn # r
      BY <1>1, <2>1, <2>4, <3>2 DEF TurnKept, Runs
    <3> QED
      BY <3>1, <3>2
  <2> QED
    BY <1>1, <2>1, <2>3, <2>6 DEF TurnsIInv
<1>4. CASE InstallRunnerHandler(r) \/ TestWork(r) \/ TestEnd(r) \/ TestPause(r) \/ CountOn(r) \/ TakeInt2(r)
  <2>1. Awakened(r) \in {"test_work", "test_end", runner[r]}
    BY DEF Awakened
  <2>2. PICK l \in {"SIGUSR2", "SIGINT", "test_work", "test_end", "await_work", "save", "test_pause",
                    "await", "sleep", runner[r]} :
          runner' = [runner EXCEPT ![r] = l]
    BY <1>4, <2>1 DEF InstallRunnerHandler, TestWork, TestEnd, TestPause, CountOn, TakeInt2, RunnerGoto
  <2>3. /\ UNCHANGED <<order, usrPending, relay, turn, work2, relayEnd, turnsAsked, relayPending>>
        /\ runnerInt' \subseteq runnerInt /\ runnerEnd' \subseteq Runner
        /\ Runs(r)
    BY <1>1, <1>4 DEF InstallRunnerHandler, TestWork, TestEnd, TestPause, CountOn, TakeInt2, relayVars,
       Runs, TurnsTypeOK
  <2>4. TurnsTypeOK'
    BY <1>1, <2>2, <2>3 DEF TurnsTypeOK
  <2>5. \A v \in Runner : v # r => runner'[v] = runner[v]
    BY <1>1, <2>2 DEF TurnsTypeOK
  <2>6. TurnKept'
    BY <1>1, <2>3, <2>5 DEF TurnKept, Runs, TurnsTypeOK
  <2> QED
    BY <1>1, <2>3, <2>4, <2>6 DEF TurnsIInv
<1> QED
  BY <1>2, <1>3, <1>4 DEF RunnerStep, RunnerSignal

LEMMA TurnsNextHolds == TurnsIInv /\ [TurnsNext]_turnVars => TurnsIInv'
<1> SUFFICES ASSUME TurnsIInv, [TurnsNext]_turnVars PROVE TurnsIInv'
  OBVIOUS
<1>1. TurnsTypeOK /\ TurnKept /\ turn \in Runner /\ (relay = "handlers" => turn = 0)
  BY DEF TurnsIInv, TurnsTypeOK
<1>2. NRunners \in Nat \ {0} /\ MaxTurns \in Nat /\ 0 \in Runner
  BY TurnsAssumption DEF Runner
\* A signal sent to a child that runs waits for it.
<1>3. ASSUME NEW r \in Runner, NEW s \in {"SIGUSR1", "SIGUSR2"}, SendUsrTo(r, s)
      PROVE  /\ usrPending' \in [Runner -> SUBSET {"SIGUSR1", "SIGUSR2"}]
             /\ Runs(r) => s \in usrPending'[r]
  BY <1>1, <1>3 DEF SendUsrTo, TurnsTypeOK
<1>4. CASE StartFirst \/ StartRunner
  <2>1. SendUsrTo(turn, "SIGUSR1")
    BY <1>1, <1>4 DEF StartFirst, StartRunner
  <2>2. relay' = "test_end"
        /\ UNCHANGED <<runner, order, runnerEnd, runnerInt, turn, work2, relayEnd, turnsAsked, relayPending>>
    BY <1>4 DEF StartFirst, StartRunner, RelayGoto, runnerVars
  <2>3. usrPending' \in [Runner -> SUBSET {"SIGUSR1", "SIGUSR2"}]
        /\ (Runs(turn) => "SIGUSR1" \in usrPending'[turn])
    BY <1>1, <1>3, <2>1
  <2>4. TurnsTypeOK'
    BY <1>1, <2>2, <2>3 DEF TurnsTypeOK
  <2>5. TurnKept'
    BY <2>2, <2>3 DEF TurnKept, Runs
  <2> QED
    BY <2>2, <2>4, <2>5 DEF TurnsIInv
<1>5. CASE PauseRunner
  <2>1. /\ SendUsrTo(turn, "SIGUSR2") /\ turn' = (turn + 1) % NRunners /\ relay' = "start"
        /\ UNCHANGED <<runner, order, runnerEnd, runnerInt, work2, relayEnd, turnsAsked, relayPending>>
    BY <1>5 DEF PauseRunner, RelayGoto, runnerVars
  <2>2. turn' \in Runner
    <3>1. turn \in Nat /\ NRunners \in Nat /\ NRunners > 0
      BY <1>1, <1>2 DEF Runner
    <3>2. (turn + 1) % NRunners \in 0..(NRunners - 1)
      BY <3>1
    <3> QED
      BY <2>1, <3>2 DEF Runner
  <2>3. usrPending' \in [Runner -> SUBSET {"SIGUSR1", "SIGUSR2"}]
    BY <1>1, <1>3, <2>1
  <2>4. TurnsTypeOK'
    BY <1>1, <2>1, <2>2, <2>3 DEF TurnsTypeOK
  <2> QED
    BY <2>1, <2>4 DEF TurnsIInv, TurnKept
<1>6. CASE TestRelayEnd \/ TestWork2 \/ EndAll \/ RelayExits \/ RelaySignal \/ AskForTurn
           \/ InterruptRunners \/ UNCHANGED turnVars
  <2>1. UNCHANGED <<runner, order, runnerEnd, usrPending, turn>>
    BY <1>6 DEF TestRelayEnd, TestWork2, EndAll, RelayExits, RelaySignal, AskForTurn, InterruptRunners,
       turnVars, runnerVars, relayVars
  <2>2. /\ relay' \in {relay, "test_work2", "sigsuspend", "pause", "end_all", "wait", "exited"}
        /\ relay \in {"handlers", "start"} => relay' = relay
    BY <1>6 DEF TestRelayEnd, TestWork2, EndAll, RelayExits, RelaySignal, AskForTurn, InterruptRunners,
       turnVars, relayVars, RelayGoto
  <2>3. runnerInt' \subseteq Runner /\ relayPending' \subseteq {"SIGUSR1", "SIGINT"}
        /\ work2' \in BOOLEAN /\ relayEnd' \in BOOLEAN
    BY <1>1, <1>6 DEF TestRelayEnd, TestWork2, EndAll, RelayExits, RelaySignal, AskForTurn,
       InterruptRunners, turnVars, relayVars, TurnsTypeOK
  <2>4. turnsAsked' \in 0..MaxTurns
    BY <1>1, <1>2, <1>6 DEF TestRelayEnd, TestWork2, EndAll, RelayExits, RelaySignal, AskForTurn,
       InterruptRunners, turnVars, relayVars, TurnsTypeOK
  <2>5. TurnsTypeOK'
    BY <1>1, <2>1, <2>2, <2>3, <2>4 DEF TurnsTypeOK
  <2>6. TurnKept'
    BY <1>1, <2>1, <2>2 DEF TurnKept, Runs
  <2> QED
    BY <1>1, <2>1, <2>2, <2>5, <2>6 DEF TurnsIInv
<1> QED
  BY <1>4, <1>5, <1>6, RunnerKeeps DEF TurnsNext, RelayStep

\* zadanie3.c: the child whose turn it is works or has its SIGUSR1 pending,
\* unless it has ended; the turn is not lost.
THEOREM TurnsInvariance == TurnsSpec => []TurnsIInv
  BY TurnsInitHolds, TurnsNextHolds, PTL DEF TurnsSpec

LEMMA KeptIsNotLost == TurnsIInv => TurnNotLost
  BY DEF TurnsIInv, TurnKept, TurnNotLost

-----------------------------------------------------------------------------
(* warsztaty.c: the office                                                 *)

Staff(c) == {Subordinates[c][i] : i \in 1..Len(Subordinates[c])}

\* Nobody comes before its superior, nor leaves after it.
ClerksInOrder ==
    \A c \in Clerk :
       /\ clerk[c] \in {"none", "await"} => \A d \in Staff(c) : clerk[d] = "none"
       /\ clerk[c] = "gone" => \A d \in Staff(c) : clerk[d] = "gone"
       /\ clerk[c] = "inspect" =>
             \A i \in 1..Len(Subordinates[c]) : i > nth[c] => clerk[Subordinates[c][i]] = "none"
       /\ clerk[c] = "wait" =>
             \A i \in 1..Len(Subordinates[c]) : i <= nth[c] => clerk[Subordinates[c][i]] = "gone"

PlaceInStaff ==
    \A c \in Clerk :
       /\ clerk[c] \in {"none", "await", "sigsuspend", "look", "gone"} => nth[c] = 0
       /\ clerk[c] \in {"inspect", "wait"} => nth[c] <= Len(Subordinates[c])
       /\ clerk[c] = "end" => nth[c] \in {0, 1}

\* Only the user closes the office.
ClosedFirst ==
    \A c \in Clerk :
       (clerk[c] \in {"end", "wait", "gone"} \/ c \in int_count \/ "SIGINT" \in clerkPending[c])
          => closed

OfficeIInv == OfficeTypeOK /\ ClerksInOrder /\ PlaceInStaff /\ ClosedFirst

Places(c) == {p \in Clerk \X (1..2) :
                p[2] <= Len(Subordinates[p[1]]) /\ Subordinates[p[1]][p[2]] = c}

LEMMA StaffTypes ==
  /\ \A c \in Clerk : Len(Subordinates[c]) \in 0..2
  /\ \A c \in Clerk : \A i \in 1..Len(Subordinates[c]) :
        i \in 1..2 /\ Subordinates[c][i] \in Clerk /\ <<c, i>> \in Places(Subordinates[c][i])
<1>1. ASSUME NEW c \in Clerk
      PROVE  /\ Len(Subordinates[c]) \in 0..2
             /\ \A i \in 1..Len(Subordinates[c]) :
                  i \in 1..2 /\ Subordinates[c][i] \in Clerk /\ <<c, i>> \in Places(Subordinates[c][i])
  <2>1. Subordinates[c] \in Seq(Clerk) /\ Len(Subordinates[c]) <= 2
    BY OfficeAssumption
  <2>2. Len(Subordinates[c]) \in 0..2
    <3> DEFINE n == Len(Subordinates[c])
    <3>1. n \in Nat /\ n <= 2
      BY <2>1
    <3> HIDE DEF n
    <3>2. n \in 0..2
      BY <3>1
    <3> QED
      BY <3>2 DEF n
  <2>3. ASSUME NEW i \in 1..Len(Subordinates[c])
        PROVE  i \in 1..2 /\ Subordinates[c][i] \in Clerk /\ <<c, i>> \in Places(Subordinates[c][i])
    <3>1. i \in 1..2 /\ i <= Len(Subordinates[c]) /\ Subordinates[c][i] \in Clerk
      BY <2>1, <2>2
    <3>2. <<c, i>> \in Clerk \X (1..2) /\ <<c, i>>[1] = c /\ <<c, i>>[2] = i
      BY <3>1
    <3> QED
      BY <3>1, <3>2 DEF Places
  <2> QED
    BY <2>2, <2>3
<1> QED
  BY <1>1

LEMMA PlacesCounted ==
  \A c \in Clerk : IF c = Highest THEN Places(c) = {} ELSE \E p : Places(c) = {p}
<1> SUFFICES ASSUME NEW c \in Clerk
             PROVE  IF c = Highest THEN Places(c) = {} ELSE \E p : Places(c) = {p}
  OBVIOUS
<1>1. IsFiniteSet(Clerk) /\ IsFiniteSet(1..2)
  <2>1. IsFiniteSet(Clerk)
    BY OfficeAssumption, Zenon
  <2>2. 1 \in Int /\ 2 \in Int
    OBVIOUS
  <2> QED
    BY <2>1, <2>2, FS_Interval, Zenon
<1>2. IsFiniteSet(Clerk \X (1..2))
  BY <1>1, FS_Product
<1>3. Places(c) \subseteq Clerk \X (1..2)
  BY DEF Places
<1>4. IsFiniteSet(Places(c))
  BY <1>2, <1>3, FS_Subset
<1>5. Cardinality(Places(c)) = IF c = Highest THEN 0 ELSE 1
  BY OfficeAssumption, Zenon DEF Places
<1> QED
  BY <1>4, <1>5, FS_EmptySet, FS_Singleton

\* Nobody is in the staff of two clerks, or twice in that of one.
LEMMA OneSuperior ==
  ASSUME NEW c \in Clerk, NEW i \in 1..Len(Subordinates[c]),
         NEW d \in Clerk, NEW j \in 1..Len(Subordinates[d]),
         Subordinates[c][i] = Subordinates[d][j]
  PROVE  c = d /\ i = j
<1>1. PICK e \in Clerk : e = Subordinates[c][i]
  BY StaffTypes
<1>2. <<c, i>> \in Places(e) /\ <<d, j>> \in Places(e)
  BY <1>1, StaffTypes
<1>3. <<c, i>> = <<d, j>>
  BY <1>2, PlacesCounted
<1> QED
  BY <1>3

LEMMA SuperiorIs ==
  ASSUME NEW c \in Clerk, c # Highest
  PROVE  Superior(c) \in Clerk /\ c \in Staff(Superior(c))
<1>1. PICK p : p \in Places(c)
  BY PlacesCounted
<1>2. p[1] \in Clerk /\ p[2] \in 1..2 /\ p[2] <= Len(Subordinates[p[1]]) /\ Subordinates[p[1]][p[2]] = c
  BY <1>1 DEF Places
<1>3. p[2] \in 1..Len(Subordinates[p[1]])
  BY <1>2, StaffTypes
<1>4. \E s \in Clerk : Contains(Subordinates[s], c)
  BY <1>2, <1>3 DEF Contains
<1>5. Superior(c) \in Clerk /\ Contains(Subordinates[Superior(c)], c)
  BY <1>4 DEF Superior
<1> QED
  BY <1>5 DEF Contains, Staff

LEMMA OfficeInitHolds == OfficeInit => OfficeIInv
<1> SUFFICES ASSUME OfficeInit PROVE OfficeIInv
  OBVIOUS
<1>1. Highest \in Clerk /\ 0 \in 0..MaxDocuments
  BY OfficeAssumption
<1>2. OfficeTypeOK
  <2>1. documents \in 0..MaxDocuments /\ closed \in BOOLEAN /\ int_count \subseteq Clerk
        /\ gotDocument \subseteq Clerk
    BY <1>1 DEF OfficeInit
  <2>2. clerk \in [Clerk -> {"none", "await", "inspect", "sigsuspend", "look", "end", "wait", "gone"}]
    BY DEF OfficeInit
  <2>3. nth \in [Clerk -> 0..2]
    BY DEF OfficeInit
  <2>4. clerkPending \in [Clerk -> SUBSET {"SIGUSR1", "SIGUSR2", "SIGINT"}]
    BY DEF OfficeInit
  <2> QED
    BY <2>1, <2>2, <2>3, <2>4 DEF OfficeTypeOK
<1>3. ASSUME NEW c \in Clerk, NEW d \in Staff(c)
      PROVE  clerk[d] = "none"
  <2>1. PICK i \in 1..Len(Subordinates[c]) : d = Subordinates[c][i]
    BY DEF Staff
  <2>2. d \in Clerk /\ Places(d) # {}
    BY <2>1, StaffTypes
  <2>3. d # Highest
    BY <2>2, PlacesCounted
  <2> QED
    BY <2>2, <2>3 DEF OfficeInit
<1>4. ClerksInOrder
  BY <1>3 DEF OfficeInit, ClerksInOrder
<1>5. PlaceInStaff /\ ClosedFirst
  BY DEF OfficeInit, PlaceInStaff, ClosedFirst
<1> QED
  BY <1>2, <1>4, <1>5 DEF OfficeIInv

\* What holds of the staff of a clerk when no clerk but c, who is there, moves on.
LEMMA OthersInOrder ==
  ASSUME OfficeIInv, NEW c \in Clerk, clerk[c] \notin {"none", "gone"},
         NEW b \in Clerk, b # c, nth'[b] = nth[b],
         \A d \in Clerk : d # c => clerk'[d] = clerk[d]
  PROVE  /\ clerk'[b] \in {"none", "await"} => \A d \in Staff(b) : clerk'[d] = "none"
         /\ clerk'[b] = "gone" => \A d \in Staff(b) : clerk'[d] = "gone"
         /\ clerk'[b] = "inspect" =>
               \A i \in 1..Len(Subordinates[b]) : i > nth'[b] => clerk'[Subordinates[b][i]] = "none"
         /\ clerk'[b] = "wait" =>
               \A i \in 1..Len(Subordinates[b]) : i <= nth'[b] => clerk'[Subordinates[b][i]] = "gone"
<1>1. ClerksInOrder
  BY DEF OfficeIInv
<1>2. \A d \in Staff(b) : d \in Clerk
  BY StaffTypes DEF Staff
<1>3. \A i \in 1..Len(Subordinates[b]) : Subordinates[b][i] \in Clerk
  BY StaffTypes
<1>4. \A d \in Clerk : clerk[d] \in {"none", "gone"} => clerk'[d] = clerk[d]
  OBVIOUS
<1> QED
  BY <1>1, <1>2, <1>3, <1>4 DEF ClerksInOrder

\* A clerk that is there, and does not leave, moves on.
LEMMA ClerkMoves ==
  ASSUME OfficeIInv, NEW c \in Clerk, NEW l \in {"inspect", "sigsuspend", "look", "end", "wait"},
         NEW k, clerk[c] \notin {"none", "gone"},
         clerk'[c] = l, nth'[c] = k,
         \A d \in Clerk : d # c => clerk'[d] = clerk[d] /\ nth'[d] = nth[d],
         l = "inspect" => clerk[c] = "await",
         l = "wait" => k = 0
  PROVE  ClerksInOrder'
<1>1. ClerksInOrder /\ OfficeTypeOK
  BY DEF OfficeIInv
<1>2. ASSUME NEW i \in 1..Len(Subordinates[c]), l = "inspect"
      PROVE  clerk'[Subordinates[c][i]] = "none"
  <2>1. Subordinates[c][i] \in Staff(c) /\ Subordinates[c][i] \in Clerk
    BY StaffTypes DEF Staff
  <2>2. clerk[Subordinates[c][i]] = "none"
    BY <1>1, <1>2, <2>1 DEF ClerksInOrder
  <2> QED
    BY <2>1, <2>2
<1>3. l = "wait" => \A i \in 1..Len(Subordinates[c]) : ~(i <= nth'[c])
  <2>1. Len(Subordinates[c]) \in Nat
    BY StaffTypes
  <2> QED
    BY <2>1
<1> QED
  BY <1>2, <1>3, OthersInOrder DEF ClerksInOrder

LEMMA ClerkForks ==
  ASSUME OfficeIInv, NEW c \in Clerk, ForkSubordinate(c)
  PROVE  OfficeIInv'
<1> DEFINE k == nth[c] + 1
           d == Subordinates[c][k]
<1>1. OfficeTypeOK /\ ClerksInOrder /\ PlaceInStaff /\ ClosedFirst
  BY DEF OfficeIInv
<1>2. clerk[c] = "inspect" /\ k \in 1..Len(Subordinates[c]) /\ k \in 1..2 /\ nth[c] \in 0..2
  <2>1. clerk[c] = "inspect" /\ nth[c] < Len(Subordinates[c])
    BY DEF ForkSubordinate
  <2>2. nth[c] \in 0..2
    BY <1>1 DEF OfficeTypeOK
  <2> DEFINE n == Len(Subordinates[c])
  <2>3. n \in 0..2 /\ nth[c] < n
    BY <2>1, StaffTypes
  <2> HIDE DEF n
  <2>4. k \in 1..n
    BY <2>2, <2>3
  <2>5. k \in 1..2
    BY <2>2, <2>3
  <2> QED
    BY <2>1, <2>2, <2>4, <2>5 DEF n
<1>3. d \in Clerk /\ clerk[d] = "none" /\ d # c /\ nth[d] = 0
  <2>1. d \in Clerk
    BY <1>2, StaffTypes
  <2>2. clerk[d] = "none"
    <3>1. k > nth[c]
      BY <1>2
    <3> QED
      BY <1>1, <1>2, <3>1 DEF ClerksInOrder
  <2> QED
    BY <1>1, <1>2, <2>1, <2>2 DEF PlaceInStaff
<1>4. /\ clerk' = [clerk EXCEPT ![d] = "inspect"] /\ nth' = [nth EXCEPT ![c] = k]
      /\ int_count' = int_count \cup (IF c \in int_count THEN {d} ELSE {})
      /\ gotDocument' = gotDocument \cup (IF c \in gotDocument THEN {d} ELSE {})
      /\ UNCHANGED <<clerkPending, documents, closed>>
  BY DEF ForkSubordinate, ClerkGoto
<1>5. /\ clerk'[d] = "inspect" /\ \A b \in Clerk : b # d => clerk'[b] = clerk[b]
      /\ nth'[c] = k /\ \A b \in Clerk : b # c => nth'[b] = nth[b]
  BY <1>1, <1>3, <1>4 DEF OfficeTypeOK
<1> HIDE DEF k, d
<1>6. OfficeTypeOK'
  <2>1. k \in 0..2
    BY <1>2
  <2>2. nth' \in [Clerk -> 0..2]
    BY <1>1, <1>4, <2>1 DEF OfficeTypeOK
  <2>3. clerk' \in [Clerk -> {"none", "await", "inspect", "sigsuspend", "look", "end", "wait", "gone"}]
    BY <1>1, <1>4 DEF OfficeTypeOK
  <2>4. int_count' \subseteq Clerk /\ gotDocument' \subseteq Clerk
    BY <1>1, <1>3, <1>4 DEF OfficeTypeOK
  <2> QED
    BY <1>1, <1>4, <2>2, <2>3, <2>4 DEF OfficeTypeOK
\* c alone is the superior of d.
<1>7. ASSUME NEW b \in Clerk, NEW i \in 1..Len(Subordinates[b]), Subordinates[b][i] = d
      PROVE  b = c /\ i = k
  BY <1>2, <1>7, OneSuperior DEF d
<1>8. \A b \in Clerk : \A i \in 1..Len(Subordinates[b]) : Subordinates[b][i] \in Clerk
  BY StaffTypes
<1>9. ASSUME NEW b \in Clerk
      PROVE  /\ clerk'[b] \in {"none", "await"} => \A e \in Staff(b) : clerk'[e] = "none"
             /\ clerk'[b] = "gone" => \A e \in Staff(b) : clerk'[e] = "gone"
             /\ clerk'[b] = "inspect" =>
                   \A i \in 1..Len(Subordinates[b]) : i > nth'[b] => clerk'[Subordinates[b][i]] = "none"
             /\ clerk'[b] = "wait" =>
                   \A i \in 1..Len(Subordinates[b]) : i <= nth'[b] => clerk'[Subordinates[b][i]] = "gone"
  <2>1. b # c => \A e \in Staff(b) : e \in Clerk /\ e # d
    BY <1>7, <1>8 DEF Staff
  <2>2. CASE b = c
    <3>1. ASSUME NEW i \in 1..Len(Subordinates[b]), i > k
          PROVE  clerk'[Subordinates[b][i]] = "none"
      <4>1. i > nth[c] /\ i # k
        BY <1>2, <3>1 DEF k
      <4>2. Subordinates[b][i] # d /\ clerk[Subordinates[b][i]] = "none"
        BY <1>1, <1>2, <1>7, <2>2, <4>1 DEF ClerksInOrder
      <4> QED
        BY <1>5, <1>8, <4>2
    <3> QED
      BY <1>2, <1>3, <1>5, <2>2, <3>1
  <2>3. CASE b = d
    <3>1. \A e \in Staff(b) : clerk[e] = "none" /\ e \in Clerk /\ e # d
      BY <1>1, <1>3, <2>1, <2>3 DEF ClerksInOrder
    <3>2. \A e \in Staff(b) : clerk'[e] = "none"
      BY <1>5, <3>1
    <3> QED
      BY <1>5, <2>3, <3>2 DEF Staff
  <2>4. CASE b # c /\ b # d
    <3>1. \A i \in 1..Len(Subordinates[b]) : Subordinates[b][i] \in Staff(b)
      BY DEF Staff
    <3> QED
      BY <1>1, <1>5, <2>1, <2>4, <3>1 DEF ClerksInOrder
  <2> QED
    BY <2>2, <2>3, <2>4
<1>10. ClerksInOrder'
  BY <1>9 DEF ClerksInOrder
<1>11. PlaceInStaff'
  <2>1. Len(Subordinates[c]) \in Nat /\ Len(Subordinates[d]) \in Nat
    BY <1>3, StaffTypes
  <2>2. k <= Len(Subordinates[c]) /\ 0 <= Len(Subordinates[d])
    BY <1>2, <2>1
  <2> QED
    BY <1>1, <1>2, <1>3, <1>5, <2>2 DEF PlaceInStaff
<1>12. ClosedFirst'
  BY <1>1, <1>2, <1>3, <1>4, <1>5 DEF ClosedFirst
<1> QED
  BY <1>6, <1>10, <1>11, <1>12 DEF OfficeIInv

\* The signals of a clerk that the office may send: all but the SIGINT of the user.
LEMMA Posted ==
  ASSUME OfficeTypeOK, NEW d \in Clerk, NEW s \in {"SIGUSR1", "SIGUSR2"},
         clerkPending' = PostTo(d, s, clerkPending)
  PROVE  /\ clerkPending' \in [Clerk -> SUBSET {"SIGUSR1", "SIGUSR2", "SIGINT"}]
         /\ \A b \in Clerk : "SIGINT" \in clerkPending'[b] => "SIGINT" \in clerkPending[b]
  BY DEF OfficeTypeOK, PostTo

LEMMA HandlersRun ==
  ASSUME OfficeIInv, NEW c \in Clerk, RunHandlers(c)
  PROVE  /\ clerkPending' \in [Clerk -> SUBSET {"SIGUSR1", "SIGUSR2", "SIGINT"}]
         /\ int_count' \subseteq Clerk /\ gotDocument' \subseteq Clerk
         /\ UNCHANGED <<nth, documents, closed>>
         /\ \A b \in Clerk : b \in int_count' \/ "SIGINT" \in clerkPending'[b] => closed
<1>1. OfficeTypeOK /\ ClosedFirst
  BY DEF OfficeIInv
<1>2. /\ clerkPending' = [clerkPending EXCEPT ![c] = {}]
      /\ int_count' = int_count \cup (IF "SIGINT" \in clerkPending[c] THEN {c} ELSE {})
      /\ gotDocument' = gotDocument \cup (IF "SIGUSR2" \in clerkPending[c] THEN {c} ELSE {})
      /\ UNCHANGED <<nth, documents, closed>>
  BY DEF RunHandlers
<1>3. ASSUME NEW b \in Clerk
      PROVE  b \in int_count' \/ "SIGINT" \in clerkPending'[b] => closed
  <2>1. clerkPending'[b] \subseteq clerkPending[b]
    BY <1>1, <1>2 DEF OfficeTypeOK
  <2> QED
    BY <1>1, <1>2, <2>1 DEF ClosedFirst
<1> QED
  BY <1>1, <1>2, <1>3 DEF OfficeTypeOK

LEMMA LeavingKeeps ==
  ASSUME OfficeIInv, NEW c \in Clerk, LeaveOffice(c)
  PROVE  OfficeIInv'
<1>1. OfficeTypeOK /\ ClerksInOrder /\ PlaceInStaff /\ ClosedFirst
  BY DEF OfficeIInv
<1>2. /\ clerk[c] = "wait" /\ nth[c] = Len(Subordinates[c])
      /\ clerk' = [clerk EXCEPT ![c] = "gone"] /\ nth' = [nth EXCEPT ![c] = 0]
      /\ int_count' = int_count \ {c} /\ gotDocument' = gotDocument \ {c}
      /\ clerkPending' = [clerkPending EXCEPT ![c] = {}]
      /\ UNCHANGED <<documents, closed>>
  BY DEF LeaveOffice, ClerkGoto
<1>3. /\ clerk'[c] = "gone" /\ nth'[c] = 0 /\ clerkPending'[c] = {}
      /\ \A b \in Clerk : b # c => /\ clerk'[b] = clerk[b] /\ nth'[b] = nth[b]
                                   /\ clerkPending'[b] = clerkPending[b]
  BY <1>1, <1>2 DEF OfficeTypeOK
<1>4. OfficeTypeOK'
  BY <1>1, <1>2 DEF OfficeTypeOK
<1>5. \A d \in Staff(c) : clerk'[d] = "gone"
  <2>1. ASSUME NEW i \in 1..Len(Subordinates[c])
        PROVE  clerk'[Subordinates[c][i]] = "gone"
    <3>1. i <= nth[c] /\ Subordinates[c][i] \in Clerk
      <4>1. Len(Subordinates[c]) \in Nat /\ i <= Len(Subordinates[c])
        BY StaffTypes
      <4> QED
        BY <1>2, <4>1, StaffTypes
    <3>2. clerk[Subordinates[c][i]] = "gone"
      BY <1>1, <1>2, <3>1 DEF ClerksInOrder
    <3> QED
      BY <1>3, <3>1, <3>2
  <2> QED
    BY <2>1 DEF Staff
<1>6. ClerksInOrder'
  BY <1>2, <1>3, <1>5, OthersInOrder DEF ClerksInOrder
<1>7. PlaceInStaff'
  BY <1>1, <1>3 DEF PlaceInStaff
<1>8. ClosedFirst'
  BY <1>1, <1>2, <1>3 DEF ClosedFirst
<1> QED
  BY <1>4, <1>6, <1>7, <1>8 DEF OfficeIInv

LEMMA WaitingKeeps ==
  ASSUME OfficeIInv, NEW c \in Clerk, WaitFor(c)
  PROVE  OfficeIInv'
<1> DEFINE k == nth[c] + 1  n == Len(Subordinates[c])
<1>1. OfficeTypeOK /\ ClerksInOrder /\ PlaceInStaff /\ ClosedFirst
  BY DEF OfficeIInv
<1>2. /\ clerk[c] = "wait" /\ nth[c] < n /\ clerk[Subordinates[c][k]] = "gone"
      /\ nth' = [nth EXCEPT ![c] = k]
      /\ UNCHANGED <<clerk, int_count, gotDocument, clerkPending, documents, closed>>
  BY DEF WaitFor
<1>3. nth[c] \in 0..2 /\ n \in 0..2
  BY <1>1, StaffTypes DEF OfficeTypeOK
<1>4. nth'[c] = k /\ \A b \in Clerk : b # c => nth'[b] = nth[b]
  BY <1>1, <1>2 DEF OfficeTypeOK
<1>5. k \in 0..2 /\ k <= n /\ nth[c] \in Nat /\ \A i \in 1..n : i <= k => i <= nth[c] \/ i = k
  <2> HIDE DEF n
  <2> QED
    BY <1>2, <1>3
<1> HIDE DEF k
<1>6. OfficeTypeOK'
  BY <1>1, <1>2, <1>5 DEF OfficeTypeOK
<1>7. ClerksInOrder'
  <2>1. ASSUME NEW i \in 1..n, i <= nth'[c] PROVE clerk[Subordinates[c][i]] = "gone"
    <3>1. i <= nth[c] \/ i = k
      BY <1>4, <1>5, <2>1
    <3> QED
      BY <1>1, <1>2, <3>1 DEF ClerksInOrder
  <2> QED
    BY <1>1, <1>2, <1>4, <2>1 DEF ClerksInOrder
<1>8. PlaceInStaff'
  BY <1>1, <1>2, <1>4, <1>5 DEF PlaceInStaff
<1>9. ClosedFirst'
  BY <1>1, <1>2 DEF ClosedFirst
<1> QED
  BY <1>6, <1>7, <1>8, <1>9 DEF OfficeIInv

LEMMA OfficeNextHolds == OfficeIInv /\ [OfficeNext]_officeVars => OfficeIInv'
<1> SUFFICES ASSUME OfficeIInv, [OfficeNext]_officeVars PROVE OfficeIInv'
  OBVIOUS
<1>1. OfficeTypeOK /\ ClerksInOrder /\ PlaceInStaff /\ ClosedFirst
  BY DEF OfficeIInv
<1>2. MaxDocuments \in Nat /\ Highest \in Clerk
  <2>1. MaxDocuments \in Nat
    BY OfficeAssumption, Zenon
  <2>2. Highest \in Clerk
    BY OfficeAssumption, Zenon
  <2> QED
    BY <2>1, <2>2
\* Nobody moves.
<1>3. ASSUME UNCHANGED <<clerk, nth>> PROVE ClerksInOrder' /\ PlaceInStaff'
  BY <1>1, <1>3 DEF ClerksInOrder, PlaceInStaff
<1>4. CASE AwaitUsr1
  <2> DEFINE l == IF "SIGUSR1" \in clerkPending[Highest] THEN "inspect" ELSE "await"
  <2>1. /\ clerk[Highest] = "await" /\ RunHandlers(Highest)
        /\ clerk' = [clerk EXCEPT ![Highest] = l]
    BY <1>4 DEF AwaitUsr1, ClerkGoto
  <2>2. /\ clerkPending' \in [Clerk -> SUBSET {"SIGUSR1", "SIGUSR2", "SIGINT"}]
        /\ int_count' \subseteq Clerk /\ gotDocument' \subseteq Clerk
        /\ UNCHANGED <<nth, documents, closed>>
        /\ \A b \in Clerk : b \in int_count' \/ "SIGINT" \in clerkPending'[b] => closed
    BY <1>2, <2>1, HandlersRun
  <2>3. clerk'[Highest] = l /\ \A b \in Clerk : b # Highest => clerk'[b] = clerk[b]
    BY <1>1, <1>2, <2>1 DEF OfficeTypeOK
  <2>4. OfficeTypeOK'
    BY <1>1, <2>1, <2>2 DEF OfficeTypeOK
  <2>5. PlaceInStaff'
    <3>1. nth[Highest] = 0 /\ 0 <= Len(Subordinates[Highest])
      BY <1>1, <1>2, <2>1, StaffTypes DEF PlaceInStaff
    <3> QED
      BY <1>1, <2>2, <2>3, <3>1 DEF PlaceInStaff
  <2>6. ClosedFirst'
    BY <1>1, <2>2, <2>3 DEF ClosedFirst
  <2>7. ClerksInOrder'
    <3>1. CASE l = "inspect"
      BY <1>2, <2>1, <2>2, <2>3, <3>1, ClerkMoves
    <3>2. CASE l = "await"
      BY <1>1, <2>1, <2>2, <2>3, <3>2, <1>3 DEF OfficeTypeOK
    <3> QED
      BY <3>1, <3>2
  <2> QED
    BY <2>4, <2>5, <2>6, <2>7 DEF OfficeIInv
<1>5. ASSUME NEW c \in Clerk, InspectedAll(c) PROVE OfficeIInv'
  <2>1. /\ clerk[c] = "inspect"
        /\ clerk' = [clerk EXCEPT ![c] = "sigsuspend"] /\ nth' = [nth EXCEPT ![c] = 0]
        /\ UNCHANGED <<int_count, gotDocument, clerkPending, documents, closed>>
    BY <1>5 DEF InspectedAll, ClerkGoto
  <2>2. /\ clerk'[c] = "sigsuspend" /\ nth'[c] = 0
        /\ \A b \in Clerk : b # c => clerk'[b] = clerk[b] /\ nth'[b] = nth[b]
    BY <1>1, <2>1 DEF OfficeTypeOK
  <2>3. ClerksInOrder'
    BY <2>1, <2>2, ClerkMoves
  <2>4. OfficeTypeOK'
    BY <1>1, <2>1 DEF OfficeTypeOK
  <2>5. PlaceInStaff' /\ ClosedFirst'
    BY <1>1, <2>1, <2>2 DEF PlaceInStaff, ClosedFirst
  <2> QED
    BY <2>3, <2>4, <2>5 DEF OfficeIInv
<1>6. ASSUME NEW c \in Clerk, SigsuspendReturns(c) PROVE OfficeIInv'
  <2>1. clerk[c] = "sigsuspend" /\ RunHandlers(c) /\ clerk' = [clerk EXCEPT ![c] = "look"]
    BY <1>6 DEF SigsuspendReturns, ClerkGoto
  <2>2. /\ clerkPending' \in [Clerk -> SUBSET {"SIGUSR1", "SIGUSR2", "SIGINT"}]
        /\ int_count' \subseteq Clerk /\ gotDocument' \subseteq Clerk
        /\ UNCHANGED <<nth, documents, closed>>
        /\ \A b \in Clerk : b \in int_count' \/ "SIGINT" \in clerkPending'[b] => closed
    BY <2>1, HandlersRun
  <2>3. /\ clerk'[c] = "look" /\ nth'[c] = nth[c]
        /\ \A b \in Clerk : b # c => clerk'[b] = clerk[b] /\ nth'[b] = nth[b]
    BY <1>1, <2>1, <2>2 DEF OfficeTypeOK
  <2>4. ClerksInOrder'
    BY <2>1, <2>3, ClerkMoves
  <2>5. OfficeTypeOK'
    BY <1>1, <2>1, <2>2 DEF OfficeTypeOK
  <2>6. PlaceInStaff' /\ ClosedFirst'
    BY <1>1, <2>1, <2>2, <2>3 DEF PlaceInStaff, ClosedFirst
  <2> QED
    BY <2>4, <2>5, <2>6 DEF OfficeIInv
<1>7. ASSUME NEW c \in Clerk, LookAtSignals(c) PROVE OfficeIInv'
  <2>1. PICK l \in {"end", "sigsuspend"} :
          clerk' = [clerk EXCEPT ![c] = l] /\ (l = "end" => c \in int_count)
    BY <1>7 DEF LookAtSignals, ClerkGoto
  <2>2. /\ clerk[c] = "look" /\ UNCHANGED <<nth, int_count, documents, closed>>
        /\ gotDocument' \subseteq gotDocument
    BY <1>7 DEF LookAtSignals
  <2>3. /\ clerkPending' \in [Clerk -> SUBSET {"SIGUSR1", "SIGUSR2", "SIGINT"}]
        /\ \A b \in Clerk : "SIGINT" \in clerkPending'[b] => "SIGINT" \in clerkPending[b]
    <3>1. \/ UNCHANGED clerkPending
          \/ c # Highest /\ clerkPending' = PostTo(Superior(c), "SIGUSR2", clerkPending)
      BY <1>7 DEF LookAtSignals
    <3> QED
      BY <1>1, <3>1, SuperiorIs, Posted DEF OfficeTypeOK
  <2>4. /\ clerk'[c] = l /\ nth'[c] = nth[c]
        /\ \A b \in Clerk : b # c => clerk'[b] = clerk[b] /\ nth'[b] = nth[b]
    BY <1>1, <2>1, <2>2 DEF OfficeTypeOK
  <2>5. ClerksInOrder'
    BY <2>2, <2>4, ClerkMoves
  <2>6. OfficeTypeOK'
    BY <1>1, <2>1, <2>2, <2>3 DEF OfficeTypeOK
  <2>7. PlaceInStaff'
    BY <1>1, <2>1, <2>2, <2>4 DEF PlaceInStaff
  <2>8. ClosedFirst'
    BY <1>1, <2>1, <2>2, <2>3, <2>4 DEF ClosedFirst
  <2> QED
    BY <2>5, <2>6, <2>7, <2>8 DEF OfficeIInv
<1>8. ASSUME NEW c \in Clerk, EndDayOf(c) PROVE OfficeIInv'
  <2> DEFINE k == 1 - nth[c]  l == IF nth[c] = 0 THEN "end" ELSE "wait"
  <2>1. /\ clerk[c] = "end" /\ nth' = [nth EXCEPT ![c] = k] /\ clerk' = [clerk EXCEPT ![c] = l]
        /\ UNCHANGED <<int_count, gotDocument, documents, closed>>
    BY <1>8 DEF EndDayOf, ClerkGoto
  <2>2. nth[c] \in {0, 1} /\ closed
    BY <1>1, <2>1 DEF PlaceInStaff, ClosedFirst
  <2>3. k \in {0, 1} /\ (l = "wait" => k = 0) /\ l \in {"end", "wait"}
    BY <2>2
  <2>4. clerkPending' \in [Clerk -> SUBSET {"SIGUSR1", "SIGUSR2", "SIGINT"}]
    <3>1. PICK pid \in Pid(c, nth[c] + 1) :
            clerkPending' = [d \in Clerk |-> IF d \in pid /\ Present(d)
                                             THEN clerkPending[d] \cup {"SIGINT"}
                                             ELSE clerkPending[d]]
      BY <1>8 DEF EndDayOf
    <3> QED
      BY <1>1, <3>1 DEF OfficeTypeOK
  <2>5. /\ clerk'[c] = l /\ nth'[c] = k
        /\ \A b \in Clerk : b # c => clerk'[b] = clerk[b] /\ nth'[b] = nth[b]
    BY <1>1, <2>1 DEF OfficeTypeOK
  <2> HIDE DEF k, l
  <2>6. ClerksInOrder'
    BY <2>1, <2>3, <2>5, ClerkMoves
  <2>7. OfficeTypeOK'
    <3>1. k \in 0..2
      BY <2>3
    <3>2. nth' \in [Clerk -> 0..2]
      BY <1>1, <2>1, <3>1 DEF OfficeTypeOK
    <3>3. clerk' \in [Clerk -> {"none", "await", "inspect", "sigsuspend", "look", "end", "wait", "gone"}]
      BY <1>1, <2>1, <2>3 DEF OfficeTypeOK
    <3> QED
      BY <1>1, <2>1, <2>4, <3>2, <3>3 DEF OfficeTypeOK
  <2>8. PlaceInStaff'
    <3>1. 0 <= Len(Subordinates[c])
      BY StaffTypes
    <3> QED
      BY <1>1, <2>3, <2>5, <3>1 DEF PlaceInStaff
  <2>9. ClosedFirst'
    BY <2>1, <2>2 DEF ClosedFirst
  <2> QED
    BY <2>6, <2>7, <2>8, <2>9 DEF OfficeIInv
<1>9. CASE OpenOffice \/ \E c \in Clerk : BringDocument(c)
  <2>1. PICK c \in Clerk, s \in {"SIGUSR1", "SIGUSR2"} : clerkPending' = PostTo(c, s, clerkPending)
    BY <1>2, <1>9 DEF OpenOffice, BringDocument
  <2>2. UNCHANGED <<clerk, nth, int_count, gotDocument, closed>>
    BY <1>9 DEF OpenOffice, BringDocument
  <2>3. documents' \in 0..MaxDocuments
    <3>1. documents \in 0..MaxDocuments
      BY <1>1 DEF OfficeTypeOK
    <3> QED
      BY <1>2, <1>9, <3>1 DEF OpenOffice, BringDocument
  <2>4. /\ clerkPending' \in [Clerk -> SUBSET {"SIGUSR1", "SIGUSR2", "SIGINT"}]
        /\ \A b \in Clerk : "SIGINT" \in clerkPending'[b] => "SIGINT" \in clerkPending[b]
    BY <1>1, <2>1, Posted
  <2>5. OfficeTypeOK'
    BY <1>1, <2>2, <2>3, <2>4 DEF OfficeTypeOK
  <2>6. ClosedFirst'
    BY <1>1, <2>2, <2>4 DEF ClosedFirst
  <2> QED
    BY <1>3, <2>2, <2>5, <2>6 DEF OfficeIInv
<1>10. CASE CloseOffice
  <2>1. /\ closed' = TRUE /\ UNCHANGED <<clerk, nth, int_count, gotDocument, documents>>
        /\ clerkPending' = [c \in Clerk |-> IF Present(c) THEN clerkPending[c] \cup {"SIGINT"}
                                             ELSE clerkPending[c]]
    BY <1>10 DEF CloseOffice
  <2>2. clerkPending' \in [Clerk -> SUBSET {"SIGUSR1", "SIGUSR2", "SIGINT"}]
    BY <1>1, <2>1 DEF OfficeTypeOK
  <2>3. OfficeTypeOK'
    BY <1>1, <2>1, <2>2 DEF OfficeTypeOK
  <2>4. ClosedFirst'
    BY <2>1 DEF ClosedFirst
  <2> QED
    BY <1>3, <2>1, <2>3, <2>4 DEF OfficeIInv
<1>11. CASE UNCHANGED officeVars
  BY <1>1, <1>3, <1>11 DEF OfficeIInv, OfficeTypeOK, ClosedFirst, officeVars
<1> QED
  BY <1>4, <1>5, <1>6, <1>7, <1>8, <1>9, <1>10, <1>11, ClerkForks, WaitingKeeps, LeavingKeeps
  DEF OfficeNext, ClerkStep

\* warsztaty.c: nobody comes before its superior nor leaves after it, and only
\* the user closes the office, for any finite tree of clerks.
THEOREM OfficeInvariance == OfficeSpec => []OfficeIInv
  BY OfficeInitHolds, OfficeNextHolds, PTL DEF OfficeSpec

LEMMA OrderKeepsSuperiors == OfficeIInv => SuperiorsStay
<1> SUFFICES ASSUME OfficeIInv PROVE SuperiorsStay
  OBVIOUS
<1>1. ClerksInOrder /\ ClosedFirst
  BY DEF OfficeIInv
<1>2. ASSUME NEW c \in Clerk, c # Highest, Present(c)
      PROVE  Present(Superior(c))
  BY <1>1, <1>2, SuperiorIs DEF ClerksInOrder, Present
<1> QED
  BY <1>1, <1>2 DEF SuperiorsStay, ClosedFirst

-----------------------------------------------------------------------------
(* The programs that are checked together: each runs as it does alone, or  *)
(* stays as it was.                                                        *)

LEMMA RaceRuns ==
  /\ Init => DogInit
  /\ [Next]_vars => [DogNext]_raceVars
<1>1. Init => DogInit
  BY DEF Init
<1>2. ASSUME [Next]_vars PROVE [DogNext]_raceVars
  BY <1>2 DEF Next, RunThreads, RunProcesses, vars, threadVars, processVars
<1> QED
  BY <1>1, <1>2

LEMMA CounterRuns ==
  /\ Init => CounterInit
  /\ [Next]_vars => [CounterNext]_counterVars
<1>1. Init => CounterInit
  BY DEF Init
<1>2. ASSUME [Next]_vars PROVE [CounterNext]_counterVars
  BY <1>2 DEF Next, RunThreads, RunProcesses, vars, threadVars, processVars
<1> QED
  BY <1>1, <1>2

LEMMA YearsRuns ==
  /\ Init => YearsInit
  /\ [Next]_vars => [YearsNext]_yearsVars
<1>1. Init => YearsInit
  BY DEF Init
<1>2. ASSUME [Next]_vars PROVE [YearsNext]_yearsVars
  BY <1>2 DEF Next, RunThreads, RunProcesses, vars, threadVars, processVars
<1> QED
  BY <1>1, <1>2

LEMMA BallsRuns ==
  /\ Init => BallsInit
  /\ [Next]_vars => [BallsNext]_ballVars
<1>1. Init => BallsInit
  BY DEF Init
<1>2. ASSUME [Next]_vars PROVE [BallsNext]_ballVars
  BY <1>2 DEF Next, RunThreads, RunProcesses, vars, threadVars, processVars
<1> QED
  BY <1>1, <1>2

LEMMA ArrayRuns ==
  /\ Init => ArrayInit
  /\ [Next]_vars => [ArrayNext]_arrayVars
<1>1. Init => ArrayInit
  BY DEF Init
<1>2. ASSUME [Next]_vars PROVE [ArrayNext]_arrayVars
  BY <1>2 DEF Next, RunThreads, RunProcesses, vars, threadVars, processVars
<1> QED
  BY <1>1, <1>2

LEMMA CopyRuns ==
  /\ Init => CopyInit
  /\ [Next]_vars => [CopyNext]_copyVars
<1>1. Init => CopyInit
  BY DEF Init
<1>2. ASSUME [Next]_vars PROVE [CopyNext]_copyVars
  BY <1>2 DEF Next, RunThreads, RunProcesses, vars, threadVars, processVars
<1> QED
  BY <1>1, <1>2

LEMMA KindergartenRuns ==
  /\ Init => KindergartenInit
  /\ [Next]_vars => [KindergartenNext]_kindergartenVars
<1>1. Init => KindergartenInit
  BY DEF Init
<1>2. ASSUME [Next]_vars PROVE [KindergartenNext]_kindergartenVars
  BY <1>2 DEF Next, RunThreads, RunProcesses, vars, threadVars, processVars
<1> QED
  BY <1>1, <1>2

LEMMA AlarmRuns ==
  /\ Init => AlarmInit
  /\ [Next]_vars => [AlarmNext]_alarmVars
<1>1. Init => AlarmInit
  BY DEF Init
<1>2. ASSUME [Next]_vars PROVE [AlarmNext]_alarmVars
  BY <1>2 DEF Next, RunThreads, RunProcesses, vars, threadVars, processVars
<1> QED
  BY <1>1, <1>2

LEMMA TallyRuns ==
  /\ Init => TallyInit
  /\ [Next]_vars => [TallyNext]_tallyVars
<1>1. Init => TallyInit
  BY DEF Init
<1>2. ASSUME [Next]_vars PROVE [TallyNext]_tallyVars
  BY <1>2 DEF Next, RunThreads, RunProcesses, vars, threadVars, processVars
<1> QED
  BY <1>1, <1>2

LEMMA BlocksRuns ==
  /\ Init => BlocksInit
  /\ [Next]_vars => [BlocksNext]_blocksVars
<1>1. Init => BlocksInit
  BY DEF Init
<1>2. ASSUME [Next]_vars PROVE [BlocksNext]_blocksVars
  BY <1>2 DEF Next, RunThreads, RunProcesses, vars, threadVars, processVars
<1> QED
  BY <1>1, <1>2

LEMMA TurnsRuns ==
  /\ Init => TurnsInit
  /\ [Next]_vars => [TurnsNext]_turnVars
<1>1. Init => TurnsInit
  BY DEF Init
<1>2. ASSUME [Next]_vars PROVE [TurnsNext]_turnVars
  BY <1>2 DEF Next, RunThreads, RunProcesses, vars, threadVars, processVars
<1> QED
  BY <1>1, <1>2

LEMMA OfficeRuns ==
  /\ Init => OfficeInit
  /\ [Next]_vars => [OfficeNext]_officeVars
<1>1. Init => OfficeInit
  BY DEF Init
<1>2. ASSUME [Next]_vars PROVE [OfficeNext]_officeVars
  BY <1>2 DEF Next, RunThreads, RunProcesses, vars, threadVars, processVars
<1> QED
  BY <1>1, <1>2

ProgramsIInv ==
    /\ RaceIInv /\ CounterIInv /\ YearsIInv /\ BallsIInv /\ ArrayIInv
    /\ CopyIInv /\ KindergartenIInv /\ AlarmIInv /\ TallyIInv /\ BlocksIInv
    /\ TurnsIInv /\ OfficeIInv

(* Whichever program runs, the invariants of all of them hold.             *)
THEOREM ProgramsInvariance == Spec => []ProgramsIInv
<1>1. Spec => []RaceIInv
  BY RaceRuns, RaceInvariance, PTL DEF Spec, RaceSpec
<1>2. Spec => []CounterIInv
  BY CounterRuns, CounterInvariance, PTL DEF Spec, CounterSpec
<1>3. Spec => []YearsIInv
  BY YearsRuns, YearsInitHolds, YearsNextHolds, PTL DEF Spec, YearsSpec
<1>4. Spec => []BallsIInv
  BY BallsRuns, BallsInvariance, PTL DEF Spec, BallsSpec
<1>5. Spec => []ArrayIInv
  BY ArrayRuns, ArrayInvariance, PTL DEF Spec, ArraySpec
<1>6. Spec => []CopyIInv
  BY CopyRuns, CopyInvariance, PTL DEF Spec, CopySpec
<1>7. Spec => []KindergartenIInv
  BY KindergartenRuns, KindergartenInvariance, PTL DEF Spec, KindergartenSpec
<1>8. Spec => []AlarmIInv
  BY AlarmRuns, AlarmInvariance, PTL DEF Spec, AlarmSpec
<1>9. Spec => []TallyIInv
  BY TallyRuns, TallyInvariance, PTL DEF Spec, TallySpec
<1>10. Spec => []BlocksIInv
  BY BlocksRuns, BlocksInvariance, PTL DEF Spec, BlocksSpec
<1>11. Spec => []TurnsIInv
  BY TurnsRuns, TurnsInvariance, PTL DEF Spec, TurnsSpec
<1>12. Spec => []OfficeIInv
  BY OfficeRuns, OfficeInvariance, PTL DEF Spec, OfficeSpec
<1> QED
  BY <1>1, <1>2, <1>3, <1>4, <1>5, <1>6, <1>7, <1>8, <1>9, <1>10, <1>11, <1>12, PTL DEF ProgramsIInv

(* Each program keeps the types of its variables; no dog and no thread is  *)
(* counted twice.                                                          *)
THEOREM ProgramsTypeCorrect == Spec => []TypeOK
<1>1. ProgramsIInv => TypeOK
  BY DEF ProgramsIInv, TypeOK, RaceIInv, CounterIInv, YearsIInv, BallsIInv, ArrayIInv, CopyIInv,
     KindergartenIInv, AlarmIInv, TallyIInv, BlocksIInv, TurnsIInv, OfficeIInv
<1> QED
  BY <1>1, ProgramsInvariance, PTL

(* What main prints of data that threads change is exact, for any number   *)
(* of balls, bins and throwing threads, and an array of any size.          *)
THEOREM PrintsWhatIsThereHolds == Spec => []PrintsWhatIsThere
<1>1. ProgramsIInv => PrintsWhatIsThere
  BY LandedIsTotal DEF ProgramsIInv, PrintsWhatIsThere, ArrayIInv
<1> QED
  BY <1>1, ProgramsInvariance, PTL

(* Signals merge but never multiply, every effect has its cause, blocks    *)
(* are copied whole, the turn is not lost and superiors stay: for any      *)
(* number of children, writers, blocks, clerks, and any tree of clerks.    *)
THEOREM SignalsHaveCausesHolds == Spec => []SignalsHaveCauses
<1>1. ProgramsIInv => SignalsHaveCauses
  BY KeptIsNotLost, OrderKeepsSuperiors
  DEF ProgramsIInv, SignalsHaveCauses, KindergartenIInv, AlarmIInv, TallyIInv, BlocksIInv
<1> QED
  BY <1>1, ProgramsInvariance, PTL
=============================================================================
