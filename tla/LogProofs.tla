----------------------------- MODULE LogProofs -----------------------------
(***************************************************************************)
(* Theorems about Log, for every number of processes, blocks, operations   *)
(* and crashes: the log never overflows, its counters and its wake-ups are *)
(* right, it implements AtomicDisk, and the copies of a block are where    *)
(* they have to be.                                                        *)
(***************************************************************************)
EXTENDS Log, FiniteSetTheorems, TLAPS

-----------------------------------------------------------------------------
(* The invariant about control: who is where, and who may still append.    *)
Inside == {"in", "append"}
Active == {p \in Procs : opc[p] \in Inside}

(* The log blocks begin_op has granted, MaxOp to each active process, and  *)
(* those of them that may still be used: the k-th is used up when the k-th *)
(* block of the operation has been appended, or found in the log.          *)
Granted == Active \X (1..MaxOp)
Reserved ==
  {r \in Granted :
     \/ r[2] > Cardinality(written[r[1]])
     \/ /\ r[2] = Cardinality(written[r[1]])
        /\ opc[r[1]] = "append" /\ ~InLog(target[r[1]])}

ControlTypes ==
  /\ lh \in Seq(Blocks) /\ head \in [Disks -> Seq(Blocks)]
  /\ outstanding \in Nat /\ committing \in BOOLEAN
  /\ opc \in [Procs -> {"out", "sleep", "woken", "in", "append", "commit"}]
  /\ target \in [Procs -> Blocks \cup {NoBlock}]
  /\ written \in [Procs -> SUBSET Blocks]
  /\ phase \in {"idle", "log", "head", "install", "clear", "done"}
  /\ tail \in 1..(LogSize + 1) /\ left \in {{}, {1}}
  /\ mode \in {"up", "recovering", "panic"} /\ failDisk \in -1..1

Counting ==
  /\ IsFiniteSet(Active) /\ Cardinality(Active) = outstanding
  /\ committing <=> \E p \in Procs : opc[p] = "commit"
  /\ committing => outstanding = 0
  /\ \A p, q \in Procs : opc[p] = "commit" /\ opc[q] = "commit" => p = q

(* Where commit() and recovery are, and what the log holds there.          *)
Phases ==
  /\ mode = "up" => (committing <=> phase # "idle")
  /\ mode = "panic" => phase = "idle" /\ ~committing
  /\ mode = "recovering" => /\ phase \in {"install", "clear"}
                            /\ \A p \in Procs : opc[p] = "out"
  /\ phase \in {"log", "install"} => tail \in 1..Len(lh)
  /\ phase = "head" => tail = 1 /\ lh # <<>>
  /\ phase \in {"clear", "done"} => lh = <<>>
  /\ phase = "idle" /\ outstanding = 0 => lh = <<>>
  /\ phase \in {"idle", "done"} => left = {}

(* What an operation has written is in the log, but for the block it is    *)
(* about to append.                                                        *)
Operations ==
  \A p \in Procs :
    /\ IsFiniteSet(written[p]) /\ Cardinality(written[p]) <= MaxOp
    /\ opc[p] \notin Inside => written[p] = {}
    /\ opc[p] = "in" => \A b \in written[p] : InLog(b)
    /\ opc[p] = "append" => /\ target[p] \in written[p]
                            /\ \A b \in written[p] \ {target[p]} : InLog(b)

Fits ==
  /\ Len(lh) + Cardinality(Reserved) <= LogSize
  /\ \A d \in Disks : Len(head[d]) <= LogSize

ControlInv ==
  ControlTypes /\ Counting /\ Phases /\ Operations /\ Fits /\ NoLostWakeup

-----------------------------------------------------------------------------
(* A bwrite transfers to disk 0 and then to disk 1, or to one of them.     *)
LEMMA TransferFacts ==
  ASSUME left \in {{}, {1}}, failDisk \in -1..1, Transfer
  PROVE  /\ left' \in {{}, {1}}
         /\ LastTransfer => left' = {}
         /\ NextDisk \in Disks
         /\ ~LastTransfer => left = {} /\ left' = {1} /\ NextDisk = 0
         /\ failDisk # 0 /\ left = {} => NextDisk = 0
         /\ left = {1} => NextDisk = 1 /\ LastTransfer
<1>1. CASE left = {1}
  <2>1. Remaining = {1} /\ NextDisk = 1 /\ LastTransfer
    BY <1>1 DEF Remaining, NextDisk, LastTransfer
  <2>2. left' = {}
    BY <2>1 DEF Transfer
  <2> QED BY <1>1, <2>1, <2>2 DEF Disks
<1>2. CASE left = {} /\ failDisk = 0
  <2>1. Remaining = {1} /\ NextDisk = 1 /\ LastTransfer
    BY <1>2 DEF Remaining, NextDisk, LastTransfer, Disks
  <2>2. left' = {}
    BY <2>1 DEF Transfer
  <2> QED BY <1>2, <2>1, <2>2 DEF Disks
<1>3. CASE left = {} /\ failDisk = 1
  <2>1. Remaining = {0} /\ NextDisk = 0 /\ LastTransfer
    BY <1>3 DEF Remaining, NextDisk, LastTransfer, Disks
  <2>2. left' = {}
    BY <2>1 DEF Transfer
  <2> QED BY <1>3, <2>1, <2>2 DEF Disks
<1>4. CASE left = {} /\ failDisk = -1
  <2>1. Remaining = {0, 1} /\ NextDisk = 0
    BY <1>4 DEF Remaining, NextDisk, Disks
  <2>2. ~LastTransfer
    BY <2>1 DEF LastTransfer
  <2>3. left' = {1}
    BY <2>1 DEF Transfer
  <2> QED BY <1>4, <2>1, <2>2, <2>3 DEF Disks
<1> QED BY <1>1, <1>2, <1>3, <1>4

(* Where a process is inside an operation nothing is being committed; and  *)
(* where something is, or the system recovers, no process is inside one.   *)
LEMMA InsideFacts ==
  ASSUME ControlInv
  PROVE  /\ outstanding = 0 <=> \A p \in Procs : opc[p] \notin Inside
         /\ outstanding > 0 <=> \E p \in Procs : opc[p] \in Inside
         /\ (\E p \in Procs : opc[p] \in Inside) => /\ ~committing
                                                  /\ phase = "idle" /\ left = {}
         /\ phase # "idle" => outstanding = 0
<1> USE DEF ControlInv, ControlTypes, Counting
<1>1. outstanding = 0 <=> Active = {}
  BY FS_EmptySet
<1>2. outstanding = 0 <=> \A p \in Procs : opc[p] \notin Inside
  BY <1>1 DEF Active
<1>3. outstanding > 0 <=> \E p \in Procs : opc[p] \in Inside
  BY <1>2
<1>4. mode = "recovering" => outstanding = 0
  BY <1>2 DEF Phases, Inside
<1>5. (\E p \in Procs : opc[p] \in Inside) => ~committing /\ phase = "idle" /\ left = {}
  BY <1>3, <1>4 DEF Phases
<1> QED BY <1>2, <1>3, <1>5

(* The grants are finite, and outstanding * MaxOp of them.                 *)
LEMMA GrantedFacts ==
  ASSUME ControlInv
  PROVE  /\ IsFiniteSet(Granted) /\ Cardinality(Granted) = outstanding * MaxOp
         /\ IsFiniteSet(Reserved) /\ Cardinality(Reserved) \in Nat
         /\ Cardinality(Reserved) <= Cardinality(Granted)
<1>1. IsFiniteSet(1..MaxOp) /\ Cardinality(1..MaxOp) = MaxOp
  BY FS_Interval, LogAssumption
<1>2. IsFiniteSet(Granted) /\ Cardinality(Granted) = outstanding * MaxOp
  BY <1>1, FS_Product DEF Granted, ControlInv, Counting
<1>3. Reserved \in SUBSET Granted
  BY DEF Reserved
<1> QED BY <1>2, <1>3, FS_Subset, FS_CardinalityType

(* Fits survives a step that keeps the log and the header blocks and takes *)
(* reservations away.                                                      *)
LEMMA FitsShrink ==
  ASSUME ControlInv, lh' = lh, head' = head, Reserved' \subseteq Reserved
  PROVE  Fits'
<1>1. Cardinality(Reserved') <= Cardinality(Reserved) /\ Cardinality(Reserved') \in Nat
  BY GrantedFacts, FS_Subset, FS_CardinalityType
<1>2. Len(lh) + Cardinality(Reserved) <= LogSize /\ Len(lh) \in Nat
  BY DEF ControlInv, Fits, ControlTypes
<1> QED BY <1>1, <1>2, GrantedFacts, LogAssumption DEF Fits, ControlInv

-----------------------------------------------------------------------------
LEMMA ControlInit == Init => ControlInv
<1> SUFFICES ASSUME Init PROVE ControlInv
  OBVIOUS
<1> USE DEF Init
<1>1. ControlTypes
  <2>1. lh \in Seq(Blocks) /\ head \in [Disks -> Seq(Blocks)]
    OBVIOUS
  <2>2. /\ opc \in [Procs -> {"out", "sleep", "woken", "in", "append", "commit"}]
        /\ target \in [Procs -> Blocks \cup {NoBlock}]
        /\ written \in [Procs -> SUBSET Blocks]
    OBVIOUS
  <2>3. tail \in 1..(LogSize + 1) /\ left \in {{}, {1}} /\ failDisk \in -1..1
    BY LogAssumption
  <2> QED BY <2>1, <2>2, <2>3 DEF ControlTypes
<1>2. Active = {} /\ Granted = {} /\ Reserved = {}
  BY DEF Active, Granted, Reserved, Inside
<1>3. Counting
  BY <1>2, FS_EmptySet DEF Counting
<1>4. Phases
  BY DEF Phases
<1>5. Operations
  BY FS_EmptySet, LogAssumption DEF Operations, Inside
<1>6. Fits
  <2>1. Cardinality(Reserved) = 0 /\ Len(lh) = 0
    BY <1>2, FS_EmptySet
  <2>2. \A d \in Disks : Len(head[d]) = 0
    OBVIOUS
  <2> QED BY <2>1, <2>2, LogAssumption DEF Fits
<1>7. NoLostWakeup
  BY DEF NoLostWakeup
<1> QED BY <1>1, <1>3, <1>4, <1>5, <1>6, <1>7 DEF ControlInv

-----------------------------------------------------------------------------
(* One lemma for each action.                                              *)
LEMMA BeginOpControl ==
  ASSUME ControlInv, NEW p \in Procs, BeginOp(p)
  PROVE  ControlInv'
<1> USE DEF BeginOp
<1>1. ControlTypes'
  BY DEF ControlInv, ControlTypes, diskVars, opVars, stepVars
<1>2. Active' = Active \cup {p} /\ p \notin Active
  BY DEF ControlInv, ControlTypes, Active, Inside
<1>3. ~committing /\ phase = "idle" /\ ~committing'
  BY DEF Admissible, ControlInv, Phases, stepVars
<1>4. Counting'
  <2>1. IsFiniteSet(Active') /\ Cardinality(Active') = outstanding'
    BY <1>2, FS_AddElement DEF ControlInv, Counting
  <2>2. \A q \in Procs : opc'[q] # "commit"
    BY <1>3 DEF ControlInv, Counting, ControlTypes
  <2> QED BY <1>3, <2>1, <2>2 DEF Counting
<1>5. Phases'
  BY <1>3 DEF ControlInv, Phases, ControlTypes, Counting, opVars, stepVars
<1>6. Operations'
  BY FS_EmptySet, LogAssumption
  DEF ControlInv, Operations, ControlTypes, Inside, InLog, opVars
<1>7. Fits'
  <2>1. IsFiniteSet(1..MaxOp) /\ Cardinality(1..MaxOp) = MaxOp
    BY FS_Interval, LogAssumption
  <2>2. IsFiniteSet(Granted') /\ Cardinality(Granted') = (outstanding + 1) * MaxOp
    <3>1. IsFiniteSet(Active') /\ Cardinality(Active') = outstanding + 1
      BY <1>4 DEF Counting
    <3>2. Granted' = Active' \X (1..MaxOp)
      BY DEF Granted
    <3> HIDE DEF BeginOp
    <3> QED BY <2>1, <3>1, <3>2, FS_Product
  <2>3. Reserved' \in SUBSET Granted'
    BY DEF Reserved
  <2>4. Cardinality(Reserved') <= Cardinality(Granted') /\ Cardinality(Reserved') \in Nat
    BY <2>2, <2>3, FS_Subset, FS_CardinalityType
  <2>5. Len(lh) + (outstanding + 1) * MaxOp <= LogSize /\ Len(lh) \in Nat
    BY DEF Admissible, ControlInv, ControlTypes
  <2>6. (outstanding + 1) * MaxOp \in Nat
    BY LogAssumption DEF ControlInv, ControlTypes
  <2> QED BY <2>2, <2>4, <2>5, <2>6, LogAssumption DEF Fits, ControlInv, diskVars
<1>8. NoLostWakeup'
  BY DEF ControlInv, NoLostWakeup, ControlTypes
<1> QED BY <1>1, <1>4, <1>5, <1>6, <1>7, <1>8 DEF ControlInv

(* A step that leaves the processes inside their operations and writes     *)
(* neither counter nor the log keeps the sets of the invariant.            *)
LEMMA SameInside ==
  ASSUME \A q \in Procs : opc'[q] \in Inside <=> opc[q] \in Inside
  PROVE  Active' = Active /\ Granted' = Granted
BY DEF Active, Granted

LEMMA BeginOpSleepControl ==
  ASSUME ControlInv, NEW p \in Procs, BeginOpSleep(p)
  PROVE  ControlInv'
<1> USE DEF BeginOpSleep
<1>1. ControlTypes'
  BY DEF ControlInv, ControlTypes, diskVars, opVars, stepVars
<1>2. \A q \in Procs : /\ opc'[q] \in Inside \cup {"commit"} <=> opc[q] \in Inside \cup {"commit"}
                       /\ opc[q] \in Inside \cup {"commit"} => opc'[q] = opc[q]
  BY DEF ControlInv, ControlTypes, Inside
<1>3. Active' = Active /\ Granted' = Granted
  BY <1>2, SameInside DEF Inside
<1>4. Counting'
  BY <1>2, <1>3 DEF ControlInv, Counting, Inside
<1>5. Phases'
  BY DEF ControlInv, Phases, ControlTypes, Counting, stepVars
<1>6. Operations'
  BY <1>2 DEF ControlInv, Operations, Inside, InLog
<1>7. Fits'
  <2>1. Reserved' \subseteq Reserved
    BY <1>2, <1>3 DEF Reserved, Granted, Active, Inside, InLog
  <2> QED BY <2>1, FitsShrink DEF diskVars
<1>8. NoLostWakeup'
  BY DEF ControlInv, NoLostWakeup, ControlTypes, Admissible
<1> QED BY <1>1, <1>4, <1>5, <1>6, <1>7, <1>8 DEF ControlInv

(* log_write finds the log full and panics.                                *)
LEMMA LogWritePanicControl ==
  ASSUME ControlInv, NEW p \in Procs, NEW b \in Blocks, LogWriteCheck(p, b), LogFull
  PROVE  ControlInv'
<1>1. /\ opc[p] = "in" /\ mode' = "panic"
      /\ UNCHANGED <<head, lh, outstanding, committing, opc, target, written, phase, tail,
                     left, failDisk>>
  BY DEF LogWriteCheck, diskVars, opVars, stepVars
<1>2. ControlTypes'
  BY <1>1 DEF ControlInv, ControlTypes
<1>3. Active' = Active /\ Granted' = Granted
  BY <1>1, SameInside
<1>4. Counting'
  BY <1>1, <1>3 DEF ControlInv, Counting
<1>5. ~committing /\ phase = "idle" /\ outstanding > 0
  BY <1>1, InsideFacts DEF Inside
<1>6. Phases'
  BY <1>1, <1>5 DEF ControlInv, Phases
<1>7. Operations'
  BY <1>1 DEF ControlInv, Operations, InLog
<1>8. Reserved' \subseteq Reserved
  BY <1>1, <1>3 DEF Reserved, InLog
<1>9. Fits'
  BY <1>1, <1>8, FitsShrink
<1>10. NoLostWakeup'
  BY <1>1 DEF ControlInv, NoLostWakeup, Admissible
<1> QED BY <1>2, <1>4, <1>6, <1>7, <1>9, <1>10 DEF ControlInv

(* It does not.                                                            *)
LEMMA LogWriteCheckControl ==
  ASSUME ControlInv, NEW p \in Procs, NEW b \in Blocks, LogWriteCheck(p, b), ~LogFull
  PROVE  ControlInv'
<1>1. /\ opc[p] = "in"
      /\ opc' = [opc EXCEPT ![p] = "append"]
      /\ target' = [target EXCEPT ![p] = b]
      /\ written' = [written EXCEPT ![p] = @ \cup {b}]
      /\ Cardinality(written[p] \cup {b}) <= OpWrites
      /\ UNCHANGED <<head, lh, outstanding, committing, phase, tail, left, mode, failDisk>>
  BY DEF LogWriteCheck, diskVars, stepVars
<1>2. ControlTypes'
  BY <1>1 DEF ControlInv, ControlTypes
<1>3. \A q \in Procs : /\ opc'[q] \in Inside <=> opc[q] \in Inside
                       /\ opc'[q] = "commit" <=> opc[q] = "commit"
                       /\ opc'[q] = "sleep" <=> opc[q] = "sleep"
  BY <1>1 DEF ControlInv, ControlTypes, Inside
<1>4. Active' = Active /\ Granted' = Granted
  BY <1>3, SameInside
<1>5. Counting'
  BY <1>1, <1>3, <1>4 DEF ControlInv, Counting
<1>6. ~committing /\ phase = "idle" /\ outstanding > 0 /\ mode # "recovering"
  BY <1>1, InsideFacts DEF Inside, ControlInv, Phases
<1>7. Phases'
  BY <1>1, <1>6 DEF ControlInv, Phases
<1>8. /\ IsFiniteSet(written[p]) /\ Cardinality(written[p]) \in Nat
      /\ \A c \in written[p] : InLog(c)
  BY <1>1, FS_CardinalityType DEF ControlInv, Operations
<1>9. /\ IsFiniteSet(written'[p]) /\ Cardinality(written'[p]) <= MaxOp
      /\ Cardinality(written'[p]) = IF b \in written[p] THEN Cardinality(written[p])
                                                      ELSE Cardinality(written[p]) + 1
      /\ written'[p] = written[p] \cup {b} /\ target'[p] = b
  <2>1. written'[p] = written[p] \cup {b} /\ target'[p] = b
    BY <1>1 DEF ControlInv, ControlTypes
  <2>2. /\ IsFiniteSet(written[p] \cup {b})
        /\ Cardinality(written[p] \cup {b}) = IF b \in written[p]
                                                 THEN Cardinality(written[p])
                                                 ELSE Cardinality(written[p]) + 1
    BY <1>8, FS_AddElement
  <2>3. Cardinality(written[p] \cup {b}) <= MaxOp
    BY <1>1, <1>8, <2>2, LogAssumption
  <2> QED BY <2>1, <2>2, <2>3
<1>10. Operations'
  <2> SUFFICES ASSUME NEW q \in Procs
               PROVE  /\ IsFiniteSet(written'[q]) /\ Cardinality(written'[q]) <= MaxOp
                      /\ opc'[q] \notin Inside => written'[q] = {}
                      /\ opc'[q] = "in" => \A c \in written'[q] : InLog(c)
                      /\ opc'[q] = "append" =>
                           /\ target'[q] \in written'[q]
                           /\ \A c \in written'[q] \ {target'[q]} : InLog(c)
    BY <1>1 DEF Operations, InLog
  <2>1. CASE q = p
    BY <1>1, <1>8, <1>9, <2>1 DEF ControlInv, ControlTypes, Inside
  <2>2. CASE q # p
    BY <1>1, <2>2 DEF ControlInv, ControlTypes, Operations
  <2> QED BY <2>1, <2>2
<1>11. Reserved' \subseteq Reserved
  <2> SUFFICES ASSUME NEW r \in Reserved' PROVE r \in Reserved
    OBVIOUS
  <2>1. r \in Granted /\ r[1] \in Procs /\ r[2] \in 1..MaxOp
    BY <1>4 DEF Reserved, Granted, Active
  <2>2. CASE r[1] # p
    BY <1>1, <2>1, <2>2 DEF Reserved, ControlInv, ControlTypes, InLog
  <2>3. CASE r[1] = p
    <3>1. \/ r[2] > Cardinality(written'[p])
          \/ r[2] = Cardinality(written'[p]) /\ ~InLog(b)
      BY <1>1, <1>9, <2>3 DEF Reserved, InLog
    <3>2. r[2] > Cardinality(written[p])
      BY <1>8, <1>9, <2>1, <3>1
    <3> QED BY <2>1, <2>3, <3>2 DEF Reserved
  <2> QED BY <2>2, <2>3
<1>12. Fits'
  BY <1>1, <1>11, FitsShrink
<1>13. NoLostWakeup'
  BY <1>1, <1>3 DEF ControlInv, NoLostWakeup, Admissible
<1> QED BY <1>2, <1>5, <1>7, <1>10, <1>12, <1>13 DEF ControlInv

LEMMA LogWriteAppendControl ==
  ASSUME ControlInv, NEW p \in Procs, LogWriteAppend(p)
  PROVE  ControlInv'
<1>1. /\ opc[p] = "append"
      /\ opc' = [opc EXCEPT ![p] = "in"]
      /\ target' = [target EXCEPT ![p] = NoBlock]
      /\ UNCHANGED <<head, outstanding, committing, written, phase, tail, left, mode,
                     failDisk>>
  BY DEF LogWriteAppend, diskVars, stepVars
<1>2. /\ target[p] \in written[p] /\ target[p] \in Blocks
      /\ \A b \in written[p] \ {target[p]} : InLog(b)
  BY <1>1 DEF ControlInv, ControlTypes, Operations
<1>3. lh' = IF InLog(target[p]) THEN lh ELSE Append(lh, target[p])
  BY DEF LogWriteAppend
<1>4. /\ lh' \in Seq(Blocks) /\ lh \in Seq(Blocks) /\ Len(lh) \in Nat
      /\ Len(lh') = IF InLog(target[p]) THEN Len(lh) ELSE Len(lh) + 1
      /\ \A b : InLog(b)' <=> InLog(b) \/ b = target[p]
  <2>1. lh \in Seq(Blocks)
    BY DEF ControlInv, ControlTypes
  <2>2. CASE InLog(target[p])
    BY <1>3, <2>1, <2>2 DEF InLog
  <2>3. CASE ~InLog(target[p])
    <3>1. /\ lh' = Append(lh, target[p]) /\ lh' \in Seq(Blocks)
          /\ Len(lh') = Len(lh) + 1 /\ Len(lh) \in Nat
          /\ \A i \in 1..Len(lh) : lh'[i] = lh[i]
          /\ lh'[Len(lh) + 1] = target[p]
      BY <1>2, <1>3, <2>1, <2>3
    <3>2. \A i : i \in 1..(Len(lh) + 1) <=> i \in 1..Len(lh) \/ i = Len(lh) + 1
      BY <3>1
    <3> QED BY <2>1, <2>3, <3>1, <3>2 DEF InLog
  <2> QED BY <2>2, <2>3
<1>5. ControlTypes'
  BY <1>1, <1>4 DEF ControlInv, ControlTypes
<1>6. \A q \in Procs : /\ opc'[q] \in Inside <=> opc[q] \in Inside
                       /\ opc'[q] = "commit" <=> opc[q] = "commit"
                       /\ opc'[q] = "sleep" <=> opc[q] = "sleep"
  BY <1>1 DEF ControlInv, ControlTypes, Inside
<1>7. Active' = Active /\ Granted' = Granted
  BY <1>6, SameInside
<1>8. Counting'
  BY <1>1, <1>6, <1>7 DEF ControlInv, Counting
<1>9. ~committing /\ phase = "idle" /\ outstanding > 0 /\ mode # "recovering"
  BY <1>1, InsideFacts DEF Inside, ControlInv, Phases
<1>10. Phases'
  BY <1>1, <1>9 DEF ControlInv, Phases
<1>11. Operations'
  <2> SUFFICES ASSUME NEW q \in Procs
               PROVE  /\ IsFiniteSet(written[q]) /\ Cardinality(written[q]) <= MaxOp
                      /\ opc'[q] \notin Inside => written[q] = {}
                      /\ opc'[q] = "in" => \A c \in written[q] : InLog(c)'
                      /\ opc'[q] = "append" =>
                           /\ target'[q] \in written[q]
                           /\ \A c \in written[q] \ {target'[q]} : InLog(c)'
    BY <1>1 DEF Operations
  <2>1. CASE q = p
    BY <1>1, <1>2, <1>4, <2>1 DEF ControlInv, ControlTypes, Operations, Inside
  <2>2. CASE q # p
    BY <1>1, <1>4, <2>2 DEF ControlInv, ControlTypes, Operations
  <2> QED BY <2>1, <2>2
<1>12. Reserved' \subseteq Reserved
  <2> SUFFICES ASSUME NEW r \in Reserved' PROVE r \in Reserved
    OBVIOUS
  <2>1. r \in Granted
    BY <1>7 DEF Reserved
  <2>2. CASE r[1] # p
    BY <1>1, <1>4, <2>1, <2>2 DEF Reserved, ControlInv, ControlTypes, Granted, Active
  <2>3. CASE r[1] = p
    <3>1. r[2] > Cardinality(written[p])
      BY <1>1, <2>3 DEF Reserved, ControlInv, ControlTypes
    <3> QED BY <2>1, <2>3, <3>1 DEF Reserved
  <2> QED BY <2>2, <2>3
<1>13. Fits'
  <2>1. CASE InLog(target[p])
    BY <1>1, <1>3, <1>12, <2>1, FitsShrink
  <2>2. CASE ~InLog(target[p])
    <3> DEFINE r == <<p, Cardinality(written[p])>>
    <3>1. Cardinality(written[p]) \in 1..MaxOp
      BY <1>2, FS_CardinalityType, FS_EmptySet, LogAssumption DEF ControlInv, Operations
    <3>2. r \in Reserved
      BY <1>1, <2>2, <3>1 DEF Reserved, Granted, Active, Inside
    <3>3. r \notin Reserved'
      BY <1>1, <3>1 DEF Reserved, ControlInv, ControlTypes
    <3>4. Reserved' \in SUBSET (Reserved \ {r})
      BY <1>12, <3>3
    <3> HIDE DEF r
    <3>5. /\ IsFiniteSet(Reserved \ {r})
          /\ Cardinality(Reserved \ {r}) = Cardinality(Reserved) - 1
      BY <3>2, GrantedFacts, FS_RemoveElement
    <3>6. /\ Cardinality(Reserved') <= Cardinality(Reserved) - 1
          /\ Cardinality(Reserved') \in Nat
      BY <3>4, <3>5, FS_Subset, FS_CardinalityType
    <3>7. Len(lh) + Cardinality(Reserved) <= LogSize
      BY DEF ControlInv, Fits
    <3>8. Len(lh') + Cardinality(Reserved') <= LogSize
      BY <1>4, <2>2, <3>6, <3>7, GrantedFacts, LogAssumption
    <3> QED BY <1>1, <3>8 DEF ControlInv, Fits
  <2> QED BY <2>1, <2>2
<1>14. NoLostWakeup'
  <2>1. Len(lh') >= Len(lh) /\ Len(lh') \in Nat
    BY <1>4
  <2>2. (outstanding + 1) * MaxOp \in Nat
    BY LogAssumption DEF ControlInv, ControlTypes
  <2>3. Admissible' => Admissible
    BY <1>1, <1>4, <2>1, <2>2, LogAssumption DEF Admissible
  <2> QED BY <1>6, <2>3 DEF ControlInv, NoLostWakeup
<1> QED BY <1>5, <1>8, <1>10, <1>11, <1>13, <1>14 DEF ControlInv

(* Outside every operation the log only has to fit its own blocks.         *)
LEMMA FitsIdle ==
  ASSUME \A q \in Procs : opc'[q] \notin Inside, Len(lh') <= LogSize, Len(lh') \in Nat,
         \A d \in Disks : Len(head'[d]) <= LogSize
  PROVE  Fits'
<1>1. Reserved' = {}
  BY DEF Reserved, Granted, Active
<1>2. Cardinality(Reserved') = 0
  BY <1>1, FS_EmptySet
<1> QED BY <1>2, LogAssumption DEF Fits

LEMMA LogLength ==
  ASSUME ControlInv
  PROVE  Len(lh) \in Nat /\ Len(lh) <= LogSize /\ \A d \in Disks : Len(head[d]) <= LogSize
BY GrantedFacts, LogAssumption DEF ControlInv, Fits, ControlTypes

LEMMA EndOpOtherControl ==
  ASSUME ControlInv, NEW p \in Procs, EndOpOther(p)
  PROVE  ControlInv'
<1>1. /\ opc[p] = "in" /\ outstanding > 1 /\ outstanding' = outstanding - 1
      /\ opc' = [q \in Procs |-> IF q = p THEN "out"
                                 ELSE IF opc[q] = "sleep" THEN "woken" ELSE opc[q]]
      /\ written' = [written EXCEPT ![p] = {}]
      /\ UNCHANGED <<head, lh, committing, target, phase, tail, left, mode, failDisk>>
  BY DEF EndOpOther, WakeAll, diskVars, stepVars
<1>2. ControlTypes'
  BY <1>1 DEF ControlInv, ControlTypes
<1>3. \A q \in Procs : /\ opc'[q] \in Inside <=> q # p /\ opc[q] \in Inside
                       /\ opc'[q] \in Inside => opc'[q] = opc[q]
                       /\ opc'[q] = "commit" <=> opc[q] = "commit"
                       /\ opc'[q] # "sleep"
  BY <1>1 DEF ControlInv, ControlTypes, Inside
<1>4. Active' = Active \ {p} /\ p \in Active
  BY <1>1, <1>3 DEF Active, Inside
<1>5. ~committing /\ phase = "idle" /\ mode # "recovering"
  BY <1>1, InsideFacts DEF Inside, ControlInv, Phases
<1>6. Counting'
  <2>1. IsFiniteSet(Active') /\ Cardinality(Active') = outstanding'
    BY <1>1, <1>4, FS_RemoveElement DEF ControlInv, Counting, ControlTypes
  <2> QED BY <1>1, <1>3, <1>5, <2>1 DEF ControlInv, Counting
<1>7. Phases'
  <2>1. outstanding' # 0
    BY <1>1 DEF ControlInv, ControlTypes
  <2> QED BY <1>1, <1>5, <2>1 DEF ControlInv, Phases
<1>8. Operations'
  BY <1>1, <1>3, FS_EmptySet, LogAssumption
  DEF ControlInv, Operations, ControlTypes, InLog, Inside
<1>9. Reserved' \subseteq Reserved
  <2> SUFFICES ASSUME NEW r \in Reserved' PROVE r \in Reserved
    OBVIOUS
  <2>1. r \in Granted /\ r[1] \in Procs /\ r[1] # p /\ opc'[r[1]] = opc[r[1]]
    BY <1>3, <1>4 DEF Reserved, Granted, Active
  <2> QED BY <1>1, <2>1 DEF Reserved, InLog, ControlInv, ControlTypes
<1>10. Fits'
  BY <1>1, <1>9, FitsShrink
<1>11. NoLostWakeup'
  BY <1>3 DEF NoLostWakeup
<1> QED BY <1>2, <1>6, <1>7, <1>8, <1>10, <1>11 DEF ControlInv

LEMMA EndOpLastControl ==
  ASSUME ControlInv, NEW p \in Procs, EndOpLast(p)
  PROVE  ControlInv'
<1>1. /\ opc[p] = "in" /\ mode = "up" /\ outstanding = 1 /\ outstanding' = 0
      /\ committing' = TRUE /\ tail' = 1
      /\ phase' = (IF lh = <<>> THEN "done" ELSE "log")
      /\ opc' = [opc EXCEPT ![p] = "commit"]
      /\ written' = [written EXCEPT ![p] = {}]
      /\ UNCHANGED <<head, lh, target, left, mode, failDisk>>
  BY DEF EndOpLast, EndOpWith, diskVars
<1>2. ControlTypes'
  BY <1>1, LogAssumption DEF ControlInv, ControlTypes
<1>3. ~committing /\ phase = "idle" /\ left = {}
  BY <1>1, InsideFacts DEF Inside
<1>4. \A q \in Procs : opc[q] \in Inside => q = p
  BY <1>1, FS_Singleton DEF ControlInv, Counting, Active, Inside
<1>5. \A q \in Procs : /\ opc'[q] \notin Inside
                       /\ opc'[q] = "commit" <=> q = p
                       /\ opc'[q] = "sleep" => opc[q] = "sleep"
  BY <1>1, <1>3, <1>4 DEF ControlInv, ControlTypes, Counting, Inside
<1>6. Active' = {}
  BY <1>5 DEF Active
<1>7. Counting'
  BY <1>1, <1>5, <1>6, FS_EmptySet DEF Counting
<1>8. Phases'
  <2>1. lh # <<>> => 1 \in 1..Len(lh)
    BY DEF ControlInv, ControlTypes
  <2> QED BY <1>1, <1>3, <2>1 DEF Phases
<1>9. Operations'
  BY <1>1, <1>4, <1>5, FS_EmptySet, LogAssumption
  DEF ControlInv, Operations, ControlTypes, Inside
<1>10. Fits'
  BY <1>1, <1>5, LogLength, FitsIdle
<1>11. NoLostWakeup'
  BY <1>1 DEF NoLostWakeup, Admissible
<1> QED BY <1>2, <1>7, <1>8, <1>9, <1>10, <1>11 DEF ControlInv

LEMMA CommitDoneControl ==
  ASSUME ControlInv, NEW p \in Procs, CommitDone(p)
  PROVE  ControlInv'
<1>1. /\ opc[p] = "commit" /\ mode = "up" /\ phase = "done"
      /\ committing' = FALSE /\ phase' = "idle"
      /\ opc' = [q \in Procs |-> IF q = p THEN "out"
                                 ELSE IF opc[q] = "sleep" THEN "woken" ELSE opc[q]]
      /\ UNCHANGED <<head, lh, outstanding, target, written, tail, left, mode, failDisk>>
  BY DEF CommitDone, WakeAll, diskVars
<1>2. ControlTypes'
  BY <1>1 DEF ControlInv, ControlTypes
<1>3. \A q \in Procs : opc[q] \notin Inside /\ (opc[q] = "commit" <=> q = p)
  BY <1>1, InsideFacts DEF ControlInv, Counting
<1>4. \A q \in Procs : opc'[q] \notin Inside /\ opc'[q] # "commit" /\ opc'[q] # "sleep"
  BY <1>1, <1>3 DEF Inside
<1>5. Active' = Active
  BY <1>3, <1>4, SameInside
<1>6. Counting'
  BY <1>1, <1>4, <1>5 DEF ControlInv, Counting
<1>7. Phases'
  BY <1>1 DEF ControlInv, Phases
<1>8. Operations'
  BY <1>1, <1>3, <1>4 DEF ControlInv, Operations, Inside
<1>9. Fits'
  BY <1>1, <1>4, LogLength, FitsIdle
<1>10. NoLostWakeup'
  BY <1>4 DEF NoLostWakeup
<1> QED BY <1>2, <1>6, <1>7, <1>8, <1>9, <1>10 DEF ControlInv

(* The steps of commit() and of recovery touch no process.                 *)
LEMMA CommitFrame ==
  ASSUME ControlInv, phase # "idle",
         UNCHANGED <<outstanding, committing, opc, target, written>>,
         ControlTypes', Phases', Len(lh') <= LogSize,
         \A d \in Disks : Len(head'[d]) <= LogSize
  PROVE  ControlInv'
<1>1. \A q \in Procs : opc'[q] \notin Inside /\ opc[q] \notin Inside
  BY InsideFacts
<1>2. Active' = Active
  BY SameInside
<1>3. Counting'
  BY <1>2 DEF ControlInv, Counting
<1>4. Operations'
  BY <1>1 DEF ControlInv, Operations, Inside
<1>5. Fits'
  <2>1. Len(lh') \in Nat
    BY DEF ControlTypes
  <2> QED BY <1>1, <2>1, FitsIdle
<1>6. NoLostWakeup'
  <2>1. CASE mode = "up"
    BY <2>1 DEF ControlInv, Phases, NoLostWakeup, Admissible
  <2>2. CASE mode = "recovering"
    BY <2>2 DEF ControlInv, Phases, NoLostWakeup
  <2> QED BY <2>1, <2>2 DEF ControlInv, ControlTypes, Phases
<1> QED BY <1>3, <1>4, <1>5, <1>6 DEF ControlInv

LEMMA CommitMode ==
  ASSUME ControlInv, phase # "idle"
  PROVE  /\ (mode = "up" /\ committing) \/ mode = "recovering"
         /\ phase \in {"log", "head", "done"} => mode = "up" /\ committing
BY DEF ControlInv, Phases, ControlTypes

LEMMA WriteLogControl ==
  ASSUME ControlInv, WriteLog
  PROVE  ControlInv'
<1>1. /\ phase = "log" /\ Transfer
      /\ IF LastTransfer
           THEN IF tail = Len(lh) THEN phase' = "head" /\ tail' = 1
                                  ELSE tail' = tail + 1 /\ phase' = phase
           ELSE phase' = phase /\ tail' = tail
      /\ UNCHANGED <<head, lh, outstanding, committing, opc, target, written, mode, failDisk>>
  BY DEF WriteLog, opVars
<1>2. left' \in {{}, {1}}
  BY <1>1, TransferFacts DEF ControlInv, ControlTypes
<1>3. /\ tail \in 1..Len(lh) /\ Len(lh) \in Nat /\ Len(lh) <= LogSize /\ lh # <<>>
      /\ phase' \in {"log", "head"} /\ tail' \in 1..Len(lh) /\ (phase' = "head" => tail' = 1)
  <2>1. /\ tail \in 1..Len(lh) /\ Len(lh) \in Nat /\ Len(lh) <= LogSize
    BY <1>1, LogLength DEF ControlInv, Phases
  <2>2. lh # <<>>
    BY <2>1
  <2> QED BY <1>1, <2>1, <2>2
<1>4. ControlTypes'
  BY <1>1, <1>2, <1>3, LogAssumption DEF ControlInv, ControlTypes
<1>5. Phases'
  BY <1>1, <1>3, CommitMode DEF Phases
<1> QED BY <1>1, <1>3, <1>4, <1>5, LogLength, CommitFrame

LEMMA WriteHeadControl ==
  ASSUME ControlInv, WriteHead
  PROVE  ControlInv'
<1>1. /\ phase = "head" /\ Transfer
      /\ head' = [head EXCEPT ![NextDisk] = lh]
      /\ phase' = IF LastTransfer THEN "install" ELSE phase
      /\ UNCHANGED <<lh, outstanding, committing, opc, target, written, tail, mode, failDisk>>
  BY DEF WriteHead, opVars
<1>2. left' \in {{}, {1}} /\ NextDisk \in Disks
  BY <1>1, TransferFacts DEF ControlInv, ControlTypes
<1>3. tail = 1 /\ 1 \in 1..Len(lh) /\ lh # <<>>
  BY <1>1 DEF ControlInv, Phases, ControlTypes
<1>4. ControlTypes'
  BY <1>1, <1>2 DEF ControlInv, ControlTypes
<1>5. Phases'
  BY <1>1, <1>3, CommitMode DEF Phases
<1>6. \A d \in Disks : Len(head'[d]) <= LogSize
  BY <1>1, <1>2, LogLength DEF ControlInv, ControlTypes
<1> QED BY <1>1, <1>4, <1>5, <1>6, LogLength, CommitFrame

LEMMA InstallTransControl ==
  ASSUME ControlInv, InstallTrans
  PROVE  ControlInv'
<1>1. /\ phase = "install" /\ Transfer
      /\ IF LastTransfer
           THEN IF tail = Len(lh) THEN phase' = "clear" /\ tail' = 1 /\ lh' = <<>>
                                  ELSE tail' = tail + 1 /\ phase' = phase /\ lh' = lh
           ELSE phase' = phase /\ tail' = tail /\ lh' = lh
      /\ UNCHANGED <<head, outstanding, committing, opc, target, written, mode, failDisk>>
  BY DEF InstallTrans, opVars
<1>2. left' \in {{}, {1}}
  BY <1>1, TransferFacts DEF ControlInv, ControlTypes
<1>3. tail \in 1..Len(lh) /\ Len(lh) \in Nat /\ Len(lh) <= LogSize
  BY <1>1, LogLength DEF ControlInv, Phases
<1>4. \/ /\ phase' = "clear" /\ lh' = <<>> /\ tail' = 1
      \/ /\ phase' = "install" /\ lh' = lh /\ tail' \in 1..Len(lh)
  BY <1>1, <1>3
<1>5. ControlTypes'
  <2>1. lh' \in Seq(Blocks)
    <3>1. <<>> \in Seq(Blocks) /\ lh \in Seq(Blocks)
      BY DEF ControlInv, ControlTypes
    <3>2. lh' = <<>> \/ lh' = lh
      BY <1>4
    <3> QED BY <3>1, <3>2
  <2>2. tail' = 1 \/ tail' \in 1..Len(lh)
    BY <1>4
  <2>3. tail' \in 1..(LogSize + 1)
    BY <1>3, <2>2, LogAssumption
  <2> QED BY <1>1, <1>2, <1>4, <2>1, <2>3 DEF ControlInv, ControlTypes
<1>6. Phases'
  BY <1>1, <1>4, CommitMode DEF ControlInv, Phases
<1>7. Len(lh') <= LogSize
  BY <1>3, <1>4, LogAssumption
<1> QED BY <1>1, <1>5, <1>6, <1>7, LogLength, CommitFrame

LEMMA ClearHeadControl ==
  ASSUME ControlInv, ClearHead
  PROVE  ControlInv'
<1>1. /\ phase = "clear" /\ Transfer
      /\ head' = [head EXCEPT ![NextDisk] = <<>>]
      /\ IF ~LastTransfer THEN phase' = phase /\ mode' = mode
         ELSE IF mode = "recovering" THEN phase' = "idle" /\ mode' = "up"
         ELSE phase' = "done" /\ mode' = mode
      /\ UNCHANGED <<lh, outstanding, committing, opc, target, written, tail, failDisk>>
  BY DEF ClearHead, opVars
<1>2. left' \in {{}, {1}} /\ NextDisk \in Disks /\ (LastTransfer => left' = {})
  BY <1>1, TransferFacts DEF ControlInv, ControlTypes
<1>3. lh = <<>>
  BY <1>1 DEF ControlInv, Phases
<1>4. ControlTypes'
  <2>1. head' \in [Disks -> Seq(Blocks)]
    BY <1>1, <1>2 DEF ControlInv, ControlTypes
  <2> QED BY <1>1, <1>2, <2>1 DEF ControlInv, ControlTypes
<1>5. mode = "recovering" => ~committing /\ \A q \in Procs : opc[q] = "out"
  BY DEF ControlInv, Counting, Phases
<1>6. Phases'
  BY <1>1, <1>2, <1>3, <1>5, CommitMode DEF Phases
<1>7. \A d \in Disks : Len(head'[d]) <= LogSize
  BY <1>1, <1>2, LogLength, LogAssumption DEF ControlInv, ControlTypes
<1> QED BY <1>1, <1>4, <1>6, <1>7, LogLength, CommitFrame

LEMMA CrashControl ==
  ASSUME ControlInv, Crash
  PROVE  ControlInv'
<1>1. /\ lh' = head[0] /\ phase' = (IF head[0] = <<>> THEN "clear" ELSE "install")
      /\ tail' = 1 /\ left' = {} /\ mode' = "recovering" /\ outstanding' = 0
      /\ committing' = FALSE /\ failDisk' = -1 /\ head' = head
      /\ opc' = [q \in Procs |-> "out"] /\ target' = [q \in Procs |-> NoBlock]
      /\ written' = [q \in Procs |-> {}]
  BY DEF Crash, diskVars
<1>2. head[0] \in Seq(Blocks) /\ Len(head[0]) \in Nat /\ Len(head[0]) <= LogSize
  BY LogLength DEF ControlInv, ControlTypes, Disks
<1>3. ControlTypes'
  <2>1. head \in [Disks -> Seq(Blocks)]
    BY DEF ControlInv, ControlTypes
  <2>2. /\ opc' \in [Procs -> {"out", "sleep", "woken", "in", "append", "commit"}]
        /\ target' \in [Procs -> Blocks \cup {NoBlock}]
        /\ written' \in [Procs -> SUBSET Blocks]
    BY <1>1
  <2>3. tail' \in 1..(LogSize + 1) /\ failDisk' \in -1..1 /\ outstanding' \in Nat
    BY <1>1, LogAssumption
  <2> QED BY <1>1, <1>2, <2>1, <2>2, <2>3 DEF ControlTypes
<1>4. \A q \in Procs : opc'[q] = "out" /\ opc'[q] \notin Inside /\ written'[q] = {}
  BY <1>1 DEF Inside
<1>5. Active' = {}
  BY <1>4 DEF Active
<1>6. Counting'
  BY <1>1, <1>4, <1>5, FS_EmptySet DEF Counting
<1>7. Phases'
  <2>1. head[0] # <<>> => 1 \in 1..Len(head[0])
    BY <1>2
  <2> QED BY <1>1, <1>4, <2>1 DEF Phases
<1>8. Operations'
  BY <1>4, FS_EmptySet, LogAssumption DEF Operations
<1>9. Fits'
  BY <1>1, <1>2, <1>4, LogLength, FitsIdle
<1>10. NoLostWakeup'
  BY <1>4 DEF NoLostWakeup
<1> QED BY <1>3, <1>6, <1>7, <1>8, <1>9, <1>10 DEF ControlInv

(* A step that changes none of the control variables, but for the hook.    *)
LEMMA ControlFrame ==
  ASSUME ControlInv, failDisk' \in -1..1,
         UNCHANGED <<lh, head, outstanding, committing, opc, target, written, phase, tail,
                     left, mode>>
  PROVE  ControlInv'
<1>1. Active' = Active /\ Granted' = Granted
  BY SameInside
<1>2. Reserved' = Reserved
  BY <1>1 DEF Reserved, InLog
<1> QED BY <1>1, <1>2 DEF ControlInv, ControlTypes, Counting, Phases, Operations, Fits,
             NoLostWakeup, Admissible, InLog

(* The invariant about control is inductive.                               *)
LEMMA ControlNext ==
  ASSUME ControlInv, [Next]_vars
  PROVE  ControlInv'
<1>1. ASSUME NEW p \in Procs, BeginOp(p) PROVE ControlInv'
  BY <1>1, BeginOpControl
<1>2. ASSUME NEW p \in Procs, BeginOpSleep(p) PROVE ControlInv'
  BY <1>2, BeginOpSleepControl
<1>3. ASSUME NEW p \in Procs, NEW b \in Blocks, LogWriteCheck(p, b) PROVE ControlInv'
  BY <1>3, LogWritePanicControl, LogWriteCheckControl
<1>4. ASSUME NEW p \in Procs, LogWriteAppend(p) PROVE ControlInv'
  BY <1>4, LogWriteAppendControl
<1>5. ASSUME NEW p \in Procs, EndOp(p) PROVE ControlInv'
  BY <1>5, EndOpOtherControl, EndOpLastControl DEF EndOp
<1>6. ASSUME NEW p \in Procs, CommitDone(p) PROVE ControlInv'
  BY <1>6, CommitDoneControl
<1>7. CASE CommitStep
  BY <1>7, WriteLogControl, WriteHeadControl, InstallTransControl, ClearHeadControl
  DEF CommitStep
<1>8. CASE Crash
  BY <1>8, CrashControl
<1>9. ASSUME NEW d \in HookDisks, ForceDiskFail(d) PROVE ControlInv'
  <2>1. d \in -1..1
    BY LogAssumption
  <2> QED BY <1>9, <2>1, ControlFrame DEF ForceDiskFail, diskVars, opVars, stepVars
<1>10. ASSUME NEW b \in Blocks, Evict(b) PROVE ControlInv'
  <2>1. failDisk' \in -1..1
    BY <1>10 DEF Evict, ControlInv, ControlTypes
  <2>2. UNCHANGED <<lh, head, outstanding, committing, opc, target, written, phase, tail,
                    left, mode>>
    BY <1>10 DEF Evict, diskVars, opVars, stepVars
  <2> QED BY <2>1, <2>2, ControlFrame
<1>11. CASE UNCHANGED vars
  <2>1. failDisk' \in -1..1
    BY <1>11 DEF vars, ControlInv, ControlTypes
  <2> QED BY <1>11, <2>1, ControlFrame DEF vars, diskVars, opVars, stepVars
<1> QED BY <1>1, <1>2, <1>3, <1>4, <1>5, <1>6, <1>7, <1>8, <1>9, <1>10, <1>11 DEF Next

(* Every reachable state satisfies the invariant about control.            *)
THEOREM LogControl == Spec => []ControlInv
<1>1. Init => ControlInv
  BY ControlInit
<1>2. ControlInv /\ [Next]_vars => ControlInv'
  BY ControlNext
<1> QED BY <1>1, <1>2, PTL DEF Spec

-----------------------------------------------------------------------------
(* The counters agree with the processes: end_op's panic("log.committing") *)
(* is unreachable, and a commit runs alone.                                *)
THEOREM LogOutstandingExact == Spec => []OutstandingExact
<1>1. ControlInv => OutstandingExact
  BY DEF ControlInv, Counting, OutstandingExact, Active, Inside
<1> QED BY <1>1, LogControl, PTL

(* No process sleeps in begin_op when the log would admit it.              *)
THEOREM LogNoLostWakeup == Spec => []NoLostWakeup
<1>1. ControlInv => NoLostWakeup
  BY DEF ControlInv
<1> QED BY <1>1, LogControl, PTL

(* If operations write at least two blocks fewer than begin_op reserves,   *)
(* and the super block gives the log the size the code assumes, log_write  *)
(* never panics.  Both are needed: log_write tests the size before it      *)
(* looks for the block, and counts the header as a block of the log.       *)
THEOREM LogNoPanic ==
  ASSUME OpWrites + 2 <= MaxOp, LogSize <= SbNlog
  PROVE  Spec => []NoPanic
<1>1. Init => NoPanic
  BY DEF Init, NoPanic
<1>2. ASSUME ControlInv, NEW p \in Procs, NEW b \in Blocks, LogWriteCheck(p, b)
      PROVE  ~LogFull
  <2> DEFINE k == Cardinality(written[p])
             r1 == <<p, k + 1>>
             r2 == <<p, k + 2>>
  <2>1. IsFiniteSet(written[p]) /\ k \in Nat
    BY <1>2, FS_CardinalityType DEF ControlInv, Operations
  <2>2. opc[p] = "in" /\ Cardinality(written[p] \cup {b}) <= OpWrites
    BY <1>2 DEF LogWriteCheck
  <2>3. k <= OpWrites
    <3>1. Cardinality(written[p] \cup {b}) = IF b \in written[p] THEN k ELSE k + 1
      BY <2>1, FS_AddElement
    <3> QED BY <2>1, <2>2, <3>1, LogAssumption
  <2>4. k + 1 \in 1..MaxOp /\ k + 2 \in 1..MaxOp
    BY <2>1, <2>3, LogAssumption
  <2>5. r1 \in Reserved /\ r2 \in Reserved \ {r1}
    BY <2>1, <2>2, <2>4 DEF Reserved, Granted, Active, Inside
  <2> HIDE DEF k, r1, r2
  <2>6. Cardinality(Reserved \ {r1}) = Cardinality(Reserved) - 1 /\ IsFiniteSet(Reserved \ {r1})
    BY <1>2, <2>5, GrantedFacts, FS_RemoveElement
  <2>7. Cardinality(Reserved \ {r1}) # 0
    BY <2>5, <2>6, FS_EmptySet
  <2>8. Cardinality(Reserved) >= 2
    BY <1>2, <2>6, <2>7, GrantedFacts, FS_CardinalityType
  <2>9. Len(lh) + Cardinality(Reserved) <= LogSize
    BY <1>2 DEF ControlInv, Fits
  <2> QED BY <1>2, <2>8, <2>9, GrantedFacts, LogLength, LogAssumption DEF LogFull
<1>3. NoPanic /\ ControlInv /\ [Next]_vars => NoPanic'
  <2> SUFFICES ASSUME NoPanic, ControlInv, [Next]_vars PROVE NoPanic'
    OBVIOUS
  <2>1. ASSUME NEW p \in Procs, NEW b \in Blocks, LogWriteCheck(p, b) PROVE NoPanic'
    BY <1>2, <2>1 DEF LogWriteCheck, NoPanic
  <2>2. ASSUME NEW p \in Procs,
               BeginOp(p) \/ BeginOpSleep(p) \/ LogWriteAppend(p) \/ EndOp(p) \/ CommitDone(p)
        PROVE  NoPanic'
    BY <2>2 DEF BeginOp, BeginOpSleep, LogWriteAppend, EndOp, EndOpOther, EndOpLast, EndOpWith,
                CommitDone, NoPanic
  <2>3. CASE CommitStep
    BY <2>3 DEF CommitStep, WriteLog, WriteHead, InstallTrans, ClearHead, NoPanic
  <2>4. CASE Crash
    BY <2>4 DEF Crash, NoPanic
  <2>5. ASSUME NEW d, ForceDiskFail(d) PROVE NoPanic'
    BY <2>5 DEF ForceDiskFail, NoPanic
  <2>6. ASSUME NEW b, Evict(b) PROVE NoPanic'
    BY <2>6 DEF Evict, NoPanic
  <2>7. CASE UNCHANGED vars
    BY <2>7 DEF vars, NoPanic
  <2> QED BY <2>1, <2>2, <2>3, <2>4, <2>5, <2>6, <2>7 DEF Next
<1> QED BY <1>1, <1>3, LogControl, PTL DEF Spec

-----------------------------------------------------------------------------
(* The types of the contents.                                              *)
DataTypes ==
  /\ mem \in [Blocks -> Contents]
  /\ home \in [Disks -> [Blocks -> Contents]]
  /\ logBlk \in [Disks -> [1..LogSize -> Contents]]
  /\ pins \in [Blocks -> Int]
  /\ version \in 0..MaxVersion /\ crashes \in 0..MaxCrashes /\ lost \in BOOLEAN

LEMMA DataInit == Init => DataTypes
<1> SUFFICES ASSUME Init PROVE DataTypes
  OBVIOUS
<1>1. 0 \in Contents /\ -1 \in Contents
  BY LogAssumption DEF Contents
<1>2. mem \in [Blocks -> Contents] /\ home \in [Disks -> [Blocks -> Contents]]
  BY <1>1 DEF Init
<1>3. logBlk \in [Disks -> [1..LogSize -> Contents]] /\ pins \in [Blocks -> Int]
  BY <1>1 DEF Init
<1>4. version \in 0..MaxVersion /\ crashes \in 0..MaxCrashes /\ lost \in BOOLEAN
  <2>1. version = 0 /\ crashes = 0
    BY DEF Init
  <2>2. version \in 0..MaxVersion /\ crashes \in 0..MaxCrashes
    BY <2>1, LogAssumption
  <2>3. lost \in BOOLEAN
    BY DEF Init
  <2> QED BY <2>2, <2>3
<1> QED BY <1>2, <1>3, <1>4 DEF DataTypes

(* The block a bwrite of the log or of install_trans is about.             *)
LEMMA TailFacts ==
  ASSUME ControlInv, DataTypes, phase \in {"log", "install"}
  PROVE  /\ tail \in 1..Len(lh) /\ tail \in 1..LogSize /\ lh[tail] \in Blocks
         /\ Len(lh) \in Nat /\ mem[lh[tail]] \in Contents
         /\ LogContents(tail) \in Contents
<1>1. tail \in 1..Len(lh) /\ Len(lh) \in Nat /\ Len(lh) <= LogSize /\ lh \in Seq(Blocks)
  BY LogLength DEF ControlInv, ControlTypes, Phases
<1>2. tail \in 1..LogSize /\ lh[tail] \in Blocks
  BY <1>1, LogAssumption
<1>3. mem[lh[tail]] \in Contents /\ logBlk[0][tail] \in Contents
  BY <1>2 DEF DataTypes, Disks
<1> QED BY <1>1, <1>2, <1>3 DEF LogContents

LEMMA DataNext ==
  ASSUME ControlInv, DataTypes, [Next]_vars
  PROVE  DataTypes'
<1>1. ASSUME NEW p \in Procs, NEW b \in Blocks, LogWriteCheck(p, b) PROVE DataTypes'
  <2>1. version' \in 0..MaxVersion /\ version' \in Contents
    BY <1>1, LogAssumption DEF LogWriteCheck, DataTypes, Contents
  <2>2. mem' = [mem EXCEPT ![b] = version'] /\ UNCHANGED <<home, logBlk, pins, crashes, lost>>
    BY <1>1 DEF LogWriteCheck, diskVars
  <2> QED BY <2>1, <2>2 DEF DataTypes
<1>2. ASSUME NEW p \in Procs,
             BeginOp(p) \/ BeginOpSleep(p) \/ EndOp(p) \/ CommitDone(p)
      PROVE  DataTypes'
  <2>1. UNCHANGED <<mem, home, logBlk, pins, version, crashes, lost>>
    BY <1>2 DEF BeginOp, BeginOpSleep, EndOp, EndOpOther, EndOpLast, EndOpWith, CommitDone,
                diskVars
  <2> QED BY <2>1 DEF DataTypes
<1>3. ASSUME NEW p \in Procs, LogWriteAppend(p) PROVE DataTypes'
  <2>1. UNCHANGED <<mem, home, logBlk, version, crashes, lost>>
    BY <1>3 DEF LogWriteAppend, diskVars
  <2>2. pins' = pins \/ pins' = [pins EXCEPT ![target[p]] = @ + 1]
    BY <1>3 DEF LogWriteAppend
  <2> QED BY <2>1, <2>2 DEF DataTypes
<1>4. CASE WriteLog
  <2>1. UNCHANGED <<mem, home, pins, version, crashes, lost>>
    BY <1>4 DEF WriteLog
  <2>2. logBlk' = [logBlk EXCEPT ![NextDisk][tail] = mem[lh[tail]]] /\ phase = "log" /\ Transfer
    BY <1>4 DEF WriteLog
  <2>3. NextDisk \in Disks
    BY <2>2, TransferFacts DEF ControlInv, ControlTypes
  <2> QED BY <2>1, <2>2, <2>3, TailFacts DEF DataTypes
<1>5. CASE WriteHead \/ ClearHead
  <2>1. UNCHANGED <<mem, home, logBlk, pins, version, crashes, lost>>
    BY <1>5 DEF WriteHead, ClearHead
  <2> QED BY <2>1 DEF DataTypes
<1>6. CASE InstallTrans
  <2>1. UNCHANGED <<logBlk, version, crashes, lost>>
    BY <1>6 DEF InstallTrans
  <2>2. /\ phase = "install" /\ Transfer
        /\ home' = [home EXCEPT ![NextDisk][lh[tail]] = LogContents(tail)]
        /\ mem' = [mem EXCEPT ![lh[tail]] = LogContents(tail)]
        /\ pins' = pins \/ pins' = [pins EXCEPT ![lh[tail]] = @ - 1]
    BY <1>6 DEF InstallTrans
  <2>3. NextDisk \in Disks
    BY <2>2, TransferFacts DEF ControlInv, ControlTypes
  <2> QED BY <2>1, <2>2, <2>3, TailFacts DEF DataTypes
<1>7. CASE Crash
  <2>1. /\ mem' = home[0] /\ pins' = [b \in Blocks |-> 0] /\ crashes < MaxCrashes
        /\ crashes' = crashes + 1 /\ UNCHANGED <<home, logBlk, version, lost>>
    BY <1>7 DEF Crash, diskVars
  <2> QED BY <2>1, LogAssumption DEF DataTypes, Disks
<1>8. ASSUME NEW d, ForceDiskFail(d) PROVE DataTypes'
  <2>1. UNCHANGED <<mem, home, logBlk, pins, version, crashes, lost>>
    BY <1>8 DEF ForceDiskFail, diskVars
  <2> QED BY <2>1 DEF DataTypes
<1>9. ASSUME NEW b, Evict(b) PROVE DataTypes'
  <2>1. /\ mem' = [mem EXCEPT ![b] = home[IF failDisk = 0 THEN 1 ELSE 0][b]]
        /\ UNCHANGED <<home, logBlk, pins, version, crashes>> /\ lost' \in BOOLEAN
    BY <1>9 DEF Evict, diskVars
  <2>2. (IF failDisk = 0 THEN 1 ELSE 0) \in Disks
    BY DEF Disks
  <2> QED BY <2>1, <2>2 DEF DataTypes
<1>10. CASE UNCHANGED vars
  <2>1. UNCHANGED <<mem, home, logBlk, pins, version, crashes, lost>>
    BY <1>10 DEF vars, diskVars
  <2> QED BY <2>1 DEF DataTypes
<1> QED BY <1>1, <1>2, <1>3, <1>4, <1>5, <1>6, <1>7, <1>8, <1>9, <1>10 DEF Next, CommitStep

(* The types of all variables.                                             *)
THEOREM LogTypeOK == Spec => []TypeOK
<1>1. ControlInv /\ DataTypes => TypeOK
  <2> SUFFICES ASSUME ControlInv, DataTypes PROVE TypeOK
    OBVIOUS
  <2>1. outstanding \in 0..Cardinality(Procs)
    <3>1. Active \in SUBSET Procs
      BY DEF Active
    <3> QED BY <3>1, FS_Subset, FS_CardinalityType, LogAssumption
            DEF ControlInv, Counting, ControlTypes
  <2>2. left \subseteq Disks
    BY DEF ControlInv, ControlTypes, Disks
  <2> QED BY <2>1, <2>2, LogLength DEF ControlInv, ControlTypes, DataTypes, TypeOK
<1>2. ControlInv /\ DataTypes /\ [Next]_vars => DataTypes'
  BY DataNext
<1>3. Init => DataTypes
  BY DataInit
<1> QED BY <1>1, <1>2, <1>3, LogControl, PTL DEF Spec

-----------------------------------------------------------------------------
(* The invariant about contents, while disk 0 has not failed.              *)
Clean(b) == ~InLog(b) /\ \A p \in Procs : opc[p] = "append" => target[p] # b

(* The bwrite for log block or home block i has reached disk 0.            *)
Reached(i) == i < tail \/ (i = tail /\ left = {1})

HeadConsistent == \A i \in 1..Len(head[0]) : logBlk[0][i] = Recovered(0)[head[0][i]]

BeforeCommit ==
  /\ head[0] = <<>>
  /\ mode # "panic" => \A b \in Blocks : Clean(b) => mem[b] = home[0][b]
  /\ phase = "log" => \A i \in 1..Len(lh) : Reached(i) => logBlk[0][i] = mem[lh[i]]
  /\ phase = "head" => \A i \in 1..Len(lh) : logBlk[0][i] = mem[lh[i]]

Installing ==
  /\ head[0] = lh
  /\ \A i \in 1..Len(lh) : Reached(i) => home[0][lh[i]] = Recovered(0)[lh[i]]

Contentual ==
  /\ failDisk # 0
  /\ HeadConsistent
  /\ phase \in {"idle", "log"} \/ (phase = "head" /\ left = {}) => BeforeCommit
  /\ phase = "head" /\ left = {1} => head[0] = lh /\ Recovered(0) = mem
  /\ phase = "install" => Installing
  /\ phase = "install" /\ mode = "up" => Recovered(0) = mem
  /\ phase = "install" /\ mode = "recovering" => mem = home[0]
  /\ phase \in {"clear", "done"} => home[0] = mem /\ Recovered(0) = mem
  /\ phase = "done" \/ (phase = "clear" /\ left = {1}) => head[0] = <<>>

ContentInv == ControlInv /\ DataTypes /\ Contentual

LEMMA RecoveredFacts ==
  ASSUME ControlInv, DataTypes
  PROVE  /\ Recovered(0) \in [Blocks -> Contents]
         /\ head[0] \in Seq(Blocks) /\ Len(head[0]) \in 0..LogSize
         /\ \A b \in Blocks : (\A i \in 1..Len(head[0]) : head[0][i] # b)
                               => Recovered(0)[b] = home[0][b]
         /\ head[0] = <<>> => Recovered(0) = home[0] /\ HeadConsistent
<1>1. head[0] \in Seq(Blocks) /\ Len(head[0]) \in 0..LogSize
  BY LogLength DEF ControlInv, ControlTypes, Disks
<1>2. home[0] \in [Blocks -> Contents] /\ logBlk[0] \in [1..LogSize -> Contents]
  BY DEF DataTypes, Disks
<1>3. ASSUME NEW b \in Blocks
      PROVE  /\ Recovered(0)[b] \in Contents
             /\ (\A i \in 1..Len(head[0]) : head[0][i] # b) => Recovered(0)[b] = home[0][b]
  <2>1. CASE \A i \in 1..Len(head[0]) : head[0][i] # b
    BY <1>2, <2>1 DEF Recovered
  <2>2. CASE \E i \in 1..Len(head[0]) : head[0][i] = b
    <3> DEFINE j == CHOOSE i \in 1..Len(head[0]) : head[0][i] = b
    <3>1. j \in 1..Len(head[0])
      BY <2>2
    <3>2. Recovered(0)[b] = logBlk[0][j]
      BY <2>2 DEF Recovered
    <3> HIDE DEF j
    <3>3. j \in 1..LogSize
      BY <1>1, <3>1, LogAssumption
    <3> QED BY <1>2, <2>2, <3>2, <3>3
  <2> QED BY <2>1, <2>2
<1>4. Recovered(0) = [b \in Blocks |-> Recovered(0)[b]]
  BY DEF Recovered
<1>5. Recovered(0) \in [Blocks -> Contents]
  BY <1>3, <1>4
<1>6. ASSUME head[0] = <<>> PROVE Recovered(0) = home[0] /\ HeadConsistent
  <2>1. 1..Len(head[0]) = {}
    BY <1>6
  <2>2. \A b \in Blocks : Recovered(0)[b] = home[0][b]
    BY <1>3, <2>1
  <2> QED BY <1>2, <1>5, <2>1, <2>2 DEF HeadConsistent
<1> QED BY <1>1, <1>3, <1>5, <1>6

LEMMA SameRecovered ==
  ASSUME home'[0] = home[0], logBlk'[0] = logBlk[0], head'[0] = head[0]
  PROVE  Recovered(0)' = Recovered(0) /\ (HeadConsistent' <=> HeadConsistent)
<1>1. Recovered(0)' = Recovered(0)
  BY DEF Recovered
<1> QED BY <1>1 DEF HeadConsistent

(* A step that keeps the disks, the log in memory and the appenders.       *)
LEMMA ContentFrame ==
  ASSUME Contentual, failDisk' # 0,
         UNCHANGED <<mem, home, logBlk, head, lh, target, phase, tail, left, mode>>,
         \A q \in Procs : opc'[q] = "append" <=> opc[q] = "append"
  PROVE  Contentual'
<1>1. Recovered(0)' = Recovered(0) /\ (HeadConsistent' <=> HeadConsistent)
  BY SameRecovered
<1>2. \A b : Clean(b)' <=> Clean(b)
  BY DEF Clean, InLog
<1>3. BeforeCommit' <=> BeforeCommit
  BY <1>2 DEF BeforeCommit, Reached
<1>4. Installing' <=> Installing
  BY <1>1 DEF Installing, Reached
<1> QED BY <1>1, <1>3, <1>4 DEF Contentual

LEMMA ContentInit == Init => Contentual
<1> SUFFICES ASSUME Init PROVE Contentual
  OBVIOUS
<1>1. ControlInv /\ DataTypes
  BY ControlInit, DataInit
<1>2. head[0] = <<>> /\ phase = "idle" /\ failDisk = -1
  BY DEF Init, Disks
<1>3. \A b \in Blocks : mem[b] = home[0][b]
  BY DEF Init, Disks
<1>4. BeforeCommit
  BY <1>2, <1>3 DEF BeforeCommit
<1> QED BY <1>1, <1>2, <1>4, RecoveredFacts DEF Contentual

-----------------------------------------------------------------------------
(* What each action does to the contents, and to what recovery would make  *)
(* of disk 0.                                                              *)
LEMMA LogWriteContent ==
  ASSUME ContentInv, NEW p \in Procs, NEW b \in Blocks, LogWriteCheck(p, b)
  PROVE  Contentual' /\ Recovered(0)' = Recovered(0)
<1> USE DEF ContentInv
<1>1. /\ opc[p] = "in" /\ UNCHANGED <<home, logBlk, head, lh, phase, tail, left, failDisk>>
      /\ mem' = [mem EXCEPT ![b] = version']
  BY DEF LogWriteCheck, diskVars, stepVars
<1>2. phase = "idle"
  BY <1>1, InsideFacts DEF Inside
<1>3. Recovered(0)' = Recovered(0) /\ (HeadConsistent' <=> HeadConsistent)
  BY <1>1, SameRecovered
<1>4. mode' # "panic" => \A c \in Blocks : Clean(c)' => mem'[c] = home[0][c]
  <2> SUFFICES ASSUME mode' # "panic", NEW c \in Blocks, Clean(c)' PROVE mem'[c] = home[0][c]
    OBVIOUS
  <2>1. ~LogFull /\ mode = "up"
    BY DEF LogWriteCheck
  <2>2. /\ opc' = [opc EXCEPT ![p] = "append"] /\ target' = [target EXCEPT ![p] = b]
    BY <2>1 DEF LogWriteCheck
  <2>3. c # b /\ Clean(c)
    BY <1>1, <2>2 DEF Clean, InLog, ControlInv, ControlTypes
  <2>4. mem[c] = home[0][c]
    BY <1>2, <2>1, <2>3 DEF Contentual, BeforeCommit
  <2> QED BY <1>1, <2>3, <2>4 DEF DataTypes
<1>5. BeforeCommit'
  BY <1>1, <1>2, <1>4 DEF Contentual, BeforeCommit
<1> QED BY <1>1, <1>2, <1>3, <1>5 DEF Contentual

LEMMA LogAppendContent ==
  ASSUME ContentInv, NEW p \in Procs, LogWriteAppend(p)
  PROVE  Contentual' /\ Recovered(0)' = Recovered(0)
<1> USE DEF ContentInv
<1>1. /\ opc[p] = "append" /\ mode = "up"
      /\ UNCHANGED <<mem, home, logBlk, head, phase, tail, left, failDisk, mode>>
      /\ opc' = [opc EXCEPT ![p] = "in"] /\ target' = [target EXCEPT ![p] = NoBlock]
      /\ lh' = IF InLog(target[p]) THEN lh ELSE Append(lh, target[p])
  BY DEF LogWriteAppend, diskVars, stepVars
<1>2. phase = "idle"
  BY <1>1, InsideFacts DEF Inside
<1>3. Recovered(0)' = Recovered(0) /\ (HeadConsistent' <=> HeadConsistent)
  BY <1>1, SameRecovered
<1>4. \A c \in Blocks : InLog(c) \/ c = target[p] => InLog(c)'
  <2>1. lh \in Seq(Blocks) /\ target[p] \in Blocks
    BY <1>1 DEF ControlInv, ControlTypes, Operations
  <2>2. CASE InLog(target[p])
    BY <1>1, <2>2 DEF InLog
  <2>3. CASE ~InLog(target[p])
    <3>1. /\ Len(lh') = Len(lh) + 1 /\ Len(lh) \in Nat
          /\ \A i \in 1..Len(lh) : lh'[i] = lh[i]
          /\ lh'[Len(lh) + 1] = target[p]
      BY <1>1, <2>1, <2>3
    <3> QED BY <3>1 DEF InLog
  <2> QED BY <2>2, <2>3
<1>5. \A c \in Blocks : Clean(c)' => Clean(c)
  BY <1>1, <1>4 DEF Clean, ControlInv, ControlTypes
<1>6. BeforeCommit'
  BY <1>1, <1>2, <1>5 DEF Contentual, BeforeCommit
<1> QED BY <1>1, <1>2, <1>3, <1>6 DEF Contentual

LEMMA EndOpLastContent ==
  ASSUME ContentInv, NEW p \in Procs, EndOpLast(p)
  PROVE  Contentual' /\ Recovered(0)' = Recovered(0)
<1> USE DEF ContentInv
<1>1. /\ opc[p] = "in" /\ mode = "up" /\ outstanding = 1 /\ tail' = 1
      /\ UNCHANGED <<mem, home, logBlk, head, lh, target, left, failDisk, mode>>
      /\ phase' = (IF lh = <<>> THEN "done" ELSE "log")
      /\ opc' = [opc EXCEPT ![p] = "commit"]
  BY DEF EndOpLast, EndOpWith, diskVars
<1>2. phase = "idle" /\ left = {}
  BY <1>1, InsideFacts DEF Inside
<1>3. Recovered(0)' = Recovered(0) /\ (HeadConsistent' <=> HeadConsistent)
  BY <1>1, SameRecovered
<1>4. \A q \in Procs : opc[q] # "append"
  BY <1>1, FS_Singleton DEF ControlInv, Counting, Active, Inside
<1>5. \A c \in Blocks : ~InLog(c) => mem[c] = home[0][c]
  BY <1>1, <1>2, <1>4 DEF Contentual, BeforeCommit, Clean
<1>6. head[0] = <<>> /\ Recovered(0) = home[0]
  BY <1>2, RecoveredFacts DEF Contentual, BeforeCommit
<1>7. CASE lh = <<>>
  <2>1. \A c \in Blocks : mem[c] = home[0][c]
    BY <1>5, <1>7 DEF InLog
  <2>2. mem = home[0]
    BY <2>1 DEF DataTypes, Disks
  <2> QED BY <1>1, <1>3, <1>6, <1>7, <2>2 DEF Contentual
<1>8. CASE lh # <<>>
  <2>1. \A i \in 1..Len(lh) : ~Reached(i)'
    BY <1>1, <1>2 DEF Reached
  <2>2. \A c \in Blocks : Clean(c)' => ~InLog(c)
    BY <1>1 DEF Clean, InLog
  <2>3. BeforeCommit'
    BY <1>1, <1>5, <1>6, <1>8, <2>1, <2>2 DEF BeforeCommit
  <2> QED BY <1>1, <1>3, <1>8, <2>3 DEF Contentual
<1> QED BY <1>7, <1>8

LEMMA CommitDoneContent ==
  ASSUME ContentInv, NEW p \in Procs, CommitDone(p)
  PROVE  Contentual' /\ Recovered(0)' = Recovered(0)
<1> USE DEF ContentInv
<1>1. /\ phase = "done" /\ phase' = "idle"
      /\ UNCHANGED <<mem, home, logBlk, head, lh, failDisk>>
  BY DEF CommitDone, diskVars
<1>2. Recovered(0)' = Recovered(0) /\ (HeadConsistent' <=> HeadConsistent)
  BY <1>1, SameRecovered
<1>3. BeforeCommit'
  BY <1>1 DEF Contentual, BeforeCommit
<1> QED BY <1>1, <1>2, <1>3 DEF Contentual

(* The home and header blocks of disk 0 do not change, log block tail gets *)
(* what the cache holds.                                                   *)
LEMMA WriteLogContent ==
  ASSUME ContentInv, WriteLog
  PROVE  Contentual' /\ Recovered(0)' = Recovered(0)
<1> USE DEF ContentInv
<1>1. /\ phase = "log" /\ Transfer
      /\ logBlk' = [logBlk EXCEPT ![NextDisk][tail] = mem[lh[tail]]]
      /\ IF LastTransfer
           THEN IF tail = Len(lh) THEN phase' = "head" /\ tail' = 1
                                  ELSE tail' = tail + 1 /\ phase' = phase
           ELSE phase' = phase /\ tail' = tail
      /\ UNCHANGED <<mem, home, head, lh, opc, target, mode, failDisk>>
  BY DEF WriteLog, opVars
<1>2. /\ left' \in {{}, {1}} /\ (LastTransfer => left' = {}) /\ left \in {{}, {1}}
      /\ left = {} => NextDisk = 0
      /\ left = {1} => NextDisk = 1
  BY <1>1, TransferFacts DEF Contentual, ControlInv, ControlTypes
<1>3. /\ tail \in 1..Len(lh) /\ tail \in 1..LogSize /\ Len(lh) \in Nat
      /\ Len(lh) <= LogSize /\ mem[lh[tail]] \in Contents
  BY <1>1, TailFacts, LogLength
<1>4. head[0] = <<>> /\ head'[0] = <<>>
  BY <1>1 DEF Contentual, BeforeCommit
<1>5. Recovered(0)' = Recovered(0) /\ HeadConsistent'
  <2>1. 1..Len(head'[0]) = {} /\ 1..Len(head[0]) = {}
    BY <1>4
  <2>2. Recovered(0)' = [b \in Blocks |-> home'[0][b]]
    BY <2>1 DEF Recovered
  <2>3. Recovered(0) = [b \in Blocks |-> home[0][b]]
    BY <2>1 DEF Recovered
  <2> QED BY <1>1, <2>1, <2>2, <2>3 DEF HeadConsistent
<1>6. \A i \in 1..Len(lh) : i <= tail => logBlk'[0][i] = mem[lh[i]]
  <2> SUFFICES ASSUME NEW i \in 1..Len(lh), i <= tail PROVE logBlk'[0][i] = mem[lh[i]]
    OBVIOUS
  <2>1. \A k \in 1..Len(lh) : Reached(k) => logBlk[0][k] = mem[lh[k]]
    BY <1>1 DEF Contentual, BeforeCommit
  <2>2. logBlk[0] \in [1..LogSize -> Contents] /\ i \in 1..LogSize
    BY <1>3, LogAssumption DEF DataTypes, Disks
  <2>3. CASE left = {1}
    <3>1. logBlk'[0] = logBlk[0]
      BY <1>1, <1>2, <2>3 DEF DataTypes, Disks
    <3>2. Reached(i)
      BY <1>3, <2>3 DEF Reached
    <3> QED BY <2>1, <3>1, <3>2
  <2>4. CASE left = {}
    <3>1. logBlk'[0] = [logBlk[0] EXCEPT ![tail] = mem[lh[tail]]]
      BY <1>1, <1>2, <2>4 DEF DataTypes, Disks
    <3>2. i # tail => Reached(i)
      BY <1>3 DEF Reached
    <3> QED BY <1>3, <2>1, <2>2, <3>1, <3>2
  <2> QED BY <1>2, <2>3, <2>4
<1>7. phase' = "log" => \A i \in 1..Len(lh) : Reached(i)' => i <= tail
  <2>1. CASE LastTransfer
    <3>1. phase' = "log" => tail' = tail + 1 /\ left' # {1}
      BY <1>1, <1>2, <2>1
    <3>2. phase' = "log" => \A i : Reached(i)' => i < tail + 1
      BY <3>1 DEF Reached
    <3> QED BY <1>3, <3>2
  <2>2. CASE ~LastTransfer
    <3>1. tail' = tail
      BY <1>1, <2>2
    <3> QED BY <1>3, <3>1 DEF Reached
  <2> QED BY <2>1, <2>2
<1>8. phase' = "head" => left' = {} /\ tail = Len(lh)
  BY <1>1, <1>2
<1>9. \A b \in Blocks : Clean(b)' => mem[b] = home[0][b]
  <2>1. mode # "panic"
    BY <1>1 DEF ControlInv, Phases
  <2>2. \A b \in Blocks : Clean(b)' => Clean(b)
    BY <1>1 DEF Clean, InLog
  <2> QED BY <1>1, <2>1, <2>2 DEF Contentual, BeforeCommit
<1>10. BeforeCommit'
  <2>1. phase' = "head" => \A i \in 1..Len(lh) : logBlk'[0][i] = mem[lh[i]]
    BY <1>3, <1>6, <1>8
  <2>2. phase' = "log" => \A i \in 1..Len(lh) : Reached(i)' => logBlk'[0][i] = mem[lh[i]]
    BY <1>6, <1>7
  <2> QED BY <1>1, <1>4, <1>9, <2>1, <2>2 DEF BeforeCommit
<1>11. phase' \in {"log", "head"}
  BY <1>1
<1> QED BY <1>1, <1>2, <1>5, <1>8, <1>10, <1>11 DEF Contentual

(* The first transfer of the header makes what recovery would bring back   *)
(* what is in memory.                                                      *)
LEMMA WriteHeadContent ==
  ASSUME ContentInv, WriteHead
  PROVE  /\ Contentual'
         /\ Recovered(0)' = mem
         /\ left = {1} => Recovered(0) = mem
<1> USE DEF ContentInv
<1>1. /\ phase = "head" /\ Transfer
      /\ head' = [head EXCEPT ![NextDisk] = lh]
      /\ phase' = (IF LastTransfer THEN "install" ELSE phase)
      /\ UNCHANGED <<mem, home, logBlk, lh, opc, target, mode, tail, failDisk>>
  BY DEF WriteHead, opVars
<1>2. /\ left' \in {{}, {1}} /\ (LastTransfer => left' = {}) /\ left \in {{}, {1}}
      /\ left = {} => NextDisk = 0
      /\ left = {1} => NextDisk = 1 /\ LastTransfer
      /\ ~LastTransfer => left' = {1}
  BY <1>1, TransferFacts DEF Contentual, ControlInv, ControlTypes
<1>3. mode = "up" /\ tail = 1 /\ lh \in Seq(Blocks) /\ Len(lh) \in Nat
  BY <1>1, CommitMode DEF ControlInv, Phases, ControlTypes
<1>4. \A q \in Procs : opc[q] # "append"
  BY <1>1, InsideFacts DEF Inside
<1>5. head'[0] = lh /\ HeadConsistent' /\ Recovered(0)' = mem
  <2>1. CASE left = {1}
    <3>1. head'[0] = head[0]
      BY <1>1, <1>2, <2>1 DEF ControlInv, ControlTypes, Disks
    <3>2. head[0] = lh /\ Recovered(0) = mem /\ HeadConsistent
      BY <1>1, <2>1 DEF Contentual
    <3> QED BY <1>1, <3>1, <3>2, SameRecovered
  <2>2. CASE left = {}
    <3>1. head'[0] = lh
      BY <1>1, <1>2, <2>2 DEF ControlInv, ControlTypes, Disks
    <3>2. \A i \in 1..Len(lh) : logBlk[0][i] = mem[lh[i]]
      BY <1>1, <2>2 DEF Contentual, BeforeCommit
    <3>3. \A b \in Blocks : ~InLog(b) => home[0][b] = mem[b]
      BY <1>1, <1>3, <1>4, <2>2 DEF Contentual, BeforeCommit, Clean
    <3>4. \A b \in Blocks : Recovered(0)'[b] = mem[b]
      <4> SUFFICES ASSUME NEW b \in Blocks PROVE Recovered(0)'[b] = mem[b]
        OBVIOUS
      <4>1. CASE InLog(b)
        <5> DEFINE j == CHOOSE i \in 1..Len(lh) : lh[i] = b
        <5>1. j \in 1..Len(lh) /\ lh[j] = b
          BY <4>1 DEF InLog
        <5>2. Recovered(0)'[b] = logBlk[0][j]
          BY <1>1, <3>1, <4>1 DEF Recovered, InLog
        <5> HIDE DEF j
        <5> QED BY <3>2, <5>1, <5>2
      <4>2. CASE ~InLog(b)
        <5>1. Recovered(0)'[b] = home[0][b]
          BY <1>1, <3>1, <4>2 DEF Recovered, InLog
        <5> QED BY <3>3, <4>2, <5>1
      <4> QED BY <4>1, <4>2
    <3>5. Recovered(0)' = [b \in Blocks |-> Recovered(0)'[b]]
      BY DEF Recovered
    <3>6. Recovered(0)' = mem
      BY <3>4, <3>5 DEF DataTypes
    <3> QED BY <1>1, <3>1, <3>2, <3>6 DEF HeadConsistent
  <2> QED BY <1>2, <2>1, <2>2
<1>6. phase' = "install" => Installing'
  <2>1. LastTransfer => \A i \in 1..Len(lh) : ~Reached(i)'
    BY <1>1, <1>2, <1>3 DEF Reached
  <2>2. phase' = "install" => LastTransfer
    BY <1>1
  <2> QED BY <1>1, <1>5, <2>1, <2>2 DEF Installing
<1>7. phase' = "head" => left' = {1}
  BY <1>1, <1>2
<1>8. phase' \in {"head", "install"}
  BY <1>1
<1>9. Contentual'
  BY <1>1, <1>3, <1>5, <1>6, <1>7, <1>8 DEF Contentual
<1>10. left = {1} => Recovered(0) = mem
  BY <1>1 DEF Contentual
<1> QED BY <1>5, <1>9, <1>10

(* install_trans gives a home block the contents recovery would give it,   *)
(* so what recovery would bring back does not change.                      *)
LEMMA InstallTransContent ==
  ASSUME ContentInv, InstallTrans
  PROVE  /\ Contentual' /\ Recovered(0)' = Recovered(0)
         /\ mode = "up" => mem' = mem
<1> USE DEF ContentInv
<1> DEFINE v == LogContents(tail)
<1>1. /\ phase = "install" /\ Transfer
      /\ home' = [home EXCEPT ![NextDisk][lh[tail]] = v]
      /\ mem' = [mem EXCEPT ![lh[tail]] = v]
      /\ IF LastTransfer
           THEN IF tail = Len(lh) THEN phase' = "clear" /\ tail' = 1 /\ lh' = <<>>
                                  ELSE tail' = tail + 1 /\ phase' = phase /\ lh' = lh
           ELSE phase' = phase /\ tail' = tail /\ lh' = lh
      /\ UNCHANGED <<logBlk, head, mode, failDisk>>
  BY DEF InstallTrans
<1>2. /\ left' \in {{}, {1}} /\ (LastTransfer => left' = {}) /\ left \in {{}, {1}}
      /\ left = {} => NextDisk = 0
      /\ left = {1} => NextDisk = 1
  BY <1>1, TransferFacts DEF Contentual, ControlInv, ControlTypes
<1>3. /\ tail \in 1..Len(lh) /\ lh[tail] \in Blocks /\ Len(lh) \in Nat /\ lh \in Seq(Blocks)
      /\ v \in Contents
  BY <1>1, TailFacts DEF ControlInv, ControlTypes
<1>4. head[0] = lh /\ \A i \in 1..Len(lh) : Reached(i) => home[0][lh[i]] = Recovered(0)[lh[i]]
  BY <1>1 DEF Contentual, Installing
<1>5. mode \in {"up", "recovering"}
  BY <1>1, CommitMode
<1>6. v = Recovered(0)[lh[tail]]
  <2>1. CASE mode = "up"
    BY <1>1, <2>1 DEF LogContents, Contentual
  <2>2. CASE mode = "recovering"
    BY <1>3, <1>4, <2>2 DEF LogContents, Contentual, HeadConsistent
  <2> QED BY <1>5, <2>1, <2>2
<1> HIDE DEF v
<1>7. home[0] \in [Blocks -> Contents] /\ Recovered(0) \in [Blocks -> Contents]
  BY RecoveredFacts DEF DataTypes, Disks
<1>8. home'[0] = [home[0] EXCEPT ![lh[tail]] = v]
  <2>1. CASE left = {}
    BY <1>1, <1>2, <2>1 DEF DataTypes, Disks
  <2>2. CASE left = {1}
    <3>1. home'[0] = home[0]
      BY <1>1, <1>2, <2>2 DEF DataTypes, Disks
    <3>2. home[0][lh[tail]] = v
      BY <1>3, <1>4, <1>6, <2>2 DEF Reached
    <3> QED BY <1>3, <1>7, <3>1, <3>2
  <2> QED BY <1>2, <2>1, <2>2
<1>9. Recovered(0)' = Recovered(0) /\ HeadConsistent'
  <2>1. \A b \in Blocks : ~InLog(b) => home'[0][b] = home[0][b]
    BY <1>3, <1>7, <1>8 DEF InLog
  <2>2. Recovered(0)' = [b \in Blocks |->
           IF InLog(b) THEN logBlk[0][CHOOSE i \in 1..Len(lh) : lh[i] = b] ELSE home'[0][b]]
    BY <1>1, <1>4 DEF Recovered, InLog
  <2>3. Recovered(0) = [b \in Blocks |->
           IF InLog(b) THEN logBlk[0][CHOOSE i \in 1..Len(lh) : lh[i] = b] ELSE home[0][b]]
    BY <1>4 DEF Recovered, InLog
  <2>4. Recovered(0)' = Recovered(0)
    BY <2>1, <2>2, <2>3
  <2> QED BY <1>1, <2>4 DEF HeadConsistent, Contentual
<1>10. \A i \in 1..Len(lh) : i <= tail => home'[0][lh[i]] = Recovered(0)[lh[i]]
  <2> SUFFICES ASSUME NEW i \in 1..Len(lh), i <= tail
               PROVE  home'[0][lh[i]] = Recovered(0)[lh[i]]
    OBVIOUS
  <2>1. lh[i] \in Blocks
    BY <1>3
  <2>2. CASE lh[i] = lh[tail]
    BY <1>6, <1>7, <1>8, <2>1, <2>2
  <2>3. CASE lh[i] # lh[tail]
    <3>1. i # tail
      BY <2>3
    <3>2. Reached(i)
      BY <1>3, <3>1 DEF Reached
    <3> QED BY <1>4, <1>7, <1>8, <2>1, <2>3, <3>2
  <2> QED BY <2>2, <2>3
<1>11. /\ mode = "up" => mem' = mem /\ mem = Recovered(0)
       /\ mode = "recovering" => mem' = home'[0]
  <2>1. CASE mode = "up"
    BY <1>1, <1>3, <1>6, <2>1 DEF Contentual, DataTypes
  <2>2. CASE mode = "recovering"
    BY <1>1, <1>8, <2>2 DEF Contentual
  <2> QED BY <1>5, <2>1, <2>2
<1>12. CASE LastTransfer /\ tail = Len(lh)
  <2>1. phase' = "clear" /\ left' = {}
    BY <1>1, <1>2, <1>12
  <2>2. \A b \in Blocks : home'[0][b] = Recovered(0)[b]
    <3> SUFFICES ASSUME NEW b \in Blocks PROVE home'[0][b] = Recovered(0)[b]
      OBVIOUS
    <3>1. CASE InLog(b)
      BY <1>3, <1>10, <1>12, <3>1 DEF InLog
    <3>2. CASE ~InLog(b)
      <4>1. Recovered(0)[b] = home[0][b]
        BY <1>4, <3>2, RecoveredFacts DEF InLog
      <4> QED BY <1>3, <1>7, <1>8, <3>2, <4>1 DEF InLog
    <3> QED BY <3>1, <3>2
  <2>3. home'[0] = Recovered(0)
    BY <1>7, <1>8, <2>2
  <2>4. home'[0] = mem' /\ Recovered(0)' = mem'
    BY <1>5, <1>9, <1>11, <2>3
  <2> QED BY <1>1, <1>9, <1>11, <2>1, <2>4 DEF Contentual
<1>13. CASE ~(LastTransfer /\ tail = Len(lh))
  <2>1. phase' = "install" /\ lh' = lh
    BY <1>1, <1>13
  <2>2. \A i \in 1..Len(lh) : Reached(i)' => i <= tail
    <3>1. CASE LastTransfer
      <4>1. tail' = tail + 1 /\ left' # {1}
        BY <1>1, <1>2, <1>13, <3>1
      <4>2. \A i : Reached(i)' => i < tail + 1
        BY <4>1 DEF Reached
      <4> QED BY <1>3, <4>2
    <3>2. CASE ~LastTransfer
      <4>1. tail' = tail
        BY <1>1, <3>2
      <4> QED BY <1>3, <4>1 DEF Reached
    <3> QED BY <3>1, <3>2
  <2>3. Installing'
    BY <1>1, <1>4, <1>9, <1>10, <2>1, <2>2 DEF Installing
  <2> QED BY <1>1, <1>9, <1>11, <2>1, <2>3 DEF Contentual
<1> QED BY <1>9, <1>11, <1>12, <1>13

(* The home blocks are those of the last commit: the header can go.        *)
LEMMA ClearHeadContent ==
  ASSUME ContentInv, ClearHead
  PROVE  Contentual' /\ Recovered(0)' = Recovered(0) /\ Recovered(0) = mem
<1> USE DEF ContentInv
<1>1. /\ phase = "clear" /\ Transfer
      /\ head' = [head EXCEPT ![NextDisk] = <<>>]
      /\ IF ~LastTransfer THEN phase' = phase /\ mode' = mode
         ELSE IF mode = "recovering" THEN phase' = "idle" /\ mode' = "up"
         ELSE phase' = "done" /\ mode' = mode
      /\ UNCHANGED <<mem, home, logBlk, lh, opc, target, failDisk>>
  BY DEF ClearHead, opVars
<1>2. /\ left' \in {{}, {1}} /\ (LastTransfer => left' = {}) /\ left \in {{}, {1}}
      /\ left = {} => NextDisk = 0
      /\ left = {1} => NextDisk = 1
  BY <1>1, TransferFacts DEF Contentual, ControlInv, ControlTypes
<1>3. home[0] = mem /\ Recovered(0) = mem
  BY <1>1 DEF Contentual
<1>4. head'[0] = <<>>
  BY <1>1, <1>2 DEF Contentual, ControlInv, ControlTypes, Disks
<1>5. Recovered(0)' = mem /\ HeadConsistent'
  <2>1. 1..Len(head'[0]) = {}
    BY <1>4
  <2>2. Recovered(0)' = [b \in Blocks |-> home[0][b]]
    BY <1>1, <2>1 DEF Recovered
  <2> QED BY <1>3, <2>1, <2>2 DEF HeadConsistent, DataTypes
<1>6. BeforeCommit' \/ phase' # "idle"
  <2>1. \A b \in Blocks : mem'[b] = home'[0][b]
    BY <1>1, <1>3
  <2> QED BY <1>4, <2>1 DEF BeforeCommit
<1>7. phase' \in {"idle", "clear", "done"}
  BY <1>1
<1> QED BY <1>1, <1>3, <1>4, <1>5, <1>6, <1>7 DEF Contentual

LEMMA CrashContent ==
  ASSUME ContentInv, Crash
  PROVE  Contentual' /\ Recovered(0)' = Recovered(0) /\ mode' = "recovering"
<1> USE DEF ContentInv
<1>1. /\ mem' = home[0] /\ lh' = head[0] /\ tail' = 1 /\ left' = {}
      /\ phase' = (IF head[0] = <<>> THEN "clear" ELSE "install")
      /\ mode' = "recovering" /\ failDisk' = -1 /\ UNCHANGED <<home, logBlk, head>>
  BY DEF Crash, diskVars
<1>2. Recovered(0)' = Recovered(0) /\ HeadConsistent'
  BY <1>1, SameRecovered DEF Contentual
<1>3. head[0] = <<>> => Recovered(0) = home[0]
  BY RecoveredFacts
<1>4. head[0] # <<>> => Installing'
  <2>1. \A i \in 1..Len(head[0]) : ~Reached(i)'
    BY <1>1, RecoveredFacts DEF Reached
  <2> QED BY <1>1, <2>1 DEF Installing
<1> QED BY <1>1, <1>2, <1>3, <1>4 DEF Contentual

-----------------------------------------------------------------------------
(* The steps that leave the contents alone.                                *)
LEMMA OtherContent ==
  ASSUME ContentInv, failDisk' # 0,
         UNCHANGED <<mem, home, logBlk, head, lh, target, phase, tail, left, mode>>,
         \A q \in Procs : opc'[q] = "append" <=> opc[q] = "append"
  PROVE  Contentual' /\ Recovered(0)' = Recovered(0)
BY ContentFrame, SameRecovered DEF ContentInv

LEMMA BeginEndContent ==
  ASSUME ContentInv, NEW p \in Procs, BeginOp(p) \/ BeginOpSleep(p) \/ EndOpOther(p)
  PROVE  Contentual' /\ Recovered(0)' = Recovered(0)
<1>1. UNCHANGED <<mem, home, logBlk, head, lh, target, phase, tail, left, mode, failDisk>>
  BY DEF BeginOp, BeginOpSleep, EndOpOther, diskVars, stepVars
<1>2. \A q \in Procs : opc'[q] = "append" <=> opc[q] = "append"
  BY DEF BeginOp, BeginOpSleep, EndOpOther, WakeAll, ContentInv, ControlInv, ControlTypes
<1>3. failDisk' # 0
  BY <1>1 DEF ContentInv, Contentual
<1> QED BY <1>1, <1>2, <1>3, OtherContent

LEMMA HookContent ==
  ASSUME 0 \notin HookDisks, ContentInv, NEW d \in HookDisks, ForceDiskFail(d)
  PROVE  Contentual' /\ Recovered(0)' = Recovered(0)
<1>1. /\ failDisk' # 0
      /\ UNCHANGED <<mem, home, logBlk, head, lh, target, opc, phase, tail, left, mode>>
  BY DEF ForceDiskFail, diskVars, opVars, stepVars
<1> QED BY <1>1, OtherContent

LEMMA StutterContent ==
  ASSUME ContentInv, UNCHANGED vars
  PROVE  Contentual' /\ Recovered(0)' = Recovered(0)
<1>1. /\ failDisk' # 0
      /\ UNCHANGED <<mem, home, logBlk, head, lh, target, opc, phase, tail, left, mode>>
  BY DEF vars, diskVars, opVars, stepVars, ContentInv, Contentual
<1> QED BY <1>1, OtherContent

(* bget recycles a buffer whose block the home of disk 0 holds: the block  *)
(* is neither in the log nor about to be, or it is installed.              *)
LEMMA EvictContent ==
  ASSUME ContentInv, NEW b \in Blocks, Evict(b), ~lost'
  PROVE  Contentual' /\ Recovered(0)' = Recovered(0) /\ mem' = mem
<1> USE DEF ContentInv
<1>1. /\ mode = "up" /\ \A q \in Procs : target[q] # b
      /\ mem' = [mem EXCEPT ![b] = home[IF failDisk = 0 THEN 1 ELSE 0][b]]
      /\ ~Pinned(b)
      /\ UNCHANGED <<home, logBlk, head, lh, opc, target, phase, tail, left, mode, failDisk>>
  BY DEF Evict, diskVars, opVars, stepVars
<1>2. failDisk # 0
  BY DEF Contentual
<1>3. mem' = [mem EXCEPT ![b] = home[0][b]]
  BY <1>1, <1>2
<1>4. phase \in {"idle", "log", "head", "install", "clear", "done"}
  BY DEF ControlInv, ControlTypes
<1>5. ~InLog(b) => Clean(b)
  BY <1>1 DEF Clean
<1>6. phase # "install" => ~InLog(b)
  BY <1>1 DEF Pinned, InLog
<1>7. mem[b] = home[0][b]
  <2>1. CASE phase \in {"idle", "log"} \/ (phase = "head" /\ left = {})
    <3>1. BeforeCommit /\ Clean(b) /\ mode # "panic"
      BY <1>1, <1>5, <1>6, <2>1 DEF Contentual
    <3> QED BY <3>1 DEF BeforeCommit
  <2>2. CASE phase = "head" /\ left # {}
    <3>1. left = {1}
      BY <2>2 DEF ControlInv, ControlTypes
    <3>2. head[0] = lh /\ Recovered(0) = mem /\ ~InLog(b)
      BY <1>6, <2>2, <3>1 DEF Contentual
    <3>3. \A i \in 1..Len(head[0]) : head[0][i] # b
      BY <3>2 DEF InLog
    <3>4. Recovered(0)[b] = home[0][b]
      BY <3>3, RecoveredFacts
    <3> QED BY <3>2, <3>4
  <2>3. CASE phase = "install"
    <3>1. Recovered(0) = mem /\ Installing
      BY <1>1, <2>3 DEF Contentual
    <3>2. CASE InLog(b)
      <4>1. PICK i \in 1..Len(lh) : lh[i] = b
        BY <3>2 DEF InLog
      <4>2. i < tail
        BY <1>1, <2>3, <4>1 DEF Pinned, ControlInv, ControlTypes
      <4>3. home[0][lh[i]] = Recovered(0)[lh[i]]
        BY <3>1, <4>2 DEF Installing, Reached
      <4> QED BY <3>1, <4>1, <4>3
    <3>3. CASE ~InLog(b)
      <4>1. \A i \in 1..Len(head[0]) : head[0][i] # b
        BY <3>1, <3>3 DEF InLog, Installing
      <4>2. Recovered(0)[b] = home[0][b]
        BY <4>1, RecoveredFacts
      <4> QED BY <3>1, <4>2
    <3> QED BY <3>2, <3>3
  <2>4. CASE phase \in {"clear", "done"}
    <3>1. home[0] = mem
      BY <2>4 DEF Contentual
    <3> QED BY <3>1
  <2> QED BY <1>4, <2>1, <2>2, <2>3, <2>4
<1>8. mem' = mem
  BY <1>3, <1>7 DEF DataTypes
<1>9. failDisk' # 0
  BY <1>1, <1>2
<1> QED BY <1>1, <1>8, <1>9, OtherContent

(* The history variable only grows.                                        *)
LEMMA LostGrows ==
  ASSUME [Next]_vars, lost
  PROVE  lost'
<1>1. ASSUME NEW p \in Procs, BeginOp(p) \/ BeginOpSleep(p) \/ LogWriteAppend(p) PROVE lost'
  BY <1>1 DEF BeginOp, BeginOpSleep, LogWriteAppend
<1>2. ASSUME NEW p \in Procs, EndOp(p) \/ CommitDone(p) PROVE lost'
  BY <1>2 DEF EndOp, EndOpOther, EndOpLast, EndOpWith, CommitDone
<1>3. ASSUME NEW p \in Procs, NEW b \in Blocks, LogWriteCheck(p, b) PROVE lost'
  BY <1>3 DEF LogWriteCheck
<1>4. CASE CommitStep
  BY <1>4 DEF CommitStep, WriteLog, WriteHead, InstallTrans, ClearHead
<1>5. CASE Crash
  BY <1>5 DEF Crash
<1>6. ASSUME NEW d \in HookDisks, ForceDiskFail(d) PROVE lost'
  BY <1>6 DEF ForceDiskFail
<1>7. ASSUME NEW b \in Blocks, Evict(b) PROVE lost'
  BY <1>7 DEF Evict
<1>8. CASE UNCHANGED vars
  BY <1>8 DEF vars
<1> QED BY <1>1, <1>2, <1>3, <1>4, <1>5, <1>6, <1>7, <1>8 DEF Next

LEMMA ContentNext ==
  ASSUME 0 \notin HookDisks, ContentInv, [Next]_vars, ~lost'
  PROVE  ContentInv'
<1>1. ControlInv' /\ DataTypes'
  BY ControlNext, DataNext DEF ContentInv
<1> SUFFICES Contentual'
  BY <1>1 DEF ContentInv
<1>2. ASSUME NEW p \in Procs,
             BeginOp(p) \/ BeginOpSleep(p) \/ EndOp(p) \/ CommitDone(p) \/ LogWriteAppend(p)
      PROVE  Contentual'
  BY <1>2, BeginEndContent, EndOpLastContent, CommitDoneContent, LogAppendContent DEF EndOp
<1>3. ASSUME NEW p \in Procs, NEW b \in Blocks, LogWriteCheck(p, b) PROVE Contentual'
  BY <1>3, LogWriteContent
<1>4. CASE CommitStep
  BY <1>4, WriteLogContent, WriteHeadContent, InstallTransContent, ClearHeadContent
  DEF CommitStep
<1>5. CASE Crash
  BY <1>5, CrashContent
<1>6. ASSUME NEW d \in HookDisks, ForceDiskFail(d) PROVE Contentual'
  BY <1>6, HookContent
<1>7. ASSUME NEW b \in Blocks, Evict(b) PROVE Contentual'
  BY <1>7, EvictContent
<1>8. CASE UNCHANGED vars
  BY <1>8, StutterContent
<1> QED BY <1>2, <1>3, <1>4, <1>5, <1>6, <1>7, <1>8 DEF Next

(* While disk 0 does not fail, the invariant about contents holds until    *)
(* bget recycles the only copy of a logged block.                          *)
LEMMA LogContentInv ==
  ASSUME 0 \notin HookDisks
  PROVE  Spec => [](lost \/ ContentInv)
<1>1. Init => ContentInv
  BY ControlInit, DataInit, ContentInit DEF ContentInv
<1>2. (lost \/ ContentInv) /\ [Next]_vars => (lost \/ ContentInv)'
  BY ContentNext, LostGrows
<1> QED BY <1>1, <1>2, PTL DEF Spec

(* What end_op has committed survives any crash, and the log is empty,     *)
(* whatever bget recycles but the only copy of a logged block.             *)
THEOREM LogCommittedIsDurable ==
  ASSUME 0 \notin HookDisks
  PROVE  Spec => []CommittedIsDurable
<1>1. lost \/ ContentInv => CommittedIsDurable
  <2> SUFFICES ASSUME ContentInv, Quiescent PROVE Recovered(0) = mem /\ lh = <<>>
    BY DEF CommittedIsDurable
  <2>1. lh = <<>>
    BY DEF Quiescent, ContentInv, ControlInv, Phases
  <2>2. CASE phase = "done"
    BY <2>1, <2>2 DEF ContentInv, Contentual
  <2>3. CASE phase = "idle"
    <3>1. \A q \in Procs : opc[q] # "append"
      BY InsideFacts DEF ContentInv, Quiescent, Inside
    <3>2. \A b \in Blocks : Clean(b)
      BY <2>1, <3>1 DEF Clean, InLog
    <3>3. head[0] = <<>> /\ \A b \in Blocks : mem[b] = home[0][b]
      BY <2>3, <3>2 DEF ContentInv, Contentual, BeforeCommit, Quiescent
    <3>4. Recovered(0) = home[0] /\ home[0] \in [Blocks -> Contents]
      BY <3>3, RecoveredFacts DEF ContentInv, DataTypes, Disks
    <3> QED BY <2>1, <3>3, <3>4 DEF ContentInv, DataTypes
  <2> QED BY <2>2, <2>3 DEF Quiescent
<1> QED BY <1>1, LogContentInv, PTL

-----------------------------------------------------------------------------
(* The refinement: what the actions do to the variables of AtomicDisk.     *)
diskView == <<Vol, Recovered(0), Running, crashes>>

LEMMA StepBeginEnd ==
  ASSUME ContentInv, NEW p \in Procs,
         BeginOp(p) \/ BeginOpSleep(p) \/ EndOp(p) \/ CommitDone(p) \/ LogWriteAppend(p)
  PROVE  [Disk!Next]_diskView
<1>1. Recovered(0)' = Recovered(0)
  BY BeginEndContent, EndOpLastContent, CommitDoneContent, LogAppendContent DEF EndOp
<1>2. UNCHANGED <<mem, mode, crashes>>
  BY DEF BeginOp, BeginOpSleep, EndOp, EndOpOther, EndOpLast, EndOpWith, CommitDone,
         LogWriteAppend
<1>3. Vol' = Vol
  BY <1>1, <1>2 DEF Vol
<1>4. opc \in [Procs -> {"out", "sleep", "woken", "in", "append", "commit"}]
  BY DEF ContentInv, ControlInv, ControlTypes
<1>5. CASE BeginOp(p)
  <2>1. Running' = Running \cup {p} /\ p \notin Running
    BY <1>4, <1>5 DEF BeginOp, Running
  <2>2. Disk!Begin(p)
    BY <1>1, <1>2, <1>3, <2>1 DEF Disk!Begin, Vol, Running
  <2> QED BY <2>2 DEF Disk!Next
<1>6. CASE EndOp(p)
  <2>1. Running' = Running \ {p} /\ p \in Running
    BY <1>4, <1>6 DEF EndOp, EndOpOther, EndOpLast, EndOpWith, WakeAll, Running
  <2>2. Disk!End(p)
    BY <1>1, <1>2, <1>3, <2>1 DEF Disk!End, Vol, Running
  <2> QED BY <2>2 DEF Disk!Next
<1>7. CASE BeginOpSleep(p) \/ CommitDone(p) \/ LogWriteAppend(p)
  <2>1. Running' = Running
    BY <1>4, <1>7 DEF BeginOpSleep, CommitDone, WakeAll, LogWriteAppend, Running
  <2> QED BY <1>1, <1>2, <1>3, <2>1 DEF diskView
<1> QED BY <1>5, <1>6, <1>7

LEMMA StepWrite ==
  ASSUME ContentInv, NEW p \in Procs, NEW b \in Blocks, LogWriteCheck(p, b)
  PROVE  Disk!Next
<1>1. Recovered(0)' = Recovered(0)
  BY LogWriteContent
<1>2. /\ opc[p] = "in" /\ mode = "up" /\ mode' # "recovering"
      /\ mem' = [mem EXCEPT ![b] = version'] /\ crashes' = crashes
      /\ opc' = opc \/ opc' = [opc EXCEPT ![p] = "append"]
  BY DEF LogWriteCheck, opVars
<1>3. Vol' = [Vol EXCEPT ![b] = version']
  BY <1>2 DEF Vol
<1>4. Running' = Running /\ p \in Running
  BY <1>2 DEF Running, ContentInv, ControlInv, ControlTypes
<1>5. version' \in 0..MaxVersion
  BY LogAssumption DEF LogWriteCheck, ContentInv, DataTypes
<1>6. Disk!Write(p, b, version')
  BY <1>1, <1>2, <1>3, <1>4 DEF Disk!Write, Vol, Running
<1> QED BY <1>5, <1>6 DEF Disk!Next

LEMMA StepCommit ==
  ASSUME ContentInv, CommitStep
  PROVE  [Disk!Next]_diskView
<1>1. UNCHANGED <<opc, crashes>> /\ phase # "idle"
  BY DEF CommitStep, WriteLog, WriteHead, InstallTrans, ClearHead, opVars
<1>2. Running' = Running /\ Running = {}
  BY <1>1, InsideFacts DEF Running, Inside, ContentInv
<1>3. CASE WriteLog
  <2>1. UNCHANGED <<mem, mode>>
    BY <1>3 DEF WriteLog
  <2> QED BY <1>1, <1>2, <1>3, <2>1, WriteLogContent DEF diskView, Vol
<1>4. CASE WriteHead
  <2>1. UNCHANGED <<mem, mode>> /\ mode = "up"
    BY <1>4, CommitMode DEF WriteHead, ContentInv
  <2>2. Vol' = Vol /\ Vol = mem
    BY <2>1 DEF Vol
  <2>3. Recovered(0)' = Vol
    BY <1>4, <2>2, WriteHeadContent
  <2>4. Disk!Commit
    BY <1>1, <1>2, <2>2, <2>3 DEF Disk!Commit, Vol, Running
  <2> QED BY <2>4 DEF Disk!Next
<1>5. CASE InstallTrans
  <2>1. mode' = mode
    BY <1>5 DEF InstallTrans
  <2>2. mode \in {"up", "recovering"}
    BY <1>1, CommitMode DEF ContentInv
  <2> QED BY <1>1, <1>2, <1>5, <2>1, <2>2, InstallTransContent DEF diskView, Vol
<1>6. CASE ClearHead
  <2>1. mem' = mem
    BY <1>6 DEF ClearHead
  <2> QED BY <1>1, <1>2, <1>6, <2>1, ClearHeadContent DEF diskView, Vol
<1> QED BY <1>3, <1>4, <1>5, <1>6 DEF CommitStep

LEMMA StepCrash ==
  ASSUME ContentInv, Crash
  PROVE  Disk!Next
<1>1. Recovered(0)' = Recovered(0) /\ mode' = "recovering"
  BY CrashContent
<1>2. Vol' = Recovered(0)
  BY <1>1 DEF Vol
<1>3. Running' = {} /\ crashes' = crashes + 1
  BY DEF Crash, Running
<1>4. Disk!Crash
  BY <1>1, <1>2, <1>3 DEF Disk!Crash, Vol, Running
<1> QED BY <1>4 DEF Disk!Next

(* The redo log implements the atomic disk: a group of operations becomes  *)
(* durable at one transfer, that of the header to disk 0, and a crash at   *)
(* any transfer, also of recovery, loses or keeps it as a whole, until     *)
(* bget recycles the only copy of a logged block.                          *)
THEOREM LogImplementsAtomicDisk ==
  ASSUME 0 \notin HookDisks
  PROVE  Spec => ImplementsAtomicDisk
<1>1. Init => Disk!Init
  <2> SUFFICES ASSUME Init PROVE Disk!Init
    OBVIOUS
  <2>1. Recovered(0) = home[0] /\ mode = "up"
    BY ControlInit, DataInit, RecoveredFacts DEF Init, Disks
  <2>2. home[0] = [b \in Blocks |-> 0] /\ mem = [b \in Blocks |-> 0]
    BY DEF Init, Disks
  <2>3. Running = {} /\ crashes = 0
    BY DEF Init, Running
  <2> QED BY <2>1, <2>2, <2>3 DEF Disk!Init, Running, Vol
<1>2. (lost \/ ContentInv) /\ [Next]_vars => [lost' \/ Disk!Next]_diskView
  <2> SUFFICES ASSUME ContentInv, [Next]_vars, ~lost' PROVE [Disk!Next]_diskView
    BY LostGrows
  <2>1. ASSUME NEW d \in HookDisks, ForceDiskFail(d) PROVE UNCHANGED diskView
    <3>1. UNCHANGED <<mem, mode, opc, crashes>>
      BY <2>1 DEF ForceDiskFail, opVars
    <3> QED BY <2>1, <3>1, HookContent DEF diskView, Vol, Running
  <2>2. CASE UNCHANGED vars
    <3>1. UNCHANGED <<mem, mode, opc, crashes>>
      BY <2>2 DEF vars, opVars
    <3> QED BY <2>2, <3>1, StutterContent DEF diskView, Vol, Running
  <2>3. ASSUME NEW b \in Blocks, Evict(b) PROVE UNCHANGED diskView
    <3>1. UNCHANGED <<mode, opc, crashes>>
      BY <2>3 DEF Evict, opVars
    <3> QED BY <2>3, <3>1, EvictContent DEF diskView, Vol, Running
  <2> QED BY <2>1, <2>2, <2>3, StepBeginEnd, StepWrite, StepCommit, StepCrash DEF Next
<1> QED BY <1>1, <1>2, LogContentInv, PTL DEF Spec, ImplementsAtomicDisk, diskView

(* In particular, a behaviour in which bget never does so is one of the    *)
(* atomic disk from beginning to end.                                      *)
THEOREM LogIsAtomicDisk ==
  ASSUME 0 \notin HookDisks
  PROVE  Spec /\ []~lost => Disk!Spec
<1>1. ~lost' /\ [lost' \/ Disk!Next]_diskView => [Disk!Next]_diskView
  OBVIOUS
<1> QED BY <1>1, LogImplementsAtomicDisk, PTL DEF ImplementsAtomicDisk, Disk!Spec, diskView

-----------------------------------------------------------------------------
(* Where the copies of a block are: between two crashes each block that is *)
(* in the log and not yet installed keeps its buffer, whatever buffers     *)
(* bget recycles; and while no disk fails both disks hold every installed  *)
(* block, whatever crashes.                                                *)

(* log_write absorbs: no block is twice in the log.                        *)
Absorbed == \A i, j \in 1..Len(lh) : lh[i] = lh[j] => i = j

(* Recovery unpins what nothing pinned, so the system has not recovered.   *)
PinInv == mode # "recovering" /\ crashes = 0 /\ ~lost /\ Absorbed /\ PinsExact

LEMMA PinsAre ==
  ASSUME crashes = 0, ~lost
  PROVE  PinsExact <=> \A b \in Blocks : pins[b] = IF Pinned(b) THEN 1 ELSE 0
BY DEF PinsExact

LEMMA InitPinInv == Init => PinInv
<1> SUFFICES ASSUME Init PROVE PinInv
  OBVIOUS
<1>1. /\ lh = <<>> /\ Len(lh) = 0 /\ mode = "up" /\ crashes = 0 /\ ~lost
      /\ \A b \in Blocks : pins[b] = 0
  BY DEF Init
<1>2. \A b \in Blocks : ~Pinned(b)
  BY <1>1 DEF Pinned
<1> QED BY <1>1, <1>2 DEF PinInv, Absorbed, PinsExact

(* A step that leaves the log and what of it is installed.                 *)
LEMMA PinFrame ==
  ASSUME PinInv, mode' # "recovering", crashes' = crashes, ~lost', lh' = lh,
         pins' = pins,
         \A b \in Blocks : Pinned(b)' <=> Pinned(b)
  PROVE  PinInv'
<1>1. \A b \in Blocks : pins'[b] = IF Pinned(b)' THEN 1 ELSE 0
  BY PinsAre DEF PinInv
<1>2. PinsExact'
  BY <1>1 DEF PinsExact, PinInv
<1>3. Absorbed'
  BY DEF PinInv, Absorbed
<1> QED BY <1>2, <1>3 DEF PinInv

LEMMA AppendPins ==
  ASSUME ControlInv, DataTypes, PinInv, NEW p \in Procs, LogWriteAppend(p)
  PROVE  PinInv'
<1> DEFINE c == target[p]
<1>1. /\ mode = "up" /\ opc[p] = "append" /\ mode' = mode /\ crashes' = crashes
      /\ lost' = lost /\ phase' = phase /\ tail' = tail
  BY DEF LogWriteAppend, stepVars
<1>2. c \in Blocks /\ phase = "idle" /\ lh \in Seq(Blocks) /\ Len(lh) \in Nat
  BY <1>1, InsideFacts DEF ControlInv, ControlTypes, Operations, Inside
<1>3. CASE InLog(c)
  <2>1. lh' = lh /\ pins' = pins
    BY <1>3 DEF LogWriteAppend
  <2>2. \A b \in Blocks : Pinned(b)' <=> Pinned(b)
    BY <1>1, <2>1 DEF Pinned
  <2> QED BY <1>1, <2>1, <2>2, PinFrame DEF PinInv
<1>4. CASE ~InLog(c)
  <2>1. lh' = Append(lh, c) /\ pins' = [pins EXCEPT ![c] = pins[c] + 1]
    BY <1>4 DEF LogWriteAppend
  <2>2. /\ Len(lh') = Len(lh) + 1 /\ lh'[Len(lh) + 1] = c
        /\ \A i \in 1..Len(lh) : lh'[i] = lh[i] /\ lh[i] # c
        /\ \A i : i \in 1..Len(lh') <=> i \in 1..Len(lh) \/ i = Len(lh) + 1
    BY <1>2, <1>4, <2>1 DEF InLog
  <2>3. Absorbed'
    BY <1>2, <2>2 DEF PinInv, Absorbed
  <2>4. \A b : Pinned(b)' <=> Pinned(b) \/ b = c
    BY <1>1, <1>2, <2>2 DEF Pinned
  <2>5. ~Pinned(c)
    BY <2>2 DEF Pinned
  <2>6. \A b \in Blocks : pins[b] = IF Pinned(b) THEN 1 ELSE 0
    BY PinsAre DEF PinInv
  <2>7. pins'[c] = 1 /\ \A b \in Blocks : b # c => pins'[b] = pins[b]
    BY <1>2, <2>1, <2>5, <2>6 DEF DataTypes
  <2>8. \A b \in Blocks : pins'[b] = IF Pinned(b)' THEN 1 ELSE 0
    BY <2>4, <2>6, <2>7
  <2>9. PinsExact'
    BY <1>1, <2>8 DEF PinsExact, PinInv
  <2> QED BY <1>1, <2>3, <2>9 DEF PinInv
<1> QED BY <1>3, <1>4

(* install_trans unpins block tail, which is nowhere else in the log.      *)
LEMMA InstallPins ==
  ASSUME ControlInv, DataTypes, PinInv, InstallTrans
  PROVE  PinInv'
<1> DEFINE c == lh[tail]
<1>1. phase = "install" /\ mode' = mode /\ crashes' = crashes /\ lost' = lost
  BY DEF InstallTrans
<1>2. tail \in 1..Len(lh) /\ Len(lh) \in Nat /\ c \in Blocks
  BY <1>1, TailFacts
<1>3. CASE ~LastTransfer
  <2>1. lh' = lh /\ pins' = pins /\ phase' = phase /\ tail' = tail
    BY <1>3 DEF InstallTrans
  <2>2. \A b \in Blocks : Pinned(b)' <=> Pinned(b)
    BY <2>1 DEF Pinned
  <2> QED BY <1>1, <2>1, <2>2, PinFrame DEF PinInv
<1>4. CASE LastTransfer
  <2>1. pins' = [pins EXCEPT ![c] = pins[c] - 1]
    BY <1>4 DEF InstallTrans
  <2>2. \A i \in 1..Len(lh) : lh[i] = c => i = tail
    BY <1>2 DEF PinInv, Absorbed
  <2>3. Absorbed' /\ \A b \in Blocks : Pinned(b)' <=> Pinned(b) /\ b # c
    <3>1. CASE tail = Len(lh)
      <4>1. lh' = <<>> /\ Len(lh') = 0
        BY <1>4, <3>1 DEF InstallTrans
      <4>2. \A b : ~Pinned(b)'
        BY <4>1 DEF Pinned
      <4>3. \A b : Pinned(b) => b = c
        BY <1>1, <1>2, <3>1 DEF Pinned
      <4> QED BY <4>1, <4>2, <4>3 DEF Absorbed
    <3>2. CASE tail # Len(lh)
      <4>1. lh' = lh /\ phase' = phase /\ tail' = tail + 1
        BY <1>4, <3>2 DEF InstallTrans
      <4>2. \A b : Pinned(b)' <=> \E i \in 1..Len(lh) : lh[i] = b /\ i >= tail + 1
        BY <1>1, <4>1 DEF Pinned
      <4>3. \A i \in 1..Len(lh) : i >= tail + 1 <=> i >= tail /\ lh[i] # c
        BY <1>2, <2>2
      <4>4. \A b : Pinned(b) <=> \E i \in 1..Len(lh) : lh[i] = b /\ i >= tail
        BY <1>1 DEF Pinned
      <4>5. \A b \in Blocks : Pinned(b)' <=> Pinned(b) /\ b # c
        BY <4>2, <4>3, <4>4
      <4> QED BY <4>1, <4>5 DEF PinInv, Absorbed
    <3> QED BY <3>1, <3>2
  <2>4. \A b \in Blocks : pins[b] = IF Pinned(b) THEN 1 ELSE 0
    BY PinsAre DEF PinInv
  <2>5. Pinned(c)
    BY <1>2 DEF Pinned
  <2>6. pins'[c] = 0 /\ \A b \in Blocks : b # c => pins'[b] = pins[b]
    BY <1>2, <2>1, <2>4, <2>5 DEF DataTypes
  <2>7. \A b \in Blocks : pins'[b] = IF Pinned(b)' THEN 1 ELSE 0
    BY <2>3, <2>4, <2>6
  <2>8. PinsExact'
    BY <1>1, <2>7 DEF PinsExact, PinInv
  <2> QED BY <1>1, <2>3, <2>8 DEF PinInv
<1> QED BY <1>3, <1>4

(* The other steps of commit() do not change which blocks are to install.  *)
LEMMA CommitPins ==
  ASSUME ControlInv, PinInv, WriteLog \/ WriteHead \/ ClearHead
  PROVE  PinInv'
<1>1. lh' = lh /\ pins' = pins /\ crashes' = crashes /\ lost' = lost
  BY DEF WriteLog, WriteHead, ClearHead
<1>2. mode' # "recovering"
  BY DEF WriteLog, WriteHead, ClearHead, PinInv
<1>3. \A b \in Blocks : Pinned(b)' <=> Pinned(b)
  <2>1. CASE WriteLog
    <3>1. phase = "log" /\ phase' # "install"
      BY <2>1 DEF WriteLog
    <3> QED BY <1>1, <3>1 DEF Pinned
  <2>2. CASE WriteHead
    <3>1. phase = "head" /\ tail = 1 /\ tail' = 1
      BY <2>2 DEF WriteHead, ControlInv, Phases
    <3>2. \A i \in 1..Len(lh) : i >= 1
      OBVIOUS
    <3> QED BY <1>1, <3>1, <3>2 DEF Pinned
  <2>3. CASE ClearHead
    <3>1. phase = "clear" /\ phase' # "install"
      BY <2>3 DEF ClearHead
    <3> QED BY <1>1, <3>1 DEF Pinned
  <2> QED BY <2>1, <2>2, <2>3
<1> QED BY <1>1, <1>2, <1>3, PinFrame DEF PinInv

LEMMA NextPinInv ==
  ASSUME ControlInv, DataTypes, PinInv, [Next]_vars, crashes' = 0
  PROVE  PinInv'
<1>1. ASSUME NEW p \in Procs, BeginOp(p) \/ BeginOpSleep(p) PROVE PinInv'
  <2>1. UNCHANGED <<lh, pins, phase, tail, mode, crashes, lost>>
    BY <1>1 DEF BeginOp, BeginOpSleep, stepVars
  <2> QED BY <2>1, PinFrame DEF Pinned, PinInv
<1>2. ASSUME NEW p \in Procs, NEW b \in Blocks, LogWriteCheck(p, b) PROVE PinInv'
  <2>1. UNCHANGED <<lh, pins, phase, tail, crashes, lost>> /\ mode' # "recovering"
    BY <1>2 DEF LogWriteCheck, stepVars, PinInv
  <2> QED BY <2>1, PinFrame DEF Pinned, PinInv
<1>3. ASSUME NEW p \in Procs, LogWriteAppend(p) PROVE PinInv'
  BY <1>3, AppendPins
<1>4. ASSUME NEW p \in Procs, EndOpOther(p) PROVE PinInv'
  <2>1. UNCHANGED <<lh, pins, phase, tail, mode, crashes, lost>>
    BY <1>4 DEF EndOpOther, stepVars
  <2> QED BY <2>1, PinFrame DEF Pinned, PinInv
<1>5. ASSUME NEW p \in Procs, EndOpLast(p) PROVE PinInv'
  <2>1. UNCHANGED <<lh, pins, mode, crashes, lost>> /\ phase' # "install"
    BY <1>5 DEF EndOpLast, EndOpWith
  <2>2. phase # "install"
    BY <1>5, LogAssumption DEF EndOpLast, EndOpWith, ControlInv, Phases, Counting
  <2> QED BY <2>1, <2>2, PinFrame DEF Pinned, PinInv
<1>6. ASSUME NEW p \in Procs, CommitDone(p) PROVE PinInv'
  <2>1. UNCHANGED <<lh, pins, mode, crashes, lost>> /\ phase = "done" /\ phase' = "idle"
    BY <1>6 DEF CommitDone
  <2> QED BY <2>1, PinFrame DEF Pinned, PinInv
<1>7. CASE CommitStep
  BY <1>7, InstallPins, CommitPins DEF CommitStep
<1>8. ~Crash
  BY DEF Crash, PinInv, DataTypes
<1>9. ASSUME NEW d \in HookDisks, ForceDiskFail(d) PROVE PinInv'
  <2>1. UNCHANGED <<lh, pins, phase, tail, mode, crashes, lost>>
    BY <1>9 DEF ForceDiskFail, stepVars
  <2> QED BY <2>1, PinFrame DEF Pinned, PinInv
<1>10. ASSUME NEW b \in Blocks, Evict(b) PROVE PinInv'
  <2>1. UNCHANGED <<lh, pins, phase, tail, mode, crashes>> /\ pins[b] = 0
    BY <1>10 DEF Evict, stepVars
  <2>2. ~Pinned(b)
    BY <2>1, PinsAre DEF PinInv
  <2>3. ~lost'
    BY <1>10, <2>2 DEF Evict, PinInv
  <2> QED BY <2>1, <2>3, PinFrame DEF Pinned, PinInv
<1>11. CASE UNCHANGED vars
  <2>1. UNCHANGED <<lh, pins, phase, tail, mode, crashes, lost>>
    BY <1>11 DEF vars, stepVars
  <2> QED BY <2>1, PinFrame DEF Pinned, PinInv
<1> QED BY <1>1, <1>2, <1>3, <1>4, <1>5, <1>6, <1>7, <1>8, <1>9, <1>10, <1>11 DEF Next, EndOp

LEMMA CrashesGrow ==
  ASSUME DataTypes, [Next]_vars, crashes' = 0
  PROVE  crashes = 0
<1>1. ASSUME NEW p \in Procs, BeginOp(p) \/ BeginOpSleep(p) \/ LogWriteAppend(p)
      PROVE  crashes' = crashes
  BY <1>1 DEF BeginOp, BeginOpSleep, LogWriteAppend
<1>2. ASSUME NEW p \in Procs, EndOp(p) \/ CommitDone(p) PROVE crashes' = crashes
  BY <1>2 DEF EndOp, EndOpOther, EndOpLast, EndOpWith, CommitDone
<1>3. ASSUME NEW p \in Procs, NEW b \in Blocks, LogWriteCheck(p, b) PROVE crashes' = crashes
  BY <1>3 DEF LogWriteCheck
<1>4. CASE CommitStep
  BY <1>4 DEF CommitStep, WriteLog, WriteHead, InstallTrans, ClearHead
<1>5. ~Crash
  BY DEF Crash, DataTypes
<1>6. ASSUME NEW d \in HookDisks, ForceDiskFail(d) PROVE crashes' = crashes
  BY <1>6 DEF ForceDiskFail
<1>7. ASSUME NEW b \in Blocks, Evict(b) PROVE crashes' = crashes
  BY <1>7 DEF Evict
<1>8. CASE UNCHANGED vars
  BY <1>8 DEF vars
<1> QED BY <1>1, <1>2, <1>3, <1>4, <1>5, <1>6, <1>7, <1>8 DEF Next

(* As long as nothing has crashed, log_write and install_trans keep exactly*)
(* one pin on each block that is in the log and not installed, and bget,   *)
(* which may recycle any other buffer, never recycles the only copy of a   *)
(* committed change.                                                       *)
THEOREM LogPinsExact == Spec => []PinsExact
<1> DEFINE Inv == ControlInv /\ DataTypes /\ (crashes = 0 => PinInv)
<1>1. Init => Inv
  BY ControlInit, DataInit, InitPinInv
<1>2. Inv /\ [Next]_vars => Inv'
  BY ControlNext, DataNext, NextPinInv, CrashesGrow
<1>3. Inv => PinsExact
  BY DEF PinInv, PinsExact
<1> QED BY <1>1, <1>2, <1>3, PTL DEF Spec

-----------------------------------------------------------------------------
(* The mirror.  Block b is the same on both disks, or has never been       *)
(* installed.                                                              *)
Mirrored(b) == home[1][b] = home[0][b] \/ (home[1][b] = -1 /\ home[0][b] = 0)

(* A block whose two copies differ is one install_trans has still to write *)
(* to disk 1: the commit was cut after the transfer to disk 0, and the     *)
(* header on disk 0 still names the block.  The header of disk 1 is empty  *)
(* unless a commit or a recovery is at work.                               *)
MirrorInv ==
  /\ failDisk = -1
  /\ \A b \in Blocks : Mirrored(b) \/ (phase = "install" /\ Pinned(b))
  /\ phase \in {"idle", "log", "done"} => head[1] = <<>>

LEMMA InitMirrorInv == Init => MirrorInv
BY DEF Init, MirrorInv, Mirrored, Disks

(* Both disks are working: a bwrite is a transfer to disk 0 and then one   *)
(* to disk 1.                                                              *)
LEMMA BothDisks ==
  ASSUME left \in {{}, {1}}, failDisk = -1, Transfer
  PROVE  /\ left = {} => NextDisk = 0 /\ ~LastTransfer /\ left' = {1}
         /\ left = {1} => NextDisk = 1 /\ LastTransfer /\ left' = {}
<1>1. CASE left = {1}
  <2>1. Remaining = {1}
    BY <1>1 DEF Remaining
  <2> QED BY <1>1, <2>1 DEF NextDisk, LastTransfer, Transfer
<1>2. CASE left = {}
  <2>1. Remaining = {0, 1}
    BY <1>2 DEF Remaining, Disks
  <2> QED BY <1>2, <2>1 DEF NextDisk, LastTransfer, Transfer
<1> QED BY <1>1, <1>2

(* A step that leaves the disks and what of the log is installed.          *)
LEMMA MirrorFrame ==
  ASSUME MirrorInv, failDisk' = failDisk, home' = home, head' = head,
         phase = "install" => phase' = "install" /\ lh' = lh /\ tail' = tail,
         phase' \in {"idle", "log", "done"} => phase \in {"idle", "log", "done"}
  PROVE  MirrorInv'
<1>1. \A b \in Blocks : Mirrored(b)' <=> Mirrored(b)
  BY DEF Mirrored
<1>2. phase = "install" => \A b \in Blocks : Pinned(b) => Pinned(b)'
  BY DEF Pinned
<1> QED BY <1>1, <1>2 DEF MirrorInv

(* The transfer to disk 0 may set the copies of block lh[tail] apart, the  *)
(* one to disk 1 brings them together, also where recovery repeats both.   *)
LEMMA InstallMirror ==
  ASSUME ContentInv, MirrorInv, InstallTrans
  PROVE  MirrorInv'
<1> DEFINE v == LogContents(tail)
<1>1. /\ phase = "install" /\ Transfer
      /\ home' = [home EXCEPT ![NextDisk][lh[tail]] = v]
      /\ IF LastTransfer
           THEN IF tail = Len(lh) THEN phase' = "clear" /\ tail' = 1 /\ lh' = <<>>
                                  ELSE tail' = tail + 1 /\ phase' = phase /\ lh' = lh
           ELSE phase' = phase /\ tail' = tail /\ lh' = lh
      /\ failDisk' = failDisk /\ left \in {{}, {1}} /\ failDisk = -1
  BY DEF InstallTrans, ContentInv, ControlInv, ControlTypes, MirrorInv
<1>2. /\ left = {} => NextDisk = 0 /\ ~LastTransfer
      /\ left = {1} => NextDisk = 1 /\ LastTransfer
  BY <1>1, BothDisks
<1>3. /\ tail \in 1..Len(lh) /\ lh[tail] \in Blocks /\ Len(lh) \in Nat /\ v \in Contents
  BY <1>1, TailFacts DEF ContentInv
<1>4. v = Recovered(0)[lh[tail]]
  <2>1. mode \in {"up", "recovering"}
    BY <1>1, CommitMode DEF ContentInv
  <2>2. CASE mode = "up"
    BY <1>1, <2>2 DEF LogContents, ContentInv, Contentual
  <2>3. CASE mode = "recovering"
    BY <1>1, <1>3, <2>3
    DEF LogContents, ContentInv, Contentual, Installing, HeadConsistent
  <2> QED BY <2>1, <2>2, <2>3
<1> HIDE DEF v
<1>5. home[0] \in [Blocks -> Contents] /\ home[1] \in [Blocks -> Contents]
  BY DEF ContentInv, DataTypes, Disks
<1>6. CASE left = {}
  <2>1. home'[1] = home[1] /\ \A b \in Blocks \ {lh[tail]} : home'[0][b] = home[0][b]
    BY <1>1, <1>2, <1>3, <1>5, <1>6 DEF ContentInv, DataTypes, Disks
  <2>2. phase' = "install" /\ tail' = tail /\ lh' = lh
    BY <1>1, <1>2, <1>6
  <2>3. \A b : Pinned(b)' <=> Pinned(b)
    BY <1>1, <2>2 DEF Pinned
  <2>4. Pinned(lh[tail])
    BY <1>3 DEF Pinned
  <2>5. \A b \in Blocks : Mirrored(b)' \/ Pinned(b)'
    BY <1>1, <2>1, <2>3, <2>4 DEF MirrorInv, Mirrored
  <2> QED BY <1>1, <2>2, <2>5 DEF MirrorInv
<1>7. CASE left = {1}
  <2> PICK c \in Blocks : c = lh[tail]
    BY <1>3
  <2>1. home'[0] = home[0] /\ home'[1] = [home[1] EXCEPT ![c] = v]
    BY <1>1, <1>2, <1>7 DEF ContentInv, DataTypes, Disks
  <2>2. home[0][c] = v
    BY <1>1, <1>3, <1>4, <1>7 DEF ContentInv, Contentual, Installing, Reached
  <2>3. Mirrored(c)'
    BY <1>3, <1>5, <2>1, <2>2 DEF Mirrored
  <2>4. ASSUME NEW b \in Blocks, b # c
        PROVE  Mirrored(b)' \/ (phase' = "install" /\ Pinned(b)')
    <3>1. home'[1][b] = home[1][b] /\ home'[0][b] = home[0][b]
      BY <1>3, <1>5, <2>1, <2>4
    <3>2. CASE Mirrored(b)
      BY <3>1, <3>2 DEF Mirrored
    <3>3. CASE ~Mirrored(b)
      <4>1. Pinned(b)
        BY <3>3 DEF MirrorInv
      <4>2. PICK i \in 1..Len(lh) : lh[i] = b /\ i >= tail
        BY <1>1, <4>1 DEF Pinned
      <4>3. i # tail /\ i > tail
        BY <1>3, <2>4, <4>2
      <4>4. tail' = tail + 1 /\ phase' = "install" /\ lh' = lh
        BY <1>1, <1>2, <1>3, <1>7, <4>3
      <4> QED BY <1>3, <4>2, <4>3, <4>4 DEF Pinned
    <3> QED BY <3>2, <3>3
  <2>5. phase' \in {"install", "clear"}
    BY <1>1
  <2> QED BY <1>1, <2>3, <2>4, <2>5 DEF MirrorInv
<1> QED BY <1>1, <1>6, <1>7

(* The header of disk 1 is written last: when clear_head leaves, both are  *)
(* empty.                                                                  *)
LEMMA HeadMirror ==
  ASSUME ContentInv, MirrorInv, WriteHead \/ ClearHead
  PROVE  MirrorInv'
<1>1. /\ phase \in {"head", "clear"} /\ Transfer /\ home' = home /\ failDisk' = failDisk
      /\ left \in {{}, {1}} /\ failDisk = -1
  BY DEF WriteHead, ClearHead, ContentInv, ControlInv, ControlTypes, MirrorInv
<1>2. \A b \in Blocks : Mirrored(b)'
  BY <1>1 DEF MirrorInv, Mirrored
<1>3. /\ left = {} => NextDisk = 0 /\ ~LastTransfer
      /\ left = {1} => NextDisk = 1 /\ LastTransfer
  BY <1>1, BothDisks
<1>4. phase' \in {"idle", "log", "done"} => head'[1] = <<>>
  <2> SUFFICES ASSUME phase' \in {"idle", "log", "done"} PROVE head'[1] = <<>>
    OBVIOUS
  <2>1. ClearHead /\ LastTransfer
    BY DEF WriteHead, ClearHead
  <2>2. NextDisk = 1
    BY <1>1, <1>3, <2>1
  <2> QED BY <2>1, <2>2 DEF ClearHead, ContentInv, ControlInv, ControlTypes, Disks
<1> QED BY <1>1, <1>2, <1>4 DEF MirrorInv

(* The blocks whose copies differ are in the header recovery reads.        *)
LEMMA CrashMirror ==
  ASSUME ContentInv, MirrorInv, Crash
  PROVE  MirrorInv'
<1>1. /\ home' = home /\ failDisk' = -1 /\ lh' = head[0] /\ tail' = 1
      /\ phase' = (IF head[0] = <<>> THEN "clear" ELSE "install")
  BY DEF Crash, diskVars
<1>2. ASSUME NEW b \in Blocks PROVE Mirrored(b)' \/ (phase' = "install" /\ Pinned(b)')
  <2>1. CASE Mirrored(b)
    BY <1>1, <2>1 DEF Mirrored
  <2>2. CASE ~Mirrored(b)
    <3>1. phase = "install" /\ Pinned(b)
      BY <2>2 DEF MirrorInv
    <3>2. PICK i \in 1..Len(lh) : lh[i] = b
      BY <3>1 DEF Pinned
    <3>3. head[0] = lh /\ lh \in Seq(Blocks) /\ lh # <<>>
      BY <3>1, <3>2 DEF ContentInv, Contentual, Installing, ControlInv, ControlTypes
    <3> QED BY <1>1, <3>2, <3>3 DEF Pinned
  <2> QED BY <2>1, <2>2
<1> QED BY <1>1, <1>2 DEF MirrorInv

LEMMA NextMirrorInv ==
  ASSUME HookDisks \subseteq {-1}, ContentInv, MirrorInv, [Next]_vars
  PROVE  MirrorInv'
<1>1. ASSUME NEW p \in Procs, BeginOp(p) \/ BeginOpSleep(p) \/ EndOpOther(p) PROVE MirrorInv'
  <2>1. UNCHANGED <<home, head, lh, tail, phase, failDisk>>
    BY <1>1 DEF BeginOp, BeginOpSleep, EndOpOther, diskVars, stepVars
  <2> QED BY <2>1, MirrorFrame
<1>2. ASSUME NEW p \in Procs, LogWriteAppend(p) PROVE MirrorInv'
  <2>1. UNCHANGED <<home, head, phase, failDisk>> /\ opc[p] = "append"
    BY <1>2 DEF LogWriteAppend, diskVars, stepVars
  <2>2. phase = "idle"
    BY <2>1, InsideFacts DEF Inside, ContentInv
  <2> QED BY <2>1, <2>2, MirrorFrame
<1>3. ASSUME NEW p \in Procs, NEW b \in Blocks, LogWriteCheck(p, b) PROVE MirrorInv'
  <2>1. UNCHANGED <<home, head, lh, tail, phase, failDisk>>
    BY <1>3 DEF LogWriteCheck, diskVars, stepVars
  <2> QED BY <2>1, MirrorFrame
<1>4. ASSUME NEW p \in Procs, EndOpLast(p) \/ CommitDone(p) PROVE MirrorInv'
  <2>1. UNCHANGED <<home, head, failDisk>>
    BY <1>4 DEF EndOpLast, EndOpWith, CommitDone, diskVars
  <2>2. phase \in {"idle", "done"}
    <3>1. CASE EndOpLast(p)
      <4>1. opc[p] = "in"
        BY <3>1 DEF EndOpLast, EndOpWith
      <4> QED BY <4>1, InsideFacts DEF Inside, ContentInv
    <3>2. CASE CommitDone(p)
      BY <3>2 DEF CommitDone
    <3> QED BY <1>4, <3>1, <3>2
  <2> QED BY <2>1, <2>2, MirrorFrame
<1>5. CASE WriteLog
  <2>1. UNCHANGED <<home, head, failDisk>> /\ phase = "log"
    BY <1>5 DEF WriteLog
  <2> QED BY <2>1, MirrorFrame
<1>6. ASSUME NEW d \in HookDisks, ForceDiskFail(d) PROVE MirrorInv'
  <2>1. UNCHANGED <<home, head, lh, tail, phase>> /\ failDisk' = -1
    BY <1>6 DEF ForceDiskFail, diskVars, stepVars
  <2>2. failDisk = -1
    BY DEF MirrorInv
  <2> QED BY <2>1, <2>2, MirrorFrame
<1>7. ASSUME NEW b \in Blocks, Evict(b) PROVE MirrorInv'
  <2>1. UNCHANGED <<home, head, lh, tail, phase, failDisk>>
    BY <1>7 DEF Evict, diskVars, stepVars
  <2> QED BY <2>1, MirrorFrame
<1>8. CASE UNCHANGED vars
  <2>1. UNCHANGED <<home, head, lh, tail, phase, failDisk>>
    BY <1>8 DEF vars, diskVars, stepVars
  <2> QED BY <2>1, MirrorFrame
<1> QED BY <1>1, <1>2, <1>3, <1>4, <1>5, <1>6, <1>7, <1>8, InstallMirror, HeadMirror,
           CrashMirror DEF Next, CommitStep, EndOp

(* While no disk has failed, the mirror on disk 1 holds every block that   *)
(* was ever installed, whatever transfers of commits and recoveries the    *)
(* crashes fell into, and whatever bget recycles but the only copy of a    *)
(* logged block.                                                           *)
THEOREM LogMirrorCurrent ==
  ASSUME HookDisks \subseteq {-1}
  PROVE  Spec => []MirrorCurrent
<1>1. lost \/ (ContentInv /\ MirrorInv) => MirrorCurrent
  <2> SUFFICES ASSUME ContentInv, MirrorInv, Quiescent
               PROVE  /\ head[1] = <<>>
                      /\ \A b \in Blocks : \/ home[1][b] = mem[b]
                                           \/ home[1][b] = -1 /\ mem[b] = 0
    BY DEF MirrorCurrent
  <2>1. head[1] = <<>> /\ \A b \in Blocks : Mirrored(b)
    BY DEF MirrorInv, Quiescent
  <2>2. \A b \in Blocks : mem[b] = home[0][b]
    <3>1. CASE phase = "done"
      BY <3>1 DEF ContentInv, Contentual
    <3>2. CASE phase = "idle"
      <4>1. lh = <<>> /\ \A q \in Procs : opc[q] # "append"
        BY <3>2, InsideFacts DEF ContentInv, ControlInv, Phases, Quiescent, Inside
      <4>2. \A b \in Blocks : Clean(b)
        BY <4>1 DEF Clean, InLog
      <4> QED BY <3>2, <4>2 DEF ContentInv, Contentual, BeforeCommit, Quiescent
    <3> QED BY <3>1, <3>2 DEF Quiescent
  <2> QED BY <2>1, <2>2 DEF Mirrored
<1>2. Init => MirrorInv
  BY InitMirrorInv
<1>3. 0 \notin HookDisks
  OBVIOUS
<1>4. (lost \/ ContentInv) /\ (lost \/ MirrorInv) /\ [Next]_vars => (lost \/ MirrorInv)'
  BY NextMirrorInv, LostGrows
<1>5. Spec => [](lost \/ ContentInv)
  BY <1>3, LogContentInv
<1> QED BY <1>1, <1>2, <1>4, <1>5, PTL DEF Spec
=============================================================================
