------------------------- MODULE VaultSessionProofs -------------------------
(* Proofs about VaultSession, for any number of threads, blocks and calls. *)
EXTENDS VaultSessionInv, TLAPS

(* A reported error is always a file-system error. *)
LEMMA ReportedIs ==
    /\ Reported("Io") = "Filesystem"
    /\ Reported("HiddenVolumeProtected") = "Filesystem"
    /\ FromVc("Filesystem") = "Filesystem"
BY DEF Reported, FromVc, FsErr, ToIo

LEMMA TypeInit == Init => TypeOK
<1> SUFFICES ASSUME Init PROVE TypeOK
  OBVIOUS
<1> USE DEF Init
<1>1. Unread \in [Blocks -> 0 .. MaxMutations]
  BY MaxMutationsAssumption DEF Unread
<1>2. Idle \in [op : Ops \cup {"none"}, id : 0 .. MaxMutations, blocks : SUBSET Blocks]
  BY MaxMutationsAssumption DEF Idle
<1>3. /\ call \in [Callers -> [op : Ops \cup {"none"}, id : 0 .. MaxMutations,
                              blocks : SUBSET Blocks]]
      /\ at \in [Callers -> Phases] /\ left \in [Callers -> SUBSET Blocks]
      /\ got \in [Callers -> [Blocks -> 0 .. MaxMutations]]
      /\ result \in [Callers -> Results]
  BY <1>1, <1>2 DEF Phases, Results
<1>4. 0 \in 0 .. MaxMutations
  BY MaxMutationsAssumption
<1>5. holder \in Callers \cup {Nobody} /\ unsynced \subseteq 0 .. MaxMutations
  OBVIOUS
<1> QED
  BY <1>1, <1>3, <1>4, <1>5, Zenon DEF TypeOK

LEMMA TypeStep ==
    ASSUME TypeOK, NEW c \in Callers, Step(c)
    PROVE  TypeOK'
<1> USE MaxMutationsAssumption, ReportedIs
<1> USE DEF TypeOK, session, device, work, Unread, Phases, Results
<1>1. CASE Begin(c)
  <2>1. call' \in [Callers -> [op : Ops \cup {"none"}, id : 0 .. MaxMutations,
                               blocks : SUBSET Blocks]]
    <3>1. CASE \E op \in Mutating, blocks \in SUBSET Blocks :
                  /\ started < MaxMutations
                  /\ call' = [call EXCEPT ![c] =
                        [op |-> op, id |-> started + 1, blocks |-> blocks]]
      <4>1. PICK op \in Mutating, blocks \in SUBSET Blocks :
                  /\ started < MaxMutations
                  /\ call' = [call EXCEPT ![c] =
                        [op |-> op, id |-> started + 1, blocks |-> blocks]]
        BY <3>1
      <4>2. started + 1 \in 0 .. MaxMutations /\ op \in Ops \cup {"none"}
        BY <4>1 DEF Ops
      <4> QED
        BY <4>1, <4>2
    <3>2. CASE \E op \in Quiet \cup {"read", "lock"} :
                  call' = [call EXCEPT ![c] = [op |-> op, id |-> 0, blocks |-> {}]]
      <4>1. 0 \in 0 .. MaxMutations
        OBVIOUS
      <4> QED
        BY <3>2, <4>1 DEF Ops
    <3> QED
      BY <1>1, <3>1, <3>2 DEF Begin
  <2>2. started' \in 0 .. MaxMutations
    BY <1>1 DEF Begin
  <2> QED
    BY <1>1, <2>1, <2>2 DEF Begin
<1>2. CASE EnterInVain(c)
  BY <1>2 DEF EnterInVain
<1>3. CASE Enter(c)
  BY <1>3 DEF Enter
<1>4. CASE EnterLock(c)
  BY <1>4 DEF EnterLock, TakeSession
<1>5. CASE AnswerQuiet(c)
  BY <1>5 DEF AnswerQuiet
<1>6. CASE RefuseNtfs(c)
  BY <1>6 DEF RefuseNtfs, Conclude
<1>7. CASE ReadBlock(c)
  BY <1>7 DEF ReadBlock
<1>8. CASE ReadDone(c)
  BY <1>8 DEF ReadDone, Conclude
<1>9. CASE WriteBlock(c)
  <2>1. PICK b \in left[c] : /\ view' = [view EXCEPT ![b] = call[c].id]
                             /\ left' = [left EXCEPT ![c] = @ \ {b}]
    BY <1>9 DEF WriteBlock
  <2>2. call[c].id \in 0 .. MaxMutations
    OBVIOUS
  <2>3. view' \in [Blocks -> 0 .. MaxMutations] /\ left' \in [Callers -> SUBSET Blocks]
    BY <2>1, <2>2
  <2>4. unsynced' \subseteq 0 .. MaxMutations
    BY <1>9, <2>2 DEF WriteBlock
  <2> QED
    BY <1>9, <2>3, <2>4 DEF WriteBlock
<1>10. CASE WriteRefused(c)
  BY <1>10 DEF WriteRefused, Conclude, Writing
<1>11. CASE DeviceFails(c)
  BY <1>11 DEF DeviceFails, Conclude, Writing
<1>12. CASE Barrier(c)
  BY <1>12 DEF Barrier, Writing
<1>13. CASE StartSync(c)
  BY <1>13 DEF StartSync, Writing
<1>14. CASE SkipSync(c)
  BY <1>14 DEF SkipSync, Conclude, Writing
<1>15. CASE Sync(c)
  BY <1>15 DEF Sync, Conclude
<1>16. CASE SyncFails(c)
  BY <1>16 DEF SyncFails, Conclude
<1>17. CASE DropFiles(c)
  BY <1>17 DEF DropFiles, DropSyncs
<1>18. CASE Panic(c)
  BY <1>18 DEF Panic, DropSyncs
<1>19. CASE Unmount(c)
  BY <1>19 DEF Unmount
<1>20. CASE CloseDevice(c)
  BY <1>20 DEF CloseDevice
<1>21. CASE Leave(c)
  BY <1>21 DEF Leave
<1>22. CASE Answered(c)
  BY <1>22 DEF Answered, Idle
<1> QED
  BY <1>1, <1>2, <1>3, <1>4, <1>5, <1>6, <1>7, <1>8, <1>9, <1>10, <1>11, <1>12, <1>13, <1>14, <1>15, <1>16, <1>17, <1>18, <1>19, <1>20, <1>21, <1>22
     DEF Step
LEMMA MutexStep ==
    ASSUME TypeOK, MutexInv, NEW c \in Callers, Step(c)
    PROVE  MutexInv'
<1> USE NobodyAssumption
<1> USE DEF TypeOK, MutexInv, InsidePhases, session, device, work
<1>1. CASE Begin(c)
  BY <1>1 DEF Begin
<1>2. CASE EnterInVain(c)
  BY <1>2 DEF EnterInVain, MayEnter
<1>3. CASE Enter(c)
  BY <1>3 DEF Enter, MayEnter
<1>4. CASE EnterLock(c)
  BY <1>4 DEF EnterLock, MayEnter, TakeSession
<1>5. CASE AnswerQuiet(c)
  BY <1>5 DEF AnswerQuiet
<1>6. CASE RefuseNtfs(c)
  BY <1>6 DEF RefuseNtfs, Conclude
<1>7. CASE ReadBlock(c)
  BY <1>7 DEF ReadBlock
<1>8. CASE ReadDone(c)
  BY <1>8 DEF ReadDone, Conclude
<1>9. CASE WriteBlock(c)
  BY <1>9 DEF WriteBlock, Writing
<1>10. CASE WriteRefused(c)
  BY <1>10 DEF WriteRefused, Conclude, Writing
<1>11. CASE DeviceFails(c)
  BY <1>11 DEF DeviceFails, Conclude, Writing
<1>12. CASE Barrier(c)
  BY <1>12 DEF Barrier, Writing
<1>13. CASE StartSync(c)
  BY <1>13 DEF StartSync, Writing
<1>14. CASE SkipSync(c)
  BY <1>14 DEF SkipSync, Conclude, Writing
<1>15. CASE Sync(c)
  BY <1>15 DEF Sync, Conclude
<1>16. CASE SyncFails(c)
  BY <1>16 DEF SyncFails, Conclude
<1>17. CASE DropFiles(c)
  BY <1>17 DEF DropFiles, DropSyncs
<1>18. CASE Panic(c)
  BY <1>18 DEF Panic, DropSyncs
<1>19. CASE Unmount(c)
  BY <1>19 DEF Unmount
<1>20. CASE CloseDevice(c)
  BY <1>20 DEF CloseDevice
<1>21. CASE Leave(c)
  BY <1>21 DEF Leave
<1>22. CASE Answered(c)
  BY <1>22 DEF Answered, Idle
<1> QED
  BY <1>1, <1>2, <1>3, <1>4, <1>5, <1>6, <1>7, <1>8, <1>9, <1>10, <1>11,
     <1>12, <1>13, <1>14, <1>15, <1>16, <1>17, <1>18, <1>19, <1>20, <1>21, <1>22 DEF Step

LEMMA SessionStep ==
    ASSUME TypeOK, MutexInv, SessionInv, AnswerInv, NEW c \in Callers, Step(c)
    PROVE  SessionInv'
<1> USE NobodyAssumption, ReportedIs
<1> USE DEF TypeOK, MutexInv, SessionInv, AnswerInv, InsidePhases, session, device, work, Mutating, Quiet, Ops
<1>1. CASE Begin(c)
  BY <1>1 DEF Begin
<1>2. CASE EnterInVain(c)
  BY <1>2 DEF EnterInVain, MayEnter
<1>3. CASE Enter(c)
  BY <1>3 DEF Enter, MayEnter
<1>4. CASE EnterLock(c)
  BY <1>4 DEF EnterLock, MayEnter, TakeSession
<1>5. CASE AnswerQuiet(c)
  BY <1>5 DEF AnswerQuiet
<1>6. CASE RefuseNtfs(c)
  BY <1>6 DEF RefuseNtfs, Conclude
<1>7. CASE ReadBlock(c)
  BY <1>7 DEF ReadBlock
<1>8. CASE ReadDone(c)
  BY <1>8 DEF ReadDone, Conclude
<1>9. CASE WriteBlock(c)
  BY <1>9 DEF WriteBlock, Writing
<1>10. CASE WriteRefused(c)
  BY <1>10 DEF WriteRefused, Conclude, Writing
<1>11. CASE DeviceFails(c)
  BY <1>11 DEF DeviceFails, Conclude, Writing
<1>12. CASE Barrier(c)
  BY <1>12 DEF Barrier, Writing
<1>13. CASE StartSync(c)
  BY <1>13 DEF StartSync, Writing
<1>14. CASE SkipSync(c)
  BY <1>14 DEF SkipSync, Conclude, Writing
<1>15. CASE Sync(c)
  BY <1>15 DEF Sync, Conclude
<1>16. CASE SyncFails(c)
  BY <1>16 DEF SyncFails, Conclude
<1>17. CASE DropFiles(c)
  BY <1>17 DEF DropFiles, DropSyncs
<1>18. CASE Panic(c)
  BY <1>18 DEF Panic, DropSyncs
<1>19. CASE Unmount(c)
  BY <1>19 DEF Unmount
<1>20. CASE CloseDevice(c)
  BY <1>20 DEF CloseDevice
<1>21. CASE Leave(c)
  BY <1>21 DEF Leave
<1>22. CASE Answered(c)
  BY <1>22 DEF Answered, Idle
<1> QED
  BY <1>1, <1>2, <1>3, <1>4, <1>5, <1>6, <1>7, <1>8, <1>9, <1>10, <1>11,
     <1>12, <1>13, <1>14, <1>15, <1>16, <1>17, <1>18, <1>19, <1>20, <1>21, <1>22 DEF Step
LEMMA IdStep ==
    ASSUME TypeOK, IdInv, SessionInv, WorkInv, NEW c \in Callers, Step(c)
    PROVE  IdInv'
<1> USE MaxMutationsAssumption
<1> USE DEF TypeOK, IdInv, SessionInv, WorkInv, InsidePhases, session, device, work, Mutating, Quiet, Ops
<1>1. CASE Begin(c)
  <2>1. CASE \E op \in Mutating, blocks \in SUBSET Blocks :
                /\ started < MaxMutations /\ started' = started + 1
                /\ call' = [call EXCEPT ![c] =
                      [op |-> op, id |-> started + 1, blocks |-> blocks]]
    <3>1. PICK op \in Mutating, blocks \in SUBSET Blocks :
                /\ started < MaxMutations /\ started' = started + 1
                /\ call' = [call EXCEPT ![c] =
                      [op |-> op, id |-> started + 1, blocks |-> blocks]]
      BY <2>1
    <3>2. /\ call'[c].id = started + 1
          /\ \A d \in Callers \ {c} : call'[d] = call[d] /\ at'[d] = at[d]
      BY <1>1, <3>1 DEF Begin
    <3>3. unsynced' = unsynced /\ started + 1 \notin 0 .. started /\ started \in Nat
      BY <1>1 DEF Begin
    <3>4. \A d \in Callers \ {c} : call[d].id \in 0 .. started
      OBVIOUS
    <3>5. \A d \in Callers : call'[d].id \in 0 .. started'
      BY <3>1, <3>2, <3>3, <3>4
    <3>6. \A d, e \in Callers : d # e /\ call'[d].id # 0 => call'[d].id # call'[e].id
      <4> SUFFICES ASSUME NEW d \in Callers, NEW e \in Callers, d # e,
                          call'[d].id # 0
                   PROVE  call'[d].id # call'[e].id
        OBVIOUS
      <4>1. CASE d = c
        <5>1. call'[e].id \in 0 .. started
          BY <4>1, <3>2, <3>4
        <5> QED
          BY <4>1, <5>1, <3>2, <3>3
      <4>2. CASE e = c
        <5>1. call'[d].id \in 0 .. started
          BY <4>2, <3>2, <3>4
        <5> QED
          BY <4>2, <5>1, <3>2, <3>3
      <4>3. CASE d # c /\ e # c
        BY <4>3, <3>2
      <4> QED
        BY <4>1, <4>2, <4>3
    <3>7. \A d \in Callers :
             call'[d].op \in Mutating =>
                /\ call'[d].id # 0
                /\ at'[d] = "waiting" => call'[d].id \notin unsynced'
      BY <3>2, <3>3
    <3>8. unsynced' \subseteq 0 .. started'
      BY <3>1, <3>3
    <3> QED
      BY <3>5, <3>6, <3>7, <3>8
  <2>2. CASE /\ UNCHANGED started
             /\ \E op \in Quiet \cup {"read", "lock"} :
                  call' = [call EXCEPT ![c] = [op |-> op, id |-> 0, blocks |-> {}]]
    BY <1>1, <2>2 DEF Begin
  <2> QED
    BY <1>1, <2>1, <2>2 DEF Begin
<1>2. CASE EnterInVain(c)
  BY <1>2 DEF EnterInVain, MayEnter
<1>3. CASE Enter(c)
  BY <1>3 DEF Enter, MayEnter
<1>4. CASE EnterLock(c)
  BY <1>4 DEF EnterLock, MayEnter, TakeSession
<1>5. CASE AnswerQuiet(c)
  BY <1>5 DEF AnswerQuiet
<1>6. CASE RefuseNtfs(c)
  BY <1>6 DEF RefuseNtfs, Conclude
<1>7. CASE ReadBlock(c)
  BY <1>7 DEF ReadBlock
<1>8. CASE ReadDone(c)
  BY <1>8 DEF ReadDone, Conclude
<1>9. CASE WriteBlock(c)
  <2>1. /\ unsynced' = unsynced \cup {call[c].id}
        /\ UNCHANGED <<call, at, started>> /\ at[c] = "steps"
    BY <1>9 DEF WriteBlock, Writing
  <2>2. \A d \in Callers : call[d].id \in 0 .. started
    OBVIOUS
  <2>3. ASSUME NEW d \in Callers, at[d] = "waiting", call[d].op \in Mutating
        PROVE  call[d].id \notin unsynced'
    <3>1. d # c /\ call[d].id # 0 /\ call[d].id \notin unsynced
      BY <2>1, <2>3
    <3> QED
      BY <2>1, <3>1
  <2>4. unsynced' \subseteq 0 .. started
    <3>1. unsynced \subseteq 0 .. started
      OBVIOUS
    <3>2. call[c].id \in 0 .. started
      BY <2>2
    <3> QED
      BY ONLY <2>1, <3>1, <3>2
  <2> QED
    BY <2>1, <2>2, <2>3, <2>4
<1>10. CASE WriteRefused(c)
  BY <1>10 DEF WriteRefused, Conclude, Writing
<1>11. CASE DeviceFails(c)
  BY <1>11 DEF DeviceFails, Conclude, Writing
<1>12. CASE Barrier(c)
  BY <1>12 DEF Barrier, Writing
<1>13. CASE StartSync(c)
  BY <1>13 DEF StartSync, Writing
<1>14. CASE SkipSync(c)
  BY <1>14 DEF SkipSync, Conclude, Writing
<1>15. CASE Sync(c)
  BY <1>15 DEF Sync, Conclude
<1>16. CASE SyncFails(c)
  BY <1>16 DEF SyncFails, Conclude
<1>17. CASE DropFiles(c)
  BY <1>17 DEF DropFiles, DropSyncs
<1>18. CASE Panic(c)
  BY <1>18 DEF Panic, DropSyncs
<1>19. CASE Unmount(c)
  BY <1>19 DEF Unmount
<1>20. CASE CloseDevice(c)
  BY <1>20 DEF CloseDevice
<1>21. CASE Leave(c)
  BY <1>21 DEF Leave
<1>22. CASE Answered(c)
  BY <1>22 DEF Answered, Idle
<1> QED
  BY <1>1, <1>2, <1>3, <1>4, <1>5, <1>6, <1>7, <1>8, <1>9, <1>10, <1>11,
     <1>12, <1>13, <1>14, <1>15, <1>16, <1>17, <1>18, <1>19, <1>20, <1>21, <1>22 DEF Step

LEMMA DurableStep ==
    ASSUME TypeOK, IdInv, MutexInv, SessionInv, WorkInv, AnswerInv, DurableInv, NEW c \in Callers, Step(c)
    PROVE  DurableInv'
<1> USE MaxMutationsAssumption, ReportedIs
<1> USE DEF TypeOK, IdInv, MutexInv, SessionInv, WorkInv, AnswerInv, DurableInv, MustBeDurable, InsidePhases, session, device, work, Mutating, Quiet, Ops, Promises, WrittenBy
<1>1. CASE Begin(c)
  BY <1>1 DEF Begin
<1>2. CASE EnterInVain(c)
  BY <1>2 DEF EnterInVain, MayEnter
<1>3. CASE Enter(c)
  BY <1>3 DEF Enter, MayEnter
<1>4. CASE EnterLock(c)
  BY <1>4 DEF EnterLock, MayEnter, TakeSession
<1>5. CASE AnswerQuiet(c)
  BY <1>5 DEF AnswerQuiet
<1>6. CASE RefuseNtfs(c)
  BY <1>6 DEF RefuseNtfs, Conclude
<1>7. CASE ReadBlock(c)
  BY <1>7 DEF ReadBlock
<1>8. CASE ReadDone(c)
  BY <1>8 DEF ReadDone, Conclude
<1>9. CASE WriteBlock(c)
  BY <1>9, SMTT(40) DEF WriteBlock, Writing
<1>10. CASE WriteRefused(c)
  BY <1>10 DEF WriteRefused, Conclude, Writing
<1>11. CASE DeviceFails(c)
  BY <1>11 DEF DeviceFails, Conclude, Writing
<1>12. CASE Barrier(c)
  BY <1>12 DEF Barrier, Writing
<1>13. CASE StartSync(c)
  BY <1>13 DEF StartSync, Writing
<1>14. CASE SkipSync(c)
  BY <1>14 DEF SkipSync, Conclude, Writing
<1>15. CASE Sync(c)
  BY <1>15 DEF Sync, Conclude
<1>16. CASE SyncFails(c)
  BY <1>16 DEF SyncFails, Conclude
<1>17. CASE DropFiles(c)
  BY <1>17 DEF DropFiles, DropSyncs
<1>18. CASE Panic(c)
  BY <1>18 DEF Panic, DropSyncs
<1>19. CASE Unmount(c)
  BY <1>19 DEF Unmount
<1>20. CASE CloseDevice(c)
  BY <1>20 DEF CloseDevice
<1>21. CASE Leave(c)
  BY <1>21 DEF Leave
<1>22. CASE Answered(c)
  BY <1>22 DEF Answered, Idle
<1> QED
  BY <1>1, <1>2, <1>3, <1>4, <1>5, <1>6, <1>7, <1>8, <1>9, <1>10, <1>11,
     <1>12, <1>13, <1>14, <1>15, <1>16, <1>17, <1>18, <1>19, <1>20, <1>21, <1>22 DEF Step

LEMMA WorkStep ==
    ASSUME TypeOK, MutexInv, SessionInv, WorkInv, AnswerInv, NEW c \in Callers, Step(c)
    PROVE  WorkInv'
<1> USE NobodyAssumption, ReportedIs
<1> USE DEF TypeOK, MutexInv, SessionInv, WorkInv, AnswerInv, InsidePhases, session, device, work, Mutating, Quiet, Ops, WrittenBy
<1>1. CASE Begin(c)
  BY <1>1 DEF Begin
<1>2. CASE EnterInVain(c)
  BY <1>2 DEF EnterInVain, MayEnter
<1>3. CASE Enter(c)
  BY <1>3 DEF Enter, MayEnter
<1>4. CASE EnterLock(c)
  BY <1>4 DEF EnterLock, MayEnter, TakeSession
<1>5. CASE AnswerQuiet(c)
  BY <1>5 DEF AnswerQuiet
<1>6. CASE RefuseNtfs(c)
  BY <1>6 DEF RefuseNtfs, Conclude
<1>7. CASE ReadBlock(c)
  BY <1>7 DEF ReadBlock
<1>8. CASE ReadDone(c)
  BY <1>8 DEF ReadDone, Conclude
<1>9. CASE WriteBlock(c)
  <2>1. PICK b \in left[c] : /\ view' = [view EXCEPT ![b] = call[c].id]
                             /\ left' = [left EXCEPT ![c] = @ \ {b}]
    BY <1>9 DEF WriteBlock
  <2>2. /\ UNCHANGED <<entry, call, at, got, result>>
        /\ at[c] = "steps" /\ call[c].op \in Mutating /\ b \in call[c].blocks
    BY <1>9, <2>1 DEF WriteBlock, Writing
  <2>3. left'[c] = left[c] \ {b} /\ \A d \in Callers \ {c} : left'[d] = left[d]
    BY <2>1
  <2>4. view' = [x \in Blocks |-> IF x \in call[c].blocks \ left'[c]
                                    THEN call[c].id ELSE entry[x]]
    <3>1. view = [x \in Blocks |-> IF x \in call[c].blocks \ left[c]
                                     THEN call[c].id ELSE entry[x]]
      BY <2>2
    <3>2. view' = [x \in Blocks |-> IF x = b THEN call[c].id ELSE view[x]]
      BY <2>1
    <3>3. \A x \in Blocks : x \in call[c].blocks \ left'[c]
                              <=> x = b \/ x \in call[c].blocks \ left[c]
      BY <2>2, <2>3
    <3> QED
      BY <3>1, <3>2, <3>3
  <2>5. \A d \in Callers : at[d] \in InsidePhases => d = c
    BY <2>2
  <2> QED
    BY <2>2, <2>3, <2>4, <2>5
<1>10. CASE WriteRefused(c)
  BY <1>10 DEF WriteRefused, Conclude, Writing
<1>11. CASE DeviceFails(c)
  BY <1>11 DEF DeviceFails, Conclude, Writing
<1>12. CASE Barrier(c)
  BY <1>12 DEF Barrier, Writing
<1>13. CASE StartSync(c)
  BY <1>13 DEF StartSync, Writing
<1>14. CASE SkipSync(c)
  BY <1>14 DEF SkipSync, Conclude, Writing
<1>15. CASE Sync(c)
  BY <1>15 DEF Sync, Conclude
<1>16. CASE SyncFails(c)
  BY <1>16 DEF SyncFails, Conclude
<1>17. CASE DropFiles(c)
  BY <1>17 DEF DropFiles, DropSyncs
<1>18. CASE Panic(c)
  BY <1>18 DEF Panic, DropSyncs
<1>19. CASE Unmount(c)
  BY <1>19 DEF Unmount
<1>20. CASE CloseDevice(c)
  BY <1>20 DEF CloseDevice
<1>21. CASE Leave(c)
  BY <1>21 DEF Leave
<1>22. CASE Answered(c)
  BY <1>22 DEF Answered, Idle
<1> QED
  BY <1>1, <1>2, <1>3, <1>4, <1>5, <1>6, <1>7, <1>8, <1>9, <1>10, <1>11,
     <1>12, <1>13, <1>14, <1>15, <1>16, <1>17, <1>18, <1>19, <1>20, <1>21, <1>22 DEF Step

LEMMA AnswerStep ==
    ASSUME TypeOK, MutexInv, SessionInv, WorkInv, AnswerInv, NEW c \in Callers, Step(c)
    PROVE  AnswerInv'
<1> USE NobodyAssumption, ReportedIs
<1> USE DEF TypeOK, MutexInv, SessionInv, WorkInv, AnswerInv, InsidePhases, session, device, work, Mutating, Quiet, Ops
<1>1. CASE Begin(c)
  BY <1>1 DEF Begin
<1>2. CASE EnterInVain(c)
  BY <1>2 DEF EnterInVain, MayEnter
<1>3. CASE Enter(c)
  BY <1>3 DEF Enter, MayEnter
<1>4. CASE EnterLock(c)
  BY <1>4 DEF EnterLock, MayEnter, TakeSession
<1>5. CASE AnswerQuiet(c)
  BY <1>5 DEF AnswerQuiet
<1>6. CASE RefuseNtfs(c)
  BY <1>6 DEF RefuseNtfs, Conclude
<1>7. CASE ReadBlock(c)
  BY <1>7 DEF ReadBlock
<1>8. CASE ReadDone(c)
  BY <1>8 DEF ReadDone, Conclude
<1>9. CASE WriteBlock(c)
  BY <1>9 DEF WriteBlock, Writing
<1>10. CASE WriteRefused(c)
  BY <1>10 DEF WriteRefused, Conclude, Writing
<1>11. CASE DeviceFails(c)
  BY <1>11 DEF DeviceFails, Conclude, Writing
<1>12. CASE Barrier(c)
  BY <1>12 DEF Barrier, Writing
<1>13. CASE StartSync(c)
  BY <1>13 DEF StartSync, Writing
<1>14. CASE SkipSync(c)
  BY <1>14 DEF SkipSync, Conclude, Writing
<1>15. CASE Sync(c)
  BY <1>15 DEF Sync, Conclude
<1>16. CASE SyncFails(c)
  BY <1>16 DEF SyncFails, Conclude
<1>17. CASE DropFiles(c)
  BY <1>17 DEF DropFiles, DropSyncs
<1>18. CASE Panic(c)
  BY <1>18 DEF Panic, DropSyncs
<1>19. CASE Unmount(c)
  BY <1>19 DEF Unmount
<1>20. CASE CloseDevice(c)
  BY <1>20 DEF CloseDevice
<1>21. CASE Leave(c)
  BY <1>21 DEF Leave
<1>22. CASE Answered(c)
  BY <1>22 DEF Answered, Idle
<1> QED
  BY <1>1, <1>2, <1>3, <1>4, <1>5, <1>6, <1>7, <1>8, <1>9, <1>10, <1>11,
     <1>12, <1>13, <1>14, <1>15, <1>16, <1>17, <1>18, <1>19, <1>20, <1>21, <1>22 DEF Step
LEMMA InvInit == Init => IInv
<1> SUFFICES ASSUME Init PROVE IInv
  OBVIOUS
<1>1. TypeOK
  BY TypeInit
<1>2. MutexInv
  BY NobodyAssumption DEF Init, MutexInv, InsidePhases
<1>3. SessionInv
  BY DEF Init, SessionInv, InsidePhases
<1>4. IdInv /\ DurableInv
  BY DEF Init, IdInv, DurableInv, Idle, Mutating
<1>5. WorkInv /\ AnswerInv
  BY DEF Init, WorkInv, AnswerInv, InsidePhases, Idle, Mutating
<1> QED
  BY <1>1, <1>2, <1>3, <1>4, <1>5 DEF IInv

LEMMA InvStutter == IInv /\ UNCHANGED vars => IInv'
BY DEF vars, session, device, work, IInv, TypeOK, MutexInv, SessionInv, IdInv,
       DurableInv, MustBeDurable, WorkInv, WrittenBy, AnswerInv

LEMMA InvStep == IInv /\ [Next]_vars => IInv'
<1>1. ASSUME IInv, NEW c \in Callers, Step(c) PROVE IInv'
  BY <1>1, TypeStep, MutexStep, SessionStep, IdStep, DurableStep, WorkStep,
     AnswerStep DEF IInv
<1> QED
  BY <1>1, InvStutter DEF Next

THEOREM InvariantHolds == Spec => []IInv
BY InvInit, InvStep, PTL DEF Spec

(* Every variable keeps its type. *)
THEOREM TypeCorrect == Spec => []TypeOK
<1>1. IInv => TypeOK
  BY DEF IInv
<1> QED
  BY <1>1, InvariantHolds, PTL

(* When lock has returned, to whichever caller, the keys are gone           *)
(* (lib.rs:564-570).                                                        *)
THEOREM LockIsFinal == Spec => []LockedMeansGone
<1>1. IInv => LockedMeansGone
  BY DEF IInv, SessionInv, LockedMeansGone
<1> QED
  BY <1>1, InvariantHolds, PTL

(* The answer Internal means that the session is gone (lib.rs:357).         *)
THEOREM InternalIsHonest == Spec => []InternalMeansGone
<1>1. IInv => InternalMeansGone
  BY DEF IInv, SessionInv, InternalMeansGone
<1> QED
  BY <1>1, InvariantHolds, PTL

(* What was acknowledged after a sync stays on the medium (fat.rs:173,      *)
(* write.rs:463).                                                           *)
THEOREM SuccessIsDurable == Spec => []AcknowledgedIsDurable
<1>1. IInv => AcknowledgedIsDurable
  BY DEF IInv, DurableInv, MustBeDurable, AcknowledgedIsDurable
<1> QED
  BY <1>1, InvariantHolds, PTL

LEMMA ClosedStep ==
    ASSUME IInv, NEW c \in Callers, Step(c)
    PROVE  fd = "closed" => UNCHANGED <<view, unsynced>> /\ fd' = fd
<1> USE DEF IInv, SessionInv, session, device, work
<1>1. CASE Begin(c)
  BY <1>1 DEF Begin
<1>2. CASE EnterInVain(c)
  BY <1>2 DEF EnterInVain, MayEnter
<1>3. CASE Enter(c)
  BY <1>3 DEF Enter, MayEnter
<1>4. CASE EnterLock(c)
  BY <1>4 DEF EnterLock, MayEnter, TakeSession
<1>5. CASE AnswerQuiet(c)
  BY <1>5 DEF AnswerQuiet
<1>6. CASE RefuseNtfs(c)
  BY <1>6 DEF RefuseNtfs, Conclude
<1>7. CASE ReadBlock(c)
  BY <1>7 DEF ReadBlock
<1>8. CASE ReadDone(c)
  BY <1>8 DEF ReadDone, Conclude
<1>9. CASE WriteBlock(c)
  BY <1>9 DEF WriteBlock, Writing
<1>10. CASE WriteRefused(c)
  BY <1>10 DEF WriteRefused, Conclude, Writing
<1>11. CASE DeviceFails(c)
  BY <1>11 DEF DeviceFails, Conclude, Writing
<1>12. CASE Barrier(c)
  BY <1>12 DEF Barrier, Writing
<1>13. CASE StartSync(c)
  BY <1>13 DEF StartSync, Writing
<1>14. CASE SkipSync(c)
  BY <1>14 DEF SkipSync, Conclude, Writing
<1>15. CASE Sync(c)
  BY <1>15 DEF Sync, Conclude
<1>16. CASE SyncFails(c)
  BY <1>16 DEF SyncFails, Conclude
<1>17. CASE DropFiles(c)
  BY <1>17 DEF DropFiles, DropSyncs
<1>18. CASE Panic(c)
  BY <1>18 DEF Panic, DropSyncs
<1>19. CASE Unmount(c)
  BY <1>19 DEF Unmount
<1>20. CASE CloseDevice(c)
  BY <1>20 DEF CloseDevice
<1>21. CASE Leave(c)
  BY <1>21 DEF Leave
<1>22. CASE Answered(c)
  BY <1>22 DEF Answered, Idle
<1> QED
  BY <1>1, <1>2, <1>3, <1>4, <1>5, <1>6, <1>7, <1>8, <1>9, <1>10, <1>11,
     <1>12, <1>13, <1>14, <1>15, <1>16, <1>17, <1>18, <1>19, <1>20, <1>21, <1>22 DEF Step

(* Nothing reaches a closed device (lib.rs:361-370). *)
THEOREM ClosedIsUntouched == Spec => ClosedStaysUntouched
<1>1. IInv /\ [Next]_vars => [fd = "closed" => UNCHANGED <<view, unsynced>> /\ fd' = fd]_vars
  BY ClosedStep DEF Next
<1> QED
  BY <1>1, InvariantHolds, PTL DEF Spec, ClosedStaysUntouched

LEMMA LatchStep ==
    ASSUME IInv, NEW c \in Callers, Step(c)
    PROVE  readOnly => view' = view /\ readOnly'
<1> USE DEF Refused, session, device, work
<1>1. CASE Begin(c)
  BY <1>1 DEF Begin
<1>2. CASE EnterInVain(c)
  BY <1>2 DEF EnterInVain, MayEnter
<1>3. CASE Enter(c)
  BY <1>3 DEF Enter, MayEnter
<1>4. CASE EnterLock(c)
  BY <1>4 DEF EnterLock, MayEnter, TakeSession
<1>5. CASE AnswerQuiet(c)
  BY <1>5 DEF AnswerQuiet
<1>6. CASE RefuseNtfs(c)
  BY <1>6 DEF RefuseNtfs, Conclude
<1>7. CASE ReadBlock(c)
  BY <1>7 DEF ReadBlock
<1>8. CASE ReadDone(c)
  BY <1>8 DEF ReadDone, Conclude
<1>9. CASE WriteBlock(c)
  BY <1>9 DEF WriteBlock, Writing
<1>10. CASE WriteRefused(c)
  BY <1>10 DEF WriteRefused, Conclude, Writing
<1>11. CASE DeviceFails(c)
  BY <1>11 DEF DeviceFails, Conclude, Writing
<1>12. CASE Barrier(c)
  BY <1>12 DEF Barrier, Writing
<1>13. CASE StartSync(c)
  BY <1>13 DEF StartSync, Writing
<1>14. CASE SkipSync(c)
  BY <1>14 DEF SkipSync, Conclude, Writing
<1>15. CASE Sync(c)
  BY <1>15 DEF Sync, Conclude
<1>16. CASE SyncFails(c)
  BY <1>16 DEF SyncFails, Conclude
<1>17. CASE DropFiles(c)
  BY <1>17 DEF DropFiles, DropSyncs
<1>18. CASE Panic(c)
  BY <1>18 DEF Panic, DropSyncs
<1>19. CASE Unmount(c)
  BY <1>19 DEF Unmount
<1>20. CASE CloseDevice(c)
  BY <1>20 DEF CloseDevice
<1>21. CASE Leave(c)
  BY <1>21 DEF Leave
<1>22. CASE Answered(c)
  BY <1>22 DEF Answered, Idle
<1> QED
  BY <1>1, <1>2, <1>3, <1>4, <1>5, <1>6, <1>7, <1>8, <1>9, <1>10, <1>11,
     <1>12, <1>13, <1>14, <1>15, <1>16, <1>17, <1>18, <1>19, <1>20, <1>21, <1>22 DEF Step

(* The latch is for good and stops every write (protect.rs:62-73). *)
THEOREM LatchIsFinal == Spec => LatchFreezesVolume
<1>1. IInv /\ [Next]_vars => [readOnly => view' = view /\ readOnly']_vars
  BY LatchStep DEF Next
<1> QED
  BY <1>1, InvariantHolds, PTL DEF Spec, LatchFreezesVolume

-----------------------------------------------------------------------------
(* The threads see one volume *)

Requests == [c \in Callers |-> Request(c)]

(* A step of one caller changes what that caller has asked or was answered. *)
LEMMA RequestsStep ==
    ASSUME NEW c \in Callers, NEW x, Request(c)' = x,
           \A d \in Callers \ {c} : Request(d)' = Request(d)
    PROVE  Requests' = [Requests EXCEPT ![c] = x]
BY DEF Requests

LEMMA OthersKeep ==
    ASSUME NEW d, UNCHANGED <<call[d], at[d], result[d], got[d]>>
    PROVE  Request(d)' = Request(d)
BY DEF Request

LEMMA StillAsked ==
    ASSUME NEW d, call'[d] = call[d], at[d] \notin {"idle", "done"},
           at'[d] \notin {"idle", "done"}
    PROVE  Request(d)' = Request(d)
BY DEF Request

LEMMA RequestCases ==
    ASSUME NEW d
    PROVE  /\ at[d] = "idle" => Request(d) = Serial!Idle
           /\ at[d] = "done" => Request(d) = Serial!Answered(result[d], got[d])
           /\ at[d] \notin {"idle", "done"} =>
                 Request(d) = Serial!Asked(What(call[d].op), call[d].id, call[d].blocks)
BY DEF Request, Serial!Idle, Serial!Answered, Serial!Asked

LEMMA InitMaps == Init => Serial!Init
<1> SUFFICES ASSUME Init PROVE Serial!Init
  OBVIOUS
<1>1. Settled = Serial!Nothing
  BY DEF Init, Settled, Inhabited, Serial!Nothing, Unread
<1>2. Unlocked = TRUE
  BY DEF Init, Unlocked
<1>3. [c \in Callers |-> Request(c)] = [c \in Callers |-> Serial!Idle]
  BY RequestCases DEF Init
<1> QED
  BY <1>1, <1>2, <1>3 DEF Serial!Init

(* A step inside the mutex is invisible. *)
LEMMA HiddenStep ==
    ASSUME IInv, NEW c \in Callers, at[c] \in InsidePhases,
           UNCHANGED <<entry, holder, call, poisoned>>,
           \A d \in Callers \ {c} : UNCHANGED <<at[d], result[d], got[d]>>,
           at'[c] \notin {"idle", "done"}
    PROVE  UNCHANGED <<Settled, Unlocked, Requests>>
<1>1. holder = c /\ holder # Nobody
  BY NobodyAssumption DEF IInv, MutexInv
<1>2. UNCHANGED <<Settled, Unlocked>>
  BY <1>1 DEF Settled, Unlocked, Inhabited
<1>3. \A d \in Callers \ {c} : Request(d)' = Request(d)
  BY OthersKeep
<1>4. Request(c)' = Request(c)
  BY StillAsked DEF InsidePhases
<1> QED
  BY <1>2, <1>3, <1>4 DEF Requests

LEMMA BeginMaps ==
    ASSUME IInv, NEW c \in Callers, Begin(c)
    PROVE  Serial!Ask(c)
<1>1. UNCHANGED <<Settled, Unlocked>>
  BY DEF Begin, session, device, Settled, Unlocked, Inhabited
<1>2. at[c] = "idle" /\ at'[c] = "waiting"
  BY DEF Begin, IInv, TypeOK
<1>3. Request(c) = Serial!Idle
  BY <1>2, RequestCases
<1>4. \A d \in Callers \ {c} : Request(d)' = Request(d)
  BY OthersKeep DEF Begin, IInv, TypeOK
<1>5. Request(c)' = Serial!Asked(What(call'[c].op), call'[c].id, call'[c].blocks)
  BY <1>2 DEF Request, Serial!Asked
<1>6. \/ \E id \in 1 .. MaxMutations, blocks \in SUBSET Blocks :
            Request(c)' = Serial!Asked("mutate", id, blocks)
      \/ \E what \in {"read", "quiet", "lock"} :
            Request(c)' = Serial!Asked(what, 0, {})
  <2>1. CASE \E op \in Mutating, blocks \in SUBSET Blocks :
                /\ started < MaxMutations
                /\ call' = [call EXCEPT ![c] =
                      [op |-> op, id |-> started + 1, blocks |-> blocks]]
    <3>1. PICK op \in Mutating, blocks \in SUBSET Blocks :
                /\ started < MaxMutations
                /\ call' = [call EXCEPT ![c] =
                      [op |-> op, id |-> started + 1, blocks |-> blocks]]
      BY <2>1
    <3>2. call'[c] = [op |-> op, id |-> started + 1, blocks |-> blocks]
      BY <3>1 DEF IInv, TypeOK
    <3>3. What(op) = "mutate"
      BY <3>1 DEF What, Mutating, Quiet
    <3>4. started + 1 \in 1 .. MaxMutations
      BY <3>1, MaxMutationsAssumption DEF IInv, TypeOK
    <3> QED
      BY <1>5, <3>1, <3>2, <3>3, <3>4
  <2>2. CASE \E op \in Quiet \cup {"read", "lock"} :
                call' = [call EXCEPT ![c] = [op |-> op, id |-> 0, blocks |-> {}]]
    <3>1. PICK op \in Quiet \cup {"read", "lock"} :
                call' = [call EXCEPT ![c] = [op |-> op, id |-> 0, blocks |-> {}]]
      BY <2>2
    <3>2. call'[c] = [op |-> op, id |-> 0, blocks |-> {}]
      BY <3>1 DEF IInv, TypeOK
    <3>3. What(op) \in {"read", "quiet", "lock"}
      BY <3>1 DEF What, Mutating, Quiet
    <3> QED
      BY <1>5, <3>2, <3>3
  <2> QED
    BY <2>1, <2>2 DEF Begin
<1>7. \A x : Request(c)' = x => Requests' = [Requests EXCEPT ![c] = x]
  BY <1>4, RequestsStep
<1> QED
  BY <1>1, <1>3, <1>6, <1>7 DEF Serial!Ask, Requests

LEMMA EnterInVainMaps ==
    ASSUME IInv, NEW c \in Callers, EnterInVain(c)
    PROVE  Serial!Effect(c)
<1>1. /\ holder = Nobody /\ UNCHANGED <<holder, view, inner, poisoned, entry, call>>
      /\ poisoned \/ inner = "taken"
      /\ at[c] = "waiting" /\ at'[c] = "done" /\ got'[c] = Unread
      /\ result'[c] = IF call[c].op = "lock" THEN "Ok" ELSE "Internal"
  BY DEF EnterInVain, MayEnter, session, device, IInv, TypeOK, WorkInv
<1>2. Settled' = Settled /\ Unlocked = FALSE /\ Unlocked' = FALSE
  BY <1>1 DEF Settled, Unlocked, Inhabited
<1>3. Request(c) = Serial!Asked(What(call[c].op), call[c].id, call[c].blocks)
  BY <1>1, RequestCases
<1>4. Request(c)' = Serial!Answered(result'[c], got'[c])
  BY <1>1 DEF Request, Serial!Answered
<1>5. \A d \in Callers \ {c} : Request(d)' = Request(d)
  BY OthersKeep DEF EnterInVain, session, IInv, TypeOK
<1>6. Requests' = [Requests EXCEPT ![c] = Serial!Answered(result'[c], Serial!Nothing)]
  BY <1>1, <1>4, <1>5, RequestsStep DEF Serial!Nothing, Unread
<1>7. Request(c).what = What(call[c].op) /\ Request(c).state = "asked"
  BY <1>3 DEF Serial!Asked
<1>8. CASE call[c].op = "lock"
  <2>1. What(call[c].op) = "lock"
    BY <1>8 DEF What, Mutating, Quiet
  <2> QED
    BY <1>1, <1>2, <1>6, <1>7, <1>8, <2>1
       DEF Serial!Effect, Serial!Lock, Serial!Answer, Requests
<1>9. CASE call[c].op # "lock"
  <2>1. What(call[c].op) # "lock"
    BY <1>9 DEF What
  <2> QED
    BY <1>1, <1>2, <1>6, <1>7, <1>9, <2>1
       DEF Serial!Effect, Serial!Refuse, Serial!Answer, Requests
<1> QED
  BY <1>8, <1>9

LEMMA EnterMaps ==
    ASSUME IInv, NEW c \in Callers, Enter(c) \/ EnterLock(c)
    PROVE  UNCHANGED <<Settled, Unlocked, Requests>>
<1>1. /\ holder = Nobody /\ holder' = c /\ entry' = view
      /\ ~poisoned /\ inner = "open" /\ UNCHANGED call
      /\ at[c] = "waiting" /\ at'[c] \in {"steps", "dropping"}
      /\ \A d \in Callers \ {c} : UNCHANGED <<at[d], result[d], got[d]>>
  BY DEF Enter, EnterLock, TakeSession, MayEnter, IInv, TypeOK
<1>2. UNCHANGED <<Settled, Unlocked>>
  BY <1>1, NobodyAssumption DEF Settled, Unlocked, Inhabited
<1>3. Request(c)' = Request(c)
  BY <1>1, StillAsked
<1>4. \A d \in Callers \ {c} : Request(d)' = Request(d)
  BY <1>1, OthersKeep
<1> QED
  BY <1>2, <1>3, <1>4 DEF Requests

LEMMA AnsweredMaps ==
    ASSUME IInv, NEW c \in Callers, Answered(c)
    PROVE  Serial!Take(c)
<1>1. /\ UNCHANGED <<holder, view, inner, poisoned, entry>>
      /\ at[c] = "done" /\ at'[c] = "idle"
      /\ \A d \in Callers \ {c} : UNCHANGED <<call[d], at[d], result[d], got[d]>>
  BY DEF Answered, session, device, IInv, TypeOK
<1>2. UNCHANGED <<Settled, Unlocked>>
  BY <1>1 DEF Settled, Unlocked, Inhabited
<1>3. Request(c).state = "answered"
  BY <1>1, RequestCases DEF Serial!Answered
<1>4. Request(c)' = Serial!Idle
  BY <1>1 DEF Request, Serial!Idle
<1>5. \A d \in Callers \ {c} : Request(d)' = Request(d)
  BY <1>1, OthersKeep
<1>6. Requests' = [Requests EXCEPT ![c] = Serial!Idle]
  BY <1>4, <1>5, RequestsStep
<1> QED
  BY <1>2, <1>3, <1>6 DEF Serial!Take, Requests

(* What the call inside has written, in the terms of the promise. *)
LEMMA WorkOf ==
    ASSUME IInv, NEW c \in Callers, at[c] \in InsidePhases
    PROVE  /\ holder = c /\ holder # Nobody
           /\ Settled = entry /\ Unlocked = TRUE
           /\ call[c].op \notin Mutating => view = entry /\ call[c].blocks = {}
           /\ call[c].op \in Mutating =>
                 view = Serial!Overwrite(call[c].id, WrittenBy(c))
           /\ WrittenBy(c) \subseteq call[c].blocks
<1>1. holder = c /\ holder # Nobody
  BY NobodyAssumption DEF IInv, MutexInv
<1>2. Settled = entry /\ Unlocked = TRUE
  BY <1>1 DEF Settled, Unlocked, Inhabited
<1>3. view = [b \in Blocks |-> IF call[c].op \in Mutating /\ b \in WrittenBy(c)
                                THEN call[c].id ELSE entry[b]]
  BY DEF IInv, WorkInv
<1>4. entry \in [Blocks -> 0 .. MaxMutations]
  BY DEF IInv, TypeOK
<1>5. call[c].op \notin Mutating => view = entry /\ call[c].blocks = {}
  BY <1>3, <1>4 DEF IInv, WorkInv
<1>6. ASSUME call[c].op \in Mutating
      PROVE  view = Serial!Overwrite(call[c].id, WrittenBy(c))
  BY <1>2, <1>3, <1>6 DEF Serial!Overwrite
<1> QED
  BY <1>1, <1>2, <1>5, <1>6 DEF WrittenBy

LEMMA PanicMaps ==
    ASSUME IInv, NEW c \in Callers, Panic(c)
    PROVE  Serial!Effect(c)
<1>1. /\ holder' = Nobody /\ UNCHANGED <<view, entry, call>> /\ poisoned'
      /\ at[c] = "steps" /\ at'[c] = "done" /\ result'[c] = "Panic"
      /\ got'[c] = Unread
      /\ \A d \in Callers \ {c} : UNCHANGED <<at[d], result[d], got[d]>>
  BY DEF Panic, IInv, TypeOK
<1>2. at[c] \in InsidePhases
  BY <1>1 DEF InsidePhases
<1>3. Settled' = view /\ Unlocked' = FALSE
  BY <1>1 DEF Settled, Unlocked, Inhabited
<1>4. /\ Request(c).state = "asked"
      /\ Request(c).blocks = call[c].blocks /\ Request(c).id = call[c].id
  BY <1>1, RequestCases DEF Serial!Asked
<1>5. Request(c)' = Serial!Answered("Panic", Serial!Nothing)
  BY <1>1 DEF Request, Serial!Answered, Serial!Nothing, Unread
<1>6. \A d \in Callers \ {c} : Request(d)' = Request(d)
  BY <1>1, OthersKeep
<1>7. Requests' = [Requests EXCEPT ![c] = Serial!Answered("Panic", Serial!Nothing)]
  BY <1>5, <1>6, RequestsStep
<1>8. \E part \in SUBSET call[c].blocks :
         view = Serial!Overwrite(call[c].id, part)
  <2>1. CASE call[c].op \in Mutating
    BY <1>2, <2>1, WorkOf
  <2>2. CASE call[c].op \notin Mutating
    <3>1. view = entry /\ Settled = entry
      BY <1>2, <2>2, WorkOf
    <3>2. view = [b \in Blocks |-> view[b]]
      BY DEF IInv, TypeOK
    <3>3. view = Serial!Overwrite(call[c].id, {})
      BY <3>1, <3>2 DEF Serial!Overwrite
    <3> QED
      BY <3>3
  <2> QED
    BY <2>1, <2>2
<1>9. Unlocked
  BY <1>2, WorkOf
<1>10. Requests[c] = Request(c)
  BY DEF Requests
<1>11. Serial!Panic(c)
  BY <1>3, <1>4, <1>7, <1>8, <1>9 DEF Serial!Panic, Serial!Answer, Requests
<1> QED
  BY <1>4, <1>11 DEF Serial!Effect

LEMMA LeaveMaps ==
    ASSUME IInv, NEW c \in Callers, Leave(c)
    PROVE  Serial!Effect(c)
<1>1. /\ holder' = Nobody
      /\ UNCHANGED <<view, entry, call, result, got, inner, fd, poisoned>>
      /\ at[c] = "leaving" /\ at'[c] = "done"
      /\ \A d \in Callers \ {c} : UNCHANGED <<at[d], result[d], got[d]>>
  BY DEF Leave, device, IInv, TypeOK
<1>2. at[c] \in InsidePhases
  BY <1>1 DEF InsidePhases
<1>3. Settled' = view /\ Unlocked' = (inner = "open" /\ ~poisoned)
  BY <1>1 DEF Settled, Unlocked, Inhabited
<1>4. Unlocked' = (call[c].op # "lock")
  BY <1>1, <1>2, <1>3 DEF IInv, SessionInv
<1>5. /\ Request(c).state = "asked" /\ Request(c).what = What(call[c].op)
      /\ Request(c).blocks = call[c].blocks /\ Request(c).id = call[c].id
  BY <1>1, RequestCases DEF Serial!Asked
<1>6. Request(c)' = Serial!Answered(result[c], got[c])
  BY <1>1 DEF Request, Serial!Answered
<1>7. \A d \in Callers \ {c} : Request(d)' = Request(d)
  BY <1>1, OthersKeep
<1>8. Requests' = [Requests EXCEPT ![c] = Serial!Answered(result[c], got[c])]
  BY <1>6, <1>7, RequestsStep
<1>9. \/ /\ result[c] = "Ok"
         /\ call[c].op = "read" => got[c] = view
         /\ call[c].op \in Mutating => left[c] = {}
      \/ /\ result[c] = "Filesystem" /\ got[c] = Unread
         /\ call[c].op \in Mutating \cup {"read"}
  BY <1>1 DEF IInv, AnswerInv
<1>10. call[c].op # "read" => got[c] = Unread
  BY <1>2 DEF IInv, AnswerInv
<1>11. Unread = Serial!Nothing
  BY DEF Unread, Serial!Nothing
<1>12. call[c].op \in Ops
  BY <1>1 DEF IInv, WorkInv
<1>13. Settled = entry /\ Unlocked
  BY <1>2, WorkOf
<1>14. CASE call[c].op \in Mutating
  <2>1. What(call[c].op) = "mutate" /\ call[c].op # "lock"
    BY <1>14 DEF What, Mutating, Quiet
  <2>2. /\ Settled' = Serial!Overwrite(call[c].id, WrittenBy(c))
        /\ WrittenBy(c) \subseteq call[c].blocks
    BY <1>2, <1>3, <1>14, WorkOf
  <2>3. result[c] = "Ok" => WrittenBy(c) = call[c].blocks
    BY <1>9, <1>14 DEF WrittenBy
  <2>4. got[c] = Serial!Nothing
    BY <1>10, <1>11, <1>14 DEF Mutating
  <2>5. Serial!Mutate(c)
    BY <1>4, <1>5, <1>8, <1>9, <1>13, <2>1, <2>2, <2>3, <2>4
       DEF Serial!Mutate, Serial!Answer, Requests
  <2> QED
    BY <1>5, <2>5 DEF Serial!Effect
<1>15. CASE call[c].op = "read"
  <2>1. What(call[c].op) = "read"
    BY <1>15 DEF What, Mutating, Quiet
  <2>2. Settled' = Settled /\ Settled = view
    BY <1>2, <1>3, <1>15, WorkOf DEF Mutating
  <2>3. Serial!Read(c)
    BY <1>4, <1>5, <1>8, <1>9, <1>11, <1>13, <1>15, <2>1, <2>2
       DEF Serial!Read, Serial!Answer, Requests
  <2> QED
    BY <1>5, <2>3 DEF Serial!Effect
<1>16. CASE call[c].op \in Quiet
  <2>1. What(call[c].op) = "quiet" /\ call[c].op \notin Mutating \cup {"read", "lock"}
    BY <1>16 DEF What, Mutating, Quiet
  <2>2. Settled' = Settled
    BY <1>2, <1>3, <2>1, WorkOf
  <2>3. Serial!Quiet(c)
    BY <1>4, <1>5, <1>8, <1>9, <1>10, <1>11, <1>13, <2>1, <2>2
       DEF Serial!Quiet, Serial!Answer, Requests
  <2> QED
    BY <1>5, <2>3 DEF Serial!Effect
<1>17. CASE call[c].op = "lock"
  <2>1. What(call[c].op) = "lock" /\ call[c].op \notin Mutating \cup {"read"}
    BY <1>17 DEF What, Mutating, Quiet
  <2>2. Settled' = Settled
    BY <1>2, <1>3, <2>1, WorkOf
  <2>3. Serial!Lock(c)
    BY <1>4, <1>5, <1>8, <1>9, <1>10, <1>11, <1>17, <2>1, <2>2
       DEF Serial!Lock, Serial!Answer, Requests
  <2> QED
    BY <1>5, <2>3 DEF Serial!Effect
<1> QED
  BY <1>12, <1>14, <1>15, <1>16, <1>17 DEF Ops

LEMMA StepMaps ==
    ASSUME IInv, NEW c \in Callers, Step(c)
    PROVE  Serial!Next \/ UNCHANGED <<Settled, Unlocked, Requests>>
<1>1. CASE Begin(c)
  BY <1>1, BeginMaps DEF Serial!Next
<1>2. CASE EnterInVain(c) \/ Panic(c) \/ Leave(c)
  BY <1>2, EnterInVainMaps, PanicMaps, LeaveMaps DEF Serial!Next
<1>3. CASE Enter(c) \/ EnterLock(c)
  BY <1>3, EnterMaps
<1>4. CASE Answered(c)
  BY <1>4, AnsweredMaps DEF Serial!Next
<1>5. CASE \/ AnswerQuiet(c) \/ ReadBlock(c) \/ WriteBlock(c) \/ Barrier(c)
           \/ StartSync(c) \/ DropFiles(c) \/ Unmount(c) \/ CloseDevice(c)
  <2>1. /\ at[c] \in InsidePhases /\ at'[c] \notin {"idle", "done"}
        /\ UNCHANGED <<entry, holder, call, poisoned>>
        /\ \A d \in Callers \ {c} : UNCHANGED <<at[d], result[d], got[d]>>
    BY <1>5 DEF AnswerQuiet, ReadBlock, WriteBlock, Barrier, StartSync, DropFiles,
       Unmount, CloseDevice, Writing, session, work, InsidePhases, IInv, TypeOK
  <2> QED
    BY <2>1, HiddenStep
<1>6. CASE \/ RefuseNtfs(c) \/ ReadDone(c) \/ WriteRefused(c) \/ DeviceFails(c)
           \/ SkipSync(c) \/ Sync(c) \/ SyncFails(c)
  <2>1. at[c] \in InsidePhases /\ \E answer : Conclude(c, answer)
    BY <1>6 DEF RefuseNtfs, ReadDone, WriteRefused, DeviceFails, SkipSync, Sync,
       SyncFails, Writing, InsidePhases
  <2>2. /\ at'[c] \notin {"idle", "done"}
        /\ UNCHANGED <<entry, holder, call, poisoned>>
        /\ \A d \in Callers \ {c} : UNCHANGED <<at[d], result[d], got[d]>>
    BY <2>1 DEF Conclude, session, IInv, TypeOK
  <2> QED
    BY <2>1, <2>2, HiddenStep
<1> QED
  BY <1>1, <1>2, <1>3, <1>4, <1>5, <1>6 DEF Step

(* The threads that share a VaultSession see one volume that is used by     *)
(* one call after the other (lib.rs:354-370).                               *)
THEOREM CallsAreSerial == Spec => ImplementsSerialVolume
<1>1. Init => Serial!Init
  BY InitMaps
<1>2. IInv /\ [Next]_vars => [Serial!Next]_(Serial!vars)
  <2>1. ASSUME IInv, NEW c \in Callers, Step(c)
        PROVE  [Serial!Next]_(Serial!vars)
    BY <2>1, StepMaps DEF Serial!vars, Requests
  <2>2. ASSUME UNCHANGED vars PROVE UNCHANGED Serial!vars
    BY <2>2 DEF vars, session, device, work, Serial!vars, Settled, Unlocked,
       Inhabited, Request
  <2> QED
    BY <2>1, <2>2 DEF Next
<1> QED
  BY <1>1, <1>2, InvariantHolds, PTL DEF Spec, ImplementsSerialVolume, Serial!Spec
=============================================================================
