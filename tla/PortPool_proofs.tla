-------------------------- MODULE PortPool_proofs --------------------------
(***************************************************************************)
(* Proofs about the port pool, for any number of threads and ports.        *)
(***************************************************************************)
EXTENDS PortPool, FiniteSetTheorems, TLAPS

(* Each action of a step, for the proofs that go through all of them.      *)
LEMMA StepCases ==
  ASSUME NEW t \in Threads, Step(t)
  PROVE  \/ AllocBusy(t) \/ AllocTest(t) \/ AllocSet(t)
         \/ AllocSkip(t) \/ AllocFound(t) \/ AllocTake(t) \/ AllocNone(t)
         \/ AllocUnset(t) \/ AllocLoad(t) \/ AllocCount(t)
         \/ FreeMark(t) \/ FreeLoad(t) \/ FreeCount(t)
  BY DEF Step

-----------------------------------------------------------------------------
(* The port a thread is about to mark is one its loop has looked at.       *)
TakeInRange == \A t \in Threads : pc[t] = "take" => idx[t] \in Ports

(* alloc_gsm_dataport() and free_gsm_dataport() keep every variable in its *)
(* type, whatever the schedule.                                            *)
LEMMA TypeStep == TypeOK /\ TakeInRange /\ [Next]_vars => TypeOK' /\ TakeInRange'
<1> USE NPortsAssumption DEF TypeOK, TakeInRange, Ports, Goto
<1>1. CASE UNCHANGED vars
  BY <1>1 DEF vars
<1>2. ASSUME TypeOK, TakeInRange, NEW t \in Threads, Step(t)
      PROVE  TypeOK' /\ TakeInRange'
  <2>1. CASE AllocBusy(t) BY <1>2, <2>1 DEF AllocBusy
  <2>2. CASE AllocTest(t) BY <1>2, <2>2 DEF AllocTest
  <2>3. CASE AllocSet(t) BY <1>2, <2>3 DEF AllocSet
  <2>4. CASE AllocSkip(t) BY <1>2, <2>4 DEF AllocSkip
  <2>5. CASE AllocFound(t) BY <1>2, <2>5 DEF AllocFound
  <2>6. CASE AllocTake(t) BY <1>2, <2>6 DEF AllocTake
  <2>7. CASE AllocNone(t) BY <1>2, <2>7 DEF AllocNone
  <2>8. CASE AllocUnset(t) BY <1>2, <2>8 DEF AllocUnset
  <2>9. CASE AllocLoad(t) BY <1>2, <2>9 DEF AllocLoad
  <2>10. CASE AllocCount(t) BY <1>2, <2>10 DEF AllocCount
  <2>11. CASE FreeMark(t) BY <1>2, <2>11 DEF FreeMark
  <2>12. CASE FreeLoad(t) BY <1>2, <2>12 DEF FreeLoad
  <2>13. CASE FreeCount(t) BY <1>2, <2>13 DEF FreeCount
  <2>14. QED
    BY <1>2, <2>1, <2>2, <2>3, <2>4, <2>5, <2>6, <2>7, <2>8, <2>9, <2>10,
       <2>11, <2>12, <2>13, StepCases
<1>3. QED
  BY <1>1, <1>2 DEF Next

(* The start is in its types.                                              *)
LEMMA TypeInit == Init => TypeOK /\ TakeInRange
  BY NPortsAssumption DEF Init, TypeOK, TakeInRange, Ports

(* Every variable of the pool keeps its type, for any number of threads    *)
(* and ports and every schedule.                                           *)
THEOREM TypeCorrect == Spec => []TypeOK
<1>1. Spec => [](TypeOK /\ TakeInRange)
  BY TypeInit, TypeStep, PTL DEF Spec
<1>2. QED
  BY <1>1, PTL

-----------------------------------------------------------------------------
(* The static flag of alloc_gsm_dataport() is clear once no thread is      *)
(* inside, under every schedule: the invariant is inductive as it stands.  *)
THEOREM FlagReleased == Spec => []FlagNotLeftSet
<1>1. Init => FlagNotLeftSet
  BY DEF Init, FlagNotLeftSet
<1>2. TypeOK /\ FlagNotLeftSet /\ [Next]_vars => FlagNotLeftSet'
  <2> SUFFICES ASSUME TypeOK, FlagNotLeftSet, [Next]_vars, Inside' = {}
               PROVE  lock' = 0
    BY DEF FlagNotLeftSet
  <2>1. CASE UNCHANGED vars
    BY <2>1 DEF vars, FlagNotLeftSet, Inside
  <2>2. ASSUME NEW t \in Threads, Step(t)
        PROVE  lock' = 0
    <3> USE DEF Goto, TypeOK
    <3>1. ASSUME lock' = lock,
                 \A u \in Threads : pc[u] \in {"set", "scan", "take", "unset"}
                    => pc'[u] \in {"set", "scan", "take", "unset"}
          PROVE  lock' = 0
      BY <3>1 DEF FlagNotLeftSet, Inside
    <3>2. CASE AllocSet(t)
      <4>1. t \in Inside'
        BY <3>2 DEF AllocSet, Inside
      <4>2. QED BY <4>1
    <3>3. CASE AllocUnset(t)
      BY <3>3 DEF AllocUnset
    <3>4. CASE AllocBusy(t) \/ AllocTest(t) \/ AllocSkip(t) \/ AllocFound(t)
      BY <3>1, <3>4 DEF AllocBusy, AllocTest, AllocSkip, AllocFound
    <3>5. CASE AllocTake(t) \/ AllocNone(t) \/ AllocLoad(t) \/ AllocCount(t)
      BY <3>1, <3>5 DEF AllocTake, AllocNone, AllocLoad, AllocCount
    <3>6. CASE FreeMark(t) \/ FreeLoad(t) \/ FreeCount(t)
      BY <3>1, <3>6 DEF FreeMark, FreeLoad, FreeCount
    <3>7. QED
      BY <2>2, <3>2, <3>3, <3>4, <3>5, <3>6, StepCases
  <2>3. QED
    BY <2>1, <2>2 DEF Next
<1>3. QED
  BY <1>1, <1>2, TypeCorrect, PTL DEF Spec

-----------------------------------------------------------------------------
(* Every step keeps to the schedule: the two that are not made with Goto   *)
(* leave every thread where it is.                                         *)
LEMMA ScheduleStep ==
  ASSUME Respected, NEW t \in Threads, Step(t)
  PROVE  Respected' /\ schedule' = schedule
<1>1. CASE AllocBusy(t)
  BY <1>1 DEF AllocBusy, Respected, Locked, Serial, Inside
<1>2. CASE AllocSkip(t)
  BY <1>2 DEF AllocSkip, Respected, Locked, Serial, Inside
<1>3. CASE AllocTest(t) \/ AllocSet(t) \/ AllocFound(t) \/ AllocTake(t) \/ AllocNone(t)
  BY <1>3 DEF AllocTest, AllocSet, AllocFound, AllocTake, AllocNone, Goto
<1>4. CASE AllocUnset(t) \/ AllocLoad(t) \/ AllocCount(t)
  BY <1>4 DEF AllocUnset, AllocLoad, AllocCount, Goto
<1>5. CASE FreeMark(t) \/ FreeLoad(t) \/ FreeCount(t)
  BY <1>5 DEF FreeMark, FreeLoad, FreeCount, Goto
<1>6. QED
  BY <1>1, <1>2, <1>3, <1>4, <1>5, StepCases

(* The start is in every schedule.                                         *)
LEMMA ScheduleInit == Init => Respected
  BY DEF Init, Respected, Locked, Serial, Inside

(* No two calls overlap: then none overlap inside the flag's region.       *)
LEMMA CalmIsLocked ==
  ASSUME TypeOK, Respected, schedule # "any"
  PROVE  Locked
  BY SchedulesAssumption DEF TypeOK, Respected, Locked, Serial, Inside

-----------------------------------------------------------------------------
(***************************************************************************)
(* The schedules in which the flag does its work.  The inductive invariant *)
(* adds to Exclusive and UsedIffOwned where each thread stands: it holds   *)
(* no pointer while it looks for a port, and the port it has found is      *)
(* still unmarked, which is what the flag is for.                          *)
(***************************************************************************)
Standing ==
  \A t \in Threads :
    /\ pc[t] \in {"set", "scan", "take"} => own[t] = NoPort
    /\ pc[t] \in {"inc", "incstore", "dec", "decstore"} => own[t] # NoPort

FoundIsFree == \A t \in Threads : pc[t] = "take" => ~used[idx[t]]

NoneShared ==
  \A t, u \in Threads : Owned[t] # NoPort /\ Owned[t] = Owned[u] => t = u

LockedInv ==
  /\ TypeOK /\ TakeInRange
  /\ Standing /\ FoundIsFree
  /\ NoneShared /\ UsedTells

(* The start satisfies the invariant.                                      *)
LEMMA LockedInit == Init => LockedInv
  BY TypeInit, NoPortAssumption
     DEF Init, LockedInv, Standing, FoundIsFree, NoneShared, UsedTells, Owned, Ports

(* A step that leaves the ownership and the marks alone keeps what is said *)
(* of them.                                                                *)
LEMMA QuietStep ==
  ASSUME LockedInv, used' = used, Owned' = Owned
  PROVE  NoneShared' /\ UsedTells'
  BY DEF LockedInv, NoneShared, UsedTells

(* A step preserves the invariant if the flag kept the others out.         *)
LEMMA LockedStep ==
  ASSUME LockedInv, Locked, NEW t \in Threads, Step(t)
  PROVE  LockedInv'
<1> USE NPortsAssumption, NoPortAssumption
<1>1. TypeOK' /\ TakeInRange'
  BY TypeStep DEF LockedInv, Next
<1>2. Ports \subseteq Nat /\ NoPort \notin Ports
  BY DEF Ports
<1> USE <1>1, <1>2 DEF LockedInv, TypeOK, TakeInRange, Goto
<1>3. CASE AllocTake(t)
  <2> USE <1>3 DEF AllocTake
  <2>1. \A u \in Threads : pc'[u] = "take" => FALSE
    <3> SUFFICES ASSUME NEW u \in Threads, pc'[u] = "take" PROVE FALSE
      OBVIOUS
    <3>1. u # t /\ pc[u] = "take" /\ pc[t] = "take"
      OBVIOUS
    <3>2. QED BY <3>1 DEF Locked, Inside
  <2>2. /\ Owned' = [Owned EXCEPT ![t] = idx[t]]
        /\ Owned \in [Threads -> Ports \cup {NoPort}]
    BY DEF Owned, Standing
  <2>3. idx[t] \in Ports /\ ~used[idx[t]]
    BY DEF FoundIsFree
  <2>4. \A u \in Threads : Owned[u] # idx[t]
    BY <2>3 DEF UsedTells
  <2>5. \A u \in Threads : Owned'[u] = IF u = t THEN idx[t] ELSE Owned[u]
    BY <2>2
  <2>6. NoneShared'
    <3> SUFFICES ASSUME NEW u \in Threads, NEW v \in Threads,
                        Owned'[u] # NoPort, Owned'[u] = Owned'[v]
                 PROVE  u = v
      BY DEF NoneShared
    <3>1. QED BY <2>4, <2>5 DEF NoneShared
  <2>7. UsedTells'
    <3> SUFFICES ASSUME NEW p \in Ports
                 PROVE  used'[p] <=> \E u \in Threads : Owned'[u] = p
      BY DEF UsedTells
    <3>1. CASE p = idx[t]
      BY <2>3, <2>5, <3>1
    <3>2. CASE p # idx[t]
      <4>1. used'[p] = used[p] /\ Owned[t] = NoPort
        BY <2>3, <3>2 DEF Owned, Standing
      <4>2. \A u \in Threads : Owned'[u] = p <=> Owned[u] = p
        BY <2>5, <3>2, <4>1
      <4>3. QED BY <4>1, <4>2 DEF UsedTells
    <3>3. QED BY <3>1, <3>2
  <2>8. Standing'
    BY <2>3 DEF Standing
  <2>9. QED BY <2>1, <2>6, <2>7, <2>8 DEF FoundIsFree
<1>4. CASE FreeMark(t)
  <2> USE <1>4 DEF FreeMark
  <2>1. Owned[t] = own[t] /\ own[t] \in Ports
    BY DEF Owned
  <2>2. Owned' = [Owned EXCEPT ![t] = NoPort]
    BY DEF Owned
  <2>3. NoneShared'
    BY <2>2 DEF NoneShared, Owned
  <2>4. UsedTells'
    BY <2>1, <2>2 DEF UsedTells, NoneShared, Owned
  <2>5. Standing'
    BY DEF Standing
  <2>6. FoundIsFree'
    BY DEF FoundIsFree
  <2>7. QED BY <2>3, <2>4, <2>5, <2>6
<1>5. CASE AllocBusy(t)
  BY <1>5, QuietStep DEF AllocBusy, Standing, FoundIsFree, Owned
<1>6. CASE AllocTest(t)
  BY <1>6, QuietStep DEF AllocTest, Standing, FoundIsFree, Owned
<1>7. CASE AllocSet(t)
  BY <1>7, QuietStep DEF AllocSet, Standing, FoundIsFree, Owned
<1>8. CASE AllocSkip(t)
  BY <1>8, QuietStep DEF AllocSkip, Standing, FoundIsFree, Owned
<1>9. CASE AllocFound(t)
  BY <1>9, QuietStep DEF AllocFound, Standing, FoundIsFree, Owned
<1>10. CASE AllocNone(t)
  BY <1>10, QuietStep DEF AllocNone, Standing, FoundIsFree, Owned
<1>11. CASE AllocUnset(t)
  BY <1>11, QuietStep DEF AllocUnset, Standing, FoundIsFree, Owned
<1>12. CASE AllocLoad(t)
  BY <1>12, QuietStep DEF AllocLoad, Standing, FoundIsFree, Owned
<1>13. CASE AllocCount(t)
  BY <1>13, QuietStep DEF AllocCount, Standing, FoundIsFree, Owned
<1>14. CASE FreeLoad(t)
  BY <1>14, QuietStep DEF FreeLoad, Standing, FoundIsFree, Owned
<1>15. CASE FreeCount(t)
  BY <1>15, QuietStep DEF FreeCount, Standing, FoundIsFree, Owned
<1>16. QED
  BY <1>3, <1>4, <1>5, <1>6, <1>7, <1>8, <1>9, <1>10, <1>11, <1>12, <1>13,
     <1>14, <1>15, StepCases

(* In the schedules "flag" and "serial" the invariant always holds.        *)
CalmInv == TypeOK /\ TakeInRange /\ Respected /\ (schedule # "any" => LockedInv)

(* The invariant of the two schedules, with what makes it inductive.       *)
LEMMA CalmAlways == Spec => []CalmInv
<1>1. Init => CalmInv
  BY TypeInit, LockedInit, ScheduleInit DEF CalmInv
<1>2. CalmInv /\ [Next]_vars => CalmInv'
  <2>1. CASE UNCHANGED vars
    BY <2>1 DEF vars, CalmInv, Respected, Locked, Serial, Inside, LockedInv, TypeOK,
                TakeInRange, Standing, FoundIsFree, NoneShared, UsedTells, Owned
  <2>2. ASSUME CalmInv, NEW t \in Threads, Step(t)
        PROVE  CalmInv'
    <3>1. TypeOK' /\ TakeInRange'
      BY <2>2, TypeStep DEF CalmInv, Next
    <3>2. Respected' /\ schedule' = schedule
      BY <2>2, ScheduleStep DEF CalmInv
    <3>3. ASSUME schedule # "any" PROVE LockedInv'
      BY <2>2, <3>3, CalmIsLocked, LockedStep DEF CalmInv
    <3>4. QED BY <3>1, <3>2, <3>3 DEF CalmInv
  <2>3. QED
    BY <2>1, <2>2 DEF Next
<1>3. QED
  BY <1>1, <1>2, PTL DEF Spec

(* alloc_gsm_dataport() never hands one port to two threads as long as no  *)
(* two calls are between the test and the clearing of its flag, however    *)
(* they overlap with free_gsm_dataport() and with the counting.            *)
THEOREM PortExclusion == Spec => []Exclusive
<1>1. CalmInv => Exclusive
  BY DEF CalmInv, LockedInv, NoneShared, Exclusive
<1>2. QED
  BY <1>1, CalmAlways, PTL

(* Under the same schedules COM_PORT.used tells the truth.                 *)
THEOREM UsedTruthful == Spec => []UsedIffOwned
<1>1. CalmInv => UsedIffOwned
  BY DEF CalmInv, LockedInv, UsedIffOwned
<1>2. QED
  BY <1>1, CalmAlways, PTL

(* Under the same schedules the pool keeps the contract of PortOwner: the  *)
(* mark is where a port is acquired and its clearing is where it is        *)
(* released.                                                               *)
THEOREM PoolImplementsOwner == Spec => ImplementsOwner
<1>1. Init => Owner!Init
  BY DEF Init, Owner!Init, Owned
<1>2. CalmInv /\ [Next]_vars => [schedule # "any" => [Owner!Next]_Owned]_vars
  <2> SUFFICES ASSUME CalmInv, [Next]_vars, schedule # "any"
               PROVE  Owner!Next \/ Owned' = Owned
    BY DEF Owner!Next
  <2> USE NPortsAssumption, NoPortAssumption DEF CalmInv, LockedInv, TypeOK, Goto
  <2>1. CASE UNCHANGED vars
    BY <2>1 DEF vars, Owned
  <2>2. ASSUME NEW t \in Threads, Step(t)
        PROVE  Owner!Next \/ Owned' = Owned
    <3>1. CASE AllocTake(t)
      <4>1. idx[t] \in Ports /\ Owned[t] = NoPort
        BY <3>1 DEF AllocTake, TakeInRange, Standing, Owned
      <4>2. \A u \in Threads : Owned[u] # idx[t]
        BY <3>1, <4>1 DEF AllocTake, UsedTells, FoundIsFree
      <4>3. Owned' = [Owned EXCEPT ![t] = idx[t]]
        BY <3>1 DEF AllocTake, Owned
      <4>4. QED
        BY <4>1, <4>2, <4>3 DEF Owner!Next, Owner!Acquire
    <3>2. CASE FreeMark(t)
      <4>1. Owned' = [Owned EXCEPT ![t] = NoPort] /\ Owned[t] # NoPort
        BY <3>2 DEF FreeMark, Owned
      <4>2. QED
        BY <4>1 DEF Owner!Next, Owner!Release
    <3>3. CASE AllocBusy(t) \/ AllocTest(t) \/ AllocSet(t) \/ AllocSkip(t)
      BY <3>3 DEF AllocBusy, AllocTest, AllocSet, AllocSkip, Owned
    <3>4. CASE AllocFound(t) \/ AllocNone(t) \/ AllocUnset(t)
      BY <3>4 DEF AllocFound, AllocNone, AllocUnset, Owned
    <3>5. CASE AllocLoad(t) \/ AllocCount(t) \/ FreeLoad(t)
      BY <3>5 DEF AllocLoad, AllocCount, FreeLoad, Owned
    <3>6. CASE FreeCount(t)
      BY <3>6 DEF FreeCount, Owned
    <3>7. QED
      BY <2>2, <3>1, <3>2, <3>3, <3>4, <3>5, <3>6, StepCases
  <2>3. QED
    BY <2>1, <2>2 DEF Next
<1>3. QED
  BY <1>1, <1>2, CalmAlways, PTL DEF Spec, ImplementsOwner

-----------------------------------------------------------------------------
(***************************************************************************)
(* The schedules in which no two calls overlap.  users is then the number  *)
(* of threads that hold a port and have got as far as counting it, and a   *)
(* thread between the read and the write of users has read its value.      *)
(***************************************************************************)
Counted ==
  {t \in Threads : own[t] # NoPort /\ pc[t] \notin {"unset", "inc", "incstore"}}

CountInv ==
  /\ TypeOK /\ TakeInRange /\ Standing
  /\ users = Cardinality(Counted)
  /\ \A t \in Threads : pc[t] \in {"incstore", "decstore"} => tmp[t] = users

(* The start satisfies it.                                                 *)
LEMMA CountInit == Init => CountInv
  BY TypeInit, FS_EmptySet DEF Init, CountInv, Standing, Counted

(* A step preserves it if no other call is under way.                      *)
LEMMA CountStep ==
  ASSUME CountInv, Serial, Serial', NEW t \in Threads, Step(t)
  PROVE  CountInv'
<1> USE NPortsAssumption, NoPortAssumption
<1>1. TypeOK' /\ TakeInRange'
  BY TypeStep DEF CountInv, Next
<1>2. Ports \subseteq Nat /\ NoPort \notin Ports
  BY DEF Ports
<1>3. IsFiniteSet(Counted)
  BY ThreadsAssumption, FS_Subset DEF Counted
<1> USE <1>1, <1>2 DEF CountInv, TypeOK, TakeInRange, Goto
<1>4. \A u \in Threads : u # t /\ pc[t] # "idle" => pc[u] = "idle"
  BY DEF Serial
<1>5. CASE AllocCount(t)
  <2> USE <1>5 DEF AllocCount
  <2>1. t \notin Counted /\ Counted' = Counted \cup {t}
    BY DEF Counted, Standing
  <2>2. Cardinality(Counted') = Cardinality(Counted) + 1
    BY <1>3, <2>1, FS_AddElement
  <2>3. QED BY <1>4, <2>2 DEF Standing
<1>6. CASE FreeCount(t)
  <2> USE <1>6 DEF FreeCount
  <2>1. t \in Counted /\ Counted' = Counted \ {t}
    BY DEF Counted, Standing
  <2>2. Cardinality(Counted') = Cardinality(Counted) - 1
    BY <1>3, <2>1, FS_RemoveElement
  <2>3. QED BY <1>4, <2>2 DEF Standing
<1>7. ASSUME users' = users, Counted' = Counted
      PROVE  users' = Cardinality(Counted')
  BY <1>7
<1>8. CASE AllocBusy(t)
  BY <1>7, <1>8 DEF AllocBusy, Standing, Counted
<1>9. CASE AllocTest(t)
  BY <1>7, <1>9 DEF AllocTest, Standing, Counted
<1>10. CASE AllocSet(t)
  BY <1>7, <1>10 DEF AllocSet, Standing, Counted
<1>11. CASE AllocSkip(t)
  BY <1>7, <1>11 DEF AllocSkip, Standing, Counted
<1>12. CASE AllocFound(t)
  BY <1>7, <1>12 DEF AllocFound, Standing, Counted
<1>13. CASE AllocTake(t)
  BY <1>7, <1>13 DEF AllocTake, Standing, Counted
<1>14. CASE AllocNone(t)
  BY <1>7, <1>14 DEF AllocNone, Standing, Counted
<1>15. CASE AllocUnset(t)
  BY <1>7, <1>15 DEF AllocUnset, Standing, Counted
<1>16. CASE AllocLoad(t)
  BY <1>7, <1>16 DEF AllocLoad, Standing, Counted
<1>17. CASE FreeMark(t)
  BY <1>7, <1>17 DEF FreeMark, Standing, Counted
<1>18. CASE FreeLoad(t)
  BY <1>7, <1>18 DEF FreeLoad, Standing, Counted
<1>19. QED
  BY <1>5, <1>6, <1>8, <1>9, <1>10, <1>11, <1>12, <1>13, <1>14, <1>15, <1>16,
     <1>17, <1>18, StepCases

(* When no two calls of alloc_gsm_dataport() and free_gsm_dataport()       *)
(* overlap, MODULE_INFO.users is the number of threads that hold a port.   *)
THEOREM UsersCounted == Spec => []UsersExact
<1> DEFINE Inv == TypeOK /\ Respected /\ (schedule = "serial" => CountInv)
<1>1. Init => Inv
  BY TypeInit, CountInit, ScheduleInit
<1>2. Inv /\ TypeOK' /\ [Next]_vars => Inv'
  <2>1. CASE UNCHANGED vars
    BY <2>1 DEF vars, CountInv, Respected, Locked, Inside, Serial, TypeOK,
                TakeInRange, Standing, Counted
  <2>2. ASSUME Inv, TypeOK', NEW t \in Threads, Step(t)
        PROVE  Inv'
    <3>1. Respected' /\ schedule' = schedule
      BY <2>2, ScheduleStep
    <3>2. ASSUME schedule = "serial" PROVE CountInv'
      BY <2>2, <3>1, <3>2, CountStep DEF Respected
    <3>3. QED BY <2>2, <3>1, <3>2
  <2>3. QED
    BY <2>1, <2>2 DEF Next
<1>3. Inv => UsersExact
  <2> SUFFICES ASSUME CountInv, \A t \in Threads : pc[t] = "idle"
               PROVE  users = Cardinality(Held)
    BY DEF UsersExact
  <2>1. Counted = Held
    BY DEF Counted, Held
  <2>2. QED BY <2>1 DEF CountInv
<1> HIDE DEF Inv
<1>4. QED
  BY <1>1, <1>2, <1>3, TypeCorrect, PTL DEF Spec

-----------------------------------------------------------------------------
(***************************************************************************)
(* Every schedule, the one with the races included.  Two threads may come  *)
(* to own one port, and a mark may be cleared while a port is owned, but a *)
(* mark that is set always has an owner who will clear it.                 *)
(***************************************************************************)
NoPortLost == \A p \in Ports : used[p] => \E t \in Threads : Owned[t] = p

(* Only a thread that owned nothing is given a port, and only the port it  *)
(* gives back loses its mark.                                              *)
LEMMA LostStep ==
  ASSUME TypeOK, TakeInRange, Standing, NoPortLost, NEW t \in Threads, Step(t)
  PROVE  Standing' /\ NoPortLost'
<1> USE NPortsAssumption, NoPortAssumption
<1>1. Ports \subseteq Nat /\ NoPort \notin Ports
  BY DEF Ports
<1> USE <1>1 DEF TypeOK, TakeInRange, Standing, Goto
<1>2. ASSUME used' = used, Owned' = Owned
      PROVE  NoPortLost'
  BY <1>2 DEF NoPortLost
<1>3. CASE AllocTake(t)
  <2> USE <1>3 DEF AllocTake
  <2>1. \A u \in Threads : Owned'[u] = IF u = t THEN idx[t] ELSE Owned[u]
    BY DEF Owned
  <2>2. idx[t] \in Ports /\ Owned[t] = NoPort
    BY DEF Owned
  <2>3. NoPortLost'
    <3> SUFFICES ASSUME NEW p \in Ports, used'[p]
                 PROVE  \E u \in Threads : Owned'[u] = p
      BY DEF NoPortLost
    <3>1. CASE p = idx[t]
      BY <2>1, <3>1
    <3>2. CASE p # idx[t]
      <4>1. PICK u \in Threads : Owned[u] = p
        BY <3>2 DEF NoPortLost
      <4> QED
        BY <2>1, <2>2, <4>1
    <3> QED
      BY <3>1, <3>2
  <2> QED
    BY <2>2, <2>3
<1>4. CASE FreeMark(t)
  <2> USE <1>4 DEF FreeMark
  <2>1. \A u \in Threads : Owned'[u] = IF u = t THEN NoPort ELSE Owned[u]
    BY DEF Owned
  <2>2. Owned[t] = own[t]
    BY DEF Owned
  <2>3. NoPortLost'
    <3> SUFFICES ASSUME NEW p \in Ports, used'[p]
                 PROVE  \E u \in Threads : Owned'[u] = p
      BY DEF NoPortLost
    <3>1. p # own[t] /\ used[p]
      OBVIOUS
    <3>2. PICK u \in Threads : Owned[u] = p
      BY <3>1 DEF NoPortLost
    <3> QED
      BY <2>1, <2>2, <3>1, <3>2
  <2> QED
    BY <2>3
<1>5. CASE AllocBusy(t) \/ AllocTest(t) \/ AllocSet(t) \/ AllocSkip(t)
  BY <1>2, <1>5 DEF AllocBusy, AllocTest, AllocSet, AllocSkip, Owned
<1>6. CASE AllocFound(t) \/ AllocNone(t) \/ AllocUnset(t)
  BY <1>2, <1>6 DEF AllocFound, AllocNone, AllocUnset, Owned
<1>7. CASE AllocLoad(t) \/ AllocCount(t) \/ FreeLoad(t)
  BY <1>2, <1>7 DEF AllocLoad, AllocCount, FreeLoad, Owned
<1>8. CASE FreeCount(t)
  BY <1>2, <1>8 DEF FreeCount, Owned
<1> QED
  BY <1>3, <1>4, <1>5, <1>6, <1>7, <1>8, StepCases

(* However calls of alloc_gsm_dataport() and free_gsm_dataport() race, no  *)
(* port is lost for good: one that is marked used has an owner.            *)
THEOREM PortsNotLost == Spec => []NoPortLost
<1> DEFINE Inv == Standing /\ NoPortLost
<1>1. Init => Inv
  BY DEF Init, Standing, NoPortLost
<1>2. Inv /\ TypeOK /\ TakeInRange /\ [Next]_vars => Inv'
  <2>1. CASE UNCHANGED vars
    BY <2>1 DEF vars, Standing, NoPortLost, Owned
  <2> QED
    BY <2>1, LostStep DEF Next
<1>3. Spec => [](TypeOK /\ TakeInRange)
  BY TypeInit, TypeStep, PTL DEF Spec
<1> QED
  BY <1>1, <1>2, <1>3, PTL DEF Spec
=============================================================================
