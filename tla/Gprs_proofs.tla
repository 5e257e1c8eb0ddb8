---------------------------- MODULE Gprs_proofs ----------------------------
(***************************************************************************)
(* Proofs about gsmd's control and PPP threads, for any number of data     *)
(* ports, any limits and any environments.                                 *)
(***************************************************************************)
EXTENDS Gprs, FiniteSetTheorems, TLAPS

(* Every step is one of these: those of the control thread in two groups,  *)
(* the PPP thread's in two, the environment's, or a stutter.               *)
CtrlPower ==
  \/ CtrlLeave \/ CtrlServe \/ CtrlNoEvent \/ CtrlServed
  \/ OffAlready \/ OffBegin \/ OffWait \/ OffCut \/ OffDone
  \/ OnAlready \/ OnHalFails \/ OnNoAnswer \/ OnOpen \/ OnDone

CtrlCheck ==
  \/ CtrlSkip \/ CtrlAlloc \/ CtrlPool \/ AtOk \/ AtFails \/ AtNothing
  \/ CtrlFree \/ CtrlTerm

PppStop ==
  \/ PppTurn \/ PppLeave
  \/ StopNoInterface \/ StopInterface \/ KillPppd \/ KillDone
  \/ StopPool \/ PppTerm

PppConnect ==
  \/ StartAlloc \/ StartPool \/ StartHasPort \/ StartApn \/ StartDial
  \/ InspectPid \/ InspectNotDue \/ InspectGiveUp \/ InspectBad \/ InspectGood

(* No step is left out of the six groups.                                  *)
LEMMA StepCases ==
  ASSUME [Next]_vars
  PROVE  CtrlPower \/ CtrlCheck \/ PppStop \/ PppConnect \/ EnvNext \/ UNCHANGED vars
  BY DEF Next, CtrlNext, PppNext, CtrlPower, CtrlCheck, PppStop, PppConnect

-----------------------------------------------------------------------------
(* AT commands are sent in the stages before ALL_READY only, and the       *)
(* control thread is powering off for a reset, for an off or to leave; the *)
(* PPP thread has a port while it selects an APN and dials.                *)
Doing ==
  /\ cpc = "at" => ready # ALL_READY
  /\ cpc \in {"off", "offwait", "cut", "offdone"} => req \in {"reset", "off", "term"}
  /\ ppc \in {"apn", "dial"} => port["ppp"] # NoPort

(* A step of a call on the pool, by thread t.                              *)
PoolCall(t) == AllocTest(t) \/ InPool(t) \/ FreePort(t)

(* The calls keep the pool in its types.                                   *)
LEMMA PoolTypes ==
  ASSUME PoolTypeOK, NEW t \in Threads, PoolCall(t)
  PROVE  PoolTypeOK'
<1> USE CountsAssumption DEF PoolTypeOK, Threads, Other, Race
<1>1. CASE AllocTest(t)
  BY <1>1 DEF AllocTest
<1>2. CASE AllocScan(t)
  BY <1>2 DEF AllocScan, Unused
<1>3. CASE AllocNone(t)
  BY <1>3 DEF AllocNone
<1>4. CASE AllocMark(t)
  <2>1. seen[t] \in Ports
    BY <1>4 DEF AllocMark
  <2>2. used' \subseteq Ports /\ port' \in [Threads -> Ports \cup {NoPort}]
    BY <1>4, <2>1 DEF AllocMark
  <2>3. /\ seen' \in [Threads -> Ports \cup Counts \cup {NoPort}]
        /\ \A u \in Threads : u # t => seen'[u] = seen[u] /\ inside'[u] = inside[u]
        /\ inside'[t] = "taken"
    BY <1>4 DEF AllocMark
  <2>4. QED
    BY <1>4, <2>2, <2>3 DEF AllocMark
<1>5. CASE FreePort(t)
  BY <1>5 DEF FreePort
<1>6. CASE CountLoad(t)
  BY <1>6 DEF CountLoad
<1>7. CASE CountStore(t)
  <2>1. \A n \in Int : Counted(n) \in Counts
    BY DEF Counted, Counts
  <2>2. seen[t] \in Int
    BY <1>7 DEF CountStore, Counts
  <2>3. users' \in Counts
    BY <1>7, <2>1, <2>2 DEF CountStore
  <2>4. QED
    BY <1>7, <2>3 DEF CountStore
<1>8. QED
  BY <1>1, <1>2, <1>3, <1>4, <1>5, <1>6, <1>7 DEF PoolCall, InPool

(* They leave the other thread's port and place alone.                     *)
LEMMA CallsAreOwn ==
  ASSUME PoolTypeOK, NEW t \in Threads, PoolCall(t)
  PROVE  inside'[Other(t)] = inside[Other(t)] /\ port'[Other(t)] = port[Other(t)]
  BY DEF PoolTypeOK, Threads, Other, PoolCall, InPool, AllocTest, AllocScan, AllocNone, AllocMark,
         FreePort, CountLoad, CountStore

(* What the power switch answers is a value of pwr_status.                 *)
LEMMA HalValues ==
  ASSUME hw \in {"OFF", "ON"}
  PROVE  HalGet \subseteq {"OFF", "ON", "ERR"}
  BY DEF HalGet

(* A pppd that goes leaves a Boolean iface.                                *)
LEMMA IfaceValues ==
  ASSUME iface' \in {FALSE, iface /\ pppd' # {}}
  PROVE  iface' \in BOOLEAN
  OBVIOUS

(* The start has its types.                                                *)
LEMMA TypeInit == Init => TypeOK /\ Doing
<1> SUFFICES ASSUME Init PROVE TypeOK /\ Doing
  OBVIOUS
<1> USE CountsAssumption DEF Init
<1>1. rv \in BOOLEAN /\ iface \in BOOLEAN /\ stop \in BOOLEAN
  OBVIOUS
<1>2. fails \in [MODULE_READY .. CHECK_REGISTRY -> 0 .. AtTimes]
  OBVIOUS
<1>3. open \in [Ports -> BOOLEAN] /\ PoolTypeOK
  <2>1. users \in Counts
    BY DEF Counts
  <2>2. QED
    BY <2>1 DEF PoolTypeOK
<1>4. /\ ready \in NOT_READY .. ALL_READY
      /\ status \in DISCONNECT .. CONNECTED
      /\ fail_cnt \in 0 .. (FailMod - 1)
  BY DEF NOT_READY, ALL_READY, DISCONNECT, CONNECTED
<1>5. QED
  BY <1>1, <1>2, <1>3, <1>4 DEF TypeOK, Doing, Events

(* The steps of the two threads and of their environment keep every        *)
(* variable in its type.                                                   *)
LEMMA TypeStep == TypeOK /\ Doing /\ [Next]_vars => TypeOK' /\ Doing'
<1> SUFFICES ASSUME TypeOK, Doing, [Next]_vars PROVE TypeOK' /\ Doing'
  OBVIOUS
<1> USE CountsAssumption, NPortsAssumption, EnvsAssumption
    DEF TypeOK, Doing, Events, Threads, NOT_READY, MODULE_READY, CHECK_HWINFO,
        CHECK_REGISTRY, ALL_READY, DISCONNECT, SELECTED_APN, CONNECTING, CONNECTED,
        module, ctrl, pppctx, world, CtrlAt, PppAt
<1>0. UNCHANGED pool => UNCHANGED port /\ PoolTypeOK'
  BY DEF pool, PoolTypeOK
<1>1. CASE CtrlPower
  <2>1. CASE CtrlLeave BY <1>0, <2>1 DEF CtrlLeave
  <2>2. CASE CtrlServe BY <1>0, <2>2 DEF CtrlServe
  <2>3. CASE CtrlNoEvent BY <1>0, <2>3 DEF CtrlNoEvent
  <2>4. CASE CtrlServed BY <1>0, <2>4 DEF CtrlServed
  <2>5. CASE OffAlready BY <1>0, <2>5 DEF OffAlready, AfterOff
  <2>6. CASE OffBegin BY <1>0, <2>6, HalValues DEF OffBegin
  <2>7. CASE OffWait BY <1>0, <2>7 DEF OffWait
  <2>8. CASE OffCut BY <1>0, <2>8 DEF OffCut, HalTurn
  <2>9. CASE OffDone BY <1>0, <2>9, HalValues DEF OffDone, AfterOff
  <2>10. CASE OnAlready BY <1>0, <2>10 DEF OnAlready
  <2>11. CASE OnHalFails
    <3>1. pwr_status' \in {"OFF", "ON", "ERR"} /\ hw' \in {"OFF", "ON"}
      BY <2>11, HalValues DEF OnHalFails, HalTurn
    <3>2. rv' \in BOOLEAN
      BY <2>11 DEF OnHalFails
    <3>3. QED BY <1>0, <2>11, <3>1, <3>2 DEF OnHalFails
  <2>12. CASE OnNoAnswer
    <3>1. pwr_status' \in {"OFF", "ON", "ERR"} /\ hw' \in {"OFF", "ON"}
      BY <2>12, HalValues DEF OnNoAnswer
    <3>2. rv' \in BOOLEAN
      BY <2>12 DEF OnNoAnswer
    <3>3. QED BY <1>0, <2>12, <3>1, <3>2 DEF OnNoAnswer
  <2>13. CASE OnOpen BY <1>0, <2>13, HalValues DEF OnOpen
  <2>14. CASE OnDone BY <1>0, <2>14, HalValues DEF OnDone
  <2>15. QED
    BY <1>1, <2>1, <2>2, <2>3, <2>4, <2>5, <2>6, <2>7, <2>8, <2>9, <2>10, <2>11,
       <2>12, <2>13, <2>14 DEF CtrlPower
<1>2. CASE CtrlCheck
  <2>1. CASE CtrlSkip BY <1>0, <2>1 DEF CtrlSkip
  <2>2. CASE CtrlAlloc
    <3>1. PoolTypeOK' BY <2>2, PoolTypes DEF CtrlAlloc, PoolCall
    <3>2. port'["ppp"] = port["ppp"] BY <2>2, CallsAreOwn DEF CtrlAlloc, PoolCall, Other
    <3>3. QED BY <2>2, <3>1, <3>2 DEF CtrlAlloc
  <2>9. CASE CtrlPool
    <3>1. PoolTypeOK' BY <2>9, PoolTypes DEF CtrlPool, PoolCall
    <3>2. port'["ppp"] = port["ppp"] BY <2>9, CallsAreOwn DEF CtrlPool, PoolCall, Other
    <3>3. QED BY <2>9, <3>1, <3>2 DEF CtrlPool
  <2>3. CASE AtOk BY <1>0, <2>3 DEF AtOk
  <2>4. CASE AtFails BY <1>0, <2>4 DEF AtFails
  <2>5. CASE AtNothing BY <1>0, <2>5 DEF AtNothing
  <2>6. CASE CtrlFree
    <3>1. PoolTypeOK' BY <2>6, PoolTypes DEF CtrlFree, PoolCall
    <3>2. port'["ppp"] = port["ppp"] BY <2>6, CallsAreOwn DEF CtrlFree, PoolCall, Other
    <3>3. QED BY <2>6, <3>1, <3>2 DEF CtrlFree
  <2>7. CASE CtrlTerm BY <1>0, <2>7 DEF CtrlTerm
  <2>8. QED
    BY <1>2, <2>1, <2>2, <2>3, <2>4, <2>5, <2>6, <2>7, <2>9 DEF CtrlCheck
<1>3. CASE PppStop
  <2>1. CASE PppTurn BY <1>0, <2>1 DEF PppTurn
  <2>2. CASE PppLeave BY <1>0, <2>2 DEF PppLeave
  <2>3. CASE StopNoInterface BY <1>0, <2>3 DEF StopNoInterface, StopReturn
  <2>4. CASE StopInterface BY <1>0, <2>4 DEF StopInterface
  <2>5. CASE KillPppd
    <3>1. iface' \in BOOLEAN
      BY <2>5, IfaceValues DEF KillPppd, PppdGone
    <3>2. QED BY <1>0, <2>5, <3>1 DEF KillPppd, PppdGone
  <2>6. CASE KillDone
    <3>1. PoolTypeOK' BY <2>6, PoolTypes DEF KillDone, PoolCall, Threads
    <3>2. QED BY <2>6, <3>1 DEF KillDone
  <2>9. CASE StopPool
    <3>1. PoolTypeOK' BY <2>9, PoolTypes DEF StopPool, PoolCall, Threads
    <3>2. QED BY <2>9, <3>1 DEF StopPool, StopReturn
  <2>7. CASE PppTerm BY <1>0, <2>7 DEF PppTerm
  <2>8. QED
    BY <1>3, <2>1, <2>2, <2>3, <2>4, <2>5, <2>6, <2>7, <2>9 DEF PppStop
<1>4. CASE PppConnect
  <2>1. CASE StartAlloc
    <3>1. CASE AllocTest("ppp") /\ ppc' = "alloc"
      <4>1. PoolTypeOK' BY <3>1, PoolTypes DEF PoolCall, Threads
      <4>2. QED BY <2>1, <3>1, <4>1 DEF StartAlloc
    <3>2. CASE lock /\ ppc' = "top" /\ UNCHANGED pool
      BY <1>0, <2>1, <3>2 DEF StartAlloc
    <3>3. QED BY <2>1, <3>1, <3>2 DEF StartAlloc
  <2>11. CASE StartPool
    <3>1. PoolTypeOK' BY <2>11, PoolTypes DEF StartPool, PoolCall, Threads
    <3>2. ppc' = "apn" => port'["ppp"] # NoPort
      BY <2>11 DEF StartPool, InPool, AllocScan, AllocNone, AllocMark, CountLoad, CountStore,
                   PoolTypeOK
    <3>3. QED BY <2>11, <3>1, <3>2 DEF StartPool
  <2>2. CASE StartHasPort BY <1>0, <2>2 DEF StartHasPort
  <2>3. CASE StartApn BY <1>0, <2>3 DEF StartApn
  <2>4. CASE StartDial
    <3>1. dialing' \subseteq Ports
      BY <2>4 DEF StartDial, PoolTypeOK
    <3>2. QED BY <1>0, <2>4, <3>1 DEF StartDial
  <2>5. CASE InspectPid BY <1>0, <2>5 DEF InspectPid
  <2>6. CASE InspectNotDue BY <1>0, <2>6 DEF InspectNotDue
  <2>7. CASE InspectGiveUp BY <1>0, <2>7 DEF InspectGiveUp
  <2>8. CASE InspectBad BY <1>0, <2>8 DEF InspectBad
  <2>9. CASE InspectGood BY <1>0, <2>9 DEF InspectGood
  <2>10. QED
    BY <1>4, <2>1, <2>2, <2>3, <2>4, <2>5, <2>6, <2>7, <2>8, <2>9, <2>11 DEF PppConnect
<1>5. CASE EnvNext
  <2>1. ASSUME NEW p \in Ports, DialEnds(p) PROVE TypeOK' /\ Doing'
    BY <1>0, <2>1 DEF DialEnds
  <2>2. ASSUME NEW p \in Ports, PppdExits(p) PROVE TypeOK' /\ Doing'
    <3>1. iface' \in BOOLEAN
      BY <2>2, IfaceValues DEF PppdExits, PppdGone
    <3>2. QED BY <1>0, <2>2, <3>1 DEF PppdExits, PppdGone
  <2>3. CASE LinkUp BY <1>0, <2>3 DEF LinkUp
  <2>4. CASE Signal BY <1>0, <2>4 DEF Signal
  <2>5. CASE ClientRequest BY <1>0, <2>5 DEF ClientRequest
  <2>6. QED
    BY <1>5, <2>1, <2>2, <2>3, <2>4, <2>5 DEF EnvNext
<1>6. CASE UNCHANGED vars
  BY <1>0, <1>6 DEF vars
<1>7. QED
  BY <1>1, <1>2, <1>3, <1>4, <1>5, <1>6, StepCases

(* The two together are an invariant.                                      *)
LEMMA TypeAlways == Spec => [](TypeOK /\ Doing)
  BY TypeInit, TypeStep, PTL DEF Spec

(* Every variable of gsmd keeps its type, for any number of ports, any     *)
(* limits and any environments.                                            *)
THEOREM TypeCorrect == Spec => []TypeOK
  BY TypeAlways, PTL

-----------------------------------------------------------------------------
(* Only the control thread moves ready and the counters of the AT checks.  *)
LEMMA OthersLeaveStages ==
  ASSUME PppStop \/ PppConnect \/ EnvNext \/ UNCHANGED vars
  PROVE  UNCHANGED <<ready, fails>>
<1> USE DEF module, ctrl, vars
<1>1. CASE PppStop
  BY <1>1 DEF PppStop, PppTurn, PppLeave, StopNoInterface, StopInterface, KillPppd,
              KillDone, StopPool, PppTerm
<1>2. CASE PppConnect
  BY <1>2 DEF PppConnect, StartAlloc, StartPool, StartHasPort, StartApn, StartDial, InspectPid,
              InspectNotDue, InspectGiveUp, InspectBad, InspectGood
<1>3. CASE EnvNext
  BY <1>3 DEF EnvNext, DialEnds, PppdExits, LinkUp, Signal, ClientRequest
<1>4. QED
  BY <1>1, <1>2, <1>3 DEF vars

(* atcmd_check_ready() leaves a stage only with its static counter at zero *)
(* again: whatever happens, a stage starts with all its tries.             *)
THEOREM StagesFresh == Spec => []StagesStartFresh
<1> USE DEF NOT_READY, MODULE_READY, CHECK_REGISTRY, ALL_READY
<1>1. Init => StagesStartFresh
  BY DEF Init, StagesStartFresh
<1>2. TypeOK /\ StagesStartFresh /\ [Next]_vars => StagesStartFresh'
  <2> SUFFICES ASSUME TypeOK, StagesStartFresh, [Next]_vars
               PROVE  StagesStartFresh'
    OBVIOUS
  <2> USE DEF module, ctrl
  <2>1. ASSUME UNCHANGED <<ready, fails>> PROVE StagesStartFresh'
    BY <2>1 DEF StagesStartFresh
  <2>2. ASSUME ready' \in {0, 1} PROVE StagesStartFresh'
    BY <2>2 DEF StagesStartFresh
  <2>3. CASE CtrlPower
    <3>1. CASE OffDone BY <2>2, <3>1 DEF OffDone
    <3>2. CASE OnDone BY <2>2, <3>2 DEF OnDone
    <3>3. CASE CtrlLeave \/ CtrlServe \/ CtrlNoEvent \/ CtrlServed \/ OffAlready \/ OffBegin
      BY <2>1, <3>3 DEF CtrlLeave, CtrlServe, CtrlNoEvent, CtrlServed, OffAlready, OffBegin
    <3>4. CASE OffWait \/ OffCut \/ OnAlready \/ OnHalFails \/ OnNoAnswer \/ OnOpen
      BY <2>1, <3>4 DEF OffWait, OffCut, OnAlready, OnHalFails, OnNoAnswer, OnOpen
    <3>5. QED BY <2>3, <3>1, <3>2, <3>3, <3>4 DEF CtrlPower
  <2>4. CASE CtrlCheck
    <3>1. CASE AtOk
      BY <3>1 DEF AtOk, TypeOK, StagesStartFresh
    <3>2. CASE AtFails
      BY <3>2 DEF AtFails, TypeOK, StagesStartFresh
    <3>3. CASE CtrlSkip \/ CtrlAlloc \/ CtrlPool \/ AtNothing \/ CtrlFree \/ CtrlTerm
      BY <2>1, <3>3 DEF CtrlSkip, CtrlAlloc, CtrlPool, AtNothing, CtrlFree, CtrlTerm
    <3>4. QED BY <2>4, <3>1, <3>2, <3>3 DEF CtrlCheck
  <2>5. QED
    BY <2>1, <2>3, <2>4, OthersLeaveStages, StepCases
<1>3. QED
  BY <1>1, <1>2, TypeCorrect, PTL DEF Spec

-----------------------------------------------------------------------------
(* Only the PPP thread moves where it stands, its status and its counter.  *)
LEMMA OthersLeavePpp ==
  ASSUME CtrlPower \/ CtrlCheck \/ EnvNext \/ UNCHANGED vars
  PROVE  UNCHANGED <<ppc, status, fail_cnt>>
<1> USE DEF pppctx, vars
<1>1. CASE CtrlPower
  BY <1>1 DEF CtrlPower, CtrlLeave, CtrlServe, CtrlNoEvent, CtrlServed, OffAlready,
              OffBegin, OffWait, OffCut, OffDone, OnAlready, OnHalFails, OnNoAnswer,
              OnOpen, OnDone
<1>2. CASE CtrlCheck
  BY <1>2 DEF CtrlCheck, CtrlSkip, CtrlAlloc, CtrlPool, AtOk, AtFails, AtNothing, CtrlFree, CtrlTerm
<1>3. CASE EnvNext
  BY <1>3 DEF EnvNext, DialEnds, PppdExits, LinkUp, Signal, ClientRequest
<1>4. QED
  BY <1>1, <1>2, <1>3 DEF vars

(* A dial starts with no failures.                                         *)
DialFresh == ppc = "dial" => fail_cnt = 0

(* start_ppp_connect() and inspect_network_status(): a connection that is  *)
(* up never has more than MAX_PPP_FAIL_CNT failures, and none of them is   *)
(* from before it.                                                         *)
THEOREM FailuresBounded == Spec => []FailCountBounded
<1> USE CountsAssumption
    DEF DISCONNECT, SELECTED_APN, CONNECTING, CONNECTED
<1>1. Init => FailCountBounded /\ DialFresh
  BY DEF Init, FailCountBounded, DialFresh
<1>2. TypeOK /\ FailCountBounded /\ DialFresh /\ [Next]_vars
        => (FailCountBounded /\ DialFresh)'
  <2> SUFFICES ASSUME TypeOK, FailCountBounded, DialFresh, [Next]_vars
               PROVE  (FailCountBounded /\ DialFresh)'
    OBVIOUS
  <2> USE DEF TypeOK, FailCountBounded, DialFresh, pppctx, PppAt
  <2>1. CASE PppStop
    <3>1. CASE PppTurn \/ PppLeave \/ KillPppd \/ PppTerm
      BY <3>1 DEF PppTurn, PppLeave, KillPppd, PppTerm
    <3>4. CASE StopPool
      BY <3>4 DEF StopPool, StopReturn
    <3>2. CASE StopNoInterface \/ StopInterface \/ KillDone
      BY <3>2 DEF StopNoInterface, StopInterface, KillDone, StopReturn
    <3>3. QED BY <2>1, <3>1, <3>2, <3>4 DEF PppStop
  <2>2. CASE PppConnect
    <3>1. CASE StartAlloc \/ StartPool \/ StartHasPort
      BY <3>1 DEF StartAlloc, StartPool, StartHasPort
    <3>2. CASE StartApn
      BY <3>2 DEF StartApn
    <3>3. CASE StartDial
      BY <3>3 DEF StartDial
    <3>4. CASE InspectPid \/ InspectNotDue \/ InspectGiveUp
      BY <3>4 DEF InspectPid, InspectNotDue, InspectGiveUp
    <3>5. CASE InspectBad \/ InspectGood
      BY <3>5 DEF InspectBad, InspectGood
    <3>6. QED BY <2>2, <3>1, <3>2, <3>3, <3>4, <3>5 DEF PppConnect
  <2>3. QED
    BY <2>1, <2>2, OthersLeavePpp, StepCases
<1>3. QED
  BY <1>1, <1>2, TypeCorrect, PTL DEF Spec

-----------------------------------------------------------------------------
(* Where a thread is inside the calls on the pool, by where it stands; and *)
(* with which of the places it holds a port.                               *)
Places ==
  /\ inside["ctrl"] \in (IF cpc = "alloc" THEN {"tested", "found", "taken", "inc"}
                         ELSE IF cpc = "freeing" THEN {"given", "dec"} ELSE {"out"})
  /\ inside["ppp"] \in (IF ppc = "alloc" THEN {"tested", "found", "taken", "inc"}
                        ELSE IF ppc \in {"freeing", "lastfreeing"} THEN {"given", "dec"}
                        ELSE {"out"})

Holds(t) ==
  /\ inside[t] \in {"taken", "inc"} => port[t] # NoPort
  /\ inside[t] \in {"tested", "found", "given", "dec"} => port[t] = NoPort

Holding ==
  /\ \A t \in Threads : Holds(t)
  /\ cpc # "alloc" => (cpc \in {"at", "free"} <=> port["ctrl"] # NoPort)
  /\ ppc \in {"apn", "dial", "kill", "lastkill"} => port["ppp"] # NoPort

(* What the flag and the marks are good for until the threads race for a   *)
(* port: every port held is marked and held once; one thread at most is    *)
(* between the test of the flag and the mark, and the port it has found is *)
(* unmarked.                                                               *)
Allocating(t) == inside[t] \in {"tested", "found"}

Marked ==
  "port" \notin raced =>
    /\ \A t \in Threads : port[t] # NoPort => port[t] \in used
    /\ \A t \in Threads : inside[t] = "found" => lock /\ seen[t] \notin used
    /\ ~(Allocating("ctrl") /\ Allocating("ppp"))
    /\ port["ctrl"] = port["ppp"] => port["ctrl"] = NoPort

(* What the counter is worth until the threads race for it: it counts the  *)
(* threads that have counted themselves.                                   *)
Counting(t) == inside[t] \in {"inc", "dec"}

Share(t) ==
  IF inside[t] \in {"given", "dec"} \/ (inside[t] = "out" /\ port[t] # NoPort) THEN 1 ELSE 0

Exact ==
  "users" \notin raced =>
    /\ users = Share("ctrl") + Share("ppp")
    /\ \A t \in Threads : Counting(t) => seen[t] = users
    /\ ~(Counting("ctrl") /\ Counting("ppp"))

(* A call is made by a thread that holds what it gives back, and that      *)
(* holds nothing when it asks.                                             *)
Rightly(t) ==
  /\ AllocTest(t) => port[t] = NoPort
  /\ FreePort(t) => port[t] # NoPort

(* The calls keep what Holds says of both threads.                         *)
LEMMA CallHolds ==
  ASSUME PoolTypeOK, \A u \in Threads : Holds(u),
         NEW t \in Threads, PoolCall(t), Rightly(t)
  PROVE  (\A u \in Threads : Holds(u))' /\ raced \subseteq raced'
<1> USE DEF PoolTypeOK, Holds, Threads, Other, Race, Rightly
<1>0. NoPort \notin Ports
  BY NoPortAssumption DEF Ports
<1>1. CASE AllocTest(t)
  BY <1>1 DEF AllocTest
<1>2. CASE AllocScan(t)
  BY <1>2 DEF AllocScan
<1>3. CASE AllocNone(t)
  BY <1>3 DEF AllocNone
<1>4. CASE AllocMark(t)
  <2>1. port'[t] # NoPort /\ inside'[t] = "taken" /\ raced' = raced
    BY <1>0, <1>4 DEF AllocMark
  <2>2. \A u \in Threads : u # t => port'[u] = port[u] /\ inside'[u] = inside[u]
    BY <1>4 DEF AllocMark
  <2>3. QED
    BY <2>1, <2>2
<1>5. CASE FreePort(t)
  BY <1>5 DEF FreePort
<1>6. CASE CountLoad(t)
  BY <1>6 DEF CountLoad
<1>7. CASE CountStore(t)
  BY <1>7 DEF CountStore
<1>8. QED
  BY <1>1, <1>2, <1>3, <1>4, <1>5, <1>6, <1>7 DEF PoolCall, InPool

(* They keep the marks and the flag, and acquire and release ports as      *)
(* PortOwner says, until the threads race for a port.                      *)
LEMMA CallMarks ==
  ASSUME PoolTypeOK, Marked, \A u \in Threads : Holds(u),
         NEW t \in Threads, PoolCall(t), Rightly(t)
  PROVE  Marked' /\ [Owner!Next \/ "port" \in raced]_port
<1> SUFFICES ASSUME "port" \notin raced
             PROVE  Marked' /\ [Owner!Next]_port
  BY CallHolds DEF Marked
<1> USE DEF PoolTypeOK, Marked, Allocating, Threads, Other, Race
<1>0. NoPort \notin Ports
  BY NoPortAssumption DEF Ports
<1>1. CASE AllocTest(t)
  BY <1>1 DEF AllocTest
<1>2. CASE AllocScan(t)
  BY <1>2 DEF AllocScan, Unused
<1>3. CASE AllocNone(t)
  BY <1>3 DEF AllocNone
<1>4. CASE AllocMark(t)
  <2>1. Marked'
    <3>1. /\ port'[t] = seen[t] /\ used' = used \cup {seen[t]} /\ seen[t] \notin used
          /\ inside'[t] = "taken" /\ raced' = raced
      BY <1>4 DEF AllocMark
    <3>2. \A u \in Threads :
            u # t => /\ port'[u] = port[u] /\ inside'[u] = inside[u]
                     /\ inside[u] \notin {"tested", "found"}
      BY <1>4 DEF AllocMark
    <3>3. QED
      BY <3>1, <3>2
  <2>2. port[t] = NoPort
    BY <1>4 DEF AllocMark, Holds
  <2>3. Owner!Acquire(t, seen[t])
    <3>1. seen[t] \in Ports /\ \A u \in Threads : port[u] # seen[t]
      BY <1>0, <1>4 DEF AllocMark
    <3>2. QED
      BY <1>4, <2>2, <3>1 DEF AllocMark, Owner!Acquire
  <2>4. seen[t] \in Ports
    BY <1>4 DEF AllocMark
  <2>5. QED
    BY <2>1, <2>3, <2>4 DEF Owner!Next
<1>5. CASE FreePort(t)
  <2>1. Marked'
    BY <1>5 DEF FreePort, Rightly
  <2>2. Owner!Release(t)
    BY <1>5 DEF FreePort, Rightly, Owner!Release
  <2>3. QED
    BY <2>1, <2>2 DEF Owner!Next
<1>6. CASE CountLoad(t)
  BY <1>6 DEF CountLoad
<1>7. CASE CountStore(t)
  BY <1>7 DEF CountStore
<1>8. QED
  BY <1>1, <1>2, <1>3, <1>4, <1>5, <1>6, <1>7 DEF PoolCall, InPool

(* They keep the count, until the threads race for it.                     *)
LEMMA CallCounts ==
  ASSUME PoolTypeOK, Exact, \A u \in Threads : Holds(u),
         NEW t \in Threads, PoolCall(t), Rightly(t)
  PROVE  Exact'
<1> SUFFICES ASSUME "users" \notin raced'
             PROVE  Exact'
  BY DEF Exact
<1>0. "users" \notin raced
  BY CallHolds
<1> USE <1>0 DEF PoolTypeOK, Exact, Counting, Share, Threads, Other, Race, Rightly, Holds
<1>1. CASE AllocTest(t)
  BY <1>1 DEF AllocTest
<1>2. CASE AllocScan(t)
  BY <1>2 DEF AllocScan
<1>3. CASE AllocNone(t)
  BY <1>3 DEF AllocNone
<1>4. CASE AllocMark(t)
  BY <1>4 DEF AllocMark
<1>5. CASE FreePort(t)
  BY <1>5 DEF FreePort
<1>6. CASE CountLoad(t)
  BY <1>6 DEF CountLoad
<1>7. CASE CountStore(t)
  <2>1. \A n \in 0 .. 2 : Counted(n) = n
    BY CountsAssumption DEF Counted
  <2>2. CASE inside[t] = "inc"
    <3>1. seen[t] + 1 \in 0 .. 2
      BY <1>7, <2>2 DEF CountStore
    <3>2. users' = seen[t] + 1
      BY <1>7, <2>1, <2>2, <3>1 DEF CountStore
    <3>3. QED
      BY <1>7, <2>2, <3>2 DEF CountStore
  <2>3. CASE inside[t] = "dec"
    <3>1. seen[t] - 1 \in 0 .. 2
      BY <1>7, <2>3 DEF CountStore
    <3>2. users' = seen[t] - 1
      BY <1>7, <2>1, <2>3, <3>1 DEF CountStore
    <3>3. QED
      BY <1>7, <2>3, <3>2 DEF CountStore
  <2>4. QED
    BY <1>7, <2>2, <2>3 DEF CountStore
<1>8. QED
  BY <1>1, <1>2, <1>3, <1>4, <1>5, <1>6, <1>7 DEF PoolCall, InPool

(* Where a call can lead, by where it stands.                              *)
LEMMA CallPlaces ==
  ASSUME PoolTypeOK, NEW t \in Threads, PoolCall(t)
  PROVE  /\ inside[t] = "out" => inside'[t] \in {"tested", "given"}
         /\ AllocTest(t) => inside'[t] = "tested"
         /\ FreePort(t) => inside'[t] = "given"
         /\ inside[t] \in {"tested", "found", "taken", "inc"}
            => inside'[t] \in {"found", "taken", "inc", "out"}
         /\ inside[t] \in {"given", "dec"} => inside'[t] \in {"dec", "out"}
         /\ InPool(t) => inside[t] # "out"
         /\ InPool(t) /\ inside'[t] = "out" => port' = port
         /\ inside[t] \in {"given", "dec"} => port' = port
  BY DEF PoolTypeOK, Threads, PoolCall, InPool, AllocTest, AllocScan, AllocNone, AllocMark,
         FreePort, CountLoad, CountStore

(* A step calls the pool for one thread, or leaves it alone; where it      *)
(* leaves the thread that calls is where Holding wants it.                 *)
LEMMA HoldingStep ==
  ASSUME TypeOK, Doing, Places, Holding, [Next]_vars
  PROVE  /\ Places' /\ Holding'
         /\ \/ UNCHANGED pool
            \/ \E t \in Threads : PoolCall(t) /\ Rightly(t)
<1> USE DEF TypeOK, Places, Holding, Threads, module, ctrl, pppctx, CtrlAt, PppAt
<1>2. ASSUME UNCHANGED pool, cpc' \in {"alloc", "freeing"} <=> cpc \in {"alloc", "freeing"},
             cpc \in {"alloc", "freeing"} => cpc' = cpc,
             cpc' \in {"at", "free"} <=> cpc \in {"at", "free"},
             ppc' \in {"alloc", "freeing", "lastfreeing"} <=> ppc \in {"alloc", "freeing", "lastfreeing"},
             ppc \in {"alloc", "freeing", "lastfreeing"} => ppc' = ppc,
             ppc' \in {"apn", "dial", "kill", "lastkill"} => port["ppp"] # NoPort
      PROVE  Places' /\ Holding'
  BY <1>2 DEF pool, Holds
<1>3. CASE CtrlPower
  <2>1. CASE CtrlLeave \/ CtrlServe \/ CtrlNoEvent \/ CtrlServed
    BY <1>2, <2>1 DEF CtrlLeave, CtrlServe, CtrlNoEvent, CtrlServed
  <2>2. CASE OffAlready \/ OffDone
    <3>1. AfterOff \in {"on", "served", "term"}
      BY <2>2 DEF OffAlready, OffDone, AfterOff, Doing
    <3>2. QED BY <1>2, <2>2, <3>1 DEF OffAlready, OffDone
  <2>3. CASE OffBegin \/ OffWait \/ OffCut
    BY <1>2, <2>3 DEF OffBegin, OffWait, OffCut
  <2>4. CASE OnAlready \/ OnHalFails \/ OnNoAnswer
    BY <1>2, <2>4 DEF OnAlready, OnHalFails, OnNoAnswer
  <2>5. CASE OnOpen \/ OnDone
    BY <1>2, <2>5 DEF OnOpen, OnDone
  <2>6. QED BY <1>3, <2>1, <2>2, <2>3, <2>4, <2>5 DEF CtrlPower
<1>4. CASE CtrlCheck
  <2>1. CASE CtrlAlloc
    <3>1. PoolCall("ctrl") /\ Rightly("ctrl")
      BY <2>1 DEF CtrlAlloc, PoolCall, Rightly, FreePort, AllocTest, PoolTypeOK
    <3>2. QED
      BY <2>1, <3>1, CallHolds, CallsAreOwn, CallPlaces DEF CtrlAlloc, Other
  <2>2. CASE CtrlPool
    <3>1. PoolCall("ctrl") /\ Rightly("ctrl")
      BY <2>2 DEF CtrlPool, PoolCall, Rightly, FreePort, AllocTest
    <3>2. QED
      BY <2>2, <3>1, CallHolds, CallsAreOwn, CallPlaces DEF CtrlPool, Other, Holds
  <2>3. CASE CtrlFree
    <3>1. PoolCall("ctrl") /\ Rightly("ctrl")
      BY <2>3 DEF CtrlFree, PoolCall, Rightly, FreePort, AllocTest, PoolTypeOK
    <3>2. port'["ctrl"] = NoPort
      BY <2>3 DEF CtrlFree, FreePort, PoolTypeOK
    <3>3. QED
      BY <2>3, <3>1, <3>2, CallHolds, CallsAreOwn, CallPlaces DEF CtrlFree, Other
  <2>4. CASE CtrlSkip \/ AtOk \/ AtFails \/ AtNothing \/ CtrlTerm
    BY <1>2, <2>4 DEF CtrlSkip, AtOk, AtFails, AtNothing, CtrlTerm
  <2>5. QED BY <1>4, <2>1, <2>2, <2>3, <2>4 DEF CtrlCheck
<1>5. CASE PppStop
  <2>1. CASE KillDone
    <3>1. PoolCall("ppp") /\ Rightly("ppp")
      BY <2>1 DEF KillDone, PoolCall, Rightly, FreePort, AllocTest, PoolTypeOK
    <3>2. QED
      BY <2>1, <3>1, CallHolds, CallsAreOwn, CallPlaces DEF KillDone, Other
  <2>2. CASE StopPool
    <3>1. PoolCall("ppp") /\ Rightly("ppp")
      BY <2>2 DEF StopPool, PoolCall, Rightly, FreePort, AllocTest
    <3>2. QED
      BY <2>2, <3>1, CallHolds, CallsAreOwn, CallPlaces DEF StopPool, StopReturn, Other
  <2>3. CASE PppTurn \/ PppLeave \/ KillPppd \/ PppTerm
    BY <1>2, <2>3 DEF PppTurn, PppLeave, KillPppd, PppTerm
  <2>4. CASE StopNoInterface \/ StopInterface
    BY <1>2, <2>4 DEF StopNoInterface, StopInterface, StopReturn
  <2>5. QED BY <1>5, <2>1, <2>2, <2>3, <2>4 DEF PppStop
<1>6. CASE PppConnect
  <2>1. CASE StartAlloc
    <3>1. CASE AllocTest("ppp") /\ ppc' = "alloc"
      <4>1. PoolCall("ppp") /\ Rightly("ppp")
        BY <2>1, <3>1 DEF StartAlloc, PoolCall, Rightly, FreePort, AllocTest, PoolTypeOK
      <4>2. QED
        BY <2>1, <3>1, <4>1, CallHolds, CallsAreOwn, CallPlaces DEF StartAlloc, Other
    <3>2. CASE lock /\ ppc' = "top" /\ UNCHANGED pool
      BY <1>2, <2>1, <3>2 DEF StartAlloc
    <3>3. QED BY <2>1, <3>1, <3>2 DEF StartAlloc
  <2>2. CASE StartPool
    <3>1. PoolCall("ppp") /\ Rightly("ppp")
      BY <2>2 DEF StartPool, PoolCall, Rightly, FreePort, AllocTest
    <3>2. QED
      BY <2>2, <3>1, CallHolds, CallsAreOwn, CallPlaces DEF StartPool, Other
  <2>3. CASE StartHasPort \/ StartApn \/ StartDial
    BY <1>2, <2>3 DEF StartHasPort, StartApn, StartDial
  <2>4. CASE InspectPid \/ InspectNotDue
    BY <1>2, <2>4 DEF InspectPid, InspectNotDue
  <2>5. CASE InspectGiveUp \/ InspectBad \/ InspectGood
    BY <1>2, <2>5 DEF InspectGiveUp, InspectBad, InspectGood
  <2>6. QED BY <1>6, <2>1, <2>2, <2>3, <2>4, <2>5 DEF PppConnect
<1>7. CASE EnvNext
  BY <1>2, <1>7 DEF EnvNext, DialEnds, PppdExits, LinkUp, Signal, ClientRequest
<1>8. CASE UNCHANGED vars
  BY <1>2, <1>8 DEF vars
<1>9. QED
  BY <1>3, <1>4, <1>5, <1>6, <1>7, <1>8, StepCases

(* The start.                                                              *)
LEMMA PoolInit == Init => Places /\ Holding /\ Marked /\ Exact
  BY DEF Init, Places, Holding, Holds, Marked, Allocating, Exact, Counting, Share, Threads

(* Every step keeps the pool's invariant, and every step is one of         *)
(* PortOwner's or leaves the ports alone, until the threads race for one.  *)
LEMMA PoolStep ==
  ASSUME TypeOK, Doing, Places, Holding, Marked, Exact, [Next]_vars
  PROVE  /\ (Places /\ Holding /\ Marked /\ Exact)'
         /\ raced \subseteq raced'
         /\ [Owner!Next \/ "port" \in raced]_port
<1>1. Places' /\ Holding' /\ (UNCHANGED pool \/ \E t \in Threads : PoolCall(t) /\ Rightly(t))
  BY HoldingStep
<1>2. CASE UNCHANGED pool
  BY <1>1, <1>2 DEF pool, Marked, Allocating, Exact, Counting, Share
<1>3. ASSUME NEW t \in Threads, PoolCall(t), Rightly(t)
      PROVE  Marked' /\ Exact' /\ raced \subseteq raced' /\ [Owner!Next \/ "port" \in raced]_port
  BY <1>3, CallHolds, CallMarks, CallCounts DEF TypeOK, Holding
<1>4. QED
  BY <1>1, <1>2, <1>3

(* The pool's invariant holds throughout.                                  *)
LEMMA PoolAlways == Spec => [](Places /\ Holding /\ Marked /\ Exact)
  BY PoolInit, PoolStep, TypeAlways, PTL DEF Spec

(* gsmd's threads keep the contract of PortOwner in every environment and  *)
(* under every interleaving of the accesses of their calls: until they     *)
(* pass the test of the flag both, no port pointer is overwritten, freed   *)
(* twice or shared.                                                        *)
THEOREM GprsImplementsOwner == Spec => ImplementsOwner
<1>1. Init => Owner!Init
  BY DEF Init, Owner!Init, Threads
<1>2. TypeOK /\ Doing /\ Places /\ Holding /\ Marked /\ Exact /\ [Next]_vars
      => [Owner!Next \/ "port" \in raced]_port
  BY PoolStep
<1>3. QED
  BY <1>1, <1>2, TypeAlways, PoolAlways, PTL DEF Spec, ImplementsOwner
-----------------------------------------------------------------------------
(* What the control thread knows about the power where it stands, in a     *)
(* gsmd that nobody asks for events and whose power switch works: it only  *)
(* ever resets; when it is about to switch the power on the power is off,  *)
(* and when it has succeeded the power is on and the ports are open.       *)
PowerKnown ==
  NoClients /\ ~env.hal_faults =>
    /\ event \in {"none", "reset"}
    /\ req \in {"none", "reset", "term"}
    /\ cpc \in {"on", "offdone"} => hw = "OFF"
    /\ cpc = "ondone" /\ rv => hw = "ON" /\ \A p \in Ports : open[p]

(* Neither the PPP thread nor the environment moves the power, the ports   *)
(* or the control thread; the PPP thread may ask for a reset.              *)
LEMMA OthersLeavePower ==
  ASSUME PppStop \/ PppConnect \/ EnvNext \/ UNCHANGED vars
  PROVE  /\ UNCHANGED <<ready, open, hw, cpc, req, rv, env>>
         /\ event' \in {event, "reset"} \cup env.requests
<1> USE DEF module, ctrl, vars, PppAt
<1>1. CASE PppStop
  BY <1>1 DEF PppStop, PppTurn, PppLeave, StopNoInterface, StopInterface, KillPppd,
              KillDone, StopPool, PppTerm
<1>2. CASE PppConnect
  <2>1. CASE StartAlloc \/ StartPool \/ StartHasPort \/ StartApn \/ StartDial
    BY <2>1 DEF StartAlloc, StartPool, StartHasPort, StartApn, StartDial
  <2>2. CASE InspectPid \/ InspectNotDue \/ InspectGiveUp \/ InspectBad \/ InspectGood
    BY <2>2 DEF InspectPid, InspectNotDue, InspectGiveUp, InspectBad, InspectGood
  <2>3. QED BY <1>2, <2>1, <2>2 DEF PppConnect
<1>3. CASE EnvNext
  BY <1>3 DEF EnvNext, DialEnds, PppdExits, LinkUp, Signal, ClientRequest
<1>4. QED
  BY <1>1, <1>2, <1>3 DEF vars

(* power_on_module() and power_off_module() keep power, ports and ready    *)
(* bound together, whatever the modem answers and whenever the PPP thread  *)
(* asks for a reset.                                                       *)
THEOREM ReadyOpen == Spec => []ReadyMeansOpen
<1>1. Init => ReadyMeansOpen /\ PowerKnown
  BY DEF Init, ReadyMeansOpen, PowerKnown
<1>2. /\ TypeOK /\ Doing /\ ReadyMeansOpen /\ PowerKnown /\ [Next]_vars
      => (ReadyMeansOpen /\ PowerKnown)'
  <2> SUFFICES ASSUME TypeOK, Doing, ReadyMeansOpen, PowerKnown, [Next]_vars,
                      (NoClients /\ ~env.hal_faults)'
               PROVE  (ReadyMeansOpen /\ PowerKnown)'
    BY DEF ReadyMeansOpen, PowerKnown
  <2> USE DEF TypeOK, ReadyMeansOpen, PowerKnown, NoClients, module, ctrl, CtrlAt,
              HalGet, HalTurn, NOT_READY, MODULE_READY
  <2>1. CASE CtrlPower
    <3>1. CASE CtrlLeave \/ CtrlServe \/ CtrlNoEvent \/ CtrlServed
      BY <2>1, <3>1 DEF CtrlLeave, CtrlServe, CtrlNoEvent, CtrlServed
    <3>2. CASE OffAlready \/ OffDone
      BY <3>2 DEF OffAlready, OffDone, AfterOff, Doing
    <3>3. CASE OffBegin \/ OffWait \/ OffCut
      BY <3>3 DEF OffBegin, OffWait, OffCut
    <3>4. CASE OnAlready \/ OnHalFails \/ OnNoAnswer
      BY <3>4 DEF OnAlready, OnHalFails, OnNoAnswer
    <3>5. CASE OnOpen
      BY <3>5 DEF OnOpen
    <3>6. CASE OnDone
      BY <3>6 DEF OnDone
    <3>7. QED BY <2>1, <3>1, <3>2, <3>3, <3>4, <3>5, <3>6 DEF CtrlPower
  <2>2. CASE CtrlCheck
    <3>1. CASE AtOk \/ AtFails
      BY <3>1 DEF AtOk, AtFails
    <3>2. CASE CtrlSkip \/ CtrlAlloc \/ CtrlPool \/ AtNothing \/ CtrlFree \/ CtrlTerm
      BY <3>2 DEF CtrlSkip, CtrlAlloc, CtrlPool, AtNothing, CtrlFree, CtrlTerm
    <3>3. QED BY <2>2, <3>1, <3>2 DEF CtrlCheck
  <2>3. CASE PppStop \/ PppConnect \/ EnvNext \/ UNCHANGED vars
    BY <2>3, OthersLeavePower
  <2>4. QED BY <2>1, <2>2, <2>3, StepCases
<1>3. QED
  BY <1>1, <1>2, TypeAlways, PTL DEF Spec

-----------------------------------------------------------------------------
(* Why no AT command meets a link, and why the PPP thread has a port where *)
(* it reads one, in a gsmd that nobody else asks for events and as long as *)
(* users counts right.  A module that is ready is reset for the PPP thread *)
(* only, which keeps a port then that it has counted: the wait for users   *)
(* stands between that reset and the cut, so that until the signal a       *)
(* module stays ready once it is (Reset).  The PPP thread therefore does   *)
(* nothing before the module is ready and never stops a connection: dial   *)
(* scripts and pppds are on its own port (Link).                           *)

Undisturbed == NoClients /\ "users" \notin raced

Idle == port["ppp"] = NoPort /\ ppc = "top" /\ status < CONNECTING

Reset ==
  Undisturbed /\ ~stop =>
    /\ event \in {"none", "reset"}
    /\ ready # ALL_READY => Idle
    /\ ready = ALL_READY /\ (event = "reset" \/ cpc \in {"off", "offwait"})
       => port["ppp"] # NoPort /\ inside["ppp"] = "out"
    /\ cpc \in {"off", "offwait", "cut", "offdone"} => req = "reset"
    /\ cpc \in {"cut", "offdone"} => ready # ALL_READY
    /\ cpc \in {"on", "ondone"} => ready = NOT_READY
    /\ cpc = "ondone" /\ rv => hw = "ON"
    /\ cpc = "served" => ready \in {NOT_READY, MODULE_READY} /\ (~rv => ready = NOT_READY)
    /\ cpc \in {"check", "alloc", "at"} /\ event # "none" => ready \in {NOT_READY, ALL_READY}
    /\ cpc # "offdone" /\ hw = "OFF" => ready = NOT_READY

Leaving == {"laststop", "lastkill", "lastfreeing", "term", "done"}
Left == {"lastfreeing", "term", "done"}

Link ==
  Undisturbed =>
    /\ ppc \notin Left => pppd \cup dialing \subseteq {port["ppp"]}
    /\ iface => pppd # {}
    /\ ppc \notin {"stop", "kill", "freeing", "crashed"}
    /\ ppc \in Leaving => stop
    /\ ppc = "inspect" => status >= CONNECTING
    /\ ppc \notin Left /\ status >= CONNECTING => port["ppp"] # NoPort

(* The control thread leaves the PPP thread, its port and its links alone. *)
LEMMA CtrlLeavesLink ==
  ASSUME TypeOK, CtrlPower \/ CtrlCheck
  PROVE  /\ UNCHANGED <<ppc, status, world, stop, env>>
         /\ port'["ppp"] = port["ppp"] /\ inside'["ppp"] = inside["ppp"]
<1> USE DEF TypeOK, PoolTypeOK, module, pool, pppctx, world, CtrlAt, Threads
<1>1. CASE CtrlPower
  BY <1>1 DEF CtrlPower, CtrlLeave, CtrlServe, CtrlNoEvent, CtrlServed, OffAlready,
              OffBegin, OffWait, OffCut, OffDone, OnAlready, OnHalFails, OnNoAnswer,
              OnOpen, OnDone
<1>2. CASE CtrlCheck
  <2>1. PoolCall("ctrl") => port'["ppp"] = port["ppp"] /\ inside'["ppp"] = inside["ppp"]
    BY CallsAreOwn DEF Other
  <2>2. CASE CtrlAlloc \/ CtrlPool \/ CtrlFree
    BY <2>1, <2>2 DEF CtrlAlloc, CtrlPool, CtrlFree, PoolCall
  <2>3. CASE CtrlSkip \/ AtOk \/ AtFails \/ AtNothing \/ CtrlTerm
    BY <2>3 DEF CtrlSkip, AtOk, AtFails, AtNothing, CtrlTerm
  <2>4. QED
    BY <1>2, <2>2, <2>3 DEF CtrlCheck
<1>3. QED
  BY <1>1, <1>2

(* The wait for users ends only when no thread has counted a port, if the  *)
(* count is right.                                                         *)
LEMMA NoUsersNoPort ==
  ASSUME Exact, users = 0, "users" \notin raced, inside["ppp"] = "out"
  PROVE  port["ppp"] = NoPort
<1>1. Share("ctrl") \in {0, 1} /\ Share("ppp") \in {0, 1}
  BY DEF Share
<1>2. Share("ppp") = 0
  BY <1>1 DEF Exact
<1>3. QED
  BY <1>2 DEF Share

(* Every step keeps what is known while a reset is asked for.              *)
LEMMA ResetStep ==
  ASSUME TypeOK, Doing, Places, Holding, Marked, Exact, Reset, Link, [Next]_vars
  PROVE  Reset'
<1> SUFFICES ASSUME (Undisturbed /\ ~stop)'
             PROVE  Reset'
  BY DEF Reset
<1>0. "users" \notin raced
  BY PoolStep DEF Undisturbed
<1> USE DEF NOT_READY, MODULE_READY, CHECK_REGISTRY, ALL_READY
<1>1. Undisturbed /\ ~stop
  <2> USE <1>0 DEF Undisturbed
  <2>1. CASE CtrlPower \/ CtrlCheck
    BY <2>1, CtrlLeavesLink DEF NoClients
  <2>2. CASE PppStop \/ PppConnect
    BY <2>2 DEF NoClients, PppAt, PppStop, PppTurn, PppLeave, StopNoInterface, StopInterface, KillPppd,
       KillDone, StopPool, PppTerm, PppConnect, StartAlloc, StartPool, StartHasPort, StartApn, StartDial, InspectPid,
       InspectNotDue, InspectGiveUp, InspectBad, InspectGood
  <2>3. CASE EnvNext
    BY <2>3 DEF NoClients, EnvNext, DialEnds, PppdExits, LinkUp, Signal, ClientRequest
  <2>4. QED
    BY <2>1, <2>2, <2>3, StepCases DEF vars, NoClients
<1>2. CASE CtrlPower
  <2> USE <1>1 DEF TypeOK, Reset, Idle, module, ctrl, CtrlAt, HalGet, HalTurn
  <2>1. /\ UNCHANGED <<ppc, status, world, stop, env>>
        /\ port'["ppp"] = port["ppp"] /\ inside'["ppp"] = inside["ppp"]
    BY <1>2, CtrlLeavesLink
  <2>2. CASE CtrlLeave
    BY <2>2 DEF CtrlLeave
  <2>3. CASE CtrlServe
    BY <2>1, <2>3 DEF CtrlServe
  <2>4. CASE CtrlNoEvent \/ CtrlServed
    BY <2>1, <2>4 DEF CtrlNoEvent, CtrlServed
  <2>5. CASE OffAlready
    BY <2>1, <2>5 DEF OffAlready, AfterOff
  <2>6. CASE OffBegin
    BY <2>1, <2>6 DEF OffBegin
  <2>7. CASE OffWait
    <3>1. ready # ALL_READY
      BY <1>0, <2>7, NoUsersNoPort DEF OffWait
    <3>2. QED
      BY <2>1, <2>7, <3>1 DEF OffWait
  <2>8. CASE OffCut
    BY <2>1, <2>8 DEF OffCut
  <2>9. CASE OffDone
    BY <2>1, <2>9 DEF OffDone, AfterOff
  <2>10. CASE OnAlready
    BY <2>1, <2>10 DEF OnAlready
  <2>11. CASE OnHalFails
    BY <2>1, <2>11 DEF OnHalFails
  <2>12. CASE OnNoAnswer
    BY <2>1, <2>12 DEF OnNoAnswer
  <2>13. CASE OnOpen
    BY <2>1, <2>13 DEF OnOpen
  <2>14. CASE OnDone
    BY <2>1, <2>14 DEF OnDone
  <2>15. QED
    BY <1>2, <2>2, <2>3, <2>4, <2>5, <2>6, <2>7, <2>8, <2>9, <2>10, <2>11, <2>12, <2>13, <2>14
       DEF CtrlPower
<1>3. CASE CtrlCheck
  <2> USE <1>1 DEF TypeOK, Reset, Idle, module, ctrl, CtrlAt
  <2>1. /\ UNCHANGED <<ppc, status, world, stop, env>>
        /\ port'["ppp"] = port["ppp"] /\ inside'["ppp"] = inside["ppp"]
    BY <1>3, CtrlLeavesLink
  <2>2. CASE AtOk
    BY <2>1, <2>2 DEF AtOk, Doing
  <2>3. CASE AtFails
    BY <2>1, <2>3 DEF AtFails, Doing
  <2>4. CASE CtrlAlloc
    BY <2>1, <2>4 DEF CtrlAlloc
  <2>7. CASE CtrlPool
    <3>1. cpc = "freeing" => port["ctrl"] = NoPort
      BY DEF Holding
    <3>2. /\ cpc' = cpc \/ cpc' \in {"loop", "free"} \/ (cpc = "alloc" /\ cpc' = "at")
          /\ cpc \in {"alloc", "freeing"} /\ UNCHANGED <<ready, event, hw, req, rv>>
      BY <2>7, <3>1 DEF CtrlPool
    <3>3. QED
      BY <2>1, <3>2
  <2>5. CASE CtrlSkip \/ AtNothing \/ CtrlFree \/ CtrlTerm
    BY <2>1, <2>5 DEF CtrlSkip, AtNothing, CtrlFree, CtrlTerm
  <2>6. QED
    BY <1>3, <2>2, <2>3, <2>4, <2>5, <2>7 DEF CtrlCheck
<1>4. CASE PppStop \/ PppConnect
  <2> USE <1>1 DEF TypeOK, Reset, Idle, module, pool, ctrl, PppAt
  <2>1. UNCHANGED <<ready, hw, cpc, req, rv>>
    BY <1>4, OthersLeavePower
  <2>2. CASE PppTurn \/ PppLeave
    BY <2>1, <2>2 DEF PppTurn, PppLeave, pppctx, DISCONNECT, CONNECTING, CONNECTED
  <2>3. CASE StopNoInterface \/ StopInterface \/ KillPppd \/ KillDone \/ StopPool \/ PppTerm
    BY <2>3 DEF StopNoInterface, StopInterface, KillPppd, KillDone, StopPool, PppTerm, Link, Leaving
  <2>4. CASE StartAlloc
    BY <2>1, <2>4 DEF StartAlloc, pppctx
  <2>9. CASE StartPool
    BY <2>1, <2>9 DEF StartPool, Places, pppctx
  <2>5. CASE StartApn
    BY <2>1, <2>5 DEF StartApn, Doing, Places
  <2>6. CASE StartHasPort \/ StartDial
    BY <2>1, <2>6 DEF StartHasPort, StartDial, pppctx
  <2>7. CASE InspectPid \/ InspectNotDue \/ InspectGiveUp \/ InspectBad \/ InspectGood
    BY <2>1, <2>7 DEF InspectPid, InspectNotDue, InspectGiveUp, InspectBad, InspectGood, pppctx
  <2>8. QED
    BY <1>4, <2>2, <2>3, <2>4, <2>5, <2>6, <2>7, <2>9 DEF PppStop, PppConnect
<1>5. CASE EnvNext \/ UNCHANGED vars
  <2>1. UNCHANGED <<ready, hw, cpc, req, rv, ppc, status, port, inside>>
    BY <1>5 DEF EnvNext, DialEnds, PppdExits, LinkUp, Signal, ClientRequest, vars, module, ctrl, pppctx,
                pool
  <2>2. UNCHANGED event
    BY <1>1, <1>5 DEF Undisturbed, NoClients, EnvNext, DialEnds, PppdExits, LinkUp, Signal, ClientRequest, vars, module
  <2>3. QED
    BY <1>1, <2>1, <2>2 DEF Reset, Idle
<1>6. QED
  BY <1>2, <1>3, <1>4, <1>5, StepCases

(* Every step keeps what is known of the ports with links.                 *)
LEMMA LinkStep ==
  ASSUME TypeOK, Doing, Places, Holding, Marked, Exact, Reset, Link, [Next]_vars
  PROVE  Link'
<1> SUFFICES ASSUME Undisturbed'
             PROVE  Link'
  BY DEF Link
<1>0. NoPort \notin Ports
  BY NoPortAssumption DEF Ports
<1>1. Undisturbed
  <2>0. "users" \notin raced
    BY PoolStep DEF Undisturbed
  <2> USE <2>0 DEF Undisturbed, NoClients
  <2>1. CASE CtrlPower \/ CtrlCheck
    BY <2>1, CtrlLeavesLink
  <2>2. CASE PppStop \/ PppConnect \/ EnvNext \/ UNCHANGED vars
    BY <2>2, OthersLeavePower
  <2>3. QED
    BY <2>1, <2>2, StepCases
<1> USE <1>1 DEF TypeOK, PoolTypeOK, Link, Leaving, Left, Threads
<1>2. CASE CtrlPower \/ CtrlCheck
  <2>1. UNCHANGED <<ppc, status, world, stop, env>> /\ port'["ppp"] = port["ppp"]
    BY <1>2, CtrlLeavesLink
  <2>2. QED
    BY <2>1 DEF world
<1>4. CASE PppStop
  <2> USE DEF PppAt, module, ctrl, pool, pppctx, world
  <2>1. CASE PppTurn
    BY <2>1 DEF PppTurn, Reset, Idle, DISCONNECT, CONNECTING, CONNECTED
  <2>2. CASE PppLeave \/ StopNoInterface
    BY <2>2 DEF PppLeave, StopNoInterface, StopReturn
  <2>3. CASE StopInterface
    BY <1>0, <2>3 DEF StopInterface
  <2>4. CASE KillPppd
    BY <2>4 DEF KillPppd, PppdGone
  <2>5. CASE KillDone
    BY <2>5 DEF KillDone, FreePort
  <2>6. CASE PppTerm
    BY <2>6 DEF PppTerm
  <2>8. CASE StopPool
    BY <2>8 DEF StopPool, StopReturn
  <2>7. QED
    BY <1>4, <2>1, <2>2, <2>3, <2>4, <2>5, <2>6, <2>8 DEF PppStop
<1>5. CASE PppConnect
  <2> USE DEF PppAt, module, ctrl, pool, pppctx, world, DISCONNECT, SELECTED_APN, CONNECTING, CONNECTED
  <2>1. CASE StartAlloc
    BY <2>1 DEF StartAlloc, AllocTest
  <2>7. CASE StartPool
    <3>1. port["ppp"] # NoPort => port' = port
      BY <2>7 DEF StartPool, Holding, Holds, InPool, AllocScan, AllocNone, AllocMark, CountLoad, CountStore
    <3>2. port["ppp"] = NoPort => pppd \cup dialing = {}
      BY <1>0, <2>7 DEF StartPool
    <3>3. QED
      BY <2>7, <3>1, <3>2 DEF StartPool
  <2>2. CASE StartHasPort \/ StartApn
    BY <2>2 DEF StartHasPort, StartApn
  <2>3. CASE StartDial
    BY <2>3 DEF StartDial, Doing
  <2>4. CASE InspectPid
    BY <2>4 DEF InspectPid
  <2>5. CASE InspectNotDue \/ InspectGiveUp \/ InspectBad \/ InspectGood
    BY <2>5 DEF InspectNotDue, InspectGiveUp, InspectBad, InspectGood
  <2>6. QED
    BY <1>5, <2>1, <2>2, <2>3, <2>4, <2>5, <2>7 DEF PppConnect
<1>6. CASE EnvNext
  <2> USE DEF pppctx, pool
  <2>1. ASSUME NEW p \in Ports, DialEnds(p)
        PROVE  Link'
    BY <2>1 DEF DialEnds
  <2>2. ASSUME NEW p \in Ports, PppdExits(p)
        PROVE  Link'
    BY <2>2 DEF PppdExits, PppdGone
  <2>3. CASE LinkUp
    BY <2>3 DEF LinkUp
  <2>4. CASE Signal \/ ClientRequest
    BY <2>4 DEF Signal, ClientRequest, world
  <2>5. QED
    BY <1>6, <2>1, <2>2, <2>3, <2>4 DEF EnvNext
<1>7. CASE UNCHANGED vars
  BY <1>7 DEF vars, pool, pppctx, world
<1>8. QED
  BY <1>2, <1>4, <1>5, <1>6, <1>7, StepCases

(* The parts together are an invariant.                                    *)
LEMMA LinkAlways == Spec => [](Reset /\ Link)
<1>1. Init => Reset /\ Link
  BY DEF Init, Reset, Link, Leaving, Left, Idle, Threads, NOT_READY, ALL_READY, DISCONNECT, CONNECTING
<1>2. TypeOK /\ Doing /\ Places /\ Holding /\ Marked /\ Exact /\ Reset /\ Link /\ [Next]_vars
      => (Reset /\ Link)'
  BY ResetStep, LinkStep
<1>3. QED
  BY <1>1, <1>2, TypeAlways, PoolAlways, PTL DEF Spec

(* atcmd_check_ready() and atcmd_inspect_status() never send a command to  *)
(* a port that carries a link or is about to, until the threads race for   *)
(* a port or for the counter.                                              *)
THEOREM LinkUndisturbed == Spec => []NoAtCommandOnLink
<1>1. TypeOK /\ Holding /\ Marked /\ Link => NoAtCommandOnLink
  <2>1. NoPort \notin Ports
    BY NoPortAssumption DEF Ports
  <2>2. SUFFICES ASSUME TypeOK, Holding, Marked, Link, NoClients, ~stop, raced = {},
                        cpc \in {"at", "free"}
                 PROVE  port["ctrl"] \notin pppd \cup dialing
    BY DEF NoAtCommandOnLink
  <2>3. port["ctrl"] # NoPort /\ port["ctrl"] # port["ppp"]
    BY <2>2 DEF Holding, Marked
  <2>4. pppd \cup dialing \subseteq {port["ppp"]}
    BY <2>2 DEF Link, Undisturbed, Leaving, Left
  <2>5. QED
    BY <2>3, <2>4
<1>2. QED
  BY <1>1, TypeAlways, PoolAlways, LinkAlways, PTL

(* The PPP thread has a port whenever it reads comport->dev_name, over all *)
(* resets, lost links and signals, until an update of users is lost.       *)
THEOREM PppPortThere == Spec => []PppHasPort
<1>1. Link => PppHasPort
  BY DEF Link, Undisturbed, PppHasPort
<1>2. QED
  BY <1>1, LinkAlways, PTL

(* gsmd resets its module while it starts up only: from the moment the     *)
(* module is ready up to the signal, or up to an update of users that is   *)
(* lost, no step takes its readiness or its power away, although           *)
(* start_ppp_connect() goes on asking for resets - what ResetServed finds  *)
(* in one behaviour is so in all of them.                                  *)
ReadyForGood ==
  [][Undisturbed /\ ~stop /\ ready = ALL_READY => ready' = ALL_READY /\ hw' = hw]_vars

THEOREM ReadyStays == Spec => ReadyForGood
<1> USE DEF NOT_READY, MODULE_READY, ALL_READY
<1>1. ASSUME TypeOK, Doing, Reset, [Next]_vars, Undisturbed, ~stop, ready = ALL_READY
      PROVE  ready' = ALL_READY /\ hw' = hw
  <2> USE <1>1 DEF TypeOK, Reset, module, CtrlAt
  <2>1. CASE CtrlPower
    <3>1. CASE CtrlLeave \/ CtrlServe \/ CtrlNoEvent \/ CtrlServed \/ OffAlready \/ OffBegin \/ OffWait
      BY <3>1 DEF CtrlLeave, CtrlServe, CtrlNoEvent, CtrlServed, OffAlready, OffBegin, OffWait
    <3>2. CASE OffCut \/ OffDone
      BY <3>2 DEF OffCut, OffDone
    <3>3. CASE OnAlready \/ OnHalFails \/ OnNoAnswer \/ OnOpen \/ OnDone
      <4>1. cpc \in {"on", "ondone"}
        BY <3>3 DEF OnAlready, OnHalFails, OnNoAnswer, OnOpen, OnDone
      <4>2. QED
        BY <4>1
    <3>4. QED
      BY <2>1, <3>1, <3>2, <3>3 DEF CtrlPower
  <2>2. CASE CtrlCheck
    BY <2>2 DEF Doing, CtrlCheck, CtrlSkip, CtrlAlloc, CtrlPool, AtOk, AtFails, AtNothing, CtrlFree,
                CtrlTerm
  <2>3. CASE PppStop \/ PppConnect \/ EnvNext \/ UNCHANGED vars
    BY <2>3, OthersLeavePower
  <2>4. QED
    BY <2>1, <2>2, <2>3, StepCases
<1>2. TypeOK /\ Doing /\ Reset /\ [Next]_vars
      => [Undisturbed /\ ~stop /\ ready = ALL_READY => ready' = ALL_READY /\ hw' = hw]_vars
  BY <1>1
<1>3. QED
  BY <1>2, TypeAlways, LinkAlways, PTL DEF Spec, ReadyForGood

(* The PPP thread never gives its port back before the signal, unless an   *)
(* update of users is lost: neither a lost link nor                        *)
(* inspect_network_status() giving up frees it, and that is what           *)
(* power_off_module() waits for.                                           *)
PortForGood ==
  [][Undisturbed /\ ~stop /\ port["ppp"] # NoPort => port'["ppp"] = port["ppp"]]_vars

THEOREM PppPortStays == Spec => PortForGood
<1>1. ASSUME TypeOK, Holding, Link, [Next]_vars, Undisturbed, ~stop, port["ppp"] # NoPort
      PROVE  port'["ppp"] = port["ppp"]
  <2> USE <1>1 DEF TypeOK, Link, Leaving, Left, pool
  <2>1. CASE CtrlPower \/ CtrlCheck
    BY <2>1, CtrlLeavesLink
  <2>2. CASE PppStop
    BY <2>2 DEF PppAt, PppStop, PppTurn, PppLeave, StopNoInterface, StopInterface, KillPppd, KillDone,
                StopPool, PppTerm
  <2>3. CASE StartPool
    BY <2>3 DEF StartPool, Holding, Holds, Threads, InPool, AllocScan, AllocNone, AllocMark, CountLoad,
                CountStore
  <2>4. CASE PppConnect /\ ~StartPool
    BY <2>4 DEF PppConnect, StartAlloc, StartHasPort, StartApn, StartDial,
       InspectPid, InspectNotDue, InspectGiveUp, InspectBad, InspectGood
  <2>5. CASE EnvNext \/ UNCHANGED vars
    BY <2>5 DEF EnvNext, DialEnds, PppdExits, LinkUp, Signal, ClientRequest, vars
  <2>6. QED
    BY <2>1, <2>2, <2>3, <2>4, <2>5, StepCases
<1>2. TypeOK /\ Holding /\ Link /\ [Next]_vars
      => [Undisturbed /\ ~stop /\ port["ppp"] # NoPort => port'["ppp"] = port["ppp"]]_vars
  BY <1>1
<1>3. QED
  BY <1>2, TypeAlways, PoolAlways, LinkAlways, PTL DEF Spec, PortForGood
=============================================================================
