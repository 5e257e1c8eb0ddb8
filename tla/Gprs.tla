-------------------------------- MODULE Gprs --------------------------------
(***************************************************************************)
(* The GSM daemon gsmd: the control thread of cp_gprs.c, which powers the  *)
(* module, checks it with AT commands and serves power requests, and the   *)
(* PPP thread of cp_ppp.c, which dials up on one of the module's CMUX data *)
(* ports.  The two share MODULE_INFO without a lock.  The environment is   *)
(* the power switch (the HAL), the modem's answers, the pppd processes,    *)
(* the termination signal and the clients of set_module_event().           *)
(*                                                                         *)
(* An action is one access to shared state together with the thread-local  *)
(* work around it.  alloc_gsm_dataport() and free_gsm_dataport() take no   *)
(* mutex, so a call is several steps and calls of the two threads overlap: *)
(* both may pass the test of the flag and take one port, and an update of  *)
(* the counter may be lost.  A history variable records when that happens, *)
(* and the properties say which of the two they do not survive.            *)
(***************************************************************************)
EXTENDS Integers, FiniteSets

CONSTANTS
  NPorts,      (* module->comport_cnt                                      *)
  NoPort,      (* a NULL COM_PORT pointer                                  *)
  AtTimes,     (* "times" of the three AT checks: 10 in the code           *)
  MaxPppFail,  (* MAX_PPP_FAIL_CNT: 3 in the code                          *)
  FailMod,     (* fail_cnt is an unsigned char: 256 in the code            *)
  MaxDrift,    (* bound: users is counted no further than that below zero  *)
               (* or above the number of threads when updates get lost     *)
  Envs         (* the environments that are looked at: in each, whether    *)
               (* the power switch's ioctls may fail, which events clients *)
               (* give to set_module_event() -- gsmd has no client --, and *)
               (* bound: what the two threads may race for, as they may    *)
               (* for the port and the counter both                        *)

Events == {"none", "off", "on", "reset"}

ASSUME NPortsAssumption == NPorts \in Nat \ {0}
ASSUME NoPortAssumption == NoPort \notin Nat
ASSUME CountsAssumption ==
  /\ AtTimes \in Nat /\ MaxPppFail \in Nat \ {0}
  /\ FailMod \in Nat /\ FailMod > MaxPppFail
  /\ MaxDrift \in Nat
ASSUME EnvsAssumption ==
  Envs \subseteq [hal_faults : BOOLEAN, requests : SUBSET (Events \ {"none"}),
                races : SUBSET {"port", "users"}]

Ports == 0 .. (NPorts - 1)

(* The two threads of gsmd as it is configured.                            *)
Threads == {"ctrl", "ppp"}

(* module->ready.                                                          *)
NOT_READY == 0
MODULE_READY == 1
CHECK_HWINFO == 2
CHECK_REGISTRY == 3
ALL_READY == 4

(* ppp_ctx.status.                                                         *)
DISCONNECT == 0
SELECTED_APN == 1
CONNECTING == 2
CONNECTED == 3

VARIABLES
  (* MODULE_INFO *)
  ready, event, pwr_status,
  open,       (* open[p]: comport[p]->is_connted                           *)
  port,       (* port[t]: the data port thread t has allocated             *)
  (* the two calls on the pool of ports *)
  used,       (* the ports marked as used                                  *)
  users,      (* module->users                                             *)
  lock,       (* the static flag of alloc_gsm_dataport()                   *)
  inside,     (* where thread t is inside the calls, "out" when it is not  *)
  seen,       (* what t has read there: the unused port, the old users     *)
  raced,      (* history: what the threads have raced for so far           *)
  (* the control thread *)
  cpc,        (* where it is                                               *)
  req,        (* the event it is serving, "term" when it is leaving        *)
  rv,         (* whether the operation it is carrying out has succeeded    *)
  fails,      (* the static fail_cnt of each of the three AT checks        *)
  (* the PPP thread: PPP_CTX *)
  ppc, status, network, fail_cnt,
  (* the environment *)
  env,        (* which of Envs this behaviour has                          *)
  hw,         (* the module's real power                                   *)
  dialing,    (* ports for which a dial script has been forked             *)
  pppd,       (* ports on which a pppd process runs                        *)
  iface,      (* whether the interface ppp10 exists                        *)
  stop        (* g_cp_signal.stop                                          *)

module == <<ready, event, pwr_status, open>>
ctrl == <<cpc, req, rv, fails>>
pppctx == <<status, network, fail_cnt>>
world == <<dialing, pppd, iface>>
pool == <<port, used, users, lock, inside, seen, raced>>
vars == <<module, pool, ctrl, ppc, pppctx, env, hw, world, stop>>

(* The process ends when the control thread's function returns to main()   *)
(* and when the PPP thread follows a NULL pointer.                         *)
Running == cpc # "exited" /\ ppc # "crashed"

CtrlAt(l) == Running /\ cpc = l /\ UNCHANGED env
PppAt(l) == Running /\ ppc = l /\ UNCHANGED env

Init ==
  /\ ready = NOT_READY /\ event = "reset" /\ pwr_status = "OFF"
  /\ open = [p \in Ports |-> FALSE]
  /\ port = [t \in Threads |-> NoPort] /\ used = {} /\ users = 0
  /\ lock = FALSE /\ inside = [t \in Threads |-> "out"]
  /\ seen = [t \in Threads |-> NoPort] /\ raced = {}
  /\ cpc = "loop" /\ req = "none" /\ rv = TRUE
  /\ fails = [s \in MODULE_READY .. CHECK_REGISTRY |-> 0]
  /\ ppc = "top"
  /\ status = DISCONNECT /\ network = "STOP" /\ fail_cnt = 0
  /\ env \in Envs /\ hw \in {"OFF", "ON"}
  /\ dialing = {} /\ pppd = {} /\ iface = FALSE /\ stop = FALSE

-----------------------------------------------------------------------------
(* The power switch and the pool, as both threads use them.                *)

(* What hal_get_gprs_power() can answer.                                   *)
HalGet == {hw} \cup (IF env.hal_faults THEN {"ERR"} ELSE {})

(* hal_turn_gprs_power(to) was asked: what the power can then be.          *)
HalTurn(to) == {to} \cup (IF env.hal_faults THEN {hw} ELSE {})

-----------------------------------------------------------------------------
(* alloc_gsm_dataport() and free_gsm_dataport(), called by thread t        *)

Other(t) == IF t = "ctrl" THEN "ppp" ELSE "ctrl"

(* The threads race for something, now or not.                             *)
Race(what, now) ==
  /\ now => what \in env.races
  /\ raced' = IF now THEN raced \cup {what} ELSE raced

Unused == Ports \ used

(* A mutant of AllocTest: a scan that has begun does not set the flag.     *)
AllocTest_NoFlag(t) ==
  /\ inside[t] = "out"
  /\ inside' = [inside EXCEPT ![t] = "tested"]
  /\ Race("port", inside[Other(t)] = "tested")
  /\ UNCHANGED <<port, used, users, lock, seen>>

(* The flag is clear, and not set yet: the other thread may be as far.     *)
AllocTest(t) ==
  /\ inside[t] = "out" /\ ~lock
  /\ inside' = [inside EXCEPT ![t] = "tested"]
  /\ Race("port", inside[Other(t)] = "tested")
  /\ UNCHANGED <<port, used, users, lock, seen>>

(* The flag is set and the scan stops at the first unused port.            *)
AllocScan(t) ==
  /\ inside[t] = "tested"
  /\ lock' = TRUE
  /\ \E p \in Unused : (\A q \in Unused : p <= q) /\ seen' = [seen EXCEPT ![t] = p]
  /\ inside' = [inside EXCEPT ![t] = "found"]
  /\ UNCHANGED <<port, used, users, raced>>

(* The scan finds none: the flag is cleared and NULL returned.             *)
AllocNone(t) ==
  /\ inside[t] = "tested" /\ Unused = {}
  /\ lock' = FALSE
  /\ inside' = [inside EXCEPT ![t] = "out"]
  /\ UNCHANGED <<port, used, users, seen, raced>>

(* The port is marked and the flag cleared; it is not counted yet.         *)
AllocMark(t) ==
  /\ inside[t] = "found"
  /\ used' = used \cup {seen[t]} /\ port' = [port EXCEPT ![t] = seen[t]]
  /\ lock' = FALSE
  /\ seen' = [seen EXCEPT ![t] = NoPort]
  /\ inside' = [inside EXCEPT ![t] = "taken"]
  /\ UNCHANGED <<users, raced>>

(* free_gsm_dataport() unmarks the port; it is still counted.              *)
FreePort(t) ==
  /\ inside[t] = "out"
  /\ used' = used \ {port[t]} /\ port' = [port EXCEPT ![t] = NoPort]
  /\ inside' = [inside EXCEPT ![t] = "given"]
  /\ UNCHANGED <<users, lock, seen, raced>>

(* users++ and users-- read the counter and then write it.                 *)
CountLoad(t) ==
  /\ inside[t] \in {"taken", "given"}
  /\ seen' = [seen EXCEPT ![t] = users]
  /\ inside' = [inside EXCEPT ![t] = IF @ = "taken" THEN "inc" ELSE "dec"]
  /\ Race("users", inside[Other(t)] \in {"inc", "dec"})
  /\ UNCHANGED <<port, used, users, lock>>

(* What users is after a count, but for the bound.                         *)
Counted(n) == IF n < -MaxDrift THEN -MaxDrift
              ELSE IF n > 2 + MaxDrift THEN 2 + MaxDrift ELSE n

CountStore(t) ==
  /\ inside[t] \in {"inc", "dec"}
  /\ users' = Counted(IF inside[t] = "inc" THEN seen[t] + 1 ELSE seen[t] - 1)
  /\ seen' = [seen EXCEPT ![t] = NoPort]
  /\ inside' = [inside EXCEPT ![t] = "out"]
  /\ UNCHANGED <<port, used, lock, raced>>

InPool(t) ==
  \/ AllocScan(t) \/ AllocNone(t) \/ AllocMark(t)
  \/ CountLoad(t) \/ CountStore(t)

-----------------------------------------------------------------------------
(* ctrl_thread_start(), set_module_event_power()                           *)

(* The loop's condition and its first test, with the switch on the event.  *)
CtrlLeave ==
  /\ CtrlAt("loop") /\ stop
  /\ cpc' = "off" /\ req' = "term"
  /\ UNCHANGED <<module, pool, rv, fails, ppc, pppctx, hw, world, stop>>

CtrlServe ==
  /\ CtrlAt("loop") /\ ~stop /\ event # "none"
  /\ req' = event
  /\ cpc' = IF event = "on" THEN "on" ELSE "off"
  /\ UNCHANGED <<module, pool, rv, fails, ppc, pppctx, hw, world, stop>>

CtrlNoEvent ==
  /\ CtrlAt("loop") /\ ~stop /\ event = "none"
  /\ cpc' = "check"
  /\ UNCHANGED <<module, pool, req, rv, fails, ppc, pppctx, hw, world, stop>>

(* A request that was served without error is cleared; else it is kept,    *)
(* and the next turn of the loop serves it again.                          *)
CtrlServed ==
  /\ CtrlAt("served")
  /\ event' = IF rv THEN "none" ELSE event
  /\ cpc' = "check" /\ req' = "none" /\ rv' = TRUE
  /\ UNCHANGED <<ready, pwr_status, open, pool, fails, ppc, pppctx, hw, world, stop>>

-----------------------------------------------------------------------------
(* power_off_module(); it always returns 0                                 *)

AfterOff == [reset |-> "on", off |-> "served", term |-> "term"][req]

OffAlready ==
  /\ CtrlAt("off")
  /\ hw = "OFF"
  /\ pwr_status' = "OFF"
  /\ cpc' = AfterOff /\ rv' = TRUE
  /\ UNCHANGED <<ready, event, open, pool, req, fails, ppc, pppctx, hw, world, stop>>

OffBegin ==
  /\ CtrlAt("off")
  /\ \E h \in HalGet \ {"OFF"} : pwr_status' = h
  /\ cpc' = "offwait"
  /\ UNCHANGED <<ready, event, open, pool, req, rv, fails, ppc, pppctx, hw, world, stop>>

(* while(module->users) sleep(1)                                           *)
OffWait ==
  /\ CtrlAt("offwait")
  /\ users = 0
  /\ cpc' = "cut"
  /\ UNCHANGED <<module, pool, req, rv, fails, ppc, pppctx, hw, world, stop>>

(* close_gsm_dataport(), comport_close(gsmport), hal_turn_gprs_power(OFF), *)
(* whose result nobody looks at.                                           *)
OffCut ==
  /\ CtrlAt("cut")
  /\ open' = [p \in Ports |-> FALSE]
  /\ hw' \in HalTurn("OFF")
  /\ cpc' = "offdone"
  /\ UNCHANGED <<ready, event, pwr_status, pool, req, rv, fails, ppc, pppctx, world, stop>>

(* A mutant of OffDone: a power-off that leaves the stage as it was.       *)
OffDone_KeepsReady ==
  /\ CtrlAt("offdone")
  /\ pwr_status' \in HalGet
  /\ cpc' = AfterOff /\ rv' = TRUE
  /\ UNCHANGED <<ready, event, open, pool, req, fails, ppc, pppctx, hw, world, stop>>

(* ready, the registration and pwr_status after the cut.                   *)
OffDone ==
  /\ CtrlAt("offdone")
  /\ ready' = NOT_READY
  /\ pwr_status' \in HalGet
  /\ cpc' = AfterOff /\ rv' = TRUE
  /\ UNCHANGED <<event, open, pool, req, fails, ppc, pppctx, hw, world, stop>>

-----------------------------------------------------------------------------
(* power_on_module()                                                       *)

(* The power is on already: success, and no port is opened.                *)
OnAlready ==
  /\ CtrlAt("on")
  /\ hw = "ON"
  /\ pwr_status' = "ON"
  /\ cpc' = "ondone" /\ rv' = TRUE
  /\ UNCHANGED <<ready, event, open, pool, req, fails, ppc, pppctx, hw, world, stop>>

(* hal_turn_gprs_power(ON) failed, or the power does not read as on.       *)
OnHalFails ==
  /\ CtrlAt("on") /\ env.hal_faults
  /\ \E h \in HalGet \ {"ON"} : pwr_status' = h
  /\ hw' \in HalTurn("ON")
  /\ cpc' = "ondone" /\ rv' = FALSE
  /\ UNCHANGED <<ready, event, open, pool, req, fails, ppc, pppctx, world, stop>>

(* gsmport does not open, or ten ATE0 get no answer: "return -2", past the *)
(* code that would have set ready and pwr_status.                          *)
OnNoAnswer ==
  /\ CtrlAt("on")
  /\ \E h \in HalGet \ {"ON"} : pwr_status' = h
  /\ hw' = "ON"
  /\ cpc' = "served" /\ rv' = FALSE
  /\ UNCHANGED <<ready, event, open, pool, req, fails, ppc, pppctx, world, stop>>

(* open_gsm_dataport() opens every port, or closes those it has opened and *)
(* fails.                                                                  *)
OnOpen ==
  /\ CtrlAt("on")
  /\ \E h \in HalGet \ {"ON"} : pwr_status' = h
  /\ hw' = "ON"
  /\ rv' \in BOOLEAN
  /\ open' = [p \in Ports |-> rv']
  /\ cpc' = "ondone"
  /\ UNCHANGED <<ready, event, pool, req, fails, ppc, pppctx, world, stop>>

(* The label cleanup.                                                      *)
OnDone ==
  /\ CtrlAt("ondone")
  /\ ready' = IF rv THEN MODULE_READY ELSE NOT_READY
  /\ pwr_status' \in HalGet
  /\ cpc' = "served"
  /\ UNCHANGED <<event, open, pool, req, rv, fails, ppc, pppctx, hw, world, stop>>

-----------------------------------------------------------------------------
(* atcmd_inspect_status() and atcmd_check_ready()                          *)

(* Inspected less than ten seconds ago; or the power is not on; or the     *)
(* other thread has set the flag, and there is no port to send AT commands *)
(* on.                                                                     *)
CtrlSkip ==
  /\ CtrlAt("check")
  /\ ready = ALL_READY \/ pwr_status # "ON" \/ lock
  /\ cpc' = "loop"
  /\ UNCHANGED <<module, pool, req, rv, fails, ppc, pppctx, hw, world, stop>>

CtrlAlloc ==
  /\ CtrlAt("check")
  /\ ready = ALL_READY \/ pwr_status = "ON"
  /\ AllocTest("ctrl")
  /\ cpc' = "alloc"
  /\ UNCHANGED <<module, req, rv, fails, ppc, pppctx, hw, world, stop>>

(* alloc_gsm_dataport() and free_gsm_dataport() up to their return.        *)
CtrlPool ==
  /\ CtrlAt("alloc") \/ CtrlAt("freeing")
  /\ InPool("ctrl")
  /\ cpc' = IF inside'["ctrl"] # "out" THEN cpc
            ELSE IF port["ctrl"] = NoPort THEN "loop"
            ELSE IF ready = ALL_READY THEN "free" ELSE "at"
  /\ UNCHANGED <<module, req, rv, fails, ppc, pppctx, hw, world, stop>>

(* A mutant of AtOk: the failures of a stage survive its success.          *)
AtOk_KeepsFails ==
  /\ CtrlAt("at") /\ ready # NOT_READY
  /\ hw = "ON" /\ open[port["ctrl"]]
  /\ ready' = ready + 1
  /\ cpc' = "free"
  /\ UNCHANGED <<event, pwr_status, open, pool, req, rv, fails, ppc, pppctx, hw, world, stop>>

(* The AT commands of the stage that ready stands for were answered.       *)
AtOk ==
  /\ CtrlAt("at") /\ ready # NOT_READY
  /\ hw = "ON" /\ open[port["ctrl"]]
  /\ ready' = ready + 1
  /\ fails' = [fails EXCEPT ![ready] = 0]
  /\ cpc' = "free"
  /\ UNCHANGED <<event, pwr_status, open, pool, req, rv, ppc, pppctx, hw, world, stop>>

(* A mutant of AtFails: one failure more than AtTimes is let pass.         *)
AtFails_OneMore ==
  /\ CtrlAt("at") /\ ready # NOT_READY
  /\ \/ /\ fails[ready] <= AtTimes
        /\ fails' = [fails EXCEPT ![ready] = @ + 1]
        /\ UNCHANGED event
     \/ /\ fails[ready] > AtTimes
        /\ fails' = [fails EXCEPT ![ready] = 0]
        /\ event' = "reset"
  /\ cpc' = "free"
  /\ UNCHANGED <<ready, pwr_status, open, pool, req, rv, ppc, pppctx, hw, world, stop>>

(* They were not: try again in the next turn, and ask for a reset once     *)
(* they have failed more than AtTimes times running.                       *)
AtFails ==
  /\ CtrlAt("at") /\ ready # NOT_READY
  /\ \/ /\ fails[ready] < AtTimes
        /\ fails' = [fails EXCEPT ![ready] = @ + 1]
        /\ UNCHANGED event
     \/ /\ fails[ready] >= AtTimes
        /\ fails' = [fails EXCEPT ![ready] = 0]
        /\ event' = "reset"
  /\ cpc' = "free"
  /\ UNCHANGED <<ready, pwr_status, open, pool, req, rv, ppc, pppctx, hw, world, stop>>

(* The switch has no case for NOT_READY.                                   *)
AtNothing ==
  /\ CtrlAt("at") /\ ready = NOT_READY
  /\ cpc' = "free"
  /\ UNCHANGED <<module, pool, req, rv, fails, ppc, pppctx, hw, world, stop>>

(* A mutant of CtrlFree: a return before free_gsm_dataport().              *)
CtrlFree_Returns ==
  /\ CtrlAt("free")
  /\ cpc' = "loop"
  /\ UNCHANGED <<module, pool, req, rv, fails, ppc, pppctx, hw, world, stop>>

(* free_gsm_dataport() at the end of both functions.                       *)
CtrlFree ==
  /\ CtrlAt("free")
  /\ FreePort("ctrl")
  /\ cpc' = "freeing"
  /\ UNCHANGED <<module, req, rv, fails, ppc, pppctx, hw, world, stop>>

(* ctrl_thread_term() frees the ports, and main() returns.                 *)
CtrlTerm ==
  /\ CtrlAt("term")
  /\ cpc' = "exited"
  /\ UNCHANGED <<module, pool, req, rv, fails, ppc, pppctx, hw, world, stop>>

-----------------------------------------------------------------------------
(* ppp_thread_workbody()                                                   *)

PppTurn ==
  /\ PppAt("top") /\ ~stop
  /\ IF ready # ALL_READY
       THEN status >= CONNECTING /\ ppc' = "stop"
       ELSE ppc' = IF status >= CONNECTING THEN "inspect" ELSE "start"
  /\ UNCHANGED <<module, pool, ctrl, pppctx, hw, world, stop>>

(* A mutant of PppLeave: the signal is looked for only where the loop      *)
(* sleeps a second, past the "continue" of a module that is not ready.     *)
PppLeave_OnlyWhenReady ==
  /\ PppAt("top") /\ stop /\ ready = ALL_READY
  /\ ppc' = "laststop"
  /\ UNCHANGED <<module, pool, ctrl, pppctx, hw, world, stop>>

(* The loop's condition.                                                   *)
PppLeave ==
  /\ PppAt("top") /\ stop
  /\ ppc' = "laststop"
  /\ UNCHANGED <<module, pool, ctrl, pppctx, hw, world, stop>>

-----------------------------------------------------------------------------
(* stop_ppp_connect(), called from the loop ("stop") and from              *)
(* ppp_context_term() ("laststop"), which goes on to set_ppp_disconnect(). *)

StopReturn == IF ppc \in {"stop", "freeing"} THEN "top" ELSE "term"

(* ppp10 does not exist: return, with the port still allocated.            *)
StopNoInterface ==
  /\ PppAt("stop") \/ PppAt("laststop")
  /\ ~iface
  /\ ppc' = StopReturn
  /\ UNCHANGED <<module, pool, ctrl, pppctx, hw, world, stop>>

(* kill_pppd_process() reads comport->dev_name.                            *)
StopInterface ==
  /\ PppAt("stop") \/ PppAt("laststop")
  /\ iface
  /\ ppc' = IF port["ppp"] = NoPort THEN "crashed"
            ELSE IF ppc = "stop" THEN "kill" ELSE "lastkill"
  /\ UNCHANGED <<module, pool, ctrl, pppctx, hw, world, stop>>

(* The pppd on port p is gone, and ppp10 with it unless another pppd made  *)
(* it.                                                                     *)
PppdGone(p) ==
  /\ p \in pppd
  /\ pppd' = pppd \ {p}
  /\ iface' \in {FALSE, iface /\ pppd' # {}}

(* SIGTERM once a second, until no pppd runs on the port.                  *)
KillPppd ==
  /\ PppAt("kill") \/ PppAt("lastkill")
  /\ PppdGone(port["ppp"])
  /\ UNCHANGED <<module, pool, ctrl, ppc, pppctx, hw, dialing, stop>>

KillDone ==
  /\ PppAt("kill") \/ PppAt("lastkill")
  /\ port["ppp"] \notin pppd
  /\ FreePort("ppp")
  /\ ppc' = IF ppc = "kill" THEN "freeing" ELSE "lastfreeing"
  /\ UNCHANGED <<module, ctrl, pppctx, hw, world, stop>>

(* The rest of free_gsm_dataport().                                        *)
StopPool ==
  /\ PppAt("freeing") \/ PppAt("lastfreeing")
  /\ InPool("ppp")
  /\ ppc' = IF inside'["ppp"] # "out" THEN ppc ELSE StopReturn
  /\ UNCHANGED <<module, ctrl, pppctx, hw, world, stop>>

PppTerm ==
  /\ PppAt("term")
  /\ status' = DISCONNECT /\ network' = "STOP"
  /\ ppc' = "done"
  /\ UNCHANGED <<module, pool, ctrl, fail_cnt, hw, world, stop>>

-----------------------------------------------------------------------------
(* start_ppp_connect()                                                     *)

(* The thread has no port yet: allocate one, or return -1.                 *)
StartAlloc ==
  /\ PppAt("start") /\ port["ppp"] = NoPort
  /\ \/ AllocTest("ppp") /\ ppc' = "alloc"
     \/ lock /\ ppc' = "top" /\ UNCHANGED pool
  /\ UNCHANGED <<module, ctrl, pppctx, hw, world, stop>>

StartPool ==
  /\ PppAt("alloc")
  /\ InPool("ppp")
  /\ ppc' = IF inside'["ppp"] # "out" THEN "alloc"
            ELSE IF port["ppp"] = NoPort THEN "top" ELSE "apn"
  /\ UNCHANGED <<module, ctrl, pppctx, hw, world, stop>>

StartHasPort ==
  /\ PppAt("start") /\ port["ppp"] # NoPort
  /\ ppc' = "apn"
  /\ UNCHANGED <<module, pool, ctrl, pppctx, hw, world, stop>>

(* A mutant of StartApn: failed lookups count against the connection.      *)
StartApn_KeepsFailCnt ==
  /\ PppAt("apn")
  /\ \/ /\ status' = SELECTED_APN /\ network' = "CONN"
        /\ ppc' = "dial"
        /\ UNCHANGED <<event, fail_cnt>>
     \/ /\ status' = DISCONNECT /\ network' = "STOP"
        /\ fail_cnt' = (fail_cnt + 1) % FailMod
        /\ event' = "reset"
        /\ ppc' = "top"
  /\ UNCHANGED <<ready, pwr_status, open, pool, ctrl, hw, world, stop>>

(* case DISCONNECT: set_ppp_disconnect() and select_apn().  An APN falls   *)
(* through to case SELECTED_APN; no APN asks for a reset of the module and *)
(* leaves the port allocated.                                              *)
StartApn ==
  /\ PppAt("apn")
  /\ \/ /\ status' = SELECTED_APN /\ fail_cnt' = 0 /\ network' = "CONN"
        /\ ppc' = "dial"
        /\ UNCHANGED event
     \/ /\ status' = DISCONNECT /\ network' = "STOP"
        /\ fail_cnt' = (fail_cnt + 1) % FailMod
        /\ event' = "reset"
        /\ ppc' = "top"
  /\ UNCHANGED <<ready, pwr_status, open, pool, ctrl, hw, world, stop>>

(* case SELECTED_APN: start_ppp_dial_cmd() forks a dial script if the port *)
(* is open; its result is not looked at.                                   *)
StartDial ==
  /\ PppAt("dial")
  /\ \/ UNCHANGED dialing
     \/ open[port["ppp"]] /\ dialing' = dialing \cup {port["ppp"]}
  /\ status' = CONNECTING
  /\ ppc' = "top"
  /\ UNCHANGED <<module, pool, ctrl, network, fail_cnt, hw, pppd, iface, stop>>

-----------------------------------------------------------------------------
(* inspect_network_status()                                                *)

(* status is never CONNECTED, so pppd is looked for by comport->dev_name.  *)
(* No pppd means DISCONNECT once PPPD_DIAL_TIMEOUT has passed since        *)
(* start_time: as start_time is always 0 that is at once, unless the       *)
(* millisecond clock has just wrapped.                                     *)
InspectPid ==
  /\ PppAt("inspect")
  /\ IF port["ppp"] = NoPort
       THEN ppc' = "crashed" /\ UNCHANGED <<status, network>>
       ELSE /\ ppc' = "ping"
            /\ \/ UNCHANGED <<status, network>>
               \/ port["ppp"] \notin pppd /\ status' = DISCONNECT /\ network' = "STOP"
  /\ UNCHANGED <<module, pool, ctrl, fail_cnt, hw, world, stop>>

(* ping_time has just been set to 0, so the ping is due, again unless the   *)
(* clock has wrapped within the last ping_interval.                        *)
InspectNotDue ==
  /\ PppAt("ping")
  /\ ppc' = "top"
  /\ UNCHANGED <<module, pool, ctrl, pppctx, hw, world, stop>>

(* A mutant of InspectGiveUp: the port is given back while pppd runs.      *)
InspectGiveUp_FreesPort ==
  /\ PppAt("ping") /\ fail_cnt >= MaxPppFail
  /\ status' = DISCONNECT /\ network' = "STOP"
  /\ FreePort("ppp")
  /\ ppc' = "top"
  /\ UNCHANGED <<module, ctrl, fail_cnt, hw, world, stop>>

(* Three failures: set_ppp_disconnect().                                   *)
InspectGiveUp ==
  /\ PppAt("ping") /\ fail_cnt >= MaxPppFail
  /\ status' = DISCONNECT /\ network' = "STOP"
  /\ ppc' = "top"
  /\ UNCHANGED <<module, pool, ctrl, fail_cnt, hw, world, stop>>

(* The ping lost more than 80 percent, or less but the interface's         *)
(* counters have not moved.                                                *)
InspectBad ==
  /\ PppAt("ping") /\ fail_cnt < MaxPppFail
  /\ network' \in {"BAD", "GOOD"}
  /\ fail_cnt' = fail_cnt + 1
  /\ ppc' = "top"
  /\ UNCHANGED <<module, pool, ctrl, status, hw, world, stop>>

(* The ping came back and the counters have moved.  The log line says "Set *)
(* PPP connection status to CONNECTED", the code is set_ppp_disconnect().  *)
InspectGood ==
  /\ PppAt("ping") /\ fail_cnt < MaxPppFail /\ iface
  /\ status' = DISCONNECT /\ network' = "STOP"
  /\ fail_cnt' = 0
  /\ ppc' = "top"
  /\ UNCHANGED <<module, pool, ctrl, hw, world, stop>>

-----------------------------------------------------------------------------
(* The environment                                                         *)

(* A dial script leaves a pppd on its port, or gives up.                   *)
DialEnds(p) ==
  /\ Running /\ UNCHANGED env /\ p \in dialing
  /\ dialing' = dialing \ {p}
  /\ pppd' = pppd \cup {p} \/ UNCHANGED pppd
  /\ UNCHANGED <<module, pool, ctrl, ppc, pppctx, hw, iface, stop>>

LinkUp ==
  /\ Running /\ UNCHANGED env /\ pppd # {} /\ hw = "ON" /\ ~iface
  /\ iface' = TRUE
  /\ UNCHANGED <<module, pool, ctrl, ppc, pppctx, hw, dialing, pppd, stop>>

(* A pppd exits by itself: the link is lost, the TTY hangs up.             *)
PppdExits(p) ==
  /\ Running /\ UNCHANGED env /\ PppdGone(p)
  /\ UNCHANGED <<module, pool, ctrl, ppc, pppctx, hw, dialing, stop>>

(* SIGTERM, SIGINT or SIGPIPE.                                             *)
Signal ==
  /\ Running /\ UNCHANGED env /\ ~stop
  /\ stop' = TRUE
  /\ UNCHANGED <<module, pool, ctrl, ppc, pppctx, hw, world>>

(* set_module_event() called by a client.                                  *)
ClientRequest ==
  /\ Running /\ UNCHANGED env
  /\ event' \in env.requests
  /\ UNCHANGED <<ready, pwr_status, open, pool, ctrl, ppc, pppctx, hw, world, stop>>

-----------------------------------------------------------------------------
CtrlNext ==
  \/ CtrlLeave \/ CtrlServe \/ CtrlNoEvent \/ CtrlServed
  \/ OffAlready \/ OffBegin \/ OffWait \/ OffCut \/ OffDone
  \/ OnAlready \/ OnHalFails \/ OnNoAnswer \/ OnOpen \/ OnDone
  \/ CtrlSkip \/ CtrlAlloc \/ CtrlPool \/ AtOk \/ AtFails
  \/ AtNothing \/ CtrlFree \/ CtrlTerm

PppNext ==
  \/ PppTurn \/ PppLeave
  \/ StopNoInterface \/ StopInterface \/ KillPppd \/ KillDone
  \/ StopPool \/ PppTerm
  \/ StartAlloc \/ StartPool \/ StartHasPort \/ StartApn \/ StartDial
  \/ InspectPid \/ InspectNotDue \/ InspectGiveUp \/ InspectBad \/ InspectGood

EnvNext ==
  \/ \E p \in Ports : DialEnds(p) \/ PppdExits(p)
  \/ LinkUp \/ Signal \/ ClientRequest

Next == CtrlNext \/ PppNext \/ EnvNext

Spec == Init /\ [][Next]_vars

(* Both threads are scheduled, and pppd dies of a SIGTERM it is sent again *)
(* and again (part of PppNext).  Nothing is assumed of the modem, of the   *)
(* network, of dial scripts or of signals.                                 *)
FairSpec == Spec /\ WF_vars(CtrlNext) /\ WF_vars(PppNext)

-----------------------------------------------------------------------------
(* What users can be.                                                      *)
Counts == -MaxDrift .. (2 + MaxDrift)

PoolTypeOK ==
  /\ port \in [Threads -> Ports \cup {NoPort}]
  /\ used \subseteq Ports /\ users \in Counts /\ lock \in BOOLEAN
  /\ inside \in [Threads -> {"out", "tested", "found", "taken", "given", "inc", "dec"}]
  /\ seen \in [Threads -> Ports \cup Counts \cup {NoPort}]
  /\ \A t \in Threads :
       /\ inside[t] = "found" => seen[t] \in Ports
       /\ inside[t] \in {"inc", "dec"} => seen[t] \in Counts
  /\ raced \subseteq {"port", "users"}

(* Every variable has its type.                                            *)
TypeOK ==
  /\ PoolTypeOK
  /\ env \in Envs
  /\ ready \in NOT_READY .. ALL_READY
  /\ event \in Events
  /\ pwr_status \in {"OFF", "ON", "ERR"}
  /\ open \in [Ports -> BOOLEAN]
  /\ cpc \in {"loop", "served", "off", "offwait", "cut", "offdone", "on", "ondone",
              "check", "alloc", "at", "free", "freeing", "term", "exited"}
  /\ req \in Events \cup {"term"}
  /\ rv \in BOOLEAN
  /\ fails \in [MODULE_READY .. CHECK_REGISTRY -> 0 .. AtTimes]
  /\ ppc \in {"top", "stop", "laststop", "kill", "lastkill", "freeing", "lastfreeing",
              "term", "done", "start", "alloc", "apn", "dial", "inspect", "ping", "crashed"}
  /\ status \in DISCONNECT .. CONNECTED
  /\ network \in {"STOP", "CONN", "BAD", "GOOD"}
  /\ fail_cnt \in 0 .. (FailMod - 1)
  /\ hw \in {"OFF", "ON"}
  /\ dialing \subseteq Ports /\ pppd \subseteq Ports
  /\ iface \in BOOLEAN /\ stop \in BOOLEAN

(* gsmd as it is built, with nobody else to set the module's event.        *)
NoClients == env.requests = {}

(* power_on_module(), "Power on the GPRS module and open all the gprs data *)
(* port ... we must bind them together": while the module counts as ready  *)
(* its power is on and every data port is open, but for the moment in      *)
(* power_off_module() between the cut and the assignment of ready.  So it  *)
(* is in gsmd if the power switch does not fail.                           *)
ReadyMeansOpen ==
  NoClients /\ ~env.hal_faults /\ ready # NOT_READY /\ cpc # "offdone" => hw = "ON" /\ \A p \in Ports : open[p]

(* atcmd_check_ready(): a stage is left behind only with its static        *)
(* failure counter back at zero, through every reset in between, so that   *)
(* the next visit of the stage has all its tries.                          *)
StagesStartFresh ==
  \A s \in MODULE_READY .. CHECK_REGISTRY : ready > s => fails[s] = 0

(* inspect_network_status(): failures of an earlier connection, of the APN *)
(* lookup included, never count against a new one; and an unsigned char    *)
(* never wraps while a connection is up.                                   *)
FailCountBounded == status >= CONNECTING => fail_cnt <= MaxPppFail

(* gsmd: set_ppp_disconnect() leaves pppd running and the port allocated,  *)
(* and that keeps the control thread off it: until the program is told     *)
(* to stop, atcmd_check_ready() and atcmd_inspect_status() send no AT      *)
(* command to a port on which a pppd runs or a script is dialing.  The     *)
(* flag and the counter do what they are for in that: it holds up to the   *)
(* first time that both threads are between the test and the setting of    *)
(* the flag, or that one counts in the middle of the other's counting.     *)
NoAtCommandOnLink ==
  NoClients /\ ~stop /\ raced = {} /\ cpc \in {"at", "free"} =>
    port["ctrl"] \notin pppd \cup dialing

(* power_off_module(): the wait for users can hang the control thread only *)
(* as long as the PPP thread keeps its port; the control thread's own use  *)
(* of the ports never stands in its way, nor does a flag that both have    *)
(* passed: only an update of users that the other thread has overwritten   *)
(* can make it wait for nobody.                                            *)
HangsOnlyOnPpp ==
  \/ []<>(cpc # "offwait" \/ ~Running)
  \/ <>[](port["ppp"] # NoPort)
  \/ <>("users" \in raced)

(* ppp_thread_workbody(): after a signal the PPP thread leaves its loop    *)
(* and terminates its context, from wherever it is.                        *)
PppThreadStops == stop ~> (ppc = "done" \/ ~Running)

(* inspect_network_status() and kill_pppd_process() read                   *)
(* comport->dev_name: in gsmd the PPP thread has a port whenever it does   *)
(* so, over all resets, lost links and failed stops, as long as no update  *)
(* of users is lost and lets power_off_module() cut a module in use.       *)
PppHasPort == NoClients /\ "users" \notin raced => ppc # "crashed"

(* alloc_gsm_dataport() and free_gsm_dataport() are called in pairs: no    *)
(* thread overwrites or frees a pointer it does not hold, and no port has  *)
(* two owners before both threads have passed the test of the flag at      *)
(* once; frees, scans and counts may overlap in any way.                   *)
Owner == INSTANCE PortOwner WITH owned <- port
ImplementsOwner == Owner!Init /\ [][Owner!Next \/ "port" \in raced]_port

-----------------------------------------------------------------------------
(* What comments and log messages of the code say, and the code does not   *)
(* do.                                                                     *)

(* start_ppp_connect(): "Select APN failure, request to reset GPRS module" *)
(* -- a request made while the module is ready takes its readiness away.   *)
ResetServed ==
  (event = "reset" /\ ready = ALL_READY) ~> (ready # ALL_READY \/ stop \/ ~Running)

(* inspect_network_status(): "Set PPP connection status to CONNECTED."     *)
GoodMeansConnected == [][InspectGood => status' = CONNECTED]_vars
=============================================================================
