# A verification development for the FL2440 board software

The repository is the software of an S3C2440 (ARM920T) board: boot loaders,
kernel patches, drivers, third-party build scripts, and the author's own
programs, most of which stand on one library, `src/src/program/cp_library`. Here
are TLA+ modules of the parts of it that have a logic of their own, the TLC
configurations that check them on small instances, and TLAPS proofs.

Paths below are relative to `src/src/program/` unless they start with `src/`.

1. [The system](#1-the-system)
2. [The modules and the code](#2-the-modules-and-the-code)
3. [The runs](#3-the-runs)
4. [Bounds and fairness](#4-bounds-and-fairness)
5. [The proofs](#5-the-proofs)
6. [What was found](#6-what-was-found)
7. [What is not modelled](#7-what-is-not-modelled)
8. [Plan](#8-plan)

## 1. The system

| Component | State | Operations | Meets | Hard about it | What makes it correct |
|---|---|---|---|---|---|
| **GPRS data port pool** `cp_library/cp_gprs.c:106-174` | `module->comport[]` with `used` marks, `users`, a function-static flag | `alloc_gsm_dataport`, `free_gsm_dataport` | control, PPP and SMS threads | the flag is tested and set in two steps; `users++` is unlocked; `free` ignores the flag | a port has one owner, a mark tells the truth, `users` counts, the flag is not left set |
| **GPRS control thread** `cp_library/cp_gprs.c:176-705` | `ready`, `event`, `pwr_status`, three static failure counters | power on, off, reset; three AT checks; status inspection | HAL, modem, port pool, PPP thread | waits for `users` on the thread that serves the request; partial failures of power on and off; counters that outlive a reset | a ready module is on and open, a check has all its tries, a request is served |
| **PPP thread** `cp_library/cp_ppp.c` | `PPP_CTX`: `status`, `network`, `fail_cnt`, `comport` | APN lookup, dial, ping, stop and kill | the port pool, `pppd`, the dial script, `module->ready` | reads `ready` once per turn; forgets a link without ending its `pppd` | it has a port when it uses one, no AT command meets a link, it ends after a signal |
| **Epoll event loop** `cp_library/cp_fds.c`, `cp_sock.c`, `cp_network.c` | `CP_FDS`: epoll set, event queue, task array, registries; a flag for each in `CP_SOCK` | detect, process, detect timeouts, accept, destroy, connect | the services' callbacks, kernel, peers | callbacks free sockets while the loop is in the containers; stale events of tasks; a receive of 0 bytes that is no disconnect; full queue | containers hold live sockets only, flags and counts tell the truth, peers are heard |
| **Containers** `cp_library/cp_queue.c`, `cp_array.c`, `cp_vector.c`, `cp_ringbuf.c` | linked queue, sparse array, growing vector, power-of-two ring | add, remove, search | the event loop, loggers | off-by-one limits, removal from the middle, absent data | first in, first out; nothing lost or twice |
| **Serial port and AT commands** `cp_library/cp_comport.c`, `cp_atcmd.c`, `cp_gsmmux.c` | descriptor, connected mark, receive buffer | open, send, receive, send-and-match | modem | late answers, answers longer than what the call has time to throw away | an answer belongs to its command |
| **HAL** `cp_library/cp_hal.c` | power and LED ioctls | get and turn power | kernel | every call may fail | - |
| **Processes and signals** `cp_library/cp_proc.c` | `g_cp_signal`, pid file | daemonise, record pid, signal handler | every program | check and record of the pid file are two steps | one daemon per pid file |
| **Logger, time, strings, ini** `cp_library/cp_logger.c`, `cp_time.h`, `cp_string.c`, `cp_dictionary.c`, `cp_iniparser.c` | log file, buffers | formatting, file output, rollover | everything | clock wrap | - |
| **Daemons** `fwed/gsmd`, `fwed/gpsd`, `fwed/zigd` | the contexts of the above | main loops | threads, GPS receiver | gsmd starts PPP and runs control in `main()` | see control and PPP |
| **Serial to network converter** `converterd/` | epoll set, serial port, `sock.status`, `sock.fd` | open the port, connect, forward both ways, reconnect | serial device, server | edge-triggered descriptors read once per event, connections that fail late, an `epoll_ctl()` that fails | status and epoll agree, a peer that takes turns is heard, a living connection comes back unless a write to a reset peer stops the program |
| **Drivers** `src/src/driver/plat_button.c`, `plat_led.c`, `s3c_led.c`, `plat_adc.c`, `dev_adc.c`, `input_kbd/kbd_driver.c` | key status, timers, wait queues, LED blink state | interrupt, timer, open, read, poll, ioctl | user processes | interrupt against timer and reader, bounces, errors that return with a lock or an interrupt held, `open()` and `release()` that sleep and overlap | no button goes deaf, no press is lost, a sample belongs to its reader, no reader sleeps on a finished event, nothing reaches freed memory |
| **Boot loader** `src/src/bootloader/myboot` | receive pointer and block number; NAND geometry | xmodem receive, NAND erase and write | host, flash | lost, repeated and damaged blocks, bytes of a block taken for commands | what is flashed is what was sent |
| **TLV packets** `tlv/` | - | pack, unpack, CRC | - | lengths at the limit of the buffer | unpack inverts pack |
| **Samples and exercises** `samples/`, `unp/`, `apue/`, `protocol/`, `openssl/`, `ipc-kernel-apps/`, ... | - | course material | - | - | - |
| **Vendored and build files** `src/src/3rdparty`, `src/src/linux`, `src/src/crosstool`, `src/src/bootloader/u-boot*`, yaffs2, dlmalloc, ldd3 samples | - | - | - | - | - |

How the parts meet in the programs that are modelled:

- `gsmd` (`fwed/gsmd/gsmd.c:119-150`) initialises one `MODULE_INFO`, starts the
  PPP thread (`ppp_thread_start`) and calls `ctrl_thread_start` on the main
  thread. The threads share `MODULE_INFO` without a lock: the control thread
  writes `ready`, which the PPP thread reads; the PPP thread writes `event`
  (a reset request), which the control thread reads; both use the port pool. A
  signal sets `g_cp_signal.stop`, which both loops read.
- a server (`cp_library/test/swe_tpdud.c:346-352`) has one thread that calls
  `cp_fds_detect_event`, `cp_fds_proc_event` and `cp_sock_detect_timeout` in
  turn. What happens to sockets between two calls is decided by the kernel,
  what happens in the middle of a call by the callbacks. A client
  (`cp_library/test/test_sock_client.c:78-103`, `swe_tpdud.c:109-143`) calls
  `cp_sock_connect_regist` again and again until its socket is connected.
- the converter (`converterd/cvd_main.c:153-237`) is one thread in a loop: open
  the serial port if it is closed, connect if the socket is not, wait for
  events, read each descriptor once.
- a driver has up to three contexts on one processor: the interrupt, which may
  cut into anything; the timer, which runs when no process does; and the
  processes that open, read and close. Opening and closing sleep on the way, so
  that another process can open the device in the middle of them.
- the boot loader (`src/src/bootloader/myboot/xmodem.c`) has the processor to
  itself; what comes over the serial line is all it meets.
- `send_atcmd()` (`cp_library/cp_atcmd.c:509-640`) runs on one thread while the
  modem answers when it likes, after the call has given up, too.

The hazards, each with its line and the properties that watch it, are listed in
`PROJECT.json`.

## 2. The modules and the code

```
PortOwner          what the pool promises: Acquire, Release
   ^  implemented by
   |
   +-- PortPool    alloc and free, access by access     <- PortPool_proofs, MCPortPool
   +-- Gprs        control and PPP threads of gsmd      <- Gprs_proofs, MCGprs

CpFds              the event loop and its containers    <- CpFds_proofs, MCCpFds

Button             plat_button.c                    \
Keypad             kbd_driver.c                      >  <- Drivers_proofs, MCDrivers
Adc                dev_adc.c                        /

Converterd         the converter's thread           \
AtChannel          send_atcmd() and a modem          >  <- Links_proofs, MCLinks
CpSock             cp_sock_connect_regist()         /
Xmodem             xmodem.c, a sender and the line      <- Xmodem_proofs, MCLinks
```

Links_proofs extends MCLinks and Xmodem_proofs, and Drivers_proofs extends
MCDrivers, so that they can speak of the components together as well.

MCDrivers and MCLinks put together components that share no state. The variable
`part`, chosen in `Init`, says which of them a behaviour is about; the others
keep their initial values. So each component is explored on its own, as large
as it is, and one run answers one question of several of them.

**PortOwner** is the contract: a thread without a port may get one nobody has,
a thread with a port may give it back.

**PortPool** has one action per access of `alloc_gsm_dataport()` and
`free_gsm_dataport()` to shared memory: the test of the static flag, its
setting, each look at a mark, the write of mark and pointer, the clearing, and
`users++` and `users--` as a read and a write. `pc`, `idx` and `tmp` are a
thread's place in the function, its loop index and its register. The variable
`schedule`, chosen in `Init`, says how the calls may overlap: `any` - as the
code allows; `flag` - the region between the flag's test and its clearing is
not entered twice, as the flag is meant to do; `serial` - calls do not
overlap. A property that names a schedule is checked, and proved, for it.

**Gprs** models each handler of the two threads as the actions between two
accesses to what the other thread or the environment can change. `cpc` and
`ppc` are the threads' places. In the names, `Ctrl...`, `On...`, `Off...` and
`At...` are the control thread (`ctrl_thread_start`, `power_on_module`,
`power_off_module`, `atcmd_check_*`), `Ppp...`, `Start...`, `Inspect...`,
`Stop...` and `Kill...` the PPP thread (`ppp_thread_workbody`,
`start_ppp_connect`, `inspect_network_status`, `stop_ppp_connect`,
`kill_pppd_process`). The environment is the power switch, which may fail
(`env.hal_faults`), clients of `set_module_event()` (`env.requests`; gsmd has
none), the dial script and `pppd` (`DialEnds`, `LinkUp`, `PppdExits`), and the
signal. What an AT command answers is a choice between good, bad and nothing;
clocks are choices between due and not due. The calls on the pool are cut at
their accesses to what the threads share, as in PortPool: `AllocTest`,
`AllocScan` or `AllocNone`, `AllocMark`, and `FreePort`, then `CountLoad` and
`CountStore` for `users`; `inside[t]` and `seen[t]` are where a thread is in them
and what it has read. Nothing there keeps the threads apart, and so they race:
for a port, when both are between the flag's test and the mark, and for `users`,
when one counts between the other's read and write. The history variable `raced`
remembers which of the two has happened, and `env.races` bounds which may. What
the code promises, it promises up to a race, and each property names the race
that ends it: one owner per port (`ImplementsOwner`) the race for a port, a NULL
port and the wait for `users` the race for the counter, and `NoAtCommandOnLink`
either.

**CpFds** is one `CP_FDS` with one listening socket and the sockets it accepts.
`epoll`, `queue`, `data`/`items` and `accept_list`/`accept_cnt` are the four
containers, `flag` the four bits of `CP_SOCK.flag` that say which of them a socket
is in, `live` what is allocated; a `CP_SOCK` that is freed can be allocated again
for the next connection. `pc`, `todo`, `i` and `cur` are where the thread is:
which of the three calls, which events or sockets are still to visit, the task
loop's index, and the socket whose callback runs. Callbacks are made of steps -
receive, end another connection, end the own one, ask to be called every turn,
stay a task with the event as it is (`CbStay`, `swe_tpdud.c:92-103`), be done -
which are what the services of `test_sock_server.c` and `swe_tpdud.c` do with the
interface. A receive of 0 bytes (`ReceivesNone`) is what `cp_sock_recv()` answers
at the end of the stream, when there is nothing to read, and when the buffer has
no room (`full`); the services end the connection on each of the three (`CbGone`).
One `epoll_wait()` reports no more than `MaxOnce` sockets (`CP_MAX_EVENT_ONCE`,
`cp_fds.h:31`). `max_event` is chosen in `Init`. The queue and the array are
modelled by what their operations do to their contents, including `cp_rmqueue()`
running off the end (`RunsOff`).

**Button** has the three contexts of `plat_button.c`. `Interrupt` is
`s3c_button_intterupt()`, one action since nothing cuts into it but another
button's interrupt; `TimerFires` and `TimerLow`, `TimerHigh` are the timer's
handler cut in two at its reading of the pin, because the contact can bounce and
interrupts come in between. `button_open()` and `button_release()` are loops over
the buttons (`at`), with the failure branch of the first as it is written
(`OpenFails`, `UndoOne`, `UndoDone`), and the second with its two loops ("closing"
gives the interrupts back, "deleting" the timers); "oops" is a kernel that
followed a bad pointer. `kmalloc()`, `request_irq()` and `free_irq()` sleep, and
nothing refuses a second `open()`. `OpenAgain` lets one come, once in a behaviour,
at any point of the first, of a `release()` and of a `read()`; `again` and `at2`
are how far it is. It has the same pointers to timers and statuses: it initialises
them again (`strays` are timers still pending that `del_timer()` does not know any
more, "forgotten" readers sleep on a wait queue that was emptied), gets the
interrupts that a `release()` has freed already, and frees what the others use
when it cannot have the next. Its own file is not read or closed. `button_read()`
is cut at the test of `ev_press`, the sleep, the clearing and each copy. `unread`
is no state of the code: it remembers which presses no `read()` has looked at.

**Keypad** is `kbd_driver.c` in the same way: the interrupt sets the key's timer
anew, the timer's handler reads the pin and reports; `probe()` and `remove()` go
through the keys. `wild` are the timers that are pending in memory that is
freed, `late` those keys whose interrupt came between `del_timer()` and
`free_irq()`, `told` what the input layer believes.

**Adc** is `adc_read()` and `adc_irq()` of `dev_adc.c` with the mutex
`ADC_LOCK`. A sample goes by the name of the `read()` that started its
conversion. `nonblock`, `signals` and `touch` say, for a behaviour, which files
have `O_NONBLOCK`, whether signals come and whether the touchscreen, which shares
the interrupt, is used.

**Converterd** is `main()` of the converter with `cp_sock_connect()` of
`converterd/cp_socket.c`. `vpc` is the place in the loop, `events` what
`epoll_wait()` returned and is still to serve. The kernel's side is in the model
because the code depends on it: `edge` are the edges epoll has not told yet,
`unread` and `eof` what waits behind them, `conn` the connection in progress. A
socket that the code forgets without closing is counted in `leaked`. A peer may
close (`PeerCloses`), reset the connection (`PeerResets`), or have it gone before
`connect()` tells of it (`PeerDrops`); a write to a connection that was reset
raises SIGPIPE, whose handler sets `g_cp_signal.stop` (`cp_proc.c`), and the loop
ends at its next test ("ended"). `polite` is a peer that waits until what it did
was noticed and sends no more at a time than the buffer holds; `ctlfails` lets
`epoll_ctl()` fail.

**Xmodem** is `xmodem_recv()` byte by byte, a sender that keeps the protocol, and
a line that changes and loses bytes and replies, `MaxFaults` times in all. A byte
is known by its place in the file and by the command it looks like. Any byte of a
packet may look like any command: numbers (4 is an EOT, 24 a CAN, 1 a SOH),
complements, data, check sums, and what the line makes of a byte. `looks`, chosen in
`Init`, says which do, so that the receiver takes them for commands when it is out
of step, as the code does. A check sum is right for its block's bytes only.

**AtChannel** is `send_atcmd()` byte by byte: throw away what waits in the port
until it is found empty or 200 ms have passed, send, read until what was read
matches. Throwing away takes `comport_recv()` 10 ms and more for each byte
(`cp_comport.c:500`), so `DrainMin`, the bytes that 200 ms are enough for, is below
20 and an answer may well be longer. A byte is "own" when it belongs to the
answer to the command that waits and "old" otherwise; `owed` are the commands the
modem has still to answer, whenever it likes. `crowded` says of a call that more
waited as it began than it had time for, or that an earlier command was not
answered to the end.

**CpSock** is the connecting side that CpFds leaves out: a call of
`cp_sock_connect_regist()` from its start through the labels `connecting`,
`connected`, `failed` and `del_regist` (`kpc`), the descriptors the process has
open, and what `cp_add_epoll_event()` and `cp_sock_term()` do to epoll, client
list, task array and `event_cnt`. The thread makes one call after the other, for
any of several services; the kernel's part of a connection (`attempt`) goes on
between and during the calls. `cp_fds_destroy_sock()` and the idle timeout, which
may put a socket into the task array while it is connecting, are the other
operations.

Every definition's source lines are in `PROJECT.json` under `map`. In each
module the definitions with a suffix (`FreeMark_KeepsMark`) are mutants: forms a
slip in the code could give the definition below them. They are used by no
specification; each shows that one of the properties can fail.

## 3. The runs

| Run | Asks | Result |
|---|---|---|
| `pool` (MCPortPool, `Pool.cfg`) | three threads, two ports, all three schedules: what holds under which | all hold, 158305 states |
| `pool_used` (`PoolUsedTells.cfg`) | does a mark tell the truth under every schedule? | no (finding 1) |
| `pool_first` (`PoolFirstPort.cfg`) | is the first port kept for the PPP thread? | no (finding 2) |
| `gsmd` (MCGprs, `Gprs.cfg`) | the two threads in four environments: as built, racing for a port and racing for `users`, with a power switch that fails, with clients that ask for resets | all hold, 945348 states |
| `gsmd_reset` (`GprsReset.cfg`) | is a reset the PPP thread asks for carried out? | no (finding 3) |
| `gsmd_good` (`GprsGood.cfg`) | is a link that was found good marked connected? | no (finding 4) |
| `cpfds` (MCCpFds, `CpFds.cfg`) | the loop with two clients and a queue without and with room for what one `epoll_wait()` reports | all hold, 229253 states |
| `cpfds_gone` (`CpFdsGone.cfg`) | does a receive of 0 bytes mean that the peer has closed? | no (finding 5) |
| `drivers` (MCDrivers, `Drivers.cfg`) | each driver with three buttons, two keys or two users, every interleaving one processor allows, and a second `open()` of the buttons | all hold, 278245 states |
| `drivers_adc` (`DriversAdc.cfg`) | is there a sample where the ADC's reader says there is? | no (finding 6) |
| `links` (MCLinks, `Links.cfg`) | converter, XMODEM, AT commands and connecting services, with peers and lines that fail | all hold, 134392 states |
| `links_event_cnt` (`LinksEventCnt.cfg`) | does `event_cnt` count the sockets in epoll? | no (finding 7) |

What the passing runs show:

- **pool**: under every schedule the flag is not left set (`FlagNotLeftSet`).
  When no two threads are between the flag's test and its clearing, a port has
  one owner (`Exclusive`), marks are true (`UsedIffOwned`) and the pool is a
  PortOwner (`ImplementsOwner`), although `free` and the counting still overlap
  with everything. `users` is exact only when calls do not overlap at all
  (`UsersExact`).
- **gsmd**: readiness, power and open ports stay together (`ReadyMeansOpen`)
  when the switch works; a check starts with all its tries (`StagesStartFresh`);
  failures are not carried from one connection to the next and the
  `unsigned char` does not wrap (`FailCountBounded`). These hold whatever the
  threads race for. Up to the race for a port the threads keep PortOwner's contract
  (`ImplementsOwner`). As long as nobody but gsmd asks for events, the PPP
  thread does not follow a NULL port up to the race for `users` (`PppHasPort`), and
  the control thread sends no AT command to a port that carries a link up to the
  first race of either kind (`NoAtCommandOnLink`). That these limits are needed
  shows when they are taken away: once both threads are past the test of the
  flag, the control thread can hold the port that dials. The wait for
  users hangs only on the PPP thread's port, or on a count that a race has spoilt
  (`HangsOnlyOnPpp`), and after a signal the PPP thread leaves its loop
  (`PppThreadStops`).
- **cpfds**: no container and no running loop holds a freed socket, whichever
  callback frees whichever socket (`NoDangling`); counts are sizes, failed
  accepts included (`CountsTell`); no socket is in queue and array
  (`NotTwice`). Living connections do get ended (finding 5), but never by the
  queue: a receive of 0 bytes in a socket that is no task and has room in its
  buffer is the end of the stream (`GoneFromQueueIsClosed`). With room for what
  one `epoll_wait()` reports, which 128 and the programs' 1024 always give, the flags
  tell the truth (`FlagsTell`), what a peer sends is read (`BytesAreRead`) and
  a connection that is closed is ended (`ClosedAreEnded`).
- **drivers**: a button that ignores interrupts has a timer that will end that
  (`ButtonNotDeaf`); a press is either marked by `ev_press` or ahead of the copy
  of the reader that cleared it (`PressNotLost`), a second `open()` included, and
  without one a reader does not sleep through a press (`PressIsRead`). What the
  keypad told the input layer last is the pin's level, or something is about to
  report it (`ReportFollowsPin`). A `read()` of the ADC without signals and
  touches returns the sample of its own conversion (`ReadIsFresh`), and with no
  file in `O_NONBLOCK` the mutex is always given back (`AdcLockReleased`). What is
  left after the last close, a failed open or probe, and after `remove()` is as
  little as `FreedIsUnused` and `OnlyLateTimersLeft` say, which is more than
  nothing: see section 6. `FreedIsUnused` promises nothing once a second `open()`
  has come.
- **links**: the converter's status and epoll agree (`ConnectedIsWatched`); a peer
  that waits its turn is heard in spite of one `read()` per edge (`PeerIsHeard`).
  While the server can be reached a connection comes back that lives at both ends
  (a `CONNECTED` that is over does not count), if the peer is polite and
  `epoll_ctl()` works, until late failures have used up the descriptors or a SIGPIPE has stopped
  the program (`Reconnects`). Whatever the line does and whatever the bytes look
  like, what XMODEM has put into memory is the beginning of the file; that it is
  all of it when the transfer is reported complete needs that no byte but the
  sender's EOT looks like one, block numbers, check sums and bytes that the line
  has changed included (`ImageIsFile`). A transfer ends as long as data do not
  look like a SOH (`TransferEnds`). An AT command is told the answer of an earlier
  one only if more of it waited than the call has time to throw away, or it was
  not all there yet (`AnswerIsOwn`). Whichever way connections fail, client list,
  epoll, task array and descriptors agree between two calls (`ClientsWhole`).

## 4. Bounds and fairness

- **pool**: three threads are the control, PPP and SMS threads of the code
  (SMS under `CONFIG_SMS`); two ports make the pool empty while one thread waits
  and let a scan skip one port. `MaxDrift = 0` stops counting where lost updates
  have taken `users` out of `0..3`; only the schedule `any` gets there. Threads
  are symmetric.
- **gsmd**: `NPorts = 2` lets each thread have a port and leaves none;
  `AtTimes = 1` gives a check one failure before it gives up; `MaxPppFail = 1`
  and `FailMod = 3` (2 and 4 in the two runs on gsmd as built) let failures of the
  APN lookup and of pings add up to the limit and pass it by one. The relations
  between the constants are the code's (10, 3, 256). An environment allows one
  kind of race or none: what survives one kind is checked for the other kind
  alone, and no property promises anything after both. `MaxDrift = 0` stops
  counting as in `pool`.
- **cpfds**: two clients are enough for one callback to end another's
  connection, for a queue of two, and for a slot to be freed before or behind
  the loop's index. With `MaxOnce = 2` one `epoll_wait()` leaves one of three ready
  sockets out, and a `max_event` of 1 has no room for what it reports, one of 2
  has; `cp_add_epoll_event()` lets one socket more in than that. One waiting
  connection at a time. `MaxClient = 2` is the number of clients. A program may
  ask `cp_fds_init()` for any `max_event` up to 1024; the programs of the
  repository all ask for that.
- **drivers**: with two buttons that are pressed one bounces while the other's timer
  runs; with three buttons or two keys a loop of open, close, probe or remove can
  stop at the first, in the middle and at the last, and undo more than one; which
  interrupts another driver has is any subset. Two readers compete for a press,
  two users for the mutex. The buttons make two parts: in "button" both readers are
  there and no second `open()` comes, in "overlap" one does, with one `read()` at a
  time and one button that is pressed. Nothing is counted, so nothing else is
  bounded.
- **links**: a buffer of one piece and two unread pieces let a peer overrun it;
  `FdLimit = 2` lets late failures use up the descriptors. Three blocks with block
  numbers modulo 3 let every number come, and with two faults there is a fault
  while the receiver still recovers from another; two bytes of data let a block
  be cut in the middle. In `SomeLooks` one byte, of any kind, is any command, or all
  bytes of some kinds are SOHs, number 1 always. `MaxNaks` bounds what waits for a
  sender that has not started, and a sender goes on only with fewer than `MaxLine`
  bytes, one packet, on the line. Two commands owed, four bytes in the port and a
  `DrainMin` of two let an old answer survive the throwing away, and one that fits
  be thrown away. Three services with two descriptors and a `MaxEvent` of 1 run out
  of both. 256 is the code's `Width`.
- **Fairness**. `Gprs!FairSpec` assumes weak fairness of each thread's steps: both
  are ordinary scheduled threads whose loops sleep and go on. The kill of `pppd`
  is a step of the PPP thread that may or may not succeed each time; that one of
  repeated SIGTERMs ends `pppd` is part of that fairness. `CpFds!FairSpec` assumes
  that `main()` goes on calling the loop, and of `epoll_wait()` what its manual
  page says, that successive calls go round the ready sockets when there are more
  than one call reports (strong fairness of a report, for each client).
  `MCDrivers!FairSpec` assumes that a timer handler that runs comes to its end and
  that conversions end; that a reader runs again and again although the timer of a
  button that is held cuts it off each time is strong fairness, which stands for a
  processor that is not busy with interrupts all the time. `MCLinks!FairSpec`
  assumes that the converter's loop and the boot loader go on, that a connection
  in progress is made or refused in the end (TCP's own time limit), and that an
  XMODEM sender takes replies and sends again when none comes, as the protocol
  asks. Nothing is assumed of modem, network, dial script, signals, clients,
  peers, fingers or of the line.
- Deadlock is not checked: MCDrivers stops where the kernel follows a bad pointer
  and where the ADC's mutex is never given back, MCLinks when a transfer is
  over or a SIGPIPE has ended the converter; gsmd ends or waits for ever by design of the model
  (`CtrlTerm`, the wait for users), the pool stops counting at its bound, and the
  event loop ends where the code follows a NULL pointer.

## 5. The proofs

All obligations are proved by TLAPS for every value of the constants that meets
the named assumptions (a positive number of ports, `NoPort` not a number,
`FailMod > MaxPppFail > 0`, environments of the stated shape; finite sets of
threads, of clients and of services, a positive `max_event`, `MaxOnce`,
`max_client` and backlog; at least one button and one key; `NoUser` and `Old` no
users; positive bounds of queues and descriptors, any `DrainMin`; a file of at
least one block of at least one byte, at least two block numbers, and any bytes
that look like any commands). Some theorems state what no run checks by
name: the safety half of a liveness property, what becomes of a finding in all
behaviours, or what holds in the middle of a call.

**PortPool_proofs**

| Theorem | Says |
|---|---|
| `TypeCorrect` | `Spec => []TypeOK` |
| `FlagReleased` | `FlagNotLeftSet` under every schedule |
| `PortExclusion`, `UsedTruthful` | `Exclusive`, `UsedIffOwned` |
| `PoolImplementsOwner` | every step is a step of PortOwner or a stutter |
| `UsersCounted` | `UsersExact` |
| `PortsNotLost` | `NoPortLost`: under every schedule a port that is marked used has an owner |

The types need `TakeInRange` (a thread about to take looks at a port). The
ownership properties follow from `LockedInv`: a thread inside the region owns
nothing yet, one that counts owns something (`Standing`); the port found is
still unused (`FoundIsFree`), which is what a second thread in the region would
break; no port is shared and marks tell the truth. `Respected` says what each
schedule means and `CalmIsLocked` that both calm schedules keep the region to
one thread. `UsersCounted` adds `CountInv`: `users` is the number of threads
whose call has counted itself, and a thread's register is not stale.
`PortsNotLost` says which half of the damage the races cannot do: two threads may
own one port and a mark may be cleared too early, but no port is marked used for
ever, as each mark is set by a thread that goes on to own the port and to clear it.

**Gprs_proofs**

| Theorem | Says |
|---|---|
| `TypeCorrect` | `Spec => []TypeOK` |
| `StagesFresh` | `StagesStartFresh` |
| `FailuresBounded` | `FailCountBounded` |
| `ReadyOpen` | `ReadyMeansOpen` |
| `GprsImplementsOwner` | `Spec => ImplementsOwner`: up to the race for a port the pool is used as its contract says |
| `LinkUndisturbed` | `NoAtCommandOnLink`: up to the first race |
| `PppPortThere` | `PppHasPort`: up to the race for `users` |
| `ReadyStays` | `ReadyForGood`: until the signal, and up to the race for `users`, no step takes readiness or power away from a module that is ready |
| `PppPortStays` | `PortForGood`: until then the PPP thread does not give its port back |

`StepCases` sorts the steps into six groups, and a lemma for each group says what
it leaves alone. The strengthenings are `Doing` (where in the code which event
and stage is possible), `DialFresh` (`fail_cnt` is 0 when a script is started),
and those of the pool: `Places` (which call a thread can be in where), `Holding`
(where it has a port), `Marked` and `Exact`. The last two say what flag, marks and
counter are worth up to the race for each: a port that is held is marked and held
once, at most one thread is between the flag's test and its mark, and what it has
found is unmarked; `users` is the number of threads that have counted themselves
(`Share`), and a thread that counts has not read a stale number. The calls are
proved once, for either thread (`CallHolds`, `CallMarks`, `CallCounts`,
`CallPlaces`), and the threads' steps cite them. `GprsImplementsOwner` follows from
`Holding` and `Marked`: a port found under the flag has no owner. `PowerKnown` is what
the control thread knows of power and ports at each place, while nobody else
sets events.

The last four theorems rest on `Reset` and `Link`, for a gsmd without clients whose
counter no race has spoilt (`Undisturbed`). A
module that is ready is reset for the PPP thread only, and that thread keeps its
port then; the cut of the power comes after a wait for `users` to be 0, which
that port keeps from happening, so until the signal a module stays ready once it
is (`Reset`; `NoUsersNoPort` says that the end of the wait means no ports, by
`Exact`). The PPP thread therefore does nothing before the module is ready and never
stops a connection, and every dial script and every `pppd` is on the port it
holds (`Link`); that the control thread does not hold that port as well is
`Marked`, which is why `LinkUndisturbed` ends with either race and the others with
the one for `users` only. `ReadyStays` and `PppPortStays` make finding 3 a statement
about all behaviours, all numbers of ports and a faulty power switch, too: no reset
is carried out on a module that is ready.

**CpFds_proofs**

| Theorem | Says |
|---|---|
| `TypeCorrect` | `Spec => []TypeOK` |
| `NoneDangles` | `NoDangling`: no container and no running loop holds a freed socket |
| `Counted` | `CountsTell` |
| `CalledOnce` | `NotTwice` |
| `FlagsRight` | `FlagsTell`: with `max_event` no smaller than `MaxOnce`, for any number of sockets |
| `QueueCallsAreFresh` | `GoneFromQueueIsClosed`: no call from the queue is for an event of before |
| `NoneForgotten` | `AllKnown`: a socket that is allocated is in epoll, and in its server's list if it was accepted |
| `NoReportDropped` | `TurnEnds`, `ReportKept`: with that room, what epoll reports is queued or tasked, and no queued flag outlives a turn |

The inductive invariant `IInv` has a part per container (`ArrayInv`, `QueueInv`,
`EpollInv`, `RegistryInv`, `LiveInv`) and one for the thread. `NoDangling` alone
is not inductive: `cp_fds_destroy_sock()` decides by flags what to leave, so each
flag must be right about its container (for the queue in one direction only: what
is queued has the flag), an array entry must be where the socket's `index` says,
and a socket whose callback runs must not be queued, or `AddTask` would put it in
two containers. `Thread` says in which phases `todo` and the queue are empty,
which is why a callback may free a socket that a list was made of before. Each
operation on the containers has a lemma (`EnqueueStep`, `DequeueStep`,
`AddTaskStep`, `DelTaskStep`, `AcceptStep`, `DestroyStep`, `RunsOffStep`).
`RoomInv` adds the other direction of the queue's flag: what a turn has queued and
has still to queue is no more than one `epoll_wait()` reported (`AheadInv`, which
needs that a turn leaves the queue empty), so that the queue has room for it
(`RoomLeft`). `ToldInv` is for `GoneFromQueueIsClosed`: a client that
`epoll_wait()` has reported, that is queued, or that is called with event "in" and
is no task has bytes or a peer that has closed. For a task that is false (finding
5). `NoReportDropped` is the safety half of `BytesAreRead` and `ClosedAreEnded`.

**Drivers_proofs**

| Theorem | Says |
|---|---|
| `NoneDeaf` | `ButtonSpec => []ButtonNotDeaf` |
| `NoneLost` | `ButtonSpec => []PressNotLost` |
| `ButtonFreed` | `ButtonSpec => []FreedIsUnused`: until a second `open()` comes |
| `KeyReportsFollow` | `KeypadSpec => []ReportFollowsPin` |
| `KeypadLeavesLate` | `KeypadSpec => []OnlyLateTimersLeft` |
| `SampleFresh` | `AdcSpec => []ReadIsFresh` |
| `ReadersApart` | `OneInRegion`: the mutex excludes, after `-EAGAIN`, signals and touches as well |
| `NoneSleepsOn` | `SleeperIsWoken`: who waits has a sample, an interrupt or a conversion to wake it |
| `EachDriver` | `Spec => ButtonSpec /\ KeypadSpec /\ AdcSpec` |
| `DriversTypes` | `Spec => []TypeOK`, MCDrivers' |

`OpenLoops` and `KeyLoops` are the loop invariants of open, close, probe and
remove: which interrupts are requested when the loop is at a button, and that timers
and handlers belong to interrupts that are (or, for the keypad, came late);
`ClosingLoop` and `InRange` have the two steps of `release()` for each button.
`OpenLoops` ends where a second `open()` begins (`AgainStays`: there is only one), and
with it `FreedIsUnused`; the other properties of the button go on. With
them the properties of the handlers are inductive: `ButtonNotDeaf` because the
timer handler that finds the button still pressed sets the timer again before it
ends, `PressNotLost` with `Fresh` (a reader that does not copy has its index at
0), `ReportFollowsPin` as `Reported`, whose third case is stronger: a key whose
handler runs is covered by what the handler has read or by an edge or timer
after it, not by the last report. For the ADC, `Locked` says that only the user
with the mutex is between taking and giving it, and `Own` that a running
conversion, a pending interrupt and a sample that waits are that user's; the
theorem is about behaviours without signals and touches, where nothing leaves a
conversion behind. `SleeperIsWoken` needs neither restriction: a sample is taken away
by the holder of the mutex only, and nobody else waits then. It is the safety half
of `AdcLockReleased`. A behaviour of MCDrivers is one of each driver
(`EachDriver`), so what is proved of each holds of it.

**Links_proofs**

| Theorem | Says |
|---|---|
| `StatusTruthful` | `ConverterdSpec => []ConnectedIsWatched` |
| `OwnAnswer` | `AtSpec => []AnswerIsOwn` |
| `EventsRight` | `EventsFind`: an event the loop still has to serve finds data or the end of the stream |
| `PeerHasEdge` | `NoEdgeLost`: what a polite peer sent has an edge or an event until it is read |
| `ClientsAgree` | `CpSockSpec => []ClientsWhole` |
| `CountNeverLow` | `event_cnt` is at least the number of sockets in epoll, and that is at most `max_event + 1` |
| `DescriptorsOwn` | `OwnDescriptors`, in the middle of calls too |
| `EachProgram` | `Spec => ConverterdSpec /\ XmodemSpec /\ AtSpec /\ CpSockSpec` |
| `LinksTypes` | `Spec => []TypeOK`, MCLinks' |

`ConnectedIsWatched` is inductive as it stands. The converter's types need
`LeakFits`: a socket is leaked when a connection in progress fails, so there must
be room for it in the process while there is one. `EventsRight` and `PeerHasEdge`
share the invariant `Heeded`: an edge is forgotten only for an event, an event
only for its `read()`, and (`PoliteFits`) what a polite peer sends fits that one
`read()`; `NoEdgeLost` is the safety half of `PeerIsHeard`. `Cleared` is why an
answer is the command's own: in a call that is not `crowded`
(`ClearedUnlessCrowded`) what waits and what has been thrown away stay within
`DrainMin`, so throwing away finds the port empty, and from then on nothing but
the answer to this command is in it or to come. `AtInv` says that a command that
has begun can still be sent. `ClientsWhole` speaks of the time between calls;
`Settled` is what is true in the middle of one as well (only the socket the call
is about may lack its place in epoll or its descriptor, and a descriptor number
that it keeps after `close()` is nobody else's), `AtCaller` what is known of that
socket at each label. `Covered` shows that `event_cnt` errs in one direction only:
it is never below the number of sockets in epoll, so that it does not become
negative.

**Xmodem_proofs**

| Theorem | Says |
|---|---|
| `ImageRight` | `XmodemSpec => []ImageIsFile` |
| `XmodemTypes` | `XmodemSpec => []XmodemTypeOK` |
| `InStep` | `SenderInStep`: the sender is at the block taken last or at the next one |
| `CopiesInOrder` | a step of the receiver writes nothing or the next block, and nothing once it has finished |

For any length of the file, any block size, any number of faults, any Width of at
least two and whatever bytes look like commands. `ImageIsFile` alone says nothing
of what is still on the line, where block numbers come back every `Width` blocks.
`XmodemInv` adds, as long as the transfer goes on, `Window`. `Replies`: with k
blocks taken the sender is at block k or k + 1; at most one ACK is on its way, and
none when the sender is at k + 1 already. `OnLine`: the line is cut in two, with
bytes of block k before the cut and bytes of block k + 1 behind it; two block
numbers that follow each other are different modulo `Width` (`NumbersDiffer`,
`Remainder`), so the number the receiver waits for is that of block k + 1, it
comes from behind the cut, and as the line is a queue nothing of block k is left
from then on. That is all the receiver needs of the 256 numbers there are. A block
whose check sum is right is whole (`ReadSum` compares the bytes read with those
the sum stands for). Lost and changed bytes take away from a part or put noise in
it and keep the cut (`TailOnLine`, `NoiseOnLine`); what is sent goes to the end,
and of block k only while nothing of block k + 1 is on the line (`PutOnLine`).

Only model-checked: the liveness properties (`HangsOnlyOnPpp`,
`PppThreadStops`, `BytesAreRead`, `ClosedAreEnded`, `PressIsRead`,
`AdcLockReleased`, `PeerIsHeard`, `Reconnects`, `TransferEnds`), which need
fairness and `ENABLED`. Every invariant and every other property of the passing
runs is stated by a theorem.

## 6. What was found

1. `cp_gprs.c:119`: the static flag of `alloc_gsm_dataport()` is no lock. Two
   threads can take one port; when one frees it, it is marked unused while the
   other still uses it. (`pool_used`)
2. `cp_gprs.c:125`: "Preserve first comport for PPP thread" - the loop starts at
   port 0 for everybody. (`pool_first`)
3. `cp_ppp.c:412`: the reset requested after a failed APN lookup is never served.
   The PPP thread keeps its port, and the control thread waits in
   `power_off_module()` for `users` to be 0 before it changes anything the PPP
   thread would see. (`gsmd_reset`)
4. `cp_ppp.c:487`: where the log says "Set PPP connection status to CONNECTED." the
   code calls `set_ppp_disconnect()`; the next turn dials again on the port that
   carries the link. (`gsmd_good`)
5. `cp_sock.c:585,598`: `cp_sock_recv()` answers 0 for a buffer that is full and for
   `EAGAIN`, too, and the services take every 0 for "remote socket disconnect,
   remove it now" (`swe_tpdud.c:72,186`, `test_sock_server.c:36`). A timeout puts a
   socket into the task array, `proc_uplink_event()` returns without taking it out
   or clearing its event (`swe_tpdud.c:92-103`), and the turn after the next bytes calls
   it with the event it has already read for: a living connection is ended.
   (`cpfds_gone`)
6. `src/src/driver/dev_adc.c:115`: `adc_read()` does not look at the result of its
   wait. A signal ends it, and the reader goes on to line 119, "Getting here means
   that there is converted data" (the comment is in Chinese), without any; it
   returns the old sample and leaves its conversion to a later `read()`.
   (`drivers_adc`)
7. `cp_library/cp_network.c:262`: a socket whose connection fails while it is
   watched is freed without `cp_del_epoll_event()`. `event_cnt`, "current socket
   regist in epoll" (`cp_fds.h:56`), keeps counting it. After `max_event + 1` such
   failures - every downlink of `swe_tpdud` whose uplink fails late is one -
   `cp_add_epoll_event()` refuses every socket. (`links_event_cnt`)

Things the models take as they are, without a run of their own: `pppd_info->start_time`
is never set, so a dial is given up in the first turn that does not see its
`pppd` (`InspectPid`); `set_ppp_disconnect()` leaves `pppd` running; with clients
that ask for resets the PPP thread can follow its NULL port (`PppHasPort` is
about gsmd without clients); the control thread's end does not wait for the PPP
thread. Further:

- `plat_button.c:236-255`: an open that cannot get an interrupt leaves the first
  one requested, frees status and timers without stopping a timer, and walks off the
  array when the first button's is the one that is missing (`OpenFails`, "oops").
- `plat_button.c:191-257,311-329`: nothing keeps a second `open()` out of a `release()`
  or of another `open()`. It gets the first interrupt that a `release()` has freed,
  fails at the next, and frees what the other still uses, with an interrupt
  requested ("overlap"; `FreedIsUnused` without its condition fails there). Its
  `init_waitqueue_head()` makes the queue forget the readers that sleep in it.
- `kbd_driver.c:202-204`: an interrupt between `del_timer()` and `free_irq()` sets
  a timer that outlives the driver's memory (`late`, `wild`).
- `dev_adc.c:107`: a non-blocking `read()` that finds no sample returns with the
  mutex held (`AdcAgain`; `AdcLockReleased` is about the others).
- `cvd_main.c:200`: one `read()` per edge: what does not fit in the buffer, or a close
  that comes with data, waits for an edge that may never come, and the status stays
  at a `CONNECTED` that is over (`PeerIsHeard` and `Reconnects` are about a polite
  peer). A write to a peer that has reset the connection (`cvd_main.c:188`) raises
  SIGPIPE, which stops the program.
- `cp_socket.c:127-224` of the converter and `cp_sock.c:403-475`: "Try each address
  until we successfully connect or bind" - after a refusal the others are not
  tried. The converter forgets a socket that fails late without closing it
  (`ConnectLate`, `leaked`).
- `xmodem.c:43`: a block that is sent again because its ACK was lost is refused in
  the middle; the rest of it is taken for commands, as is a block whose SOH was
  lost. The number of block 4 is an EOT: without its SOH three blocks are reported
  as the whole file, as is any file cut at a byte that looks like an EOT
  (`ImageIsFile` says so); the number of block 24 is a CAN, which ends the
  transfer as cancelled. Data that look like SOHs are answered with a NAK each,
  each NAK with the block again, and the transfer need not end (`TransferEnds`
  excludes such data).
- `cp_atcmd.c:552`: 200 ms of throwing away, a byte in more than 10 ms, are less than
  one typical answer: the OK of a command that ran into its timeout can be taken for
  the next one's (`AnswerIsOwn` says when).
- `cp_sock.c:446-456`: a `connect()` that succeeds at once leaves `status` at
  `CONNECTING` and falls through `connected` to `failed`: the descriptor is closed, the
  answer is 0, and only the `epoll_ctl()` that fails on it ends the socket
  (`ConnectsAtOnce`). Late failures close the descriptor twice, with nothing
  opened in between (`Failed`, `Term`). The comment above `cp_sock_connect()`
  announces ">0:connect in progress"; the answer in that case is 0.
- `cp_sock.c:452,464`: the bytes of the pointer are copied to `saddr`, not the
  address; the second `connect()` passes them to a kernel that does not look at
  them.

## 7. What is not modelled

- Initialisation failures of gsmd and of the event loop; formatting, logging,
  configuration files.
- In Gprs: the contents of answers, addresses and statistics; elapsed time; the
  SMS thread (not configured); the window between the PPP thread's reads of
  `stop` and `ready` at the top of its turn, which `PppTurn` takes in one step.
- In CpFds: termination of all sockets, receive errors (which answer like a closed
  peer), events other than readable, and private data of sockets. The connecting side is
  a module of its own: CpSock has no callbacks and CpFds no connecting sockets;
  they have `event_cnt` and the task array in common, which in CpSock count
  the connecting sockets only. `malloc()` failures of both.
- In the drivers: failures of `kmalloc()`, a third `open()` and what is done with
  the second one's file; loading and unloading of `plat_button.c` and `dev_adc.c`,
  `poll()`, the word `read()` returns (status 2 of one button, "uncertain", is the
  bit of the next), the touchscreen's own driver. `plat_led.c` and `plat_adc.c`
  are an ioctl and a timer, or register access under one mutex, with nothing to
  interleave.
- In the converter: configuration, start as a daemon, the stop by SIGINT or SIGTERM,
  and the bytes themselves. In Xmodem: the size it returns, the stripping of
  trailing CTRL+Z (`xmodem.c:87`), and what `bootstrap.c` does with the image. In
  AtChannel: how an answer is found in what arrives, the 1023 byte buffer, signals
  that end a `comport_recv()` before its time, what a modem sends unasked, and the
  commands built on `send_atcmd()`.
- The pid file (`cp_proc.c:228`), log rollover, `time_elapsed()` and the
  clock's wrap, TLV packets: planned, below.
- Vendored code, patches, build scripts, register-level code and assembly: there
  is no logic of this repository in them, or none apart from the hardware. yaffs2
  with dlmalloc, the samples of "Linux Device Drivers" (`driver/ldd3_sample`), zbar
  and the boot loader's headers and `bignum.c` alone are more than half of the
  repository's lines of C.
- Samples and exercises: nothing on the board runs them.

## 8. Plan

Done, in this order: PortOwner and PortPool with proofs; Gprs over PortOwner with
all its safety properties proved; CpFds with all its safety properties proved;
Button, Keypad and Adc with all theirs; Converterd, AtChannel, CpSock and Xmodem
with theirs; then the compositions of MCLinks and MCDrivers.

Next, most important first:

| Module | Code | Properties | Run |
|---|---|---|---|
| `CpQueue` | `cp_queue.c` by nodes and pointers | implements the queue that CpFds uses, as long as only members are removed | cpfds |
| CpFds with CpSock | `swe_tpdud.c` | a service whose downlink waits in the task array while its uplink connects, both ended by one callback | cpfds |
| `PidFile` | `cp_proc.c` | one daemon per pid file; what two started together do | - |
| `Tlv` | `tlv_pack.c` | unpack inverts pack up to the buffer's limit | - |

Abstract specifications: PortOwner (done); a FIFO for CpQueue. Where several
small independent components ask one question, one run composes them. Proof
modules stay free of RECURSIVE operators: sequences are handled by index and with
the community operators.
