# A TLA+ model of mcush

mcush (`src/mcush`) is a command shell with services for microcontrollers. It
runs as a few tasks of a small real-time kernel: the shell task reads characters
from a UART, a USB port or a script, edits lines and runs commands; services
(logger, watchdog, LEDs, beeper) run in tasks of their own; files live in a
virtual file system over SPIFFS in a serial flash. This directory models the
parts whose correctness depends on order: of keys, of tasks, of failing calls,
of power cycles. TLC checks the models on small instances, and TLAPS proves what
matters most for every size.

## 1. The system

| Part | Source | State | Operations | Interacts with |
|---|---|---|---|---|
| Line editor, history | `shell_core.c` 382-595, 726-759 | `cmdline`, `cmdline_len`, `cmdline_cursor`, `cmdline_history`, `history_index` (in `scb`) | one per key, `shell_read_line` | fed by the command loop; the argument splitter cuts its line in place |
| Command loop, scripts | `shell_core.c` 17-42, 598-629, 709-808, 927-961; `cmd_load`, `cmd_stop`, `cmd_delay`, `cmd_loop`, `LOOP_CHECK` | `script`, `script_free`, `script_error_stop`, `errnum`, heap | read a character, run a line, load, stop, read data, wait | takes characters from the terminal driver or a script; a command may replace the script it runs in |
| Logging service | `service/task_logger.c` | `queue_logger`, `queue_logger_monitor`, `mutex_logger`, `_enable`, `_monitoring`, `_busy`; the task's `size`, `evt` | log calls of any task or interrupt, the logger task, the command `log` | three kinds of actors over two queues and a mutex |
| Log files | `task_logger.c` 387-532 | `/s/logger`, `.1` .. `.N`, and their `.bak` | rotate, delete all, save all | logger task and shell, under `mutex_logger` |
| Virtual file system | `mcush_vfs.c` | `vfs_fd_tab` | open, read, unget, close | any task; drivers with handles of their own; `spiffs -c remount` |
| Argument parsing | `shell_core.c` 265-351, `mcush_opt.c` | none | split a line, next option | every command |
| UART driver | `hal/uart/hal_uart.c` | two byte queues, the transmit interrupt's enable bit | put, get, reset, interrupt handler | shell task, any task that prints, the UART |
| USB terminal driver | `hal/vcp/hal_usb_uart.c`, `usbd_cdc_if.c` | a queue, two banks with lengths, a semaphore, `broken` | write, reset, transmit task, end of a transfer, a host that configures or leaves | as above, ST's USB stack |
| OS layer | `mcush_os_*.c` | the kernel's | queues, mutexes, delays | everything |
| Services | `task_swdg.c`, `task_beep.c`, `task_blink.c` | last feed, queues | feed, play, blink | application tasks |
| Bootloader, upgrade | `appBootloader`, `hal_flash.c`, `cmd_upgrade` | application and upgrade area, flag, `/s/upgrade.bin` | receive a program, ask for it, check, erase, program, clear, jump | runs before everything else; reads what the running program left |
| Network monitor | `appLwipUtils/task_netmon.c`, the PHY driver | link flags of driver and interface, `queue_netmon` | look at the cable, report up and down | a timer; tells the Modbus server |
| Modbus server | `appModbus/task_modbus_tcp.c` | `modbus_tpcb`, `queue_modbus_tcp`, client slots and records, pending replies, restart timer | start, close, reset, accept, receive, poll, error | lwIP's thread calls back; monitor, shell and timer put events |

What is hard in it, and where (the full list, line by line, is `hazards` in
`PROJECT.json`):

- *boundaries of arrays kept by hand*: the full line, the cut history entry,
  the zero tail, the walk index that outlives edits;
- *ownership*: a log text changes hands from producer to logger task to shell
  through two queues that may be full; a script frees the buffer it runs from;
- *races on flags*: `_enable`, `_monitoring`, `_busy` are read and acted on later,
  while another task changes them;
- *partial failure and power loss*: every file call may fail; a rotation is several
  renamings;
- *one mutex, many exits*: the loop of the logger task has five ways to end;
- *driver and table out of step*: a descriptor is closed in two steps;
- *half a program*: the application is erased and programmed in place; what is left after a
  power failure is put right only if the next start goes the same way again;
- *callbacks with old records*: lwIP calls back with a record that may have been closed,
  freed, or given to the next client;
- *interrupts between two steps of a task*: a byte is queued, then the interrupt enabled; a
  bank is filled while Ctrl-C or a new host resets its length.

For each part correctness means:

- editor: the byte arrays stand for a line of text and a list of recent commands,
  and no C string function ever runs past them;
- scripts: memory is read only while it is allocated and freed once; error stop stops;
- logger: each text has one owner until it is freed, log files have one user at a
  time, the file stays bounded, disabling takes effect at once, nobody is stuck;
- files: names tell ages whatever fails, only the oldest log is ever lost to
  rotation, what a command reports is what it did;
- file system: a descriptor, and the handle under it, belong to one open file;
- terminal drivers: bytes come out in the order they went in and once, none is left
  behind, and the line recovers when the host does;
- bootloader: what it jumps to is whole, a restart always helps, an upgrade asked for is
  made once the failures end;
- Modbus server: slots, records and connections agree, a reply goes to the client that
  asked, and the server listens again after whatever closed it.

## 2. Modules

| Module | Models | Abstract specification |
|---|---|---|
| `CommandLine` | what the line editor promises: a sequence, a cursor, one key at a time | - |
| `CommandHistory` | what the history promises: the newest whole lines that fit, walked one at a time | - |
| `ShellEditor` | editor and history at the level of their bytes | refines both |
| `ShellScript` | where characters come from, what a line does, who frees a script | |
| `Logger` | producers, logger task, `log` command, file system that may fail, power cycles | |
| `LogFiles` | rotation, deletion, saving, one file call per step | |
| `Vfs` | descriptors over one driver | |
| `ByteChannel` | what a terminal driver promises: first in, first out, with losses only while the line is disturbed | - |
| `HalUart` | the UART driver, its interrupt handler and the UART | refines `ByteChannel` in each direction |
| `VcpTx` | the output over USB: queue, banks, transmit task, host | refines `ByteChannel` |
| `Bootloader` | flag, areas, both ways to upgrade, flash and power that fail at any word | |
| `ModbusTcp` | server task, network monitor, restart timer, lwIP's callbacks | |
| `*_proofs` | theorems about the module of that name; `Applications_proofs` about `Bootloader` and `ModbusTcp` | |
| `MC*` | constants for TLC where a cfg alone cannot give them | |

**ShellEditor.** The variables are the C variables; `result` says whether
`shell_read_line` is running or what it returned. Each key is one action, for only
the shell task touches this state. `Insert` is both branches of the code (append
and insert move the same bytes); `CutAt` is the movement that backspace and
delete share; `Pushed` and `ZeroTail` are the two loops of
`shell_add_cmd_to_history`; `Starts` are the places the walk of
`shell_get_history` can stop at. `ReadLine` starts the next read over whatever bytes
the last one left (`Leftover`): as they were, cut by the argument splitter, or
with the first byte zeroed by `shell_process_command`.
Refinement: `AbsLine` is the bytes up to `cmdline_len`, `AbsCommands` the
sequence of NUL-terminated entries.

**ShellScript.** Characters are tokens: a word that stands for a command line, a
newline, Ctrl-C, Ctrl-Z. `ReadChar` is `shell_read_char`: the script's next token,
or any token from the terminal. `Prompt` is the end of every turn of `shell_run`
with its error-stop test; `SetScript` is `shell_set_script`, `ScriptEnds` the branch
of `shell_read_char` that meets the terminator. Commands are ten words, one per
kind of effect on this state. `mode` says who reads next: the command loop,
`shell_read_multi_lines`, or a command that waits on the terminal (`LOOP_CHECK`,
`cmd_delay`). A loop runs its command again after each wait and fails when a turn of it does:
"wait" is a delay or a loop over a command that leaves the script alone, and `WaitOver` ends it with either
result; "loop" is a loop over `load`, each turn of which (`LoopAgain`) may replace the script the loop was
read from and leave it waiting with a new one. Loops over commands that read data, `stop` or `load` from ROM are
left out.

**Logger.** One action per access to something shared: `Copy`/`Put` are the two
halves of `_logger_module_str`, `PutConst` is the call with a constant text from a
task or an interrupt, the logger task's labels follow `task_logger_entry` from line
to line, `PostLook`, `PostFree` and `PostForward` are `post_process_event` with the
read of `_monitoring` apart from what is done about it, and the shell's labels are
the branches of `cmd_logger`. `lthen` is where a call of `post_process_event`
returns to. Events are the blocks they own; lines have size 1; older files are
`LogFiles`' business (here a rotation empties the file or fails). `Reset` is a power
cycle.

**LogFiles.** A file is the number it was created with, so ages can be compared.
The logger task's `rotate_log_files` is a recursion down the levels: `RotateLook` is
the way down, `RotateRename` the way back up. `DeleteLog`, `DeleteBak`,
`BackupLook`, `BackupMove` are one turn of the two loops of the shell's calls. `passed` is history: the `.bak` files that a saving
could not remove and went on over. Each step
is one or two file calls under the mutex; `PowerCycle` may come between any two.
`Faults` says which calls may fail for no reason; a renaming to a name in use always
fails, as in SPIFFS.

**Vfs.** A user is a task with at most one file. `Reserve` is the critical section of
`mcush_open`, `Opened`/`OpenFails` the rest; `DriverCloses` and `Release` are the two
halves of `mcush_close`. `Remount` is the command that takes back the driver's
handles under open descriptors.

**HalUart.** `Put` and `Enable` are the two steps of `hal_uart_putc`, `ResetRx` and
`ResetTx` those of `hal_uart_reset`. The handler is three steps, one per question to the
UART; no task runs between them (`irq = "out"` in the tasks' guards: one core, and the
handler is not preempted by anything here), but `Send` and `Receive`, the UART's own
steps, do. `put`, `sent`, `received`, `got` and `settled` are history: the first four make
a byte that goes in or out visible to `ByteChannel`, the last says that nobody presses
Ctrl-C any more.

**VcpTx.** The labels of `pc` follow `task_vcp_tx_entry`; `Check` and `Transmit` are
`CDC_Transmit_FS` before and after the buffer is set, for the interrupt that runs
`CDC_Init_FS` may come between. `Write`, `GiveUp` and `WriteBroken` are one turn of the
loop in `shell_driver_write`, in any number of tasks at a time: the flag `broken` is
shared by all, and a task that began to wait before it was set takes no notice. `txbuf` is
what ST's stack keeps in `TxBuffer` and `TxLength`; its value outside the two steps that use
it does not matter and is `None`. `HostLeaves` and `Configure` are what a host can do: a reset of
the bus or `SET_CONFIGURATION(0)`, and `SET_CONFIGURATION(1)`. What the class driver does
without its class data (it reads `TxState` through a null pointer) is undefined;
`Check` takes it for not sending. `Connected` looks at `dev_config` and `WaitSent` takes the semaphore
(lines 79 and 81): a task that waits at the second goes on waiting when the host leaves. `put`, `sent`, `aborted` and `settled` are history.

**Bootloader.** A word of a flash area is the program it belongs to, or erased, or
anything else (`Garbage`). `Host` is what the running program may do: `cmd_upgrade` erases and
programs upgrade area and flag at any offset, in any order and with any loss (the shell's lines may get
lost, and line 1616 of `shell_commands_hal.c` does not check the offset), and other commands write the
file. `Boot` is `main` up to the call of an upgrade, `Check` .. `ClearFlag` are the steps
of `upgrade_from_iflash` and `upgrade_from_spiffs`, which differ in where words come from
(`SourceWord`) and in `ReadSegment`; `Erase` is a sector, `Copy` a word, and each has a
step that fails. `Start` is `run_app` with its test of the stack pointer. `Damaged` is all that an
operation that fails, or that power cuts short, may leave; `PowerFails` after it is the power cut.
The halt loops do not feed the watchdog, so a `Reset` follows them as it follows the running
program. `misread` and `settled` are history: whether a read of the file has failed, and that
nothing fails any more. The layout of the flag and `flash_config.h` are not in the repository: they are
modelled from their uses. The model assumes what `main.c:105` does not test, that a program that
fits the upgrade area fits the application area, and leaves out that results of
`mcush_seek` (line 56) and `erase_bootloader_flags` are not looked at, beyond the steps that say
what happens then.

**ModbusTcp.** Callbacks of lwIP, and what the task does with lwIP, are one step each: both hold
lwIP's core lock. The task's labels are its events; `NET_UP` and `RESET` are one, for both make it put
`CLOSE` and then `START` to its own queue (`PutClose`, `PutStart`, two steps, for others put too), as are `NET_DOWN` and `CLOSE`. `StartServer` and
`StartFails` are `tcp_bind` with a free port and with one that old connections, or the
server that already listens, hold; then the timer is started again. A connection
holds the port from its first segment on, so `HalfOpen` is one whose handshake does not end while the server listens;
one whose handshake does end is accepted at that moment. (A second `START` therefore makes the
timer try every 500 ms for ever; that is harmless.) `Less` is `sys_untimeout`, which takes one timer, and from within the timer's own
callback another one. `Close` is `do_modbus_tcp_client_close` over any set of records, from all its callers.
Records are memory: `Serve` takes any that is not registered. The half of the peer's close that changes the state
of the connection is a step of its own (`RemoteCloses`), which lwIP need not take apart from its callback: that
adds behaviours, among them those in which a new client finds one to reclaim. `lost` is history: the queues
that were too full for an event that leads to a start. `retry` is the driver's count of
checks that must find the cable out before it says so: `NetmonCheck` counts it as `ETH_CheckLinkStatus`
does, also while the cable is known to be out (there it only times a new negotiation).
lwIP is in the repository: `CanBind`, `Less`, `HalfOpen`, `RemoteCloses` and `Ends` are read from its sources.
`tcp_listen` may return NULL, which the code (`task_modbus_tcp.c:640`) does not look at and the model leaves out: it does
so when the pool of listening sockets is empty, which holds five (`lwipopts.h:47`); this server
holds one at most, as does lwIP's HTTP server where it is built in (`task_netmon.c:323`).
`QueueAssumption` (the monitor's queue holds at most one event more than the driver's retries, 4 and 3 in
the program) is what the server's coming back rests on; section 4 says why.

The modules meet at these places: `ShellScript`'s words on a line are
`ShellEditor`'s bytes; `Logger`'s `CheckSize`, `WriteLine` and `FilesDone` are
`LogFiles`' `LoggerLock` .. `LoggerWrite` and the shell's loops, seen from the mutex;
the file calls of both go through `Vfs`; what the shell prints and reads goes
through `HalUart` or `VcpTx`, whose reset is `ShellEditor`'s Ctrl-C.

## 3. Runs

| Run | Question | Instance | Why it is enough |
|---|---|---|---|
| `shell_editor` | do the byte arrays implement editor and history? | line of 3, history of 6 bytes, 2 characters one of which is the space | an entry that fills the line, up to three entries, entries cut at every place, a line with an argument to split |
| `shell_script` | who owns a script's memory; does error stop stop? | 2 buffers, 7 scripts, 2 words per line | a script that loads another (both buffers in use), one that loads in a loop, a loop that fails after it has waited, data that ends early by an empty line and by Ctrl-Z, failure as last and as inner line; buffers are symmetric |
| `logger` | ownership, exclusion, bounds, progress | 1 producer and interrupts, 2 blocks, both queues of length 1, limit 1, room for 4 lines, with and without faults | both queues full, an event in every hand, rotation in every third batch, all flags switched at every place |
| `logger_monitor` | does leaving the monitor free all events? | as `logger` | counterexample of ten steps |
| `log_files` | do files and their order survive failures and power cycles? | 3 names, 5 files | more files than names, so the oldest is lost; two savings with a rotation between them, the first one cut short |
| `log_files_backup` | does saving tell what it did? | as `log_files`, nothing fails | counterexample without a fault |
| `vfs` | can descriptors or handles be shared or lost? | 3 tasks, 2 slots, 2 handles, 2 files | more users than slots; a slot and a handle are given out again while the other half of the last close is pending |
| `hal_uart` | order and progress of the UART | 2 bytes, 2 printing tasks, both queues of length 2 | the queue is full, drained and empty between any two steps of either task; overrun with a full queue |
| `vcp_tx` | order, permission and progress over USB | 2 bytes, queue of 1, banks of 2 | a bank is full, half full and reset to empty at every step; one bank under way and one filling |
| `vcp_tx_broken` | does output recover when the host does? | 1 byte, queue and banks of 1 | counterexample with one aborted transfer |
| `bootloader` | is what runs whole, can the device always be helped, is the upgrade made? | programs of 2 and 3 words, sectors of 2 and 1 words, segments of 2 | a failure at every word of every operation; the new program is longer than the old one; two sectors, two segments, the second one not full; the old program's words may be left over |
| `modbus_tcp` | do slots, records and connections agree; does the server come back? | 2 connections, 2 records, 1 slot, monitor's queue of 2, 1 retry of the driver, server's queue of 3, 2 disturbances | both queues overflow; a second client while the first is served, closing or waiting for a reply, with the slot taken or free; the slot given out again; a reset during a reset; a port held by an old or half-open connection when the server starts |

No bound is needed in `ShellEditor`, `Vfs`, `HalUart`, `VcpTx` and `Bootloader`: their state is finite. The bounds that
are not the program's are `MaxWords` (words typed in a line of `ShellScript`),
`MaxSize` (room in the flash) and the saturating count `late` in `Logger`, and
`MaxGen` (files ever created) in `LogFiles`, and `Disturbances` (cable changes, resets, failed
allocations) and connections made once each in `ModbusTcp`, whose queues are shorter than the program's 4 and 32, and
whose single slot stands for the program's `MODBUS_TCP_NUM`: what several slots could get wrong, a record in two of them,
is excluded by `ClientsAlwaysConsistent` for any number.

Three runs find what the source says violated:

- `logger_monitor`: `task_logger.c:979` says "free all remaining event", but the
  logger task may have read `_monitoring` before it was cleared and put its event
  after the queue was emptied. The event is not lost: `BuffersOwned` holds, and the
  next monitor command shows or frees it. It does stay allocated until then, and then
  is shown out of place.
- `log_files_backup`: `task_logger.h:224` promises that all log files are renamed.
  The loop stops at the first name that has no file. After a rotation whose next
  line was not written there is no `logger`, only `logger.1`, so nothing is
  saved and success is reported. (With failing calls there is a second way: `succ`
  of an earlier file is overwritten by the next renaming.)
- `vcp_tx_broken`: the comment at `hal_usb_uart.c:200` says that the driver adapts to a broken
  connection and ignores "short-time" data. A host that resets the bus during a transfer
  ends it without `USBD_CDC_DataIn`, so nobody gives the semaphore back, `CDC_Init_FS`
  does not either, and the transmit task waits without end. From then on everything is
  ignored, whether the host is there or not. The counterexample is a behaviour with
  the fairness stated below, in which the host stays.

Each property of a passing run has a mutant: an operator `..._Bug` beside the
definition it replaces, with a plausible slip, that makes TLC find the
property violated. No specification uses them.

### Fairness and progress

`Logger`, `HalUart`, `VcpTx`, `Bootloader` and `ModbusTcp` state fairness.

In `Logger`, `WF(LoggerTask)`: the logger task has a low priority,
but the other tasks wait for keys, events or time, so it gets to run. `SF(Lock)` and
`SF(FilesLock)`: the mutex is let go again and again while the other side holds and
releases it; the kernel hands a mutex to the task that waits for it, and the one that
released it waits for an event or a key before it asks again. The bounded wait of
`log -t` has none: it may time out every time. `WF(FilesDone \/ TailDone)`: a command
under way ends. Producers, switches, keys and power cycles have no fairness.

In `HalUart`, `WF(Send)`: the UART shifts a byte out in a bounded time. `WF(Irq)`: an
enabled interrupt is served. `SF(Enable)`: a task that has put its byte gets to its next line,
however often the handler runs in between; it waits for nothing. In `VcpTx`, `WF(Task)`:
the transmit task has the shell's priority and is never shut out. `WF(settled /\
DataIn)`: once the host stays, it asks for data; before that it need not. Neither has fairness
for tasks that print, keys, or a host that comes back.

In `Bootloader`, `WF(Loader)`: the bootloader runs alone. In `ModbusTcp`, weak fairness of the
monitor's timer and task, the server's task and the restart timer, none of which waits for anybody but its
queue, and of `Finishes`: lwIP ends a closed or half-open connection in a bounded time, also without its peer.
Nothing is assumed of clients, cables, resets and power.

- `QueueDrains`: a full queue does not stay full, also when the file system fails.
- `FilesGetTurn`: deleting or saving gets the mutex although events keep coming,
  *if lines can be written*: then the size reaches the limit and the loop ends. If
  every write fails and events come faster than one in 200 ms, the logger task holds
  the mutex for ever; the property excludes that case.
- `LastByteLeaves`: when the tasks have stopped printing, or all wait for room, the UART's
  queue runs empty.
- `OutputFlows`: once the host stays, a full queue gets room again, unless an
  earlier transfer was cut off (`aborted`); that case is the finding of `vcp_tx_broken`.
- `UpgradeCompletes`: once nothing fails any more, a start that finds a request with a matching
  source ends in that program, whatever earlier attempts left.
- `Serves`: with the cable in for good and no event lost for good, the server listens for good. An
  event may well be lost: `START` when the server's queue is more than half full of resets, the timer's
  put, "up" in the monitor's queue, which is not reported again. Then the server stays closed until the next reset
  or cable change; the property says that nothing else keeps it closed.

### Conditions inside properties

`FileBounded` and `FilesGetTurn` are about behaviours whose file system does not fail
(`~ faulty`), for the reasons above and because a rotation that always fails really
lets the file grow. `OutputFlows` is about behaviours in which no transfer was aborted.
`HandlesOwned` ends with the first remount, `DeletionTold`
excludes size queries that fail (a file that cannot be seen is taken for deleted), and
`SavedOldestLast` excepts a `.bak` that a saving could not remove and went on over (`passed`).
`RunsWhole` and `Recoverable` except a read of `/s/upgrade.bin` that fails (`misread`): in the second
pass (`upgrade_from_spiffs.c:65`) an error is taken for the end of the file, the flag is
cleared and success returned with half a program in place; in the first one (lines 35, 43) the
return of 0 makes `main` start what an earlier power failure left. `Serves` is about behaviours in which
`lost` stays empty at last.
Each run contains behaviours on both sides of its condition, except `DeletionTold`'s,
where `log_files` leaves size faults out and the proofs of the other properties
include them.

## 4. Theorems

All are proved by `tlapm` from the `ASSUME`s of their modules only, for every value of
the constants. Every invariant, action property and refinement that a run finds to hold is
among them; what is left to TLC is liveness. One theorem has a hypothesis, `DataNeverRun`: it is about
scripts whose lines of data follow a command that reads them (`DataInBlocks`), as the
scripts of the run do (TLC evaluates it).

| Module | Theorem | Says |
|---|---|---|
| `ShellEditor_proofs` | `TypeCorrect`, `LineAlwaysTerminated`, `HistoryAlwaysWellFormed`, `IndexAlwaysInHistory` | the invariants of the run `shell_editor`, for every line of 1 to 255 and history of 1 to 509 bytes plus terminator |
| | `EditorRefinesCommandLine` | the editor implements `CommandLine` |
| | `HistoryRefinesCommandHistory` | the history implements `CommandHistory` |
| `ShellScript_proofs` | `TypeCorrect`, `ScriptAlwaysOwned`, `ErrorAlwaysStops`, `DataNeverRun` | for every set of scripts and buffers |
| `Logger_proofs` | `TypeCorrect`, `BuffersAlwaysOwned`, `LogAlwaysExclusive`, `FileAlwaysBounded`, `DisableAlwaysBinds` | all invariants of the run `logger`, for any number of producers and blocks, any lengths of the queues and any limit |
| `LogFiles_proofs` | `TypeCorrect`, `LogAlwaysOrdered`, `SavedAlwaysOrdered`, `OnlyOldestEverLost`, `DeletionAlwaysTold` | for every depth of rotation, number of files and set of failing calls |
| `Vfs_proofs` | `TypeCorrect`, `SlotsAlwaysOwned`, `HandlesAlwaysOwned` | for any number of tasks, slots and handles |
| `HalUart_proofs` | `TypeCorrect`, `NeverStranded` | for any number of tasks and lengths of the queues |
| | `TransmitOrder`, `ReceiveOrder` | each direction implements `ByteChannel` |
| `VcpTx_proofs` | `TypeCorrect`, `PermissionAlwaysOwned` | for every length of the queue and of the banks |
| | `OutputOrder` | the driver implements `ByteChannel` |
| `Applications_proofs` | `TypeCorrect`, `AlwaysRunsWhole`, `AlwaysRecoverable` | `Bootloader`, for every set of programs, sizes of the areas, layout of sectors and segment |
| | `ClientsAlwaysConsistent` | `ModbusTcp`, for any number of connections, records and slots, and any retries and errors |
| | `StartAlwaysOwed` | `ModbusTcp`, also for any lengths of the queues that `QueueAssumption` allows |

The arguments:

- *ShellEditor*. Inductive are the types, `LineTerminated`, `IndexInHistory`, and three
  facts about the bytes of the history from which `HistoryWellFormed` follows: the last
  byte is a NUL, every window of `CmdlineLen + 1` bytes holds one (so every entry
  ends in time), and only NULs follow two in a row (`Windowed`, `Packed`). A pushed
  line keeps them because it is itself shorter than a window, and what is cut is zeroed
  back to the last terminator. The index is kept because a line that changes the
  entries resets it. The refinement of `CommandLine` shows each key equal to its operation on
  sequences, byte by byte.
- *ShellEditor, history*. The mapping counts entries (`GetHistory` is the k-th start of one), so
  the proof begins with what counting means: a finite set of numbers has an ascending enumeration,
  and its k-th member is the one with k - 1 below it (`Enumeration`, `EnumerationRanks`). From
  `Packed` follows that the entries lie one right behind the other from the first byte on
  (`Laid`, `LaidOut`). A push moves them all, and those end inside the array that a prefix of
  the list is (`Cut`, `PushStarts`, `PushLaid`); the same inequality says which lines
  the abstract budget has room for (`CostIs`, `RememberIs`). Ctrl-P and Ctrl-N copy up to
  the terminator, which is the whole entry (`RecallGives`).
- *ShellScript*. The invariant is inductive as one statement about script, buffer and
  heap (`Owned`), preserved by the only two ways to change them (`Prompt`,
  `SetScript`); `ErrorStops` follows because every way back to the command loop goes
  through `Prompt` or sets `errnum` to 0. `DataNeverRuns` needs where the script stands in its
  text (`Placed`): the lines not read yet are an end of it, and between the command that reads
  data and the line that ends it either the reader is running or nothing is left of the
  script (`PlaceKnown`).
- *Logger*. Ownership is proved block by block (`Owned`): a block is allocated exactly if it
  is in a queue, a producer's hand or a task's, and it is in one of them, once. Two lemmas say
  what `Append` and `Tail` do to where a block occurs; one lemma for each way a block moves does the rest.
  It needs that a task holds an event exactly while it works on it (`EventsHeld`), or `Get`
  would lose one. The others are about where the logger task is heading once it has dealt with the
  event in hand (`Heading`): on the way to a line `late` is 0, and the size it knows is
  at most `Limit`, or `Limit + 1` from the second line of a batch on. That the file is no larger than what the
  task takes it for (`SizeKnown`) holds because the shell can only make it smaller.
- *LogFiles*. `OldestLast` is inductive together with two facts (`FilesOK`): no number exceeds
  `gen`, and a log is newer than every `.bak` with its number or a greater one. A renaming needs a free
  name, so it only moves a log up between its neighbours, which keeps both. For `SavedOldestLast` a saving needs
  one more (`AheadOK`): the `.bak` files it has passed are newer than the logs it has still before it,
  unless it could not remove one. It holds because the saving starts at 0, moves each log to the `.bak` with
  its number and stops at the first that is missing. What is added is who is at work (`Locked`: the mutex says whose call
  is under way, and the level of the recursion is in range); `OnlyOldestLost` then follows
  because the only removal of the logger task is at the last level. `DeletionTold` needs
  what the loop has passed: unless a removal failed it is clear of the files
  that were there when the call began.
- *Vfs*. Both invariants are about bijections: users that are not closed with
  reserved slots, no slot with two users, and open users with files of the driver's
  handles. A closing user keeps its slot until the second half of its close.
- *HalUart*. `NoByteStranded` needs nothing but the types: whoever disables the
  interrupt has found the queue empty, and whoever makes it non-empty is in `enabling`. That a
  reset is under way only while the line is not settled is what makes its loss legal
  in the channel. The refinement is a few facts on concatenation: a byte that moves from
  the queue to the register changes nothing in their concatenation, and losing the
  queue, the register or a byte that finds no room is losing one end of it.
- *VcpTx*. `PermissionOwned` becomes inductive with: a transfer needs the class data, and
  these a configured device (so the branch that drops a bank never runs during a
  transfer); what is set for sending is the bank of the task, or the empty one that
  `CDC_Init_FS` sets in between; a bank about to take a byte has room. For the refinement
  one more fact (`SendInv`): at `transmit` the port is not busy and what is set is the whole bank,
  unless its length was reset since. Then filling a bank, and giving it to the bus, moves bytes along
  the concatenation of transfer, bank and queue without changing it; a transfer that ends takes
  its front; and a reset, a new configuration or a host that leaves cut one stretch out of it, at
  each label of the task.
- *Bootloader*. While it erases and programs, flag and source still ask for and match (`Erasing`,
  `Copying`): words before `addr` are right, the others erased, so the last word makes it whole.
  Nobody changes flag or source until then: the host does so only in a running program, and
  that is whole. `Recoverable` is part of the invariant, for it is what the next start relies on.

- *ModbusTcp*. A record is known from three sides: slot, argument of its connection and its
  own pointer. They agree (`SlotsAgree`) between callbacks because registration and closing change all
  three in one callback (`SetRecordKeeps`, `CloseKeeps`); a record whose peer is gone is reclaimed
  before it is served again (`Served`, `ServeKeeps`).

  `StartOwed` is the safe half of `Serves`: while the driver takes the cable for in and no event was lost,
  somebody still owes the server a start, or it listens and nobody is about to close it. The server's part
  (`StartDue`) is about order in its queue: a start behind every close, or a timer, or a socket that listens with
  no close ahead. The monitor's part (`NetInv`) is that its queue ends in agreement with the driver. The
  driver sets the link flag when it reports, the monitor again when it takes the report, so an old
  "up" taken after a newer "down" was put would set the flag, and the next report of the driver would
  find nothing changed and put no event. That cannot happen because the driver checks `LinkRetry` times more before
  it reports a cable out, each check takes an event off the queue, and so the "up", with at most `LinkRetry` events
  before it, has been taken by then (`UpComes`). The lengths are just enough: with the program's 4 and 3 TLC agrees
  (one connection, four changes of the cable), with a queue of 5 it finds `StartOwed` violated.
  The theorem has no run of its own: `Serves`, which the run checks, needs it.

Only model-checked: the liveness properties (`QueueDrains`, `FilesGetTurn`, `LastByteLeaves`,
`OutputFlows`, `UpgradeCompletes`, `Serves`), which this prover cannot handle. Nor can it prove by induction
with the library's theorems what a recursive definition computes: no recursive operator is used in the
modules proved about, and what the costs of `CommandHistory` are (a recursive function) is proved from a
least counterexample (`CostIs`).

## 5. Not modelled, and the plan

Terminal echo, wording, number formats and the single commands' peripheral access
are left out. The volume table of the file system is written before the scheduler
starts. SPIFFS, FreeRTOS and the other libraries are assumed to do what their calls
say.

1. Done: `ShellEditor` with `CommandLine` and `CommandHistory`, `ShellScript`, their proofs.
2. Done: `Logger`, `LogFiles` with its proofs.
3. Done: `Vfs` with its proofs.
4. Done: the proofs of `Logger`.
5. Done: `HalUart` and `VcpTx` over `ByteChannel`, with proofs.
6. Done: `Bootloader` with its proofs.
7. Left: `Swdg` and `CmdDelay`, tick arithmetic with wrap-around and preemption; the
   POSIX layer's timeouts as pure operators.
8. Done: `ModbusTcp` with the network monitor and the proof of its invariant; left is DHCP.
9. Left: pure algorithms, argument splitting with quotes and option parsing against
   reference definitions over bounded lines.

Not modelled, and why:

- the older upgrade in the running program (`hal_upgrade.c`), which nothing calls, and
  `upgrade_from_shell`, which `main.c` calls under a switch and the repository does not hold;
- DHCP: the model is of a device with an address of its own. With DHCP the monitor's "down"
  stops it, which takes the address away and aborts open connections before the server's task gets
  to close them; lwIP then calls `modbus_tcp_error_cb`, which shuts down a connection that is
  already freed (`hazards`, `task_modbus_tcp.c:341`), as it does whatever the address when keepalive or
  retransmission gives a connection up (`tcp.c:1404`). `ModbusTcp` has that call (`Error`) and what it does to slots and
  records; what the shutdown does to freed memory depends on lwIP's pools and is not modelled;
- what Modbus requests ask for and how replies are laid out, the listing of clients, `netstat`, Modbus RTU;
- argument parsing, options and the single commands: sequential code over strings, better tested than
  model-checked;
- the kernels' layers, watchdog, LEDs and beeper: a few calls each, whose hazards are single expressions (listed in
  `hazards` with their lines), and the file helpers, among them `mcush_file_remove_retry` (`mcush_lib_fs.c:90`), which tries
  again after a removal that succeeded and not after one that failed;
- drivers of other boards, graphics, and everything vendored.
