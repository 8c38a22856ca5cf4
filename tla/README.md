# Models of the NCTU-EOS-2024 programs

This directory holds TLA+ models of the programs in this repository, TLC runs
that check them on small instances, and TLAPS proofs about the most important
of them. The repository is the work of a course on embedded operating systems: a
final project (a whack-a-mole game for several players, with a server, a
client, a display and a button driver) and a series of homeworks and labs. What
they have in common is concurrency with hand-made synchronisation: threads with
a mutex, signal handlers, System V semaphores and shared memory, interrupt
handlers. That is what the models are about.

`D_` stands for `src/312513040_陳鴻翔_` below, `F` for `src/final_project`.

## 1. Inventory

### 1.1 Game server — `F/Final_server.c`

*State.* `game` (struct game_info: the board `diglett[5]`, `point[]`, `time`,
`player_num`, `nowPlaying`), one mutex for it, `ready_barrier`, `socket_list[]`
and `thread_list[]` (one slot per player), a `thread_info` record per
connection.

*Threads and handlers.* `main()` accepts connections, gives each a slot and a
thread. `client_handler()` (one thread per player) greets its client, waits for
`ready`, waits at the barrier, then polls its socket for button presses and
scores them. `timer_thread()` burns CPU time so that `ITIMER_VIRTUAL` fires;
`timer_handler()` (SIGVTALRM) advances the clock and draws the board.
`info_sync()` (SIGUSR1, sent with `pthread_kill`) sends the game to the client of
the thread it runs on.

*Hard.* A signal handler that takes a mutex, on whichever thread the kernel
picks; SIGUSR1 that coalesces and whose handler reads the game without the
mutex; a hit in two steps (points, then hole) against a tick that clears the
board; a clock read without the mutex; clients that leave at any point; a record
that two threads may free; slots that are never given back.

*Correct means.* Every mole is paid once, in full, to one player; what is drawn
is a legal board for the second; every player ends up with the present view; the
countdown ends; numbers and slots belong to one player each; a round starts with
MAX_PLAYER ready players; every connection is answered.

### 1.2 Game client and display — `F/Final_client.c`, `F/Final_game.py`

*State.* A socket, the device file, a shared memory segment with the game, and a
semaphore for it that only the client takes. *Operations.* Client: set up
(segment, semaphore, device), take the first `sizeof(game_info)` bytes from the
server for the game and its own number from it, say `ready`, then in a loop copy
each snapshot to the segment and send a digit per press; at the end clear the
device and remove segment and semaphore. Display: copy the segment, draw it, end
the game when the clock is zero or less. *Hard.* Segment and semaphore outlive a
client that is killed, by Ctrl + C or by SIGPIPE; the display does not take the
semaphore; the loop is left with the semaphore held; the order of the first two
messages; five error paths. *Correct means.* What is under the semaphore is one
snapshot; a client that ends leaves nothing behind, and it ends when the game or
the server does; the display ends the game only when the game is over.

### 1.3 Button driver — `F/button_driver.c`

*State.* A buffer of names shared by all readers, the tick of the last press per
button, the depth to which the kernel has the interrupts disabled, a file position per
open file. *Operations.* An interrupt handler per button; `open` enables the
interrupts, `write` disables them and clears, `read`, `release`. *Hard.*
Interrupts of different buttons on different CPUs, presses between the last read
and the clearing or while the device is closed, tick counters that wrap, a depth that different processes
count up and down. *Correct means.* Bouncing is filtered exactly, and a process
that follows the protocol gets its own presses, all of them, once and in order.

### 1.4 Bank server — `D_lab6/server.c`, `client.c`, `demo.sh`

*State.* One `account`, a System V semaphore that outlives the process.
*Operations.* A thread per client: P, check, add, V, reply; a SIGINT handler
that removes the semaphore and ends the process. *Hard.* A read and a write of the
account in two steps, servers that are killed and started again, a handler that is
installed before there is a semaphore and removes it while the threads run, a
`break` between P and V. *Correct means.* No update lost, one thread between P and
V, every request answered.

### 1.5 Delivery server — `D_hw3/hw3.c`

*State.* `delivery_time[2]` under a mutex, and per thread the order.
*Operations.* order, confirm, cancel; choose a driver, ask when the wait is
long, deliver, bill. *Hard.* The charge and the look at it are two steps with
other threads in between, an order may be charged twice, clients leave while
asked. *Correct means.* One shop per order, the bill is the order's price, the
charge of a driver is the sum of its deliveries, a confirmed order ends.

### 1.6 Order server — `D_hw2/hw2.c`

The sequential predecessor of 1.5, one client after the other. *State.* The
order, in global variables, and the last answer. *Hard.* What one client leaves
behind for the next. *Correct means.* Everybody sees and pays its own order.

### 1.7 Guessing game — `D_lab7/game.c`, `guess.c`

*State.* A shared memory segment (`guess`, `result`) without any lock, the
bounds of the search. *Operations.* `game.c` answers each SIGUSR1; `guess.c`
looks at the result and guesses again on each SIGALRM. *Hard.* Only a second
keeps the processes apart; the end flag is tested before a `pause()`; an answer
may be late or be that of another guess; int overflow. *Correct means.* The
range holds the number and halves, the search ends and ends on it.

### 1.8 GPIO drivers — `D_lab3-1/driver.c`, `D_lab3-2/lab3-2_driver.c`, `D_hw1/seg_driver.c`, `D_hw1/led_driver.c`, `D_lab4/my_dev.c`

*State.* A device number, a cdev, a class, a device node, the GPIO pins; all
belong to the kernel and are found by the next module. *Operations.* `init` and
its error labels, `exit`, `open`, `write` (a pattern of pins), `release`. *Hard.*
Init has some twenty calls, each of which may fail, and the labels must undo
what was done and no more; modules share pins and names; a call that fails
without its caller seeing it; modules removed while in use. *Correct means.* A
module that is not there holds nothing, one that is there keeps its pins.

### 1.9 Order kiosk — `D_hw1/hw1.c`

*State.* The order; two children, one for each display. *Operations.* Menu,
order, confirm: fork a child that shows the price digit by digit and one that
counts down the distance, wait for both. *Hard.* Either fork or either `open`
may fail, the children end in either order, one of them on a key only, a module
may be gone meanwhile. *Correct means.* What was shown is what is to be paid,
and the menu comes back with no child left.

### 1.10 Writers of the displays — `D_lab3-1/writer.c`, `D_lab3-2/lab3-2_writer.c`

One digit after the other, as one pattern (lab3-2) or bit by bit (lab3-1, each
time with all four bytes of the buffer). Their devices have the same name.
*Correct means.* After the last write of a digit the display shows it.

### 1.11 Letter display — `D_lab4/my_dev.c`, `writer.c`, `reader.c`

*State.* Sixteen segments in the driver. The writer replaces them in a loop, the
reader copies them in a loop and sends them over the network; there is no lock.
*Hard.* Torn frames; `rmmod` under an open file (no `.owner`); a SIGINT handler
that closes what `main()` is using. *Correct means.* A frame is never older
than the last letter that was complete, and the reader ends after Ctrl + C.

### 1.12 Train tickets — `D_lab5/lab5.c`

*State.* A process for each connection. *Operations.* accept, fork, `dup2` and
`execlp("sl")`, a SIGCHLD handler that waits for children. *Hard.* Several
children that end leave one signal; descriptors are never closed; a child whose
`execlp` failed goes on as a second server. *Correct means.* Each train runs on
its own connection, every child that has ended is waited for.

### 1.13 The rest

`F/測資` holds test programs; `test_button_driver.c` is a process of
`ButtonDriver`. `D_lab2` is a report.

## 2. Modules

| module | models | composed with |
|---|---|---|
| `WhackGame` | the abstract game: start, tick, pop up, hit, each atomic | refined by `GameRound` |
| `GameRound` | `Final_server.c` from the barrier on | instantiates `WhackGame` |
| `GameLobby` | `Final_server.c` up to the barrier | ends where `GameRound` begins |
| `GameClient` | `Final_client.c`, and what `Final_game.py` reads | the server's side is `GameLobby` and `GameRound` seen from one connection |
| `Bank` | lab6 | |
| `FoodMenu` | the dishes, shops and prices of hw2 and hw3 | part of the next two |
| `Delivery` | hw3 | `FoodMenu` |
| `FoodOrder` | hw2 | `FoodMenu` |
| `GuessGame` | lab7, both programs | |
| `ButtonDriver` | `button_driver.c` and the processes using it | |
| `GpioDrivers` | loading, failing and removal of the five modules of 1.8, their pins and files | part of `LabMachine` |
| `Kiosk` | `hw1.c`: the parent and its two children | `GpioDrivers` (`seg`, `led`) |
| `DisplayWriters` | both writers of 1.10 | `GpioDrivers` (`lab3_1`, `lab3_2`) |
| `LetterDisplay` | lab4: the segments, writer and reader | `GpioDrivers` (`my_dev`) |
| `Trains` | lab5 | part of `LabMachine` |
| `LabMachine` | the Raspberry Pi: who types which command when | all of the five above |
| `MC*` | constants of the runs | |
| `*Proofs` | theorems | extend their module; `OrderProofs` both `Delivery` and `FoodOrder`, `LabMachineProofs` all of the Pi |

`GameLobby!RoundEntry` is the joint between the two halves of the server: it
states what `GameRound!Init` assumes (all MAX_PLAYER slots taken, by threads of
their own that have passed the barrier, with clients that have said ready,
records alive), and TLC checks it for every order of arrivals and failures.

### 2.1 How state and actions correspond to the code

**GameRound.** `diglett, point, time, nowPlaying` are the fields of `game`.
`pc[t]` is the place of a thread in its own code; `alarm[t]` is the frame of
`timer_handler` on thread `t`, if there is one: while it is not idle the thread's
own code does not move (`Runs`), which is how a handler that waits for the mutex
of its own thread stays stuck. `pending` is the set of threads with SIGUSR1
pending (a set: standard signals do not queue). One action per step between two
shared accesses: the read of the clock at line 219 (`PollData`) is a step apart
from the lock at 225 (`HitLock`), the points (`Score`) from the hole (`Clear`).
`info_sync` (`InfoSync`) runs on top of anything the thread does, a critical
section and `timer_handler` included. The loops that notify the players are one
step per player. A connection is `open`, `fin` (closed by the client), `rst` (a
send has been answered by a reset) or `closed` (by the server); a send after the
reset raises SIGPIPE, which the server does not handle. `player_num` is
MAX_PLAYER throughout, as `RoundEntry` says, and is not a variable.

Modelling decisions: several digits may be received at once and are then read
as one number (`Parse`), as `sscanf` does. `choice` is forgotten when it is not
read any more. `pthread_kill` of a detached thread that has exited is undefined;
the model takes the outcome of glibc 2.34 and later, nothing. Descriptor numbers are not
modelled, so that a number given to a later connection is not followed. On which
threads the kernel runs `timer_handler` is the parameter `AlarmCarriers`; the
interval timer and the carrier rule are outside the repository.

**GameLobby.** `mainPc` is the place in `main()`'s loop, `thread[c]` the
place in the thread of connection `c`. Before the barrier opens no other thread
takes the mutex, and lines 116-131 are one step. `record[c]` follows the
`thread_info` of a connection; the `pthread_detach(thread_list[thread->id])` at
line 151 reads it, and when the thread has freed it by then, the outcome is
either none or a crash.

**GameClient.** `pc` is the place in the client's `main()`, one action per
system call and per write of a field of the segment. The clock (`time`) and the
points (`point`) in the segment are kept with the number of the snapshot they
come from; the board is written between the two and not modelled apart. `key` is
the segment that `shm_key` finds, `memory` the content of every segment ever
made, as a display keeps its own after the key is removed. A connection is `open`;
`fin` (the server has closed), `pipe` (a send has been answered by a reset since),
`reset` (closed with digits unread), `dead` (the reset has been reported). A
send in `pipe` or `dead` is SIGPIPE. After a close `recv()` yields 0 for ever, after a reset
-1 once and then 0. `display` reads the points before the clock, in the order of
the struct. Snapshots arrive whole, one client and one display run on a machine
at a time. `early` is a history variable: the display was started before its
client wrote the clock (the reason of the `sleep(5)` at line 154), or a later
client cleared its segment.

**Bank.** `semid` and `semaphore` are the id and the counter of the semaphore in the
kernel, `sem` is the server's variable: 0 until `semget(IPC_EXCL)` has returned, -1
when it failed. What a call reaches is what `sem` is the id of (`Reached`); P and V
that reach nothing fail, are not checked, and the thread goes on. An id is 0 or not 0,
which is all that matters before line 151. `Start`, `Semget` and `Setval` are lines 118,
151 and 154; a SIGINT may come between any two (`Interrupt`, line 60), and the threads run
on until `exit` (`Exit`, line 61). A second SIGINT in the handler finds nothing more to
remove. `Load` and `Store` are the read and
the write of line 87 (or 97). `booked` is a history variable: the sum of what
this server has carried out.

**Delivery.** `delivery_mutex` is held for single updates that call nothing that
blocks, so that each is one step (`Take`, `Drop`); the look at the waiting time
at line 97 is a step of its own, because the mutex is free by then. `Answer`
covers a `recv()` that returns nothing: the buffer then still holds
`confirm`, which is neither Yes nor No. `phantom` is a history variable: the
charges a driver got and is never relieved of.

**FoodOrder.** One action per request. `Counted` keeps the code's own mapping
from dishes to variables: line 91 adds cakes to `tea_amount`. Amounts are any
ints, as line 85 reads them (an order of none shows nothing new). `asked` and
`carried` are history variables.

**GuessGame.** One action per `strcmp` of the timer's handler and per comparison
of the SIGUSR1 handler, since the memory they read is shared. A result is one of
five texts. Additions wrap at `MaxInt`, division truncates. `late` is a history
variable: an alarm came before the answer to the last guess, or `game.c` has
ended. A SIGALRM before the `pause()` is a step (`going`), as is the loop's
test.

**ButtonDriver.** `depth` is the kernel's count for the five interrupts, which
the driver always treats alike. While it is above zero a press is latched or
lost, as the hardware has it. `disable_irq` waits for handlers that run (`Write`
waits for `isr` to be idle). `jiffies` wraps at `Cycle`. `orderly` is a history
variable: so far one process at a time has opened, read, written `clear` once
and closed, as the repository's two programs do.

**GpioDrivers.** The five modules have one template, modelled once: `mod[d]` is
the call or the label of `init` that comes next, `absent` (not loaded, or `insmod`
has failed), `loaded`, `removed`, or `stuck`. A label runs into the next one, as
in the code. `region`, `cdev`, `node`, `class` and `owner` are what the kernel
has given to whom. `gpio_request` is one step for all pins: how many are granted
is chosen, and the next is refused. What the kernel does is external, and taken
from its documentation: `class_create` and `device_create` return error pointers
(the code compares with NULL, so `r_class` is never reached from there); a name
of a class can be taken once; `device_destroy` on an error pointer does not come
back (`stuck`); `gpio_free` frees a pin whoever has asked for it; `copy_from_user`
of more than the buffer is refused. `stale` are the files whose code was
unloaded: a call through one crashes, or works if the module is there again.
`rmmod -f` of the demo script is modelled as `rmmod`, as the kernels in question
are built without forced unloading. The five read functions change nothing and
are left out.

**Kiosk.** `kiosk` is the place of the parent, `seg` and `led` are the two
children with what their displays have shown so far. `led` waits for a key
(`KeyLed`). A shop that is not on the list leaves the order loop for ever
(`lost`). Ctrl + C ends all three.

**DisplayWriters.** A write of lab3-1 sends four bytes of which the first
`bits` are of this digit; `rest` stands for the others, which are those of the
digit before or not initialised.

**LetterDisplay.** Letters are numbered in the order they are written, 0 is the
empty display. A `write` and a `read` are one step per segment. `complete` and
`since` are history variables. The reader's handler closes what `fd` and `connfd` hold
when it runs, and `interrupted` tells what that was: descriptor 0 while both are 0
(`stdin`, before line 31), the `connection`, or `both`. One bound: a reader that has lost
its descriptor 0 and then has the connection there is not interrupted a second time
between `connect()` and `open()`, which would give the device the number of the connection.

**Trains.** Every process that runs the loop of lines 45-75 is `Serving`: the
first one and those whose `execlp` failed. `chld` is the set of processes with a
pending SIGCHLD (a set, as signals do not queue), `handler` those inside the
handler. `sl` ignores Ctrl + C, and a train keeps the listening socket, so that the next
server's `bind` fails until it has arrived (`RunServer`).

**LabMachine.** A `sitting` says which modules and programs are used, what may
be typed at a second terminal while something runs, and (bound) how many commands.
One program is in the foreground at a time; every step of a program leaves the
others' variables alone (`KioskAlone` and so on), and the modules are what they share.

## 3. Runs

All runs are exhaustive within their constants. Deadlock is not checked because
every system here may stop: the game ends, the clients are done, the server is
killed, or a bound is reached.

| run | bounds | checks |
|---|---|---|
| `round_departures` | 2 players, 2 holes, 2 seconds, 1 press under way per player; alarms on client thread 0, whose client may leave | `PlaysByTheRules`, `QuiescentViewsFresh` |
| `round_progress` | 2 players, 3 holes, 3 seconds, no presses, one leaver, late visitors; fair | `CountdownEnds`, `DepartedThreadEnds`, `PlaysByTheRules` |
| `round_countdown` | alarms on any thread; fair | `CountdownEnds` is violated |
| `lobby` | 3 clients for 2 slots, 2 of them unreliable, failing malloc and pthread_create; fair | `OwnNumber`, `RoundEntry`, `RecordOwned`, `RoundStarts`, `Answered` |
| `bank` | 3 clients (+2, -2, +3), 2 requests each, 2 starts; fair | `CriticalSection`, `NoLostUpdate`, `LeakStays`, `RequestsAnswered` |
| `delivery` | 2 clients, 2 orders each from 3 dishes of 2 shops, amounts -1 and 2; fair | `OneShop`, `PaysForOrder`, `LoadAccounted`, `OrdersEnd` |
| `client` | 2 starts, any call may fail, 2 snapshots with clocks of 2 to -1, 1 press; fair | `WholeSnapshot`, `CleanEnd`, `OverIsOver`, `ClientEnds` |
| `delivery_phantom` | a small instance of the same | `LoadIsOutstanding` is violated |
| `food` | 3 clients, 2 requests each, the whole menu, amounts -1, 1 and 2 | `OrderAsAsked`, `BillAsAsked` |
| `guess` | numbers 1 to 7, largest int 15, 2 searches; fair | `AnswerInRange`, `RangeHalves`, `EndsOnAnswer`, `BoundsStay`, `GuessesComplete` |
| `button` | 2 buttons, 2 processes, 3 presses, 3 opens, 3 ticks, debounce of 2 ticks | `DebounceExact`, `ButtonsWork`, `ClosedMeansSilent`, `ReadsInOrder` |
| `pi` | six sittings of 1 to 5 commands (below), every call may fail; amounts 0 and 9, 1 item, arguments of 2 digits, 2 segments, 2 letters; 2 riders, 3 processes, 2 descriptors; fair | `NothingLeft`, `PinsHeld`, `ShowsWhatWasGiven`, `FrameFresh`, `OwnTrack`, `ZombiesReaped`, `ProgramsEnd` |

Why these bounds are enough for the cases in question:

* *Round.* The hazards of a hit are between two actors (two players on one hole,
  a player and the clock), so two players are enough; two seconds take the clock through
  the full clock (on which presses are ignored), the last second and the end.
  Two presses coalesce only with `MaxInput` above 1, where `Parse`
  differs; that costs more states than it adds interleavings, and the proofs of
  section 6 hold for every `MaxInput`. Normal boards and bombs need a second that is neither
  first nor last, which is what `round_progress` has with its three seconds and
  three holes. On client thread 0 the alarm interrupts that player anywhere and
  runs beside the other one; that it may also run beside both, on the timer
  thread, is a run of its own only in `round_progress`, and the proofs of section
  6 hold for every choice of threads.
* *Lobby.* One client more than slots: somebody is refused, and an unreliable
  client can take a slot from a reliable one.
* *Client.* The second start finds what the first has left; a third would find
  nothing that the second does not. Two snapshots are one that is complete and one
  that is being written, and the clocks include one that skips zero.
* *Bank.* Two threads inside are already a violation; the third is there to
  wait behind them. The second start finds a semaphore that was left behind, with either
  id, and may be interrupted before or after it asks for one of its own; a third would find
  what the first or the second does. The amounts make some schedules overdraw and others not.
* *Delivery.* Two drivers and two clients let each driver be the idler one for either client,
  and `LongWait` = 4 (30 in the source) makes the first order of two of the
  three shops ask. Sleeps take no time: the model lets a delivery end at any
  moment, which covers every duration.
* *FoodOrder.* A confirmed order needs a second client to be seen, and a third
  to see a cancel after it. With -1 after 1 an order comes to nothing, and after nothing
  it is one that is never shown.
* *GuessGame.* Seven numbers take three guesses; a largest int of 15 is just above twice
  the upper bound, the assumption of the theorem. A second search starts on what
  the first has left in the shared memory.
* *ButtonDriver.* `Cycle` = 64 and `Boot` = 8: the tick counter starts in its
  lower half and the run stays there, as on a 64-bit kernel; what happens in the upper half is in
  section 7. Two buttons append at the same time; the third press is
  either a bounce or a press of its own. The buffer's capacity (1111 names) is
  not reached.
* *The Pi.* The sittings are: hw1 with both its modules, and `rmmod` at any time;
  hw1 with one of them, and a second try to run it; both modules of lab3, which share
  pins, name and class, and both writers; lab4 with writer and reader, and any
  command meanwhile; three modules that share pins and a class in any order; lab5. Each
  hazard between modules takes two of them, and the theorems of section 6 hold
  for all. An amount of 9 makes prices of three and four digits, with a zero at
  the end; shops of distance 3, 5 and 8 light from three to all LEDs. Two segments are
  one that is written and one that is not yet. Three processes are a server with
  two trains, or a train and a second server; two descriptors let one connection
  succeed before `accept` fails. A machine with no process free makes `fork` fail.

### What the runs that end in a violation show

1. `round_countdown`: `timer_handler` locks the mutex at line 290 of
   `Final_server.c`. SIGVTALRM goes to the process; if the thread that takes it is
   between the lock and the unlock of lines 225-231, the handler waits for a
   mutex its own thread holds. The clock stops, against the comment at line 261.
2. `delivery_phantom`: an order that the client accepts with `Yes` has been
   charged at line 93 of `hw3.c` and is charged again at line 122, and line 137
   takes it back once. The driver keeps a delivery that does not exist,
   against the comment at line 137.

## 4. Properties that are conditional, and on what

A history variable or an exception in a property names a behaviour of the code
that the property is not about; the model takes it all the same.

* `DepartedThreadEnds`, `CountdownEnds`, `RoundStarts`, `Answered` and
  `OrdersEnd` except a server that was killed, by SIGPIPE or by a SIGUSR1 that comes
  before its handler is installed.
* `RoundStarts` excepts a slot that went to a client that is never ready, as no
  slot is ever given again; `RecordOwned` the same client, whose thread may
  free the record before `main()` reads it.
* `OverIsOver` is about a display that was started when its client had announced
  the game; `CleanEnd` excepts the semaphore when `SETVAL` fails (line 116).
* `CriticalSection` and `NoLostUpdate` are about a server that got its
  semaphore, until Ctrl + C removes it under the threads (section 7),
  `RequestsAnswered` until somebody overdraws. `LeakStays` excepts a Ctrl + C before
  line 151, when the semaphore left behind has by chance the id 0.
* `LoadAccounted` counts the phantom deliveries that `LoadIsOutstanding` shows.
* `OrderAsAsked` and `BillAsAsked` except cakes, and what follows a confirmed order
  until the next `cancel` (section 7). Amounts may be negative. What is
  shown is the part of the order above zero; when there is none the answer is the one before
  (line 113), which is from the same shop.
* `PaysForOrder` is about the price of what was ordered; negative amounts are in it and
  are never shown.
* `AnswerInRange`, `RangeHalves`, `EndsOnAnswer`, `GuessesComplete` are about
  answers in time; `BoundsStay` is about all. The theorems about the first three have the
  hypothesis `Playable`: the number is one of 1 .. Upper, and 2 * Upper is an int (that
  about `BoundsStay`: 2 * Upper is below the largest int). The code checks
  neither.
* `ButtonsWork`, `ClosedMeansSilent` and `ReadsInOrder` are about orderly
  processes; `DebounceExact` is about all. Its theorem has the hypothesis `InWindow`: jiffies
  stays in the half of its range that `time_before` takes to be after the debounce time, where
  0, the driver's "not pressed yet", lies in the past. For buttons that were pressed
  since the start or the last `clear` it is enough that two times are less than half
  of the range apart (`Near`), and the counter may wrap.
  `ClosedMeansSilent` is about what was recorded: a press that is latched while the
  interrupts are disabled is recorded after the next `open`, for the next process.
* `ProgramsEnd` excepts a Ctrl + C before the reader has a socket (section 7), and says
  nothing of a reader that is not interrupted.
* `NothingLeft` is about modules that could be removed (not `stuck`), and lets the LED bar
  keep its pins, all or none, as its `exit` frees none. `PinsHeld` is about
  machines where no class was an error: then modules with common pins exclude each other.
* `ShowsWhatWasGiven` is about devices that could be opened and children that were not
  crashed by a removal; its theorem asks that no total is above the largest int (`TotalFits`),
  which the code does not check. `FrameFresh` asks for a whole letter only when none is
  being written. `OwnTrack` is about trains with a connection.

## 5. Fairness

* *Round.* Strong fairness of each client thread, each `timer_handler` frame and
  `main()`'s critical section: a thread competing for the mutex is enabled again
  and again only, and the scheduler and the futex queue let it through some day;
  the client threads poll without blocking. Weak fairness of the pending SIGUSR1
  and of the interval timer: `timer_thread` and the polling threads keep burning
  the CPU time that makes `ITIMER_VIRTUAL` fire. Nothing is assumed of clients.
* *Lobby.* Weak fairness of `main()`, the barrier, the threads and of reliable
  clients (they connect and say ready); strong fairness of accepting each
  connection, since the listen queue is first come, first served.
* *Client.* Weak fairness of the client, and of the server's two greetings, for
  which the client waits in `recv()` without a time limit. Nothing is assumed of the round,
  the display or the player.
* *Bank.* Strong fairness of each thread: `semop` serves those that wait in turn.
* *Delivery.* Weak fairness of each thread; sleeps end, and a client that is
  asked answers or is gone. Nothing says that a client confirms.
* *GuessGame.* Weak fairness of both programs; strong fairness of `Pause` and of
  `Alarm`: a handler takes less than the second between two alarms, so that the
  loop gets to its `pause()`.
* *The Pi.* Weak fairness of the three processes of hw1, someone pressing the key
  at line 93 among them, and of the reader of lab4 once it is
  interrupted. Nothing is assumed of the terminals, the network or the trains.
* `FoodOrder` and `ButtonDriver` have safety properties only.

## 6. Proofs

All theorems hold for every value of the constants that the modules' `ASSUME`
allows.

**GameRound** (`GameRoundProofs`). `RoundInvariant`: the inductive invariant is
`TypeOK`, `OwnerInside` (whoever is in a critical section, in its own code or in
`timer_handler`, holds the mutex, and a handler's critical section is never on
top of one of its own thread) and `Undisturbed` (the mole being paid stays on the
board until it is cleared, the handler draws on an empty board, there is no tick
before the start). `TypeOK` alone is not inductive for the refinement: that a hit in two
steps is one hit of `WhackGame` needs the hole to be full at the second step, which only
the mutex guarantees. `RoundTypes` follows. `RoundRefinesGame` (`Spec => PlaysByTheRules`)
maps the score to `point` less what is booked and not yet cleared: `Score` is a stutter,
`Clear` is `Hit`, `TickBegin` is `Tick`, `TickEnd` is `Pop`, `StartPlaying` is `Start` or
a stutter. The lemmas `NormalBoardsLegal` and `FinalBoardsLegal` show, for every number of
holes, that what the arithmetic of lines 295-330 draws is a legal board.

**Views** (`GameRoundProofs`). `RoundViewsFresh`: at any time a
connected player has the present game or something is under way that will send it
(a pending signal, a loop that has not come to it, a change a loop will follow).
This survives coalescing signals and holds although `info_sync` reads without the
mutex.

**Lobby** (`GameLobbyProofs`). `LobbyInvariant`: a connection that was not accepted has
left no trace (`Fresh`); how far `main()` is with the current one (`AtMain`); slots
are given in order, each to a client that knows it (`Slots`); a thread has its slot,
and its record until it is gone (`Threads`); a client is sent one of four
sequences (`Sent`). `OwnNumber` alone is not inductive: that the number sent is
that of the slot follows only from `main()`'s place. `RoundEntry` rests on counting
(`BarrierFull`): the waiting threads have different slots, so when there are
MAX_PLAYER of them they have all. From it `LobbyOwnNumber`, `LobbyRecordOwned`,
`LobbyRoundEntry`, `LobbyTypes`.

**Client** (`GameClientProofs`). `ClientInvariant`: from `shmat` to the removal the key leads
to the client's own segment (`Keys`); the client has the semaphore, or it is free,
depending on its place (`Held`); a segment is torn only between two writes, or
when the one who wrote is dead and the semaphore still taken (`Whole`); what is
still to be removed on the way out (`Leaving`); an announced game is on, or from
a snapshot (`Seen`). A segment that was never used is empty. From it
`ClientWholeSnapshot`, `ClientCleanEnd`, `ClientOverIsOver`, `ClientTypes`.

**Drivers** (`LabMachineProofs`). `MachineDrivers`: the whole machine refines
`DriverSpec`, so what is proved of the drivers alone holds with every program, command and
sitting. `DriverInvariant`: what a module has got agrees with the place its
`init` has reached (`Given`); pins are free or of a module that lists them
(`PinsKept`); a class name is made once, and who goes on without keeps the
error (`Classes`). `DriversHoldPins` needs the last: modules that share a pin
share a class name (`SharedPins`), so that only one of them can have its class
and reach its pins, unless a class is an error. `DriversLeaveNothing`,
`DriverTypes` follow.

**Programs of the Pi** (`LabMachineProofs`), each with all the others and any command beside it.
*Trains*: a connection that was accepted has one process on the way to its train
or the train (`Tracks`); only a process that is still a server has children, and a
zombie's parent has been told (`Families`). `TrainsOwnTrack`, `TrainsAreReaped`.
*Letters*: who has the device open has the code that is loaded or has seen it go
(`Files`, which rests on the drivers' invariant: a node is there only with its module);
the segments before the writer's place are of the new letter and the others of the last complete
one (`DataWhole`); what the reader has is not older than that letter was (`FrameKept`).
`LetterFrames`, for any number of segments. *Displays*: the pins of a driver differ, so that each shows its bit
(`ShowsBits`); the codes of the digits differ (`CodesDiffer`), so that a code can be
read; what was read so far is the total without its last digits, and what is left is the
divisor (`SegShown`), with the loop's first divisor found by cases (`DivisorIs`); the LEDs
are counted by a bijection (`ShowsDistance`). `DisplaysShow`, for the drivers as they are found,
removed and loaded again.

**Bank** (`BankProofs`). The invariant: `sem` is 0 until the server has asked for a
semaphore, is then the id of the one in the system or -1, and reaches nothing after Ctrl + C
(`Known`); there are no threads before `main()` is in its loop (`Quiet`); in a server with a
semaphore that was not told to end the counter is 0 while a thread is inside (`Taken`), and what a
thread has read is still the account when it writes (`Fresh`). `BankInvariant`,
`BankCriticalSection`, `BankNoLostUpdate` for any amounts, clients and restarts;
`BankLeakStays` as an action property.

**Button driver** (`ButtonDriverProofs`). `ButtonInvariant`: while the interrupts are
disabled no handler is on its way to the buffer (`Disabled`, which is what `disable_irq`
waits for); orderly processes come one at a time, find the interrupts disabled at most once
and leave them disabled once and the buffer empty (`InTurn`); and what a
process has got is the buffer up to its position (`ReadSoFar`). `ButtonsWork` is not
inductive: that the next process finds a depth of one takes the history of
the one before it. From it `ButtonWork`, `ButtonSilent`, `ButtonReads`. `TimeInv` ties the
driver's stamps, which wrap, to times that do not; `ButtonDebounceWraps` and
`ButtonDebounce` follow by modular arithmetic.

**Orders** (`OrderProofs`). The bills and the loads are sums over sets, made by a fold, that is, by
a recursive function. That the function exists is shown by induction on the size of
the set, for a set of numbers and not for an operator (`SetInduction`, from well-foundedness of
`<`); the lemmas after it say what a sum is when an element is added, changed or zero.
With them, for any part of the menu and any interleaving:
`DeliveryOneShop`; `DeliveryTypes`, with whoever is past `confirm()` having one of the
three shops (`HasShop`), so that `distance[]` is never read for none;
`DeliveryPaysForOrder`, as in an order of one shop the dishes of the others do not count
(`CostIsAll`); `DeliveryLoadAccounted`, where every step of a thread is shown to charge and relieve the
driver by as much as it changes the sum of outstanding distances. For hw2 the invariant (`FoodInv`) says
that, until an order was carried over, amounts are what was asked of this client, of its shop
only, and nothing before there is a shop; `FoodOrderAsAsked` and `FoodBillAsAsked` follow, for
any int amounts.

**GuessGame** (`GuessGameProofs`). Under `Playable` (the number is in the range and
twice the upper bound is an int): the range holds the number, a settled result is
the verdict on the guess, the game waits while the timer's handler runs, and after
a bingo nothing is guessed. From this `GuessAnswerInRange` and `GuessEndsOnAnswer`.
`GuessRangeHalves` adds that the guess is the middle of the bounds until one of them is
moved, and that both halves without the middle are at most half, however the middle is
rounded; the powers of two are a recursive function, treated like the sums above.
`GuessBoundsStay` has an invariant of its own that does not mention `late`.

Type invariants are proved, where they are needed for a proof, and not run
again; those of `Bank` and `GuessGame` are parts of the invariants above.

*Only model-checked.* Liveness under fairness (`CountdownEnds`, `DepartedThreadEnds`,
`RoundStarts`, `Answered`, `RequestsAnswered`, `OrdersEnd`, `ClientEnds`,
`GuessesComplete`, `ProgramsEnd`), which is out of the prover's reach. Every invariant and every
action property that a passing run checks is a theorem, some under the hypotheses named in
section 4. No module uses RECURSIVE operators. What the provers cannot do is an
induction over an operator; the sums, powers and readings above are instances
where the induction is over a set of numbers.

## 7. Behaviours met while modelling that no run asserts against

These are in the models and within the exceptions of section 4, or, where said, outside them.

* `Final_server.c:195`: the round runs before the handler of SIGUSR1 is
  installed at 200; a tick in between ends the server (`InfoSync`).
* `Final_server.c:366`: a send to a client that has left raises SIGPIPE (`Send`).
* `Final_server.c:292`: nothing stops the ticks after the end, and the clock
  goes below zero (runs stop at `LastTime` = 0; the proofs do not).
* `Final_server.c:117`: slots are never free again; `:151`: the record may be
  freed before it is read.
* `Final_client.c:199`: the semaphore is left taken at the end of the game (it is
  removed soon after); `:238`: a send to a server that is gone is SIGPIPE, and segment, semaphore
  and enabled buttons stay (`Send`); `:197`: a clock that skips zero does not
  end the client; `:206`: of several names read at once the first is sent;
  `:116`: when `SETVAL` fails the semaphore stays.
* `Final_game.py:98`: the display reads without the semaphore, and its final points
  may be those of the snapshot before the last (`ReadPoint`, `ReadTime`); a
  display started before its client has written the clock ends at once.
* `lab6/server.c:60`: the handler of Ctrl + C removes the semaphore before it ends the process
  (61): a thread that waits in `semop()` gets an error, which line 82 does not look at, and
  enters the section that the comments at 81 and 105 call critical beside the thread that is
  inside (`Interrupt`, `P`); an update may be lost, and answered, before `exit`.
* `lab6/server.c:99`: an overdraft leaves the loop without V; `:151`: the semaphore
  of a killed server stays, and the next server runs without one; `:118`: a Ctrl + C before
  line 151 removes the semaphore with id 0, whoever's it is (the model has only one that a
  former server left).
* `hw3.c:97`: the waiting time is looked at without the mutex; `:153` and
  `hw2.c:206`: a client that closes silently leaves its loop spinning.
* `hw3.c` and `hw2.c`, outside the models: a `recv()` of -1 and the index it gives, and
  amounts that overflow an int.
* `hw2.c:91`: cakes are counted as teas; `:113`: an answer with nothing to show is not
  written, and the one before is sent. `hw2.c:341`: after a confirmed order only `shop_flag` is
  reset; the next client starts with the amounts and the answer of the one before and is
  billed for both, against the comment at line 289 (`ConfirmOrder`).
* `guess.c:40`: an answer that is late is read twice, and the number leaves the
  range; `guess.c:45`: the sum of bounds above half of the largest int
  overflows. Outside the model: a SIGUSR1 that reaches `game.c` between the print of its PID
  and `sigaction`.
* `button_driver.c:105`: a write by another process, or a second one, leaves the buttons
  disabled; `:131`: a press latched while they are disabled is delivered to the next
  process; `:52`: in the upper half of the tick counter (the first five minutes
  of a 32-bit kernel) 0 lies in the future and presses are ignored (outside the run's bounds and
  of `InWindow`).
* `led_driver.c:382`: `exit` does not free the pins, and the next `insmod` fails once
  (`demo.sh:14` of hw1 tells the user to run it again).
* `seg_driver.c:263` and the same lines of the others: results of `class_create` and `device_create` are
  compared with NULL, which they never are; the error path or `rmmod` then dies on the error pointer
  (`DestroyDevice`, `Rmmod`). `seg_driver.c:404`: `r_gpio` frees the pins that
  were refused as well, which are another module's.
* `hw1.c`: a shop that is not on the list is asked for its dishes for ever (`lost`). Outside
  the model: negative amounts.
* `lab3-1/writer.c:35`: the bytes that are not of this digit are sent too, and
  the LEDs show them until the last one is written.
* `lab4/reader.c:29`: a Ctrl + C before line 31 closes descriptor 0 twice, as `fd` and `connfd`
  are both 0; the reader then opens the driver file and runs on, although the comment at line
  16 says that the handler is there to close that file (`SigintReader`).
* `my_dev.c:92`: frames may be torn between two letters. `my_dev.c:24`: without
  `.owner` the module can be removed while open (`stale`).
* `lab5.c:48`: connections are never closed, and when there is no descriptor left
  every `accept` fails and starts a train without a connection (`AcceptFails`);
  `lab5.c:61`: a child whose `execlp` fails becomes a second server on the
  connection (`ExecFailed`).

## 8. What is left

Every component that has state of its own is modelled. The order was: the
round and its abstract game, the lobby, the bank, the deliveries, the orders, the
guessing game, the button driver, the client with its display, the drivers with
the programs of hw1, lab3 and lab4, the trains; the proofs in the order of section
6 after the first ones of the round.

Worth proving next: that a state of `GameLobby` in which the barrier is open is an initial
state of `GameRound` (so far `RoundEntry` says so in words of the lobby), and the
points of an abstract bank and an abstract delivery service that `Bank` and
`Delivery` refine, as `GameRound` does `WhackGame`.

### Not modelled

* Loading and unloading of the button driver (lines 163-256): the labels of its `init`
  (224-240) free the interrupts and pins of all five buttons, also those that were not
  requested yet, and leave the device node, and what that does depends on the kernel's
  interrupt layer; the five modules of 1.8 show the same template.
* The sprites, colours and animation of `Final_game.py`: output, with no state that
  anything else reads.
* Socket set-up (`socket`, `bind`, `listen`, `setsockopt`) except where a failure
  leaves something behind: it ends the program.
* The text of messages, where no property is about it; `D_lab2`, a report.
* The test programs of `F/測資`: what they do to the driver is in `ButtonDriver`.
