# Bourse: a verification project in TLA+

Bourse is a stock-exchange server in C. Clients connect over TCP, log in under a
name, deposit funds and units of one commodity, and post and cancel buy and sell
orders; a matchmaker thread trades orders that match. The modules here model the
server's threads, locks, packets and data; TLC checks them on small instances and
TLAPS proves what matters most for instances of any size: the invariants of the
exchange, of its accounts, of the server's packets, of the traders map, of the
client registry and of the packets on a connection, and that the exchange, the registry
and a connection implement what they promise.

## The system

| component | state | operations | talks to |
|---|---|---|---|
| **exchange** (`include/exchange.h`; the code is `exchange.o` in `lib/bourse.a`) | two linked lists of orders, last trade price, next order ID, a mutex, a semaphore, `done` | `exchange_post_buy`, `exchange_post_sell`, `exchange_cancel`, `exchange_get_status`, `exchange_init`, `exchange_fini`; the matchmaker thread | accounts and packets through `trader.c` |
| **traders** (`src/trader.c`) | the map `all_traders`, `count`; for each trader balance, inventory, reference count, descriptor, a recursive mutex | login, logout, `trader_ref`/`trader_unref`, account operations, packets to one trader and to all | called by service threads and the matchmaker |
| **client service** (`src/server.c`) | one thread per connection: `this_trader`, the payload buffer | LOGIN, STATUS, DEPOSIT, WITHDRAW, ESCROW, RELEASE, BUY, SELL, CANCEL, end of file | all the others |
| **client registry** (`src/client_registry.c`) | an array of descriptors, a count, four semaphores | register, unregister, wait for empty, shut all down | service threads and main |
| **main** (`src/main.c`) | the accept loop, the cell `connfdp`, a SIGHUP handler | accept, spawn, terminate | all modules, at start and end |
| **protocol** (`src/protocol.c`) | none; the streams of a connection are its state | send and receive a packet with `rio_writen` and `rio_readn` of `src/csapp.c` | client service, traders |
| the rest of csapp, debug, Makefile, the client binary, the tests | | | not modelled, see below |

What is hard, and which properties it puts at risk:

- *Exchange.* Threads post and cancel while the matchmaker pays three times under
  other locks and then lets go of the exchange mutex to send packets. Funds and
  units must not appear or vanish, the lists must stay ordered because only their
  ends are looked at, no wakeup may be lost, and orders and traders must not be
  freed while they are in use.
- *Traders.* `trader_login` takes no lock around the map; sends can fail; a
  broadcast also goes to traders who have logged out.
- *Registry and shutdown.* Semaphores are waited for while another is held, a
  signal arrives between any two steps of the accept loop, and main frees what
  other threads may still use.
- *Protocol.* Reads and writes that return part of what was asked, packets cut
  short by the end of the connection, buffers of earlier packets, and several
  threads that write to one descriptor.
- *All together.* A post broadcasts with the exchange's mutex held and takes the
  traders' mutexes one by one; the matchmaker pays with both; a send that fails
  keeps one.

`PROJECT.json` lists each hazard at its line, with the properties that watch it.

## The modules

| module | models | state and actions |
|---|---|---|
| `Exchange` | the exchange, the accounts and the nine requests | `order` holds every order ever created by ID and its life (`OrderStates`); `buys` and `sells` are the lists; `pc`, `cur`, `answer` are a service thread's position, order and reply; `mm` the matchmaker's locals; `refused` counts the references that refused logins keep. One action is a critical section of the exchange mutex or of a trader's mutex, or a step between two of them that reads freed memory. |
| `ExchangeProps` | what must hold of it | type invariant, safety, the inductive invariant `Inv`, the mapping to `Market` |
| `Market` | what the exchange promises | each trader owns cash and goods and has open orders; a trade happens in one step; a cancel takes out an order of the trader who asks, and `canceled` has it until that is answered |
| `Server`, `ServerProps` | `Exchange` with the packets it sends and the traders' mutexes it takes, sends that fail, connections that are reset | `outbox` holds the packets a thread has yet to send before its next step, `writing` who has the mutex of the first one's trader, `kept` the mutexes that failed sends left locked. Every action is one of `Exchange` and what it waits for, or a step of `trader_send_packet`. |
| `TraderTable`, `TableProps` | `trader.c`'s map, login, logout, packets, `trader_fini` | `trader` holds every TRADER allocated, `all_traders` the map, `kept` the mutexes a failed send left locked, `th` the program counters and locals |
| `Protocol`, `ProtocolProps` | one connection: `protocol.c`, `rio_readn`, `rio_writen`, the loop of `brs_client_service` | a stream is a sequence of units (a header has three, a payload one for each field): `coming` is the next one the client sends, `wire` what is under way, `out` what the client was sent; `hdr`, `block`, `got` are the buffers and how full they are, `wr` the packets of the service thread and of another that notifies the same trader |
| `Session` | what client and server promise each other over a connection | requests, whole or in part, and answers |
| `ClientRegistry`, `RegistryProps` | the registry, `main.c`, the start and end of service threads | the semaphores are integers; one action is what happens between two semaphore operations; once a send has failed (`kept`) a service thread, or main in `exchange_fini` or `trader_fini`, may wait for ever for the mutex left locked ("blocked") |
| `ClientSet` | what the registry promises | a bounded set that is closed once, when empty |
| `ListLemmas`, `SumLemmas` | facts about ordered lists, and about sums over finite sets and the smallest number of a set | no state |
| `ExchangeProofs`, `AccountProofs`, `ServerProofs`, `RegistryProofs`, `TableProofs`, `ProtocolProofs` | the theorems about `Exchange` (its book and threads; its accounts), `Server`, `ClientRegistry`, `TraderTable` and `Protocol` | |
| `MCExchange`, `MCServer`, `MCProtocol`, `MCTable`, `MCRegistry` | instances for TLC | |

Definitions marked "Slip" are plausible mistakes in the definition that follows
them; the specification never uses them. Each property of a passing run has one
that makes TLC find the property violated.

`exchange.c` is not in the repository. `Exchange` is translated from the
disassembly of `exchange.o`, with `exchange.h` as its documentation, and comments
give the offset in its `.text` where a step is found (`exchange_post_buy` +0x220,
`exchange_cancel` +0x55a, the matchmaker +0x751, `execute_trade` +0x8b9,
`create_order` +0xb0c, `free_order` +0xc4a). The map in `PROJECT.json` names the
lines of `exchange.h` that describe it.

### Abstractions

- `Exchange` gives each trader one session at a time, ended and begun again by
  `Logout` and `Login`. A LOGIN to a name that has a session is refused and keeps
  the reference it took (`LoginRefused`, `trader.c:57` and `80-82`). Sends complete there and a trader's mutex is held only
  within a step. `Server` adds the packets, in the order each thread sends them,
  and those mutexes. `TraderTable` has the opposite view: the map and the
  overlapping logins are its subject, and orders and accounts are left out. A
  step there that pays a trader is a step that needs its mutex, like a packet.
- In `Server` the map holds the same traders throughout: a broadcast goes to all
  of them, as it does in the code, with descriptor -1 to those logged out. A
  packet is written in one step there; `Protocol` has the pieces.
- `Protocol` groups the packet types by their payload: "funds" has one field and
  "order" two. Requests are well formed, and cut short only by the end of the
  connection, at any unit. What `malloc` leaves in a payload is one value, `Junk`.
  A size of two bytes of which one was read counts as not read; it is zero then
  for every payload shorter than 256 bytes.
- Use of freed memory sets `undef`, and the model stops: nothing is known of such
  a process. Where freed memory is only read and the outcome is one of a few
  values, the model takes any of them: the order ID read after the unlock
  (`ReadId`), the quantity of an order of a trade that a cancel has freed
  (`Kept`, `ClearedTwice`).
- `Wrap` gives funds and quantities their width; `Modulus` is 2^32 in the server,
  a small power of two in the runs and any positive number in the proofs.
- `count++` is a load and a store; the unlocked look-ups of `trader_login` are
  steps of their own. A scan of the map is one step: entries are only added
  during it.
- The memory a new TRADER is counted up in is a constant, `Memory`: 0 in the
  runs, and any numbers that are not negative in the proofs. A negative number left
  by an earlier use would let a trader be freed that is in use.
- The first SIGHUP runs the handler in the main thread, which Linux chooses when
  it does not block the signal; a second one runs it in a service thread and frees
  `connfdp` again, which ends what is known of the process (`SighupAgain`).
- The server does not ignore SIGPIPE, so that a write to a connection that was
  reset can end the process instead of failing: such behaviours stop there and add
  nothing to what is checked.

## The runs

Every run has 2 or 3 of each actor: the faults at stake are between two service
threads, or one and the matchmaker or main; a third connection or order is there
where the second one is not enough to make a list longer than one or to wait for
a slot.

| run | shows | bounds |
|---|---|---|
| `book` | `FundsConserved`, `UnitsConserved`, `RefsExact`, `SpentOrdersLeave`: the sums are exact at every interleaving | 2 traders, 2 orders, words of 2 bits so that costs and payments wrap, prices and quantities 1 and 2, so partial fills and trades with oneself; logouts, logins and one refused login, once all deposits are in (`OneRefusal`). No deposit wraps here |
| `three` | `BookInOrder`, `NoLostMatch`, `PostedBeforeTraded`, and `Inv`, which the proofs use; and `Exchange` implements `Market` | 3 orders, so that the best bid or the best ask is a choice and a trade follows another, with the last price inside or below what both accept; words of 5 bits, so that `NothingWraps` is true throughout (the abstract market has no width). To keep the run short deposits come before orders (`Funded`), one trader bids and the other offers (`Sides`), two units a bid and one an offer (`Sizes`) |
| `server` | `WireOK`, `PostedComesFirst`, `WireInv`, which the proofs use, and under fairness `RequestsAnswered`, `MatchesAreTraded`, `FiniReturns` | 2 traders, a bid and an offer of one price and size, so that the orders match; one trader's connection may be reset; logouts, later logins, a refused one and the shutdown. `Scenario` fixes who bids and who offers, puts deposits before orders and leaves out requests that only repeat another, to keep the run within minutes |
| `protocol` | `InPhase`, `OwnPayload`, `OutWhole`, `ReadInv` and `OutInv`, which the proofs use, `SessionSpec` (the refinement), and under fairness `ArrivedIsTaken`, `EndOfService` | three clients: payloads of each length after one another, requests before LOGIN and a second LOGIN; reads and writes of every length, an end at any unit; one notification from another thread |
| `registry` | `RegisterHasRoom`, `NobodyServedAfterWait`, `RegistryInv`, which the proofs use, `ClientSetSpec` (the refinement), and, unless a send has failed, `ServedClientsEnd`, `TerminateReturns` | 3 connections and 2 slots, so that one waits; a SIGHUP and a failed send at any point |
| `traders` | `RefsCover`, `OneSession`, `Packed`, `PacketsWhole`, `FiniFreesAll`, `LockedOrKept`, and `TableInv`, which the proofs use | 2 descriptors, one used again, the matchmaker, 3 names and 2 slots: the map fills, names log in again, sessions overlap; `RefCap` bounds the references that refused logins leak. `Quiet` keeps the matchmaker from sending once logins have overlapped, three traders exist, a descriptor is used again and a send has failed; the service threads go on broadcasting |
| `nack` | **violated**: an order that was posted and traded can be answered with a NACK | 1 price, 2 orders |
| `cancel` | **violated**: the matchmaker unlinks and frees an order that a cancel has taken out of its list (`FreesAgain`) | the same |
| `overflow` | **violated**: a trader has funds that nobody deposited. With words of 2 bits a bid for 2 at 2 costs 0; a trade of one unit pays the seller | 2 orders, no deposits, so none wraps |
| `sighup` | **violated**: a client registered after `creg_shutdown_all` keeps the server alive, with no failed send | 2 connections |
| `seized` | **violated**: after a broadcast to a trader who has logged out, another thread's broadcast waits for its mutex and its client has no answer | as `server`, with no connection reset |
| `mapped` | **violated**: two logins choose one slot and one trader is lost from the map | 2 names |

`MaxOrders`, `DepositCap`, `EscrowCap`, `MaxRefused`, `RefCap` and `MaxReconnects` are bounds of
the model and not of the server. Traders, connections and names are
interchangeable: `book` and `traders`, which have neither liveness nor a constraint that
tells them apart, use that symmetry.

Three of the properties of `traders` speak of the time while logins have come one
at a time (`overlapped` is still FALSE): then the map is packed, a name has one
session and `trader_fini` frees everything, however logouts, broadcasts and failed
sends interleave. `mapped` shows that overlapping logins do break the map.
`RefsCover` and `LockedOrKept` need no such condition.

The properties of `protocol` say how far a torn packet can do harm. The code takes a
header or a payload cut short by end of file for a whole packet, though
`protocol.h:185-186` has `proto_recv_packet` return 0 for a successful reception
only. `OwnPayload` and `SessionSpec` allow that for the one request in which the
connection ended and for no other: it is the last one taken.

The liveness of `server` and of `registry` is of behaviours in which no send has
failed (`kept`): a mutex left locked can hold up a service thread in its
broadcast or in `trader_logout` (`trader.c:129`), the matchmaker, which main joins, and
main itself in `trader_fini` (`trader.c:39`). `seized` shows that the condition is
needed; `sighup` fails without any such send.

Each run that finds a violation states what a comment or a test says of the program.
`nack` and `cancel` both come of the window between the release of the exchange's
mutex and the use of an order, but of different steps: `nack` of the ID read by the
thread that posted, `cancel` of the removal by the matchmaker.

TLC checks deadlock in every run but the violations look for one property only.
The states where the server may stop are named by the `Stopped` actions and the
last disjunct of `ClientRegistry`'s `Next`.

### Fairness

Service threads, the matchmaker and main are kernel threads under a preemptive
scheduler: one that can run does. Nothing is asked of a client, who may never send
or close, nor of signals.

- `ClientRegistry`'s `FairSpec` asks weak fairness of each service thread and of
  main once it terminates. Weak fairness is enough because the connections that
  can take a semaphore first are bounded.
- `Protocol`'s `FairSpec` asks weak fairness of the service thread and of the
  notifier, so that a write goes on: the client reads what it is sent. The mutex
  is taken a bounded number of times by the other.
- `Server`'s `FairServer` asks strong fairness of each service thread in the middle
  of a request and of the matchmaker: with clients that send for ever a mutex is
  free again and again, and the mutexes of the platform starve nobody. Clients
  read what they are sent.
- `seized` and `sighup` find their counterexamples under these assumptions, so that
  the wait they show is not for a thread that does not run.

## What is proved

For every set of threads, connections, traders and names, every size of the arrays,
every range of prices, quantities and amounts, every bound and every word size:

| module | theorem | states |
|---|---|---|
| `ExchangeProofs` | `InvHolds` | `Spec => []Inv` |
| | `TypesHold` | accounts, quantities and prices are words and the lists hold IDs: no subtraction in the code goes below zero |
| | `BookHolds` | the lists hold the posted orders, each once, on its side, in price order |
| | `MatchHolds` | while orders match the matchmaker is not asleep without a wakeup |
| | `AnnouncedFirst` | an order being traded has been announced as POSTED |
| `AccountProofs` | `RefsHold` | `RefsExact`: a reference for the map, one for the session, one per live order, and one that nobody will drop per refused login |
| | `SpentLeave` | `SpentOrdersLeave`, if no client asks for a quantity of 0 |
| | `FundsHold`, `UnitsHold` | `FundsConserved` and `UnitsConserved`, whether or not words wrap around |
| | `MarketImplemented` | `Spec /\ []NothingWraps => Market`: the exchange implements the market while nothing wraps around |
| `ServerProofs` | `ServerImplements` | `ServerSpec => Spec`: the server with packets, mutexes, failed sends and connections that break takes the exchange's steps |
| | `ServerKeepsInv` | `ServerSpec => []Inv` |
| | `WireInvHolds`, `WireHolds` | `WireInv`; a locked mutex is of a thread that writes, or a failed send left it |
| | `PostedFirst` | `PostedComesFirst`: no packet about an order's end overtakes its POSTED |
| `RegistryProofs` | `RegistryInvHolds`, `RegistryTypes` | the semaphores, the count and the array agree with where the threads are |
| | `RegisterFindsRoom`, `WaitIsFinal` | `RegisterHasRoom`, `NobodyServedAfterWait` |
| | `RegistryImplements` | `Spec => ClientSetSpec` |
| `TableProofs` | `TableTypes`, `MutexesHeld` | `TypeOK` and `LockedOrKept`, with no hypothesis |
| | `TableInvHolds` | `TableInv` (this and the rest: if `Memory` holds no negative number) |
| | `ReferencesCover` | `RefsCover`, also when logins overlap |
| | `SessionsSingle`, `MapPacked`, `PacketsAreWhole`, `FiniIsComplete` | `OneSession`, `Packed`, `PacketsWhole`, `FiniFreesAll` |
| `ProtocolProofs` | `OutInvHolds`, `OutIsWhole` | `OutInv` and `OutWhole` |
| | `ReadInvHolds`, `ProtocolTypes` | `ReadInv` and `TypeOK` |
| | `InPhaseHolds`, `PayloadIsOwn` | `InPhase` and `OwnPayload`, for every script and wherever the connection ends |
| | `SessionImplements` | `Spec => SessionSpec` |

The assumptions are those of the modules. `Exchange`: the matchmaker is not a trader,
the traders are finitely many (`ThreadsAssumption`), and amounts are words
(`WordAssumption`). `Server`: the broken connections are traders'
(`ServerAssumption`). `ClientRegistry`: finitely many connections, none of them a
special value, and room for one (`ConnsAssumption`, `SizeAssumption`). `TraderTable`: the
same of its connections and slots, and the matchmaker is no connection
(`TableAssumption`). `Protocol`: a script is a
sequence of request types (`ScriptsAssumption`), the notifications are bounded
(`BoundAssumption`), the zeros of a cleared header and what `malloc` leaves are no
units that a client sent (`MemoryAssumption`), and the owner of a free mutex is no
thread (`NobodyAssumption`). Three theorems or groups of
them have a hypothesis of their own. `SpentLeave` takes `0 \notin Quantities`: an order of
quantity 0 is in the book without having been used up, and the code accepts one.
Those of `TableProofs` from `TableInvHolds` on take `Memory \subseteq Nat`: the
first reference of a TRADER is counted up from what `malloc` left (`trader.c:99`),
and from a negative number the count says nothing; the first use of fresh memory
reads 0. `MarketImplemented` takes `[]NothingWraps`: no order that a client asks for
costs 2^32 or more, and what a trader owns leaves room for one more deposit and one
more escrow. The code checks neither (`trader.c` adds, `exchange.o` multiplies,
without a test), the market has no width, and past that point the two do differ:
funds are then lost by a multiple of 2^32, which is all that `FundsHold` allows. The
hypothesis is true in every state of the run `three`.

### The exchange

`BookInOrder`, `NoLostMatch` and `PostedBeforeTraded` are not inductive. `Inv` adds
what each thread knows of its order while it holds no lock (`ThreadInv`: an order about to be inserted is not in a
list, so that it goes in once), who has the mutex (`MutexInv`), and what the
matchmaker knows of the two orders of a trade before and after it lets go of the
mutex (`TradeInv`). `InvStep` then has one case per action:

- `TypeStep` and the `...Facts` lemmas follow the words and labels;
- `BookStep`: an insertion puts an order where `Slot` says, a cancel and a removal
  take one out, both by the list lemmas; every other step leaves what the lists
  depend on as it was;
- `LostMatchStep`: orders come to match only by an insertion at the end of a list
  that the other side meets. An order that is not the best of its side cannot be
  the one (`LowBuyNoMatch`, `HighSellNoMatch`), and taking one out makes the best
  bid lower or the best ask higher (`RemovalNoMatch`), since the lists are in order.
  This is why one semaphore, posted only for a new best order, is enough.

`ServerImplements` needs no refinement mapping, since `Server` extends `Exchange`: a
lemma for the sends, which leave the exchange alone, one for the service threads and
one for the matchmaker, whose steps are steps of the exchange that wait for more.
Waiting and failing removes behaviours and adds none, so every safety property
of the exchange holds of the server.

`ListLemmas` exists because the library's facts about sequences say nothing of
`InsertAt` and `RemoveAt`.

### The accounts

`OrdersProgress` says what a step can do to the orders: each keeps its kind, owner
and price, its state moves forward and only a trade changes its quantity.
`RefsStep` then counts the live orders of a trader (`LiveMoves`, `RefsMove`): the
references a step takes and drops are those of the orders that enter and leave that set.

`SpentOrdersLeave` is not inductive: between a trade and its removal the mutex is
free. `SpentInv` adds that no order on its way to the book has a quantity of 0.

The sums need an induction, and the induction theorems of the library are out of the
prover's reach. `SumLemmas` does without: the set of finite sets on which a sum is not determined would have a
smallest member (`MinimalSet`), and an element taken out of that leaves a smaller one.
What follows are five facts about adding, removing and changing one summand. With
them each action is a move between three places, the accounts, the live
orders and the matchmaker's hands (`FundsInFlight`, `UnitsInFlight`), whose total
changes by what is deposited or withdrawn: `OwnAccountConserves`,
`ReserveConserves`, `FreeConserves`, `TradeConserves`, `PaymentsConserve` and
`ReapConserves`. Each move is modulo the word (`WrapCongruent`), which is why the
theorems hold when costs and payments wrap around.

`MarketImplemented` is the same for each trader alone, and exact. What a trader owns
(`Cash`, `Goods`) is its account, what its live orders encumber and what the
matchmaker owes it, so that most steps only move it between the three and
are stutters of the market: an order comes to encumber or stops (`OwnMove`), the
matchmaker pays what it owes (`Pays`). The other steps each have a
lemma: `MarketTrades`, `MarketAccounts`, `MarketPosts`, `MarketCancels`,
`MarketFinishes` (the cancel is answered), `MarketReaps`; the cancels under way
are those of the threads whose order is out but not yet freed (`CancelsStay`). The hard one is the trade. In the code it begins by taking the units
off two orders and is over three payments later; the market sees it happen at once,
when the buyer's orders give up `qty * limit` and the matchmaker comes to owe it
what is above the price (`TradeMoves`), and the lists' order makes the two orders the
best of all that are open (`BestOfBook`). `Market` also asks that a trader can always
pay for all it bids and deliver all it offers. This `Solvency` is never checked by the code: it
follows from what the orders encumber, summed over the market's offers instead of the
book's IDs (`SumOfImages`, `SumWithin`). `TermsInv` is the invariant it rests on: an order never grows beyond
what its client asked for, so that its cost never wraps around, and a trade is never
above the buyer's limit, so that a refund is never negative.

### The packets of the server

`WireInv` adds to `WireOK` what a thread's packets say of its step of the exchange: a
thread has POSTED to send only while it holds the exchange's mutex with its own
order still booked, CANCELED only once the order is gone, and the matchmaker the packets of
its trade only after it let go of the mutex. `PostedComesFirst` follows from it and
from `Inv`: the order of a thread in "announce" is booked, so that nobody has freed it,
and it is not in a trade (`PostedBeforeTraded`). `WireFrame` says that the packets of
the other threads stay true of a step of one; `OrdersProgress` is used again, since
an order that is gone stays gone.

### The registry

`RegistryInv` states each semaphore as a number of threads: `slots` and those between
`P(slots)` and `V(slots)` make `FD_SETSIZE`, `items` are the threads that have
offered one, `mutex` is taken by the one thread inside, and `count_mutex` is with the
registered clients, with the last one on its way out or with main for good. The
count is that of the used entries and of the threads past the store. There is a free
entry for a thread past `P(slots)` because those that have stored are fewer
than the ones that hold a slot (`HasRoom`). `RegistryImplements` maps a client to a
member from the store, or for the first one from its `P(count_mutex)`, to the clear:
each of these is a step of `ClientSet`, the end of the wait closes it, and the
other steps stutter.

### The traders map

`TableInv` has two parts. Types, locals, mutexes and `trader_fini` (`BaseInv`) keep
each other true whatever `malloc` leaves and however logins overlap (`BaseKept`). The
references, sessions and map follow, each with a lemma over the actions
(`RefsStep`, `SessionStep`, `MapStep`), from what the `...Facts` lemmas say an
action does to the trader, the thread and the map. A reference is owed to every
thread that uses a trader or is about to (`Users`); it moves with the thread,
so that a logout never frees a trader in the map. While logins have come one at a
time a descriptor is in the trader of its session and nowhere else
(`SessionInv`), what a login has seen of the map is still so when it stores
(`MapInv`), and every trader is in the map or in the hands of the thread that made it,
which is why `trader_fini` misses none.

### The packets of a connection

`OutWhole` says how the units on the stream follow one another; `OutInv` adds who may
write the next. A packet under way has the trader's mutex or is a refusal of LOGIN,
which has none: then the client is not logged in and nobody notifies it
(`OneWrites`). Until a reset the stream ends with a whole packet, or with as much of the
one under way as its writer has written (`TailInv`), so that the next unit goes
where it belongs (`OutWrites`).

`InPhase` and `OwnPayload` need to know what is still to come. `ReadInv` says that
what is under way are the units of the script in their order, from the one that
follows what was read: the server's place in the stream is a function of its
position in the code, of how many requests it has taken and of how full its buffer
is (`Place`). Only the end of the connection breaks this, and then nothing is
left to read and the request that was cut short is the one being taken (`Drained`).
The units a read takes are so many of one request in a row (`InARow`), so that they go
where they belong in the header or payload; a read comes to end of file inside a
request only if the client stopped inside it (`CutShort`), and no request taken
earlier can be the torn one (`NoneTorn`).

`SessionImplements` has one lemma for each part of the connection. The
client's steps send a unit, and thereby begin or complete a request of `Session`; what
reads and waits stutters; `act` takes the request; the last unit of an answer sends it.
The answers of `Session` are a recursive function of the stream the client was sent. Its
equations are proved without the induction theorems: if they had no solution up
to some length there would be a least such length (`SmallestNumber`), and one more
unit extends the solution before it (`AnsweringExists`).

### Model-checked only

- Liveness and `ENABLED` are out of the prover's reach: `RequestsAnswered`,
  `MatchesAreTraded`, `FiniReturns`, `ServedClientsEnd`, `TerminateReturns`,
  `ArrivedIsTaken`, `EndOfService`.

## Not modelled

- Malformed requests: sizes that do not fit the type, requests without the fields
  their type needs (`server.c:103`), and types that are not requests. Time stamps of packets.
- The byte order of the fields of replies: `orderid` and `quantity` of an ACK are
  sent in host order (`server.c:155`, `174`, `190`), unlike balance and inventory.
- Deposits that wrap: `trader.c` adds them to a word without a test. `FundsHold`
  covers them only in that funds are conserved modulo the word.
- What the balance and the inventory in an ACK are: they are read without the
  trader's mutex (`trader.c:211-212`) and can be of two moments.
- The rest of csapp: of these vendored wrappers the server calls `P`, `V`,
  `rio_readn`, `rio_writen` and a few that exit on error, and those are modelled.
  `debug.h`, the build, the binaries in `util/` and the tests, which hold
  no state of the server. `bourse_tests.c` was read for what it expects.

## Plan

The modules planned at first are written. Every safety invariant and every refinement
that a run checks is proved; liveness stays with TLC. What can still be added is a
bound on the constants alone from which `NothingWraps` follows. It would speak of
`DepositCap` and `MaxOrders`, which bound the model and not the server, and so say
little more of the code.
