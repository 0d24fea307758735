# A verification development for the cache server

This directory holds TLA+ models of the cache server in `src/`, the TLC
configurations that check them, and proofs checked by TLAPS. Paths below are
relative to `src/src/` unless they start with `src/`.

- [The system](#the-system): its parts, their state, what is hard about them
- [Plan](#plan): modules, runs and theorems, in order
- [Modules](#modules): how definitions correspond to the code
- [Runs](#runs): what each shows, bounds and fairness
- [Proofs](#proofs)
- [Where code and documentation disagree](#where-code-and-documentation-disagree)
- [What is not modelled](#what-is-not-modelled)

## The system

A single-threaded, Redis-like server. `Server::run` repeats one round: wait for
socket events and handle them (`EventLoop::poll`), pass over all connections to
answer the requests they have buffered and to clean up those that are over, and
sweep expired keys. The only other control flow is a signal handler. All state
is in memory; nothing survives a restart.

| Component | State | Operations | Interacts with |
|---|---|---|---|
| Storage engine: `containers/ResizableHashTable`, `HashTable` | two chained tables `_newer` and `_older`, the slot `_migratePos` the migration has reached, a size counter in each table | `get`, `set`, `del`, `findEntry`, `keys`, `size`, `clear`; each of the first three moves up to 128 entries while a migration runs | called by commands and by the sweep; timers point into its entries |
| Heap of deadlines: `containers/TTLHeap` | vector of `HeapEntry` (key, deadline, pointer to the entry's `ttlHeapIndex`) | `push`, `pop`, `top`, `removeByKey`, `updateTTL`, `getByKey` | writes positions into table entries |
| Expiry: `server/TTLManager`, `command/PExpireCommand`, `PTTLCommand`, `DelCommand` | the heap, as a singleton | PEXPIRE, PTTL, DEL, the sweep `removeExpired` | table and heap through raw pointers |
| Server loop: `server/Server`, `network/EventLoop`, `network/Listener`, `main.cpp` | `_running` twice, the events of a batch | `run`, `poll`, `onAccept`, `stop` from a signal handler | everything |
| Connections: `network/Connection`, `ConnectionManager` | per descriptor: mode, closed flag, two buffers, last activity; a cache of raw pointers to the active ones | `handleRead`, `handleWrite`, `addConnection`, `cleanupConnection`, `getActiveConnections` | kernel, clients |
| Requests: `server/RequestProcessor`, `protocol/ProtocolHelper`, `ByteBuffer`, `Response` | the buffers of the connection | parse, dispatch, encode and queue the reply, at most 100 in a pass | commands |
| Sorted sets: `containers/ZSetValue`, `AVLTree`, `AVLNode`, the `Z*` commands | a tree ordered by score and name, and a table by name, of the same nodes | add, remove, score, query | stored as values in the main table |
| Commands and factory: `command/*`, `utils/helpers`, values | none of their own; keys hold strings or sorted sets | ten commands, dispatched by name | table, heap, sorted sets |
| Client (`src/client.cpp`) | one socket | one request at a time: encode, send, read, decode | outside the server |

**What is hard here.** Although only one thread runs, much is in flight between
two steps of it:

- A migration spreads over many calls. Every call must see a consistent mapping
  in whatever state the move is; nothing may be counted, found or freed wrongly;
  and the second table must not overflow before the first is empty.
- Timers, table entries and heap positions refer to one another by address.
  Swaps, migrations, overwrites and deletions all have to keep the triangle right.
- The loop holds raw pointers to connections across events that add, close and
  delete connections; a signal may delete them all at any moment.
- Clients may leave, reset, or stop reading between any two steps; writes may be
  partial, and the mode of the connection has to follow.
- A stream of bytes has no messages in it: a read may end inside a length, or
  bring in two requests; a write may leave half a reply; a parser or a command
  that throws ends the batch. The requests left over must not be forgotten.
- Commands check arguments, look at keys and create what is missing in an order
  that decides what a failing one leaves behind.
- A sorted set is kept twice, and its tree is ordered by a field of objects the
  table shares. Parent pointers, heights and the root are moved by hand.
- Time: whole seconds versus milliseconds, ints versus 64 bits, a sweep with a
  budget.

**What makes each part correct.** The storage engine is a mapping, whatever its
migration is doing; load stays bounded. The heap hands out an earliest deadline.
A key with a time to live goes, not before its time; a key without stays. No
pointer is followed to something deleted. Every request gets read, answered, and
sent, once and in order; a command that fails changes nothing. A sorted set maps
names to scores and lists them in order. Every connection that is over gives
back its descriptor; a signal ends the loop.

The full list of hazards, each with its line and the properties about it, is in
`PROJECT.json`.

## Plan

The order is that of importance: what every command depends on first.

| | Module | Subject | State |
|---|---|---|---|
| A | `KVStore` | abstract: what `IDatabase` promises | written |
| A | `ResizableHashTable`, `_proofs` | both tables and the migration; implements A | written, proved |
| B | `TimerQueue` | abstract: deadlines by key | written |
| B | `TTLHeapOps`, `TTLHeap`, `_proofs` of both | the heap; implements B | written, proved |
| C | `Expiry`, `_proofs` | composes A and B with the commands and the sweep | written, proved |
| D | `ServerLoop` | loop, connections, clients, signals | written |
| D | `ServerLoop_proofs` | its safety invariants | proved |
| E | `ScoreOrder`, `ScoreMap` | abstract: members by score and name, a map with ordered queries | written |
| E | `AVLTree`, `SortedSet`, `_proofs` | the tree as operators; tree and table kept in step; implements E | written, proved |
| F | `Commands` | all commands on keys of two types, as operators | written |
| F | `Wire` | requests and replies, as encoded and decoded on both sides | written |
| F | `Service` | abstract: requests executed once each, in order | written |
| F | `Session`, `_proofs` | one connection from client to keys and back, composes F; implements `Service` | written, proved |
| | `Rounds` | what the proofs about loops share | proved |

What would come next: `Execute`
of `Commands` restated over what `Expiry` and `SortedSet` implement, so that the three
meet in one theorem; a signal that interrupts a step of `ServerLoop` in the middle.

## Modules

### KVStore and ResizableHashTable

`KVStore` has one function `kv` from keys to values and the last call
with its arguments and its answer. `ResizableHashTable` has the fields of the class: `newer`, `older`,
`migratePos`, and the same `reply`. A table is a record of `mask`, `size` and
`slots`. A chain is a set of entries, because the order in a chain matters only
to the order of `keys()` and to which entry of a slot moves first; both are left
open. `IsBatch` says which entries one call of `migrateKeys` may take: the inner
loops of the code are summarised by their result. `Hash` stands for FNV-1a: any
function will do.

One action per method. `PutEntry` and `DropEntry` are what `set` and `del` do to
the tables, separated from the reply so that `Expiry` can use them. `View`, the
refinement mapping, is what `get` would return for each key.

### TimerQueue, TTLHeapOps and TTLHeap

`TTLHeapOps` states the heap as operators on a record of the vector and of the
memory words the timers point to. A sift is a single round, repeated once for
each timer in the heap by a recursive function. Positions count from 1 and `NoIndex` is 0, where the code has 0 and
`(size_t)-1`. `TTLHeap` runs these operators against entries that never move;
the refinement maps a key to the deadline of its timer. Both levels carry `call`,
the last operation with its arguments and, for a pop, the key handed out:
otherwise a pop of the wrong key would pass for a removal of it.

### Expiry

Uses `ResizableHashTable` with *addresses* of entries as its values, and
`TTLHeapOps` with these addresses as words, so the pointers of the code are
there: `Set` of a new key allocates an address, deletion frees it, and `ExpireTop`
follows the pointer of a timer to whatever is at that address now.
`asked[k]` is a history variable: the time the client wants `k` gone. A sweep is
several steps, with time passing in between, as the loop of `removeExpired`
reads the clock in every round; commands do not interleave with it, since there
is one thread.

Freed memory: the sweep reads a key out of it. If the address has been allocated
again, that is the key of the new entry; otherwise what is left there, which the
model takes to be the timer's own key or none. A position that names no timer
would make PEXPIRE write behind the vector; this is not followed further.

### ServerLoop

`pc` walks through one round: `poll` (register), `wait` (`epoll_wait`), `events`
(handle one event per step, in any order), `pass` (one connection per step). A
`Connection` is its mode, closed flag, the whole requests in its input buffer
and replies in its output buffer, and `stale`, which stands for "no activity for
`kConnectionTimeout`" and may become true at any time. Part of a request may follow the
whole ones; it takes room and is not counted. `sock` is external: pieces of
input, which may complete any number of requests when they are read or none, the
replies in the socket and whether the peer is there. `peer =
"reset"` is a connection whose error has not been reported yet; `"broken"` one
on which a write raises SIGPIPE. `cache` and `todo` hold descriptors for the raw
pointers of the code; a pointer dangles when no connection is at its descriptor.

`Answered` is `processRequests` with its `catch`. A command that throws is answered
with an error and ends the batch, so a pass may answer any number of requests up
to `MaxRequests`. `rejected` says that behind the requests in the buffer there is one on
which the parser throws. It consumes nothing then: each pass that gets there adds
an error to the output, sets write mode again, and the connection does not come back to
reading once what was in front has been answered. The output has no bound in this
case.

The signal handler is one step, possible between any two steps of the loop; that
it may also interrupt one in the middle is not modelled.

### ScoreOrder, ScoreMap, AVLTree and SortedSet

`AVLTree` is a record of `root` and nodes, each with `parent`, the two children
and `height`, under operators with the names of the methods. The mirror images of
the code (`rotateLeft` and `rotateRight`, `fixLeft` and `fixRight`) are one operator
with a side. Loops up and down the tree are `Repeat`, which takes as many steps as
there are names and so as the longest path can have. A node is called by its name
in the set: the code allocates nodes anew, but never has two for one name.
`root` of the code after `insert` and `remove` is what `fix` returns; here `FixOne`
sets it in its last round. Heights are what the code stores, stale or not:
`Balanced` rotates where the code does, when two stored heights differ by exactly
two. `count` is written and never read, and left out.

`SortedSet` has the `tree`, the names in `table` (a `ResizableHashTable`, which
stands here for the mapping that A shows it to be) and `score`, the field of the objects
both point to. `Less` is `operator<`; `ScoreOrder` states the same order over a map
of scores, as sets, and `Ranked` is what a query should answer. `ImplementsScoreMap`
compares the answers found by walking the tree with these.

### Commands

The keys are `store`: `store.value` maps keys to strings or sorted sets and
`store.timed` is the set of keys with a timer. Each command is an operator from a
store and its arguments to a set of outcomes, a new store and a reply, with the
checks in the order of the code; `throws` is the exception of `std::stoll`. Only KEYS, whose
order is that of the slots, and PTTL, which reads the clock, have several. `Execute`
is `CommandFactory::create` followed by `execute`. Strings are model values in an order
(`Named`, `Place`); what they read as, in lower case and as numbers, is given by
constants, which may differ between `parseInteger` and `std::stoll` as they do in
C++ for `2x`.

The store is the abstract one: what table, heap and sorted set implement. The case
in which they do not is a SET during a migration. It replaces an entry under
its timer; from then on DEL may find a timer too few or too many, a second PEXPIRE may add
one, and a sweep may take a key whose timer it was not. `Rewrites` says whether clients
do this. If so, DEL, PEXPIRE and the sweep have those outcomes as well (`Retimed`,
`Expired`), a timer may outlive its key, and nothing is claimed about which timers there are. DEL
and the sweep are two steps in the code, one in the table and one in the heap. One thread
takes both, so no command comes in between; what each does, with the addresses involved,
is in `Expiry`, whose `TimersAsAsked` is about them.

### Wire, Service and Session

`Wire` has messages as items of fields, each with its number of bytes, and what
either end does with them: `Request` and `Parse`, `Serialize` and `PrintAll`. `Parse`
takes the bytes that are there, not the message, as the code does; `PrintAll` counts
the bytes it has used and compares them with the length, as `read_res` does. Only the
wording of errors is left out.

`Session` is one client and the server. A stream is the sequence of all messages
ever written to it and the number of bytes that have got somewhere: `received` of
the requests, `written` of the replies. The input buffer is then what has been
received and not `taken`, the output buffer what has been `queued` and not
written. Reads and writes end at `Cuts`: behind a message, one byte into it, or one
short of its end. `pc` is the part of a round: the events of a poll, the pass
(one request per step), the sweep. `Round` is what an iteration of
`processRequests` comes to. A client may send `Window` requests before it has seen
the replies; `client.cpp` waits for each.

`Service` promises the client that its requests are executed once each, in order,
as wholes, with expiry in between, and that the answers come back in that order.
The refinement maps what is in the output buffer, decoded, to the results.

## Runs

| Run | Instance | Shows |
|---|---|---|
| `hash_table` | 6 keys, 2 values, 2 slots growing to 8, load 1, 2 entries per call | consistency, load and refinement across two migrations |
| `ttl_heap` | 6 keys, 4 deadlines | heap order, back pointers, refinement |
| `expiry` | 3 keys, one migration, 2 ticks to the second, times to live of 3 and 6 ticks, an `int` that ends at 4, clock to 3, one removal per sweep | pointers survive the moves; timers exactly where asked; PTTL right and keys kept to within a second; keys without a TTL stay; sweeps leave nothing due; due keys go |
| `server_safety` | 3 clients on 2 descriptors, up to 2 requests per read, 1 per pass, 1 reply per socket, rejected requests | pointers, nobody passed over, one read at a time |
| `server_liveness` | 2 clients on 2 descriptors, up to 2 requests per read, 1 per pass, 1 reply per socket, 1 client at a time that leaves or sends what is rejected, a signal | no connection stuck or kept silent for ever; the loop ends |
| `sorted_set` | 6 names, 2 scores, offsets -1, 0, 2, limits 0, 2 | tree and table in step, search order, parent pointers, refinement |
| `session` | 16 requests, 2 of them under way, 3 stores, 1 request per pass, timers whose entries were replaced | requests parsed, executed and answered once, in order; failing commands; strings |
| `expiry_rewriting`, `server_leak`, `server_signal`, `avl_balance`, `session_rejected` | as small as shows it | violations, see below |

**Bounds and why they suffice.** *hash_table:* the migration has three regimes: a
batch that ends inside a chain, one that ends with its chain, and a scan over
empty slots to the end. With six keys and the hash codes of
`MCResizableHashTable`, two slots growing twice give all three, and the second
migration starts while keys of the first still have to be found. A batch of two
is the least for which the load theorem holds. *ttl_heap:* six is the least
number of timers for which the timer that fills a gap may have to rise, since it
must come from the other subtree. *expiry:* two slots and three keys leave one
entry behind after the first batch; three keys that come due together need three
sweeps of one removal each. The constant `RewritesOlder` says whether
clients may overwrite the entry left behind, which they must not for `expiry` to hold (see
`expiry_rewriting`, where a fourth address lets freed memory be used by
another key). A second is two ticks, and three ticks are a second and a half, as in the
example `PEXPIRE mykey 1500`: `PEXPIRE` cuts half a second off. Six ticks are whole seconds
but more than `IntMax`, so `PTTL` narrows what is left of them, until it fits. Hence the
properties say "within a second", and that of `PTTL` only when the time left fits an `int` (`LeftFits`);
seconds themselves always fit here (`SecondsFit`). *ServerLoop:* two
connections are needed for everything about the cache and the order in a pass.
`ReadSize` above `MaxRequests` leaves requests over after a pass, in both
passing runs, and as long as the client does not receive, replies of several passes meet a socket
with room for one, so writes are partial. One piece of input in the socket is enough:
what a read leaves behind is as a piece that arrives right after it. `MaxErrors` cuts off the
errors that pile up behind a rejected request, at a number above which no guard
looks at it. `MaxFaulty` is the number of clients at a time that
have left or sent something rejected: all of them in `server_safety`, one in `server_liveness`, where it
still meets one that goes on. *sorted_set:* six members
make every rotation happen, single and double on both sides, and every kind of
removal, also of the root and of a node whose successor is its own child, on trees
that earlier removals have left with stale heights. Two scores let members tie, and
rescoring move a member across the others. *session:* the requests are every
command in a way that succeeds for some store, and one of each kind of failure: an
unknown command, a wrong count, a number that is none, a value of the wrong type, an
exception. The sizes
are chosen so that they matter: words of two bytes, so that a read can end inside a length;
one string too long for the client (`MaxArg`), one key that makes the reply to KEYS
too long for the server (`MaxMsg`). `MaxRequests` 1 leaves the second of two
requests over after a pass. Two requests are enough for order, for one left behind in a buffer
and for one that fails behind one that does not. `MaxQueued` is never
reached here, since there is a reply per request; in `session_rejected` it stops the
server from repeating itself for ever.

Symmetry is used
for values, keys and addresses in runs without liveness properties, where the
model only compares them; descriptors, and names of members, are ordered and have none.
`hash_table`, `ttl_heap` and `sorted_set` also have a `VIEW` that leaves out the last call and
its answer: no action reads them, so they cannot change what is reachable, and
TLC checks the step properties, refinement among them, on every step it
generates, the ones to states it has already seen included.

**Fairness.** `Expiry` assumes that the loop comes round to the sweep and
through it: `poll` waits 100 ms at most, and each part of a round is bounded. It is
stated as weak fairness of `GoesRound`, the steps of `work`, one of which is always
possible: what they do to the rest follows from the actions. Nothing is assumed of clients there.
`ServerLoop` assumes weak fairness of the
thread as a whole (it never blocks for longer than that; its sockets are
non-blocking) and, for `RequestsAreRead`, that clients go on reading replies.
`Session` assumes the same two things: `GoesRound` for the server, whose steps in a
poll are only `Idle` if nothing is readable or there may be no room to write, and
`Show` for the client. No fairness is given to time, signals, connecting, sending or leaving.

`CHECK_DEADLOCK FALSE` is set for `ServerLoop`, which stops after a signal or an
exception.

## Proofs

`ResizableHashTable_proofs` proves for every set of keys and values, every hash
function, every initial size that is a power of two, every load factor of at
least 1, and every batch size of at least 2:

| Theorem | Statement |
|---|---|
| `TypeCorrect` | `Spec => []TypeOK` |
| `TablesConsistent` | `Spec => [](Reachable /\ UniqueKeys /\ SizesExact /\ NothingStranded)` |
| `LoadBounded` | `Spec => [](LoadBound /\ MigrationBudget)` |
| `MigrationAdvances` | `Spec => CallsDrainOlder` |
| `Refinement` | `Spec => ImplementsKVStore` |

The inductive invariant `IInv` says that both tables are well formed (shape,
entries in the slot of their hash, one per key, exact counter: `WF`), that no key is
in both, that the slots in front of `migratePos` are empty, that an older table
that exists has entries, and the budget
`newer.size + 2 * older.size <= MaxLoad * Capacity(newer)`. `LoadBound` alone is
not inductive: `set` does not check the load while a migration runs. The budget
is: an insertion adds one to `newer`, and the batch that follows takes at least
two entries, or all there are, out of `older`, so the left side never grows
above what it was; and a migration starts with `newer` empty and twice the room
of `older`, which holds at most one entry more than its own bound. That
the batch size is at least 2 is needed: with 1, the sum would grow by one per
insertion. `NothingStranded` needs exact counters, since `older` is freed when
its counter is zero, and the counters need `UniqueKeys`.

The lemmas follow the operators: what `HTSet`, `HTDel`, `MoveOut` and `MoveIn` do
to the contents and well-formedness of a table, what a batch is and where the
scan stops, what one `TryRehashing` preserves. `Good` collects what each action
re-establishes, and the refinement shows that no move changes `View`.

Assumptions: the named `ASSUME`s of the module, and that `Keys` is any set; no
finiteness of it is needed, since tables are shown to be finite.

`EntriesReachable`, `EntriesUnique`, `CountersExact` and `BudgetKept` state the parts of
the second and third theorem one by one.

`TTLHeap_proofs` proves for any keys and deadlines:

| Theorem | Statement |
|---|---|
| `TypeCorrect` | `Spec => []TypeOK` |
| `HeapOrdered` | `Spec => []HeapOrder` |
| `IndexesRight` | `Spec => []IndexesPointBack` |
| `Refinement` | `Spec => ImplementsTimerQueue` |

What it rests on is in `TTLHeapOps_proofs`, about queues with any keys and words.
`Sound` says that timers and words point to each other; a swap keeps it, and keeps the
deadline of every key. During a sift the heap is in order but for
one position: `OrderedButAbove` (the timer there may be due before its parent) is kept by a round of
`HeapifyUp`, `OrderedButAt` (it may be due after its children as well) by one of `HeapifyDown`.
Both include that the children of the position are due no earlier than its parent. The round in which nothing moves leaves the
heap in order, and there is one, since the position goes up, or down, in every
other. A timer that `removeByKey` puts in the middle may be wrong either way, and the two sifts
called one after the other put it right in both cases: the second has
nothing to do if the first has moved it.

A loop is no induction scheme to these provers: the theorems of the library take
a predicate as a parameter. `Rounds` has what is used instead. `UpTo` is induction
for a *set* of numbers, from the least element of a set; `Follows` and `Shrinks`
describe a step that is repeated, and the lemmas about them say that what each round keeps
is kept, and that a measure that shrinks until nothing changes ends
in a state that a round does not change. The recursive functions of the model
are shown to exist by the library's theorem on recursion over the naturals.

`Expiry_proofs` proves for any keys, addresses, times to live and clock:

| Theorem | Hypotheses | Statement |
|---|---|---|
| `TypeCorrect` | `NoRewriting` | `Spec => []TypeOK` |
| `TimersRight` | `NoRewriting` | `Spec => []TimersPointToEntries` |
| `TimersAsked` | `NoRewriting` | `Spec => []TimersAsAsked` |
| `OnlyTimedKeysExpire` | `NoRewriting` | `Spec => UntimedKeysStay` |
| `PTTLAlmostExact` | and `SecondsFit` | `Spec => []PTTLWithinASecond` |
| `LessThanASecondEarly` | and `SecondsFit` | `Spec => AlmostNoEarlyExpiry` |
| `PTTLExact` | and `SecondsFit`, `WholeSeconds` | `Spec => []PTTLIsTimeLeft` |
| `NeverEarly` | and `SecondsFit`, `WholeSeconds` | `Spec => NoEarlyExpiry` |
| `SweepsLeaveNothingDue` | and `SecondsFit` | `Spec => SweepsFinish` |

The invariant `Inv` is that of the table, for addresses as values (the lemmas of
`ResizableHashTable_proofs` are taken over by an INSTANCE), with `Tied` (no two
entries have one address, every timer points to the entry its key has, an entry
without a timer has no index) and `InStep` (a key has a timer if and only if a time
is asked for, and the timer is due less than a second before that). That a migration
changes no `View` is what lets `Tied` survive it. The sweep deletes the key it finds
where the timer points to, which `Tied` shows to be the timer's own.
The hypotheses are about the code as it is used. `NoRewriting` (no SET replaces
an entry a migration has left behind) is the condition without which the first four are
false (`expiry_rewriting`). `SecondsFit`: the *seconds* of a time to live fit the `int` that
`addTTL` takes them in, that is, it is less than 68 years; the milliseconds need not fit.
What does not fit then is in the property, `LeftFits`: `PTTLWithinASecond` speaks of `PTTL` only while the time left, or by
how much the key is overdue, does. `WholeSeconds` is what makes the bounds of a
second exact: `PTTLIsTimeLeft` and `NoEarlyExpiry`, which say that nothing is lost at all, are
defined next to these two theorems, and are false of `PEXPIRE mykey 1500`. The last theorem
is the safe half of `DueKeysGo`: with the order of the heap, what is left to fairness is
only that sweeps keep coming.

`SortedSet_proofs` proves for any finite set of names, any integer scores and any offsets
and limits:

| Theorem | Statement |
|---|---|
| `TypeCorrect` | `Spec => []TypeOK` |
| `TreeAndTableInStep` | `Spec => []InStep` |
| `SearchOrderKept` | `Spec => []SearchOrder` |
| `ParentsStayRight` | `Spec => []ParentsRight` |
| `Refinement` | `Spec => ImplementsScoreMap` |

The properties speak of what can be reached by child pointers, which is no basis
for an induction: the proofs carry along `sub`, a function that says for every node
which names are at or below it. `IsTree(t, key, S, sub)` is what a search tree of the names `S`
is with such a function: links are mutual, the names below a node are itself and those
below its children, each on the side of its key, and all of `S` is below the root.
`IInv` says that there is a `sub` with which the tree is a search tree of
the names that have a score, by their scores *now*, and that these are the names in the
table. TLC has checked it on the instance of `sorted_set`, with `Below` for `sub`.

Each operator gets a lemma that says what it does to `sub`: a rotation changes it at two nodes
(`TurnTree`), whichever node the heights pick, so `FixTree` holds for *any* stored heights,
and `FixEnds` says that `fix` gets past the root whatever it rotates below it; `CutOut`
takes one name out on the way to the root; `PutInPlace` gives the successor the place
of the removed node (`PutTree`), after the successor has left the tree by its own `CutOut`,
which may have rotated what is below the node (`RemoveTree`). `FindIs` is
where the order is needed: at each node the search goes on to the child that has the name
below it, so a name in the tree is found, and `IInv` being about present scores is what makes
`Rescore` find the node before the score changes. Insertion ends where the
key belongs and nothing is (`InsertTree`).

The loops are `Repeat`, and that they have ended when its rounds are over is shown
with the lemmas of `Rounds`: going up or down, the names that are still possible become fewer in every
round until nothing changes. `NextNodeIs` then says that `next` gives the least key after that of the
node, `LowerBoundIs` that the lower bound is the least that is not before what was asked for,
and `FromOnIs` that following `next` from there lists all of them: the node at a position
is the one with as many names before it (`Rank`), which is how `ScoreMap` defines the list. `BelowIs`
links `sub` back to the reachability of the properties.

Two things came out of the attempt. The heights `TypeOK` speaks of are only
positive: an earlier version bounded them by the number of names, which every run confirmed
and no proof could: removals leave nodes with the height of the place they came from, and
with eleven names there is a height of twelve. And no theorem about order or
answers needs the tree to be balanced, which it is not (`avl_balance`).

`ServerLoop_proofs` proves for any number of descriptors, clients and requests, any
room in sockets and any batch:

| Theorem | Statement |
|---|---|
| `TypeCorrect` | `Spec => []TypeOK` |
| `ReadsOneAtATime` | `Spec => []OneReadAtATime` |
| `ServesEveryone` | `Spec => []EveryoneServed` |
| `PointersStayLive` | `Signals = FALSE` implies `Spec => []PointersLive` |

That a client is read from only when it is answered depends on the whole round:
on what epoll was told in `poll` (`Registered`), on that being still true when the
event is handled (`Reported`: only the pass makes a connection want to write), on
the pass reaching every connection that has been read from (`ReadersDone`, with
`Unanswered` for those it has still to come to), hence on the cache being complete
when it is valid (`CacheComplete`), and on a closed connection bringing in nothing
more (`ClosedEmpty`), since events for it may still be handled. A connection with a rejected
request is one that is not read from: `ReadersDone` and `Reported` say that it wants to
write, or that this round's pass will make it, since the parser throws on it
in every pass that gets past what is in front of it. The bound of one read (`Bounded`) holds
for input always, for input and output together unless the buffer has a rejected request. `IInv` is their
conjunction; TLC has checked it on the instance of `server_safety`. `PointersStayLive`
is an induction of its own: without signals connections are deleted only by the
pass, which has just taken the one it deletes out of `todo`, and makes the cache
invalid. With signals it is false (`server_signal`).

`Session_proofs` proves for any strings, sizes of messages, requests, stores and
batch:

| Theorem | Statement |
|---|---|
| `StringsRemain` | `Spec => StringsStay` |
| `ErrorsAreHarmless` | `Spec => ErrorsChangeNothing` |
| `TypeCorrect` | `Spec => []TypeOK` |
| `ReadingWhenDone` | `Spec => []ReadingMeansDone` |
| `Refinement` | `TakesWhatIsSent` implies `Spec => ImplementsService` |

There is a lemma for each command that may change something: its outcomes are
`Proper`, which says that no string has become a sorted set and that a reply to a command that changed something is one of nil, 0 and 1.
The last is why an error means that nothing happened: an error may also be the
server's replacement for a reply that is too long, and these three are short
(`ShortRepliesFit`, an assumption on `kMaxMsg`).

The other three need `FlowInv`: every message is well formed (`Framed`), the server
has received no more than was sent, taken no more than it received, whole requests
only, and written no more than it has queued; and when it waits for more to
read, there is nothing left to parse or to write (`Settled`). This is about sums over
sequences of messages. A sum is what a fold of the library makes of a sequence;
the group of lemmas on sums shows that there is a function of
the positions that adds up, that there is only one, and hence that it grows from
position to position, so a number of bytes names one message at most.
From these: what the buffer starts with is a whole request exactly when `Parse`
says so, wherever a read has ended, and what the client decodes is what the server
has encoded. `Answered`, the invariant under the refinement, says that the replies
in the output are the results of the requests taken so far. `RankedIs` is used here to
show that the list a ZQUERY answers with exists: the members of a set counted by how
many come before them fill the positions from 1 without a gap.

`Refinement` has the hypothesis `TakesWhatIsSent`: no client sends more strings
than `kMaxArgs`, or a longer message than the server takes. Where it is false the
theorem is (`session_rejected`); `client.cpp` ensures the second and
not the first.

**Only model-checked:** liveness (`DueKeysGo`, `RequestsAreRead`, `SilentConnectionsGo`,
`ShutdownCompletes`, `RequestsAnswered`): fairness and ENABLED are out of the prover's
reach. Every invariant and every other step property or refinement of a
passing run is a theorem as well. Induction is used where it is about numbers or finite sets,
by way of least elements (`Rounds`); a scheme with the predicate as a parameter, as
the library has it, cannot be instantiated here. Of the runs that end in a violation, two
are about properties that are theorems under a hypothesis which the run drops
(`UntimedKeysStay` with `NoRewriting`, `PointersLive` without signals).

## Where code and documentation disagree

| Run | What happens |
|---|---|
| `expiry_rewriting` | SET of a key whose entry a migration has not moved yet replaces the entry under its timer. When the timer comes due, the sweep deletes the key that has been allocated at that address since, which had no time to live, and the key that was to expire stays. |
| `server_leak` | A connection that closes in the batch in which another is accepted is dropped from the cache before the pass could clean it up. Its descriptor is lost until the server stops. |
| `server_signal` | `stop()` in the signal handler deletes connections while the interrupted loop holds pointers to them. |
| `avl_balance` | The successor that takes the place of a removed node keeps its old height. After adding 1 to 5, removing 4 and 1 leaves nothing on the left of the root and two levels on its right. Order, parent pointers and answers are not affected (`sorted_set`). |
| `session_rejected` | A request with more than 100 strings, which the client can send, is answered with an error in every pass and never consumed; what comes after it is never executed. |

Seen while modelling, without a run of their own:

- `src/README.md:63` has `ZQUERY key min max`, to "query members within a score range", and
  `src/README.md:77` the example `ZQUERY ranks 0 10`. The code has no range: it takes a key, a score, a
  name, an offset and a limit (`command/ZQueryCommand.cpp:11-23`), lists members from that
  score and name on (`containers/ZSetValue.h:63-82`), and answers the example with
  "wrong number of arguments". The models follow the code: `ScoreMap` and `ImplementsScoreMap` are about
  the query that is there, and say nothing for the documented one.
- `src/README.md:71` has the example `PEXPIRE mykey 1500`, with milliseconds. The code cuts it to one
  second (`command/PExpireCommand.cpp:24-27`): the key goes half a second early, and PTTL says so.
  PTTL also carries milliseconds in an `int` (see the bounds of `expiry`).

And one that no document mentions: a
write to a connection the client has reset raises SIGPIPE, which nothing
handles (`RaisesSigpipe` in `ServerLoop`, which then is `down`).

## What is not modelled

- How the library reads numbers: `parseDouble`, `parseInteger` and `std::stoll` are
  constant functions on strings that may fail. Scores are integers; NaN, which
  would break any order, cannot be entered, since the streams of libstdc++ do not read it.
- The wording of errors, and output on terminals.
- Messages that do not come from `client.cpp`: `Wire` has lengths that fit what they
  are lengths of. What the parser makes of others is not examined.
- A session with several clients at the level of bytes: connections share nothing but the
  keys, and each pass serves one after another (`ServerLoop`).
- `ConnectionManager::removeConnection`, `AVLTree::prev` and the counts of nodes, which
  nothing uses; `TTLHeap::empty`, which is a comparison.
- The result of `AVLTree::insert`, which nothing looks at.
- Set-up (sockets, options, limits), `epoll_ctl` errors other than "not registered yet",
  allocation failure; failing system calls in the client.
- The Makefile.
