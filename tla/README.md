# TLA+ models of node-ip2location

`node-ip2location` looks up IP addresses in IP2Location database files.  A C
library (`src/ip2location/`) opens a database in one of four modes (through a
`FILE`, a private mapping, a copy in memory, or a named POSIX shared memory
segment that several processes share), verifies its header and searches its
tables; a Node addon (`src/nodeip2location.cc`) wraps an open database in a
`Location` object and builds dictionaries from it; `dropin.js` imitates another
library on top of it.

This directory holds TLA+ modules for that code, TLC configurations that check
them on small instances, and proofs that TLAPS checks for every value of the
constants.  Paths below are relative to the root of the repository.

## 1. Inventory

| component | code | state | operations |
|---|---|---|---|
| shared memory protocol | `ip2ldatabase.c` 106-232, 382-428; `ip2location.c` 40-131 | names, segments (size, data, mark byte), per process the node list and the open locations | open, close, deleteShared |
| memory map lists | `ip2lmemorymaplist.c` | three doubly linked lists, with user counts kept by the callers | find, create, detach, free |
| file, mmap and cache locations | `ip2ldatabase.c` 41-104, 382-409; `ip2location.c` 40-123 | two of the lists, the open locations, the files | open, close |
| header and row layout | `ip2location.c` 133-251, `nodeip2location.cc` 295-497 | header fields, `offsets`, `mode_mask` | verify, query, getAll |
| row lookup | `ip2location.c` 253-330 | `low`, `high`, `mid`, `rowoffset` | FindRowIPV4, FindRowIPV6 |
| dictionary | `nodeip2ldictbuilder_impl.h`, `nodeip2ldictionary_impl.h` | a tree of maps | createDictionary |
| number and string reads | `ip2ldatabase.c` 438-556 | the static buffers | Read8, Read32, Read128, ReadFloat, ReadStr |
| address conversion | `ip2lipaddress.c` | none | IP2No, IPBin2No, IPv4Str, ULong128ToDecimal |
| Location class | `nodeip2location.cc` 98-293 | `iplocdb`, `dbmode` | new, close, deleteShared, info, accessors |
| drop-in module | `dropin.js` | one current `Location` | init, get_all, get_* |
| Windows variants | `ip2ldatabase.c` 237-377 | file mappings | open, close |

How they interact.  A `Location` owns one `IP2Location` (`IP2LocationOpen`),
which owns a `FILE` and shares a memory map node with the other locations of
its mode and key.  Nodes are counted by `IP2LocationSetup*` and released by
`IP2LocationDBClose`.  Segments are shared between processes by name only:
there is no lock and no message, only `shm_open(O_CREAT|O_EXCL)`, the size, a
byte behind the data that marks it loaded, and `shm_unlink`.  Everything else
runs in one thread without interruption; each call of the addon is atomic for
the other calls of its process.

What is hard.  The shared memory protocol is the only concurrent part: every
system call may interleave with those of other processes, fail, or be the last
one of its process, and names are deleted and recreated while nodes for the
old segment live on.  In one process, files change under their paths while
they are mapped.  Lookup and verification are 32 bit arithmetic on numbers
read from a file.  The layout of a row is spread over a table of positions,
byte offsets, a mask with one bit more than there are columns, and a row
position that differs by 12 for IPv6.  The dictionary keeps two kinds of
elements in one slot and casts them.  Strings are returned as pointers into
memory or into static buffers, at positions and of lengths that the file
gives.  A `Location` may be closed, closed again and collected in any order, and the
drop-in closes one before it opens the next.  PROJECT.json lists the hazards with their lines.

What makes each component correct:

- shared memory: a location reads a completely loaded segment with a database
  of its size and goes on reading the same contents until it is closed; a
  segment has one loader; counts are exact; calls return; a dead loader does
  not block a name;
- lists: links are inverse, lead to live nodes and have the effect of a table;
- local modes and Location class: one node per path and mode, exact counts,
  stable contents, memory at least as long as the bounds used on it, no handle
  without an object;
- drop-in: it answers from the database of its last init or not at all;
- addresses: one address, however it is written, gets one answer, and its
  number is printed exactly;
- reads: nothing beyond the end of a database is read, and an answer is what
  the file holds, in every mode;
- header: what is accepted lies in its file, fields are read inside the row,
  both ways of asking agree, no column is left out;
- lookup: the row returned holds the address, in logarithmic time, without
  reading anything but the table;
- dictionary: exactly the names of the rows, each under its branch, whichever
  of them cannot be read.

## 2. Modules

Names in the modules are those of the code where TLA+ allows it.  A definition
whose name ends in `_Bug` is a deliberately wrong variant of the definition
beside it (a dropped guard, a missing reset, an off-by-one).  It is used by no
specification; substituting it must make TLC find a property violated, which
shows that the property depends on that line of the code.

**NodeTable** -- the memory map nodes of a process as a table, with the
operators (`Found`, `Allocate`, `Retain`, `Detach`, `Release`) that the modules
below share.  No state of its own.  `res` is what a node maps: the inode of a
segment, or the contents of a file.

**SharedMemory** -- processes, names, inodes and segments.  `pc[p]` is where a
process stands in `IP2LocationOpen`/`IP2LocationSetupShared`, one label per
system call whose place in the order matters:

| label | actions | code (`ip2ldatabase.c`) |
|---|---|---|
| find | RefuseMapped, Reuse, DetachStale, NotMapped | 119-149 |
| create | Create, CreateFails | 153 |
| openExisting | OpenExisting, OpenExistingFails | 157-160 |
| truncate | Truncate, TruncateFails | 162-170 |
| checkSize | SizeMatches, SizeDiffers | 172-200 |
| copying | Copy, CopyFails | 202-209 |
| mark | Mark | 211-212, 221-227 |
| checkMark | Marked, NotMarked | 214-218 |
| unlink | Unlink | 166, 176, 184, 198, 207, 217 |
| init | InitSucceeds, InitFails | `ip2location.c` 101-104 |
| delete | StartDelete, DeleteStale, FinishDelete | 412-428 |

`call[p]` holds the C locals (`created` is `DB_loaded == 0`), `table[p]` the
nodes, `loc[p]` the open locations.  A segment has a size, a database and a
stage (`blank`, `copying`, `copied`, `loaded`).  Reading the mark byte is
`MarkSeen`: nondeterministic while the data is being copied, and otherwise true
iff the data has 0xFF there or the loader put its mark there, so a database
whose own bytes look like a mark is in the model.  `shm_unlink` acts on
whatever the name refers to by then.  `Crash` drops nodes, descriptors and
locations but leaves names and segments.  An inode number is reused once no
name, node or call refers to it.

**SharedSegments** -- what the shared memory mode promises, without its
protocol: a segment gets a name, is filled once and completely before anybody
reads it, and keeps its contents while it is read, whatever becomes of the
name.  `SharedMemory!KeepsPromise` is the refinement: a segment is loaded when
its stage says so, and a client reads the segment its node maps from the moment
its location is open.

**LocalMaps** -- `IP2LocationOpen` and `IP2LocationClose` in the modes file, mmap
and cache for the locations of one process, while `Replace` puts other files
under the paths.  **Locations** -- the `Location` objects over it: constructor,
`close()`, the destructor, `info()`, and the drop-in's `IP2Location_init`, whose
close-then-open is one action, since JavaScript runs it without interruption;
what it leaves behind when the second half throws is part of it.

**MachineWords**, **Addresses**, **Reads** -- the conversions of
`ip2lipaddress.c` and the read operations of `ip2ldatabase.c` as operators over
octets and words whose widths are constants.  `IP2No` returns the set of what
the code may return, as it leaves part of an uninitialised struct unassigned.
**Answers** -- one database, one `Location`, and the calls `getAll()`,
`query()` and `IP2Location_get_*`: the address is converted, a row is found,
then each turn of the loop over the fields is two steps, the read that leaves a
pointer (`Fetch`) and the copy of what it points to (`Store`), so that the
static buffers matter.  Which row an address has is left to RowLookup: here it
may be any row of the table that is searched.

**MemoryMapList** -- the linked lists themselves, with `next`, `prev` and roots;
the search is one step per node.  **MapTable** is the abstract specification: a
table of nodes.  `MemoryMapList!ImplementsTable` is the refinement, with a node
listed iff it is reachable from its root (`From`, the least set closed under
`next`); it justifies the use of NodeTable in
SharedMemory and LocalMaps.

**RowLookup** -- both binary searches over one table; every sum is modulo
`WordMod`.  One action per way through the loop.  Reads beyond the file yield
the error value (all ones), or anything where the bound of the 128 bit read
itself wraps.

**Header** -- the nine checks of `IP2LocationInit` in their order, the offsets
and the mask it computes from `IP2L_DB_POSITIONS`, and what `query()` and
`getAll()` read of a row.  A datum is where it is read and how, not its bytes.

**Dictionary** -- `BuildDictionary`, one row per step, and the object made of
the result as a set of paths.  The type of a database says which columns it
has; a row is a function on all of them, to a name or to `Unreadable`.
`RowString` makes the empty name of the latter, as `IP2LocationReadStr` does,
and `Has` asks for the mask and the column only, never for the string.

The `MC*` modules only give constants their values and define symmetry sets;
`*Proofs` hold theorems.

## 3. What is checked

| run | question | instance and why it is enough |
|---|---|---|
| shm_safety | Is the protocol safe with deletion, recreation, failures and a death at any point, and does it implement SharedSegments? | 2 processes with 2 locations and 2 nodes each, 1 name, 2 inodes, a valid and a corrupt database, 1 death, each of `shm_open`, `ftruncate`, `fstat`, `mmap`, `fread` may fail at any time: one process holds a stale node while the other recreates the name, on another inode or, when the first is closed, on the same one |
| shm_liveness | Do calls return, and do names recover? | 2 retrying processes, 1 death |
| shm_same_pages | Is a database of another size refused? **Violated.** | sizes 6 and 5 in pages of 4 bytes |
| shm_name_kept | Does only deleteShared remove a loaded name? **Violated.** | 2 processes, no failure, no death |
| lookup_rows | Is the row right? | every table of up to 4 rows over addresses 0..4, sorted or not, both families, cached or not; both parities of the interval and both ends occur |
| locations | Are nodes shared, counted and released right, does every handle have an owner, and does the drop-in answer from its last init? | 3 objects, 2 nodes in each list, 2 paths, 4 contents (one longer, one corrupt, one too short), files replaced and removed at any time: two objects share an old mapping while the drop-in opens the new file |
| local_replaced | Is the memory as long as its bounds? **Violated.** | as above |
| map_lists | Do links stay sound and implement the table? | 4 nodes in 2 lists, 3 names: removal at the head, in the middle, at the end, and twice |
| answers | Are addresses converted exactly, and is an answer what the file holds? | octets of 2 bits, words of 2 octets: every short address, 256 long ones around the mark of mapped addresses, malformed text and buffers of other lengths, three contents of the stack; 600 databases whose strings start at every position of the file and beyond, end at its end, one octet behind it, and after it |
| header_fields | Do the checks and the layout fit together? | all 25 types with 0, 1 or 2 IPv6 rows, and headers bent in each part by one step around each boundary; every single-field mask |
| dictionary | Does the dictionary say what the rows say? | databases of types 0 (no column), 2, 4 and 20 with two rows that are read, in one table or one in each, with equal, different, unknown and unreadable names at each level (a country too) and empty ones, five masks (all fields; a branch without its leaf; a leaf without its branch; two fields; none) |
| dictionary_last_row | Is everything a query can return listed? **Violated.** | tables of 0, 2 and 3 rows |

Bounds that are not in the code: `MaxCrash` (deaths), `MaxUsers` (users of a
node), `Fallible` (the system calls that may fail), and the sizes of `Ino`,
`Node`, `Loc`. `Create` waits for a free inode or fails as when the file
system is full; `Attach` needs a free node, of which every configuration has
one for each location, which is enough (the theorem `NodesSuffice`), or, in
`locations` where nodes are found by path, one for each path. `lookup_rows`
uses words of 7 bits: its tables are small against them. `answers` has words
of 4 bits, so that numbers of four words go to 65535 and need a decimal buffer
of 6 octets where the code needs 40 for 2^128. CHECK_DEADLOCK FALSE is set for
Header and Dictionary only: a refused header and a finished dictionary take no
further step.

Fairness.  `shm_liveness` assumes weak fairness of the steps of every process
(the system schedules it; no call blocks on another process) and, for
`StaleRecovers` only, clients that keep opening (strong fairness of starting an
open, since another open of the same process disables it in between) and close
what they opened (weak fairness).  `StaleRecovers` is a statement about such
clients, since the library does nothing between calls.  `lookup_rows` assumes
weak fairness of the loop of a lookup: it is one loop without a call that
waits.

### Where the code disagrees with what it says

- *Sizes are compared in pages* (run shm_same_pages).  `ip2ldatabase.c:124` and
  `:181` compare rounded sizes below the comment "different database file size,
  we should fail"; `test/test.js:345` says different databases should not be
  opened into one name.  A second database of the same number of pages is
  opened with the contents of the first when the first is mapped by the same
  process, or when its data has 0xFF where the mark is looked for.
- *A loaded segment loses its name* (shm_name_kept).  Opener reads the mark,
  loader sets it, opener unlinks.  Loader and later openers then use different
  segments without any call of deleteShared (`README.md:95-99`).
- *Replaced files* (local_replaced).  `test/test.js:96` asserts `cachesize >=
  filesize`; a node found by its path keeps the size of the old file.
- *The last row* (dictionary_last_row).  `nodeip2ldictbuilder_impl.h:53` stops
  one row before the last row that a search returns; `README.md:152` speaks of
  all available values.

Met while modelling, without a run of their own: the comment at
`nodeip2ldictbuilder_impl.h:21` lists `timezone`, which is never built; the
switch of `deleteShared()` falls through to null (`nodeip2location.cc:206`);
the extent check of the header wraps for huge counts (`ip2location.c:158`); a
string that cannot be read is listed in a dictionary as the empty name, which
may be that of a country, and as a long name in the first row of a country it
keeps the readable one of a later row out (`nodeip2ldictbuilder_impl.h:86`).

## 4. What is proved

TLAPS checks the following for every value of the constants.  Assumptions are
the named ASSUMEs of the modules (sizes and extents are naturals, `None` is
no member of the other sets, `Loc` is finite, and so on), which TLC evaluates in
every run, and those stated with a theorem.

| theorem | statement | rests on |
|---|---|---|
| SharedMemoryProofs!TypeCorrect | `Spec => [](TypeOK /\ LocalOK)` | LocalOK: what the locals of a call hold at each label |
| SharedMemoryProofs!RefCount | `Spec => []RefCountExact` | Counts1: RefCountExact, and the nodes of a call are live |
| SharedMemoryProofs!OneForAName | `Spec => []OneListedNode` | Listings |
| SharedMemoryProofs!OneMapping | `Spec => []MappedOnce` | Mappings; no failing "reopen", in the property |
| SharedMemoryProofs!MapsBounded | `Spec => []` (a process has at most as many live nodes as locations that are open or about to be) | Counts1 |
| SharedMemoryProofs!NodesSuffice | `Spec => []` (a node is free when one is needed) | a node for each location |
| SharedMemoryProofs!CallsGoOn | `Spec => [][`a step ends its call or brings it further, and moves no other`]` | Progress, seven values |
| SegmentProofs!OneLoader | `Spec => []LoadedByOne` | PageDistinct |
| SegmentProofs!ReadsComplete | `Spec => []AttachedComplete` | PageDistinct |
| SegmentProofs!ReadsStable | `Spec => ContentStable` | PageDistinct |
| SegmentProofs!PromiseKept | `Spec => KeepsPromise`: SharedMemory implements SharedSegments | PageDistinct |
| SegmentProofs!PromiseServes | `KeepsPromise => []Served /\ [][Undisturbed]_Abstract` | SharedSegments alone |
| SegmentProofs!NameKeptInTurn | `Spec /\ []InTurn => LoadedNameKept` | PageDistinct; InTurn: calls on one name do not overlap |
| LocationsProofs!ObjectsTyped | `AddonSpec => []ObjectsOK` | IInv, as all of Locations |
| LocationsProofs!CountsExact | `AddonSpec => []RefCountExact` | |
| LocationsProofs!NoOrphans | `AddonSpec => []OpenIsOwned` | |
| LocationsProofs!OccupantsCounted | `AddonSpec => []OccupantsExact` | |
| LocationsProofs!DropinCurrent | `AddonSpec => []LastInitAnswers` | |
| LocationsProofs!ContentsKept | `AddonSpec => ContentsStable` | |
| LocationsProofs!FirstReads | `AddonSpec => FirstReadsCurrent` | |
| LocationsProofs!InitReads | `AddonSpec => InitReadsCurrent` | |
| LocationsProofs!MemoryCovers | `AddonSpec /\ [][FitsMapped]_avars => []MemoryCoversFile` | FitsMapped: no file is put under a path of which less is mapped |
| MemoryMapListProofs!TypeCorrect | `Spec => []TypeOK` | |
| MemoryMapListProofs!ListsSound | `Spec => []LinksSound` | |
| MemoryMapListProofs!SearchesComplete | `Spec => [](AllListed /\ OneAttached /\ Ahead)` | ListInv |
| MemoryMapListProofs!ListsImplementTable | `Spec => ImplementsTable`: MemoryMapList implements MapTable | ListInv |
| HeaderProofs!TypeCorrect | `Spec => []TypeOK` | |
| HeaderProofs!Fits | `Spec => []AcceptedFits` | NoWrap: no table size reaches 2^32 |
| HeaderProofs!Agree | `Spec => []AnswersAgree` | |
| HeaderProofs!FieldsInside | `Spec => []FieldsInRow` | NoWrap |
| HeaderProofs!AllGiven | `Spec => []NothingLeftOut` | NoWrap |
| RowLookupProofs!TypeCorrect | `Spec => []TypeOK` | |
| RowLookupProofs!Correct | `Spec => []LookupCorrect` | Sound(db), in the property |
| RowLookupProofs!NoWrap | `Spec => []ProbesInTable` | Sound(db) |
| RowLookupProofs!Logarithmic | `Spec => Halves` | Sound(db) |
| AnswersProofs!StringsInMemory | `Spec => []ReadsInside` | SumsFit, in the property |
| AnswersProofs!FileIsRead | `Spec => []ReadsExact` | SumsFit, in the property |
| AnswersProofs!AnswersTyped | `Spec => []TypeOK` | AddressInv |
| AnswersProofs!AddressesExact | `Spec => []AddressExact` | AddressInv, DecimalExact |
| AnswersProofs!DecimalsFit | `Spec => []DecimalInBuffer` | DecimalExact |
| AnswersProofs!DecimalExact | the digits of four words are decimal, have no leading zero and stand for the number of the words | ExponentAssumption |
| DictionaryProofs!TypeCorrect | `Spec => []TypeOK` | |
| DictionaryProofs!ResultRight | `Spec => []ResultExact` | |
| DictionaryProofs!CastsRight | `Spec => []CastsSound` | |
| DictionaryProofs!FirstName | `Spec => []FirstLongName` | |
| DictionaryProofs!RowsBeforeListed | `Spec => []` (a result lists every row but the last two of each table) | ResultExact |
| DictionaryProofs!ListedIfRepeated | `Spec => [](Returnable \subseteq RowsBefore => AllValuesListed)` | |

*The shared memory protocol.*  A process changes only its own call, table and
locations, in one of a few shapes (`Shape`: it moves, retains, detaches,
attaches, opens, gives up, closes, dies); `NextShape` reduces every action to a
shape, and types and counts are proved once per shape.  `AttachedComplete` is
not inductive: it needs that mapped segments are loaded and as large as their
nodes (`Mapped`), that nodes are as large as their users expect (`Expected`),
that a loader's segment is at the stage its label says (`Calls`), that contents
and size agree (`Contents`), and that nobody else maps or loads a segment that
is being loaded (`LoadedByOne`).  Their conjunction `SegInv` is inductive
relative to the types and counts.  The step that needs `PageDistinct` (databases
with equal page-rounded sizes have equal sizes) is `Marked`: an opener that
finds 0xFF concludes that the segment is loaded only because its own size,
where it looked, is the size of what is there, so that it looked behind the
data.  Without it the claim is false, as shm_same_pages shows.

*The nodes of a process.*  `OneListedNode` becomes inductive with the remark
that a call that is still looking (`Looking`) has found no listed node of its
name, so that the node it attaches is the only one.  For `MappedOnce`,
`Mappings` adds that a live node of an inode that has a name is listed under
that name, and that a call that holds a segment (`Holding`) knows its name and
does not find it mapped.  A node leaves the list only when its name is gone or
refers to another inode; that is where a failing second `shm_open` breaks the
property.

*The refinement.*  `LoadedDb` and `Reads` are functions of segments and nodes,
so the proof asks of each action which of them it changes: `Create` names,
`Copy` to `Mark` load, `Attach` with `InitSucceeds` starts reading, closing and
dying end it, `shm_unlink` takes the name, everything else stutters.  `SegInv`
gives the guards of the abstract steps.

*Locations.*  `Good` says of each mode that counts are the numbers of open
handles, that a handle and its node agree on the path, and that live nodes are
listed once for a path (`Fits`); with `OpenIsOwned`, `LastInitAnswers` and what
the drop-in remembers it is the invariant `IInv`.  `Reading`, what a step may do
to the contents of handles, is proved of each step from `IInv`, also of the
step of the drop-in, which is two steps of handles: it is applied twice.

*The search.*  `Bracket` says that everything below `low` ends at or before the
address and everything above `high` starts after it.  The rows need not be
sorted for this: the row found is one that holds the address.  `Sound` (the
table lies in its file and starts at address 0) keeps `high` from wrapping
below 0.

*The lists.*  `LinksSound` with the types is inductive; the work is in
detaching a node, once for a node in the middle, at an end, or already
detached.  For the refinement it must be known which nodes a list has.
`ListInv` adds that an allocated node is listed iff it is attached (it has a
predecessor or is a root: `AllListed`), that no two attached nodes have the same
type and name (`OneAttached`), and that a running search stands at an attached
node from which the node it looks for, if there is one, can still be reached
(`Ahead`).  Reachability is `From`, the least set closed under `next`, so that
what a list holds after prepending or detaching is shown by giving a closed set
and needs no induction along the links.  `Ahead` is what makes the abstract
`Found` and the end of the concrete walk agree.

*The header.*  `Passed`: a verdict of 0 means that all nine checks passed, and
the header stays the one verified.  `Current`: the last answers are about the
current row; `Searched`: that row is one a search may return.  Of the 475
positions the proof uses four facts, each found by going through the table:
columns are 0 or at least 2 and at most the last (`Positions`), two stored
fields have different ones (`Distinct`), none is skipped (`EveryColumn`), and
the last is what the code computes (`MaxColumn`).

*Answers.*  `IInv` holds what the call has fetched, that it is in the static
buffers or in memory, and that the fields already stored are what the file
holds; the step from a read to the file is a lemma for each kind of read.

*Addresses.* `AddressInv` adds to this that a result tells the address of the
input and that the row was searched for it (`Known`). What is left is about
operators. `Value`, `Carries` and `Decimal` are recursive functions: over
digits, over digits from the last to the first, and over the bits of the
number, each of which doubles the digits with their carries and is added. The
induction theorems of the library take an operator as a parameter, which the
provers cannot instantiate; so the module derives induction over `0 .. n` for
*sets* (`Induct`, from the least element of a set of naturals) and, from it,
that a recursive function over `0 .. n` exists and obeys its equation. With
these, doubling is shown to double the value and to keep the digits below 10,
and the whole conversion to give the number of the words (`DecimalExact`); a
decimal longer than the buffer would be at least 10^(DecimalSize-1), more than
any number of four words (`DecimalsFit`). Two assumptions carry the
arithmetic: `AddressAssumption`, in which the code's 2^128 <= 10^39 stands as
`WordMod^4 <= 10^(DecimalSize-1)`, and `ExponentAssumption`, which says that
b^0 = 1 and b^(n+1) = b^n * b for the bases and exponents that occur, which
the provers do not derive. TLC evaluates both in the run `answers`.

*The dictionary.*  `Exact(country, P)` says what a country holds when the rows
at the places P have been read: a name is in a slot iff a row adds it, a leaf
iff a row adds both, the long name is that of the first row (readable or not),
and all elements of a slot are of the kind the mask asks for.  One more row
keeps it (`CountryGrows`), since what a row makes of a map does not depend on
what is there (`AddToGrows`); `Countries` adds that a country without rows has
no element yet.

*What the disagreements come down to.*  For each of the four statements that
the code violates, a theorem says what it takes for the statement to hold, so
that nothing else is wrong with it.

- The same pages: with `PageDistinct`, `ReadsComplete` has every location read a
  database of the size of its own.
- The lost name: with `PageDistinct` and calls on one name that do not overlap
  (`InTurn`), `NameKeptInTurn`.  The invariant is that a call that holds a
  segment still finds it under its name, and that a call about to unlink
  does not find a loaded one there (`Turns`).  Failures and deaths are not
  excluded: a loader that dies leaves an unmarked segment, whose name may go.
- Replaced files: `MemoryCovers`, as long as no file is put under a path that
  is longer than what is mapped of that path (`FitsMapped`).
- The last row: `RowsBeforeListed` and `ListedIfRepeated`; the one row that a
  search returns and the dictionary may miss is the last but one of its table.

*Calls return.*  The safety half of `CallsReturn` is proved: `Progress` gives
each label of a call a number, every step of the call raises it or ends the
call, and no step of another process changes it (`CallsGoOn`).  A call thus
returns after at most seven steps if its process takes them, which is the
fairness that `shm_liveness` assumes.

*What the promise is worth.*  `PromiseServes` uses nothing of the protocol: from
SharedSegments alone, a client reads a loaded database of the size of its file,
and goes on reading the same one.  With `PromiseKept` this is a second way to
the contents that `ReadsComplete` and `ReadsStable` speak of.

Checked by TLC only: CallsReturn, StaleRecovers and LookupEnds, since liveness
under fairness is beyond the prover, and the counterexamples of the four runs
that expect a violation.

## 5. What is not modelled

- Weak memory: the mark is a plain store after the data; the model is
  sequentially consistent.
- Windows, where file mappings have no names to unlink.
- Files overwritten in place, and other programs writing to a segment.
- A signed or unsigned `char` for the mark: where `char` is unsigned the
  stored mark never compares equal to -1, so no second process could open a
  segment.
- Which text is an address: that is for `inet_pton` of the C library, so that
  in Addresses a text is its family and its octets.
- Failures of `malloc`, `fread` and `mmap` in the modes of one process (they
  return before a list is touched), and V8.
- The octets of names in a dictionary.  The code tells them apart as C
  strings and makes JavaScript strings of them afterwards: two names that are
  not UTF-8 may become one, and a country or branch of the name `_index` would
  take the place of the array of that name.
- Files so near to 2^32 bytes that the bounds of a string wrap (`SumsFit`), and
  what a float that is not a number does in JavaScript.
- `deleteShared()`'s return value, which is always null, and accessors that
  return one member.

## 6. What is left

All components of section 1 but Windows have a module, and every invariant,
action property and refinement that a passing run checks has a proof.  Left are
a model of the mark under weak memory, and a description of `inet_pton`.
