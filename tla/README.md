# TrinityPandaCore, in TLA+

TrinityPandaCore is a server for a massively multiplayer game: an authentication
server, a world server, a common library, game scripts and offline tools. This
directory models the parts of the world server whose correctness depends on
threads, on the order of packets, callbacks and database operations, and on long
sequences of legal requests. The rest, listed below, is mostly rules over large
tables of game data.

- [1. The system](#1-the-system)
- [2. What is modelled, and how it corresponds to the code](#2-what-is-modelled-and-how-it-corresponds-to-the-code)
- [3. The runs](#3-the-runs)
- [4. Fairness](#4-fairness)
- [5. What is proved](#5-what-is-proved)
- [6. What the models show about the code](#6-what-the-models-show-about-the-code)
- [7. What is not modelled](#7-what-is-not-modelled)
- [8. Plan](#8-plan)

To check a run: `tlc -config <cfg> <module>` (the pairs are in section 3); to
check the proofs: `tlapm <module>` for each of the proof modules of section 5.

## 1. The system

### Threads

| thread | code | what it does |
|---|---|---|
| world thread | `worldserver/WorldThread/WorldRunnable.cpp`, `game/World/World.cpp` | a loop of `World::Update`: finished login tasks, sessions, the maps, auctions, battlegrounds, the other managers |
| map threads | `game/Maps/MapUpdater.cpp`, `common/Threading/DelayExecutor.cpp` | `Map::Update` of one map at a time, while the world thread waits |
| network threads | `game/Server/WorldSocketMgr.cpp` | read sockets; create sessions, queue packets, close sockets |
| database workers | `common/Database/DatabaseWorker.cpp` | carry out asynchronous queries and transactions, one queue and one connection each |
| others | auction search, console, remote access, freeze detector | ask for work, or watch |

In a tick the world thread runs, in this order: what is due by timers (auctions, mail),
`TaskMgr::Update` (continuations of finished queries), `UpdateSessions`,
`MapManager::Update`, which hands the maps to the map threads and waits for them,
and the other managers (battlegrounds, dungeon finder). The design rests on that
order: a handler declared `PROCESS_THREADUNSAFE` has the whole world to itself, one
declared `PROCESS_THREADSAFE` has only its player's map.

### Components

State, operations, what they touch, and what makes them right. The components of
the first table are modelled here.

| component | state | operations | interacts with | hard behaviour | right when |
|---|---|---|---|---|---|
| session table and login queue (`World.cpp`) | `addSessQueue`, `m_sessions`, `m_QueuedPlayer`, `m_disconnects`, `m_playerLimit` | `AddSession`, `AddSession_`, `RemoveQueuedPlayer`, `UpdateSessions`, `KickAll` | network threads append and close; `WorldSession::Update` decides who goes | reconnects, closed sockets at any point, a departure counted twice, shutdown with logins in flight | raw pointers in the queue are live, each session has one owner, the queue is first-come first-served and never idle, players are saved at shutdown |
| map updater (`MapUpdater.cpp`, `MapInstanced.cpp`) | activation queue, `pending_requests`, condition, `m_InstancedMaps` | `schedule_update`, `update_finished`, `wait`, `MapInstanced::Update` | world thread and workers | workers schedule more work from inside their own; a full queue; priorities | no map is updated twice or by two threads, `wait` ends and never early, no request names a deleted map |
| packets of a session (`WorldSession.cpp`, `MovementHandler.cpp`) | `_recvQueue`, `_player`, `m_playerLoading`, `m_playerRecentlyLogout`, teleport semaphores | `Update` with two filters, login, teleport acknowledgements, logout | network threads queue, world and map threads drain | packets that arrive too early, too late, or during a transfer | every packet is served once, for its own character, in order; a transfer ends |
| trade (`TradeHandler.cpp`, `TradeData`) | `m_trade` of each player, inventories, purses | ten handlers, `moveItems`, save | inventory, money, logout, database | goods change between the two acceptances; storing fails half way; a crash | what is exchanged is what both accepted, as a whole, and exists once |
| asynchronous database (`DatabaseWorkerPool.h`, `QueryHolder.cpp`, `TaskMgr.cpp`) | the workers' queues, transactions, futures, tasks | `Enqueue`, `CommitTransaction`, `DelayQueryHolder`, `TaskMgr::Update`, `Close` | every handler that saves or loads | saves and loads of one character in flight together; failed transactions; pinned connections; closing | a login reads what the last save wrote; order per connection; every login is answered |
| mail (`MailHandler.cpp`, `Mail.cpp`, `ObjectMgr.cpp`) | the mailbox of each player in the world, the tables `mail` and `mail_items` | send, read, delete, return, take, expire, `_SaveMail`, `_LoadMail` | inventory, money, auctions, logout, database | two copies of a mail, changed by different code; cash on delivery; a crash | an attachment is in one place; the table is the mailbox |
| auction house (`AuctionHouseHandler.cpp`, `AuctionHouseMgr.cpp`) | `AuctionsMap`, `mAitems`, the table `auctionhouse` | sell, bid, buy out, cancel, end | mail, inventory, money | money of three parties, the end of an auction against bids, a crash between purse and auction | every item has one owner, every coin is accounted for |
| battleground queue (`BattlegroundQueue.cpp`, `BattlegroundMgr.cpp`, `Battleground.cpp`) | `m_QueuedGroups`, invitations, `m_events`, invited counts, the players' queue slots | join, leave, enter, expire, match, fill, start, end | teleports, logouts, logins | events of old invitations; players between maps; counts kept by several paths | queue and slots agree; an invitation ends once and on time |
| groups and loot rolls (`Group.cpp`, `LootMgr.h`, `Creature.cpp`) | `m_memberSlots`, `RollId` with votes and counts, `is_blocked` and `is_looted` of each item, `m_groupLootTimer` | join, leave, open, vote, take, release, end of rolls | voters leave, log out, form another group; a map thread's timer posts the end | every roll ends, by the best vote, and its item is received once |

These are not (section 7 says why, section 8 which of them are planned):

| component | state | operations | hard behaviour | right when |
|---|---|---|---|---|
| world connections (`WorldSocket.cpp`) | in and out buffers, `m_Session`, `m_Crypt`, overspeed pings | authentication, framing, `CloseSocket` | reactor thread against the session's end | no packet for a dead session; one session per authenticated socket |
| dungeon finder | queues, role checks, proposals, boots | join, answer, time out | answers racing the timeout and leaving members | a proposal is decided once |
| guilds | ranks, roster, bank tabs | deposit, withdraw, move | bank and inventory saved in one transaction of another connection | bank items exist once |
| instance saves | binds of players and groups, reset times | bind, extend, reset | resets against players inside | a bind names a living save |
| black market, calendar, tickets, petitions, achievements | tables | create, update, delete | expiry | tables agree with the database |
| entities, inventory, quests; spells, combat, movement, AI; grids and map content; scripts | the game itself | thousands | sequential inside one map | the rules of the game |
| pools and events; battle pets, scenarios; Warden and movement checks; chat, commands, remote access; data stores; server start and stop | | | timers and tables | |
| authentication server, common library, tools, vendored code | | | | |

## 2. What is modelled, and how it corresponds to the code

Definitions keep the names of the code. One action is one whole handler, or one
critical section where threads interleave inside one; `PROJECT.json` gives the
lines of each. Definitions marked "mutant" are not part of the specifications:
each is a plausible mistake in the definition that follows, and a property that
must notice it.

### `WorldSessions` (instances: `MCWorldSessions`)

| variable | code |
|---|---|
| `account`, `alive`, `open` | the `WorldSession` objects made so far, those not deleted, those whose `m_Socket` is open |
| `inQueue`, `loading`, `inWorld` | `m_inQueue`, `m_playerLoading`, `_player` |
| `addSessQueue`, `sessions`, `queue`, `disconnects`, `limit` | `addSessQueue`, `m_sessions`, `m_QueuedPlayer`, `m_disconnects`, `m_playerLimit` |
| `pc`, `todo` | where the world thread is: between updates, draining `addSessQueue`, in the loop over `m_sessions` |

`Connect` and `LoseConnection` are the network threads and may happen between any
two steps. `AddSession_` and `AddRefused` are one element of `addSessQueue`,
`UpdateOpen` and `UpdateClosed` one session of the loop (so a socket may close
after its session was visited), `KickAll` the end of the main loop. `RemoveQueuedPlayer`
is a function of table and queue because `UpdateSessions` calls it twice for each
departing session, and both calls matter. Two conditions are kept as the code
evaluates them: `!s->GetSecurity() == SEC_PLAYER` (so it is staff that is queued)
and `difftime(then, now)` in `HasRecentlyDisconnected`.

### `MapUpdater`, implementing `MapRound` (instances: `MCMapUpdater`)

`MapRound` is what the rest of `World::Update` relies on: a round opens, maps are
accepted at most once each and finish, and it closes only when none is unfinished.
`MapUpdater` is the threaded `MapManager::Update`. `schedule_update`, `update_finished`
and the test in `wait` hold `m_mutex`, so each is one step; `OwnUpdateDone` is the
point where `MapInstanced::Update` has updated itself and turns to its instances,
which it unloads or schedules one at a time (`UnloadInstance`, `ScheduleInstance`) while
other workers run. A request's priority is the map's number of players, so `Dequeue`
may take any queued request. The refinement maps `phase` to the position of the
world thread, `outstanding` to the queued and running maps.

### `SessionPackets` (instances: `MCSessionPackets`)

One session. `pc` is the tick as the session sees it: `tasks` (`TaskMgr::Update`),
`world` (`UpdateSessions` with a `WorldSessionFilter`), `map` (`Map::Update` with a
`MapSessionFilter`). `ProcessPacket` is one turn of the loop of `WorldSession::Update`:
`Keep` puts a packet back at the tail because its player is still loading, `Allows`
is the switch on the opcode's status, `Handle` the handler. Seven opcodes stand for
the ways packets are treated (status and processing place, `clientOpcodeTable`).
`TeleportTo`, `HandleMoveWorldportAckOpcode` and `LogoutPlayer` follow the map, the
place in the world and both semaphores of the player (`body`). The client is external and
well behaved: it sends what its screen allows and answers each message it is sent;
its packets carry the number of the login they were sent for, which the server
never sees. It sends `MaxSent` packets of its own accord, and at most two answers for each login
and each teleport (a refused teleport is answered twice), so `Numbers` ends there; that it never needs more
is part of `TypeCorrect` (section 5).

### `Trade` (instances: `MCTrade`)

`m_trade[p]` is the `TradeData` of `p`; `GetItem` returns a listed item only if the
inventory still has it, as the code does, since nothing tells the trade of an item that
leaves. Every handler is `PROCESS_THREADUNSAFE` and one step. `AcceptTrade` is
`HandleAcceptTradeOpcode` with its outcomes: `AcceptRefused`, `AcceptFirst`,
`SpellFails`, `AcceptNoRoom`, `CompleteTrade`. `moveItems` applies `movePair`
to one slot after another (`after`), with the destination list that is not cleared between two
`CanStoreItem` calls. Between handlers players lose and bind items, spend and earn
money, are saved, log out and in, and the server may crash.
A save counts as in the database when its transaction is queued: with one database
worker, the default, transactions are committed in that order, so a crash that loses
some loses the last ones, and what is left is a value `saved` had before. That both
players are saved in one transaction is what makes this a consistent value.

### `CharacterDatabase` (instances: `MCCharacterDatabase`)

`queue[w]` and `running[w]` are the operations of worker `w`. `GetWorker` is the choice
of `DatabaseWorkerPool::Enqueue` (the first idle worker, else the first), `PinnedWorker`
that of the members of `DBConnection`. A save is one transaction; a load is one query
after another outside any transaction (`ReadPart`), so that saves may be committed in
between; its answer waits in `answer[c]` for `HandlePlayerLogin`. A character has two parts: money, which every
save writes, and items, which a save writes only if `dirty`. `Abandon` is a transaction
that failed and is forgotten. `Deactivate` is `~DatabaseWorker` during `Close`.

### `Mail` and `AuctionHouse`, implementing `Market` (instances: `MCAuctionHouse`)

`Mail` is a module of operations, `AuctionHouse` extends it and is the specification that is
checked: the mails of an auction go through the same mailboxes.

| variable | code |
|---|---|
| `m_mail[p]`, `row` | the mailbox of a player in the world; the rows of `mail` and `mail_items` |
| `bag`, `money`, `saved` | inventory and purse, in the world and in the database |
| `auctions`, `savedAuctions` | `AuctionsMap`; the table `auctionhouse` |
| `unsaved` | history: what a crash would give back |

A mail exists twice. Handlers change the copy and mark it (`state`), `SaveMail` (`_SaveMail`) writes it
back; `SendMailTo` and `RemoveMail` change both; `ReturnOrDeleteOldMail` changes the table only.
`Office` is the pair, and each helper takes the pair the one before left, in the order in which
the handler calls them. A handler queues one transaction at its end, and with one database worker,
the default, transactions are committed in that order (`LoginReadsLastSave` of
`CharacterDatabase`), so `saved`, `row` and `savedAuctions` change with the handler. `SellItem` is
the exception the code makes: the deposit is charged after its transaction is queued.
`MailDraft` draws ids from a counter; the model takes an id no other mail has.

`Market` knows nothing of mails: items have one owner at most, goods change hands as gifts or
against payment, money staked in bids comes back unless it buys something, and who takes
no part in a step neither wins nor loses. The refinement maps an item in a mail with cash on delivery to its
sender, an item in an auction to the seller, and counts money in mails and deposits as
the funds of whom they will go to.

### `BattlegroundQueue` (instances: `MCBattlegroundQueue`)

All of it runs on the world thread, so a step is a whole handler or a whole
`BattlegroundMgr::Update`; what interleaves is the order of packets and of the clock. `Update` is
`UpdateBattlegrounds` (each battleground's `Update` in order of its id), `UpdateEvents` and, if one
is scheduled, `BattlegroundQueueUpdate`, which fills the battlegrounds with free slots and then creates one if a
match exists. Operators take and return the whole state as a record (`Now`, `Become`), since each handler is a
sequence of calls, each of which sees what the one before did. Time is counted in updates;
groups and events hold the updates left, so that two are equal when the absolute times are
(`RemoveInviteTime` is what `IsPlayerInvited` compares). `place` is the player: `FindPlayer` finds only who is
in the world, not who is between two maps, and much depends on it.

### `LootRolls` (instances: `MCLootRolls`)

| variable | code |
|---|---|
| `online`, `group`, `members`, `passing` | players in the world, the group's low guid and `m_memberSlots`, `m_bPassOnGroupLoot` |
| `corpse[c]` | the creature: `dead`, `recipient`, `lootForBody`, `timer` (`lootingGroupLowGUID` while `m_groupLootTimer` runs); its loot: `blocked`, `looted`, `unlootedCount`, `looters` |
| `roll[c][s]` | the `Roll` in `RollId` for an item: `playerVote` and its four counts |
| `due` | tasks posted by `Creature::Update`, not yet carried out |
| `got` | history: who received each item, and as what |

Handlers are `PROCESS_THREADUNSAFE`, one step each, and wait for `due` to be empty: `TaskMgr::Update` precedes
`UpdateSessions` in each tick. What runs on map threads (`Kill`, `Expire`, `RemoveCorpse`, `Despawn`) comes at any time. `CountTheRoll(r)`
is the set of fates a roll's item may meet: any voter of the best kind wins (`Given`), unless its bags are
full or it is not in the world (`Lost`: the item stays blocked), and an item nobody wants is `Free`; `Over` applies the fates
of the rolls that a step ends, one creature's or (`EndRoll`) one group's. Counts are kept apart from votes, as in the code; who leaves is taken out of both,
without ending the roll. A roll whose loot is cleared stays in `RollId` but is never found again; the model drops it.
A client answers each roll once, which the server does not test.

### Proof modules

`WorldSessionsProofs`, `MapUpdaterProofs`, `TradeProofs`, `CharacterDatabaseProofs`, `LootRollsProofs`, `AuctionHouseProofs`,
`SessionPacketsProofs` and `BattlegroundQueueProofs` hold theorems only (section 5), with the definitions their invariants need.

## 3. The runs

| run | module, cfg | what it shows |
|---|---|---|
| `login_queue` | `MCWorldSessions`, `WorldSessionsQueue.cfg` | the queue is sound (`QueueIsSound`): its pointers are live and unique, each session has one owner; no slot stays idle, the order is kept, and the double `RemoveQueuedPlayer` never admits one too many |
| `session_reaping` | `MCWorldSessions`, `WorldSessionsLive.cfg` | closed sessions are deleted, waiting ones are taken, and a shutdown leaves nobody in the world although logins are in flight |
| `map_rounds` | `MCMapUpdater`, `MapUpdater.cfg` | `MapUpdater` implements `MapRound`; requests are counted exactly, distinct and of live maps; `wait` ends |
| `session_packets` | `MCSessionPackets`, `SessionPackets.cfg` | packets are handled for the character they were sent for, early ones are kept, no others are overtaken, all are served; transfers end |
| `transfer_home` | `MCSessionPackets`, `TransferHome.cfg` | violation, section 6 |
| `trade_protocol` | `MCTrade`, `TradeProtocol.cfg` | pairs, acceptances, whole exchanges, spells that follow their item, one owner per item, and a database without duplicates after a crash |
| `database_order` | `MCCharacterDatabase`, `CharacterDatabase.cfg` | with one worker a login reads the last save; the database catches up, and a closed pool loses only what was queued; pinned writes keep their order for any number of workers; every login is answered |
| `auction_mail` | `MCAuctionHouse`, `AuctionHouse.cfg` | mail and auctions together implement `Market`; an item is in one place; a crash gives back deposits and changes nothing else |
| `mail_expiry` | `MCAuctionHouse`, `MailExpiry.cfg` | violation, section 6 |
| `bg_queue` | `MCBattlegroundQueue`, `BattlegroundQueue.cfg` | queue slots and queue agree on every path; an invitation that expires removes its own player, always and only then |
| `bg_counts` | `MCBattlegroundQueue`, `BattlegroundCounts.cfg` | violation, section 6 |
| `loot_rolls` | `MCLootRolls`, `LootRolls.cfg` | open rolls keep their counts, their item and a timer; an item is received once; the best vote wins; all rolls end |

### Bounds, and why they are enough

- `login_queue`: three staff accounts (the ones the code queues; symmetric), a limit of
  one, five connections: two may wait behind one player, with two reconnects, one of
  which may be of a queued session. Two waiting sessions are the least in which an order
  exists; a departure, a replacement and an admission can then coincide.
- `session_reaping`: one player and one staff account, three connections, limits one and
  two changed at run time, one second on the clock and a tolerance of one, so the
  `m_disconnects` path and the changing limit are in it. Small, since it is the run with
  liveness.
- `map_rounds`: two workers, three base maps (two of them `MapInstanced` with instances),
  three instances, and a queue of two requests, so that requests are refused, from the
  manager's loop and from a worker. The proofs (section 5) remove these bounds for safety.
- `session_packets`: two logins, seven packets of the client's own, one teleport; three maps, one of
  which may refuse the player. Two logins are what a straggler needs; more
  packets only lengthen the queue. Packets numbered above `MaxSent` can only answer
  the last teleport or logout, and `QueuedPacketIsServed` leaves them out.
- `trade_protocol`: two players with an item each, inventories of one and two slots in the window, two coins of
  which one can be earned from outside, and a cap that the payments can exceed: an exchange fits only because both
  sides give, storing fails when an inventory was filled meanwhile, and a crash may come
  between any two handlers. A third player matters only for the pairing, which is proved for any number.
- `database_order`: one or two workers, one character, one change of each part, one pinned
  connection with two writes, two queued operations and one abandoned transaction: a save
  and a load in flight together, in both orders.
- `auction_mail`: a seller with one item and two bidders (symmetric), two coins each, bids of one or two, one coin of
  mail money or cash on delivery, three mails at a time, a deposit and postage of one, a cut of
  half. One auction can have an outbid, a change of mind by the same bidder, a buyout over a
  bid, and be followed by a second sale of the same item by the buyer's mail. Three mails are what a
  buyout over a bid sends.
- `bg_queue`: two players of one team, who queue alone or as a party, and one of the other; at least one and at
  most two a side, two updates to accept, one battleground. Two updates let an invitation be left and given
  anew before its event is due; one battleground that is full, ends and is deleted makes invitations
  outlive it. The invited counts wrap at four instead of 2^32. 480 thousand states, about a minute.
- `loot_rolls`: three players, of whom two answer and open corpses, one of them logs out and one may be too far away,
  while the third passes on loot or never answers; one corpse with two items, one of which can be disenchanted; two
  groups, one after the other. Two answers are enough for every order of need and greed, the third player for a
  roll that only the timer ends; two items for `EndRoll` to find a second roll; a second group for a timer of the
  first. 618 thousand states, two minutes.
- `transfer_home`, `mail_expiry` and `bg_counts`: the smallest instance with the counterexample.

Deadlock is checked in all runs except those of `CharacterDatabase` (a closed pool stops),
`SessionPackets` (a session ends), `AuctionHouse` (nothing is left to sell or send) and
`BattlegroundQueue` (its one battleground is used up).

### Properties

Each property stands at the end of its module with a comment that states it. Those that
took most care:

- `QueueIsSound` and `RequestsAreExact` are conjunctions of invariants that need each other; each part has a theorem of its own.
- `NoIdleSlotWhileQueueing` and `AdmissionNeedsAFreeSlot` bound `RemoveQueuedPlayer` from both
  sides: it is called while the session is in the table and again when it is no longer
  listed, so a slot may be counted as freed twice.
- `RoundSpec` is what lets all of `World::Update` outside `wait` be written without locks on maps; that
  every map is idle then (`QuietOutsideRound`) is a theorem.
- `AcceptedListIsCurrent` compares each acceptance with the two lists its player was looking
  at, kept in the history variable `seen`.
- `ExchangeIsWhole` speaks of any step by which goods change hands, not of `CompleteTrade`.
- `OnlyEarlyPacketsAreOvertaken` says how far the re-enqueueing of packets may change their
  order: not beyond those sent before the client was told it is in the world.
- `LoginReadsLastSave` and `QuietDatabaseIsCurrent` say, for one worker, that saving only changed
  items and loading by parts lose nothing, failed transactions apart.
- `DatabaseIsCurrent` says at every point of mail and auctions what a crash would lose: deposits are given
  back (a gift of the server), nothing else.
- `MarketSpec` follows every coin through purse, mail, deposit and bid; the two parties of a step are all that
  may change.
- `SlotsMatchQueue` ties three copies of one fact, kept by separate calls on seven paths.
- `ExpiryIsExact` replaces the five cases listed in the comment of `BGQueueRemoveEvent` by one equivalence.
- `RollsGuardTheirItem` relates an open roll to four other places: its votes, the members, the loot, and the timer or task that ends it.

## 4. Fairness

- `WorldSessions`: weak fairness of the world thread. `WorldRunnable::run` loops until the
  server stops. Clients and operators owe nothing, and a login that never finishes is allowed.
- `MapUpdater`: weak fairness of the world thread and of each worker, separately. A worker
  blocks only on an empty queue; no lock is held across a step. Creating instances and
  spurious wake-ups are not fair.
- `SessionPackets`: weak fairness of `Server` (the tick), `Load` (a database worker answers) and
  `ClientReads` (a connected client processes what it is sent; it may disconnect instead). It is
  what the protocol needs: a silent but connected client does stay in a transfer until
  the idle timeout, which `Disconnect` stands for. Nothing is assumed of what the client sends
  of its own accord.
- `CharacterDatabase`: weak fairness of each worker, and of `HandlePlayerLogin`, since
  `TaskMgr::Update` runs at the start of each tick. `LoginIsAnswered` includes the login cancelled.
- `LootRolls`: weak fairness of `Expire` (the corpse's map is updated in every tick) and of the tasks of the world thread.
  Players owe nothing: they may never answer.
- `Trade`, `AuctionHouse` and `BattlegroundQueue` have no liveness property: a trade may stay open for ever, a mail unread;
  an auction's end and a match are commanded by clocks and by other players' arrival.

## 5. What is proved

Checked by TLAPS for all values of the constants allowed by the assumptions.

### `WorldSessionsProofs`, from `SessionAssumption` (the limits are natural numbers, `NoSession` and `Never` are no sessions and no times)

| theorem | statement |
|---|---|
| `SessionsTyped` | `Spec => []TypeOK` |
| `SessionsOwnedOnce` | `Spec => []SessionsAreOwnedOnce` |
| `QueueNamesLiveSessions` | `Spec => []QueueEntriesAreRegistered` |
| `QueuedAreListed` | `Spec => []QueuedFlagMeansListed` |
| `QueueSound` | `Spec => []QueueIsSound` |
| `StopUnloadsPlayers` | `Spec => []ShutdownUnloadsPlayers` |
| `QueueOrderKept` | `Spec => QueueKeepsOrder` |
| `SlotsAreHandedOn` | `Spec /\ [][limit' = limit]_vars => []NoIdleSlotWhileQueueing` |
| `AdmissionsFit` | `Spec => AdmissionNeedsAFreeSlot` |

The invariants need each other: that a queue entry is a registered session survives a reconnect only
because a session is its account's entry in `m_sessions` (`EntriesAreOfTheirAccount`, `UsersAreRegistered`), and a
departure only because `RemoveQueuedPlayer` finds every flagged session (`QueuedFlagMeansListed`, with its
converse `ListedAreFlagged`). `StopCloses` carries what is known between `KickAll` and the last
`UpdateSessions`: whoever is in the world is still to be visited, with a closed socket. `SInv` is the
conjunction, with one lemma per action; the two calls of `RemoveQueuedPlayer` per departure are lemmas about the
function, used twice.

For the order, `KeepsOrder(q, r, x)` says that `r` is `q` after departures of `x` and admissions from the front: what is
gone, `x` apart, was in front of all that is left, and what is left is in order. Unlinking
`x` and taking the head each keep it, and it is transitive (`KeepsOrderTransitive`), so the calls keep it together; each action is such a
move, with at most one newcomer put at the end (`Moves`).

The two theorems about slots count. The sessions in line stand for as many accounts of the table (`LineCounts`), so
everything `RemoveQueuedPlayer` decides depends on four numbers: the limit, the entries of the table, the length
of the line and whether the session was listed. `Left` is its effect on them, and `LeftHandsOn` and
`LeftAdmitsWithin` bound what one call and two calls leave. The first theorem needs the limit to stay (with a higher one nobody is
admitted until the next departure, section 6), hence its hypothesis; the run has it by `Limits`. Both need that the loop over
`m_sessions` visits only entries (`VisitsEntries`).

### `MapUpdaterProofs`, from `MapAssumption` (finite sets of maps and workers, at least one worker, instances with one parent)

| theorem | statement |
|---|---|
| `TypeCorrect` | `Spec => []TypeOK` |
| `PendingExact` | `Spec => []PendingCountsRequests` |
| `OneUpdatePerMap` | `Spec => []NoMapUpdatedTwice` |
| `WorldTickAlone` | `Spec => []QuietOutsideRound` |
| `NoDanglingRequest` | `Spec => []RequestsNameLiveMaps` |
| `RequestsExact` | `Spec => []RequestsAreExact` |
| `ImplementsRound` | `Spec => RoundSpec` |

The five invariants are not inductive. `NoMapUpdatedTwice` does not survive the moment a
`MapInstanced` turns to its instances (`OwnUpdateDone`): nothing in it says that they have not been
queued already. The missing fact is `ScheduledByParent`: an instance is queued, running
or finished in this round only if its parent has finished or is past its own update. With
it, and four facts about the loops (`LoopOver`, `SpawningAreBusy`, `LeftAreChildren`,
`FinishedAreDone`), the conjunction `IInv` is inductive; there is one lemma per action. `ImplementsRound`
uses `IInv` for the steps that map to `Accept` (the map is new in this round), `Finish` and
`Close` (nothing is outstanding when `wait` returns).

### `TradeProofs`, from `TradeAssumption` (finitely many players and items, bags that fit and share nothing) and `NullAssumption`

| theorem | statement |
|---|---|
| `PartnersAlwaysMatch` | `Spec => []PartnersMatch` |
| `AcceptanceIsCurrent` | `Spec => []AcceptedListIsCurrent` |
| `SpellBelongsToItem` | `Spec => []SpellIsForListedItem` |
| `TypeCorrect` | `Spec => []TypeOK` |
| `CrashesCreateNothing` | `Spec => []CrashCreatesNothing` |
| `OneOwner` | `Spec => []ItemsHaveOneOwner`, if `Limited = {}` |
| `ExchangesAreWhole` | `Spec => ExchangeIsWhole`, if `Limited = {}` |

The invariant `TInv` joins the first three with the type of the trades and with `ListsOnce` (no item is in two slots of a
window, which only `HasItem` in `HandleSetTradeItemOpcode` sees to). None stands alone: an
acceptance and a spell relate the records of two players, so a handler that edits one
trade preserves them only if no third player's record is involved, which is
`PartnersMatch` (lemma `Pairs`). The handlers fall into four kinds, each with a lemma: those that edit a
list and take both acceptances back (`EditInv`), those that change acceptances only (`AcceptInv`),
those that close trades (`CloseInv`), and those that leave trades alone (`KeptInv`).

`GoodsInv` is the invariant of the goods. `BagsSaved`: every inventory is part of its saved copy and the copies are disjoint;
so neither a crash nor a login can double an item. `NoNewMoney` counts, for every player, the fuller of the purse and its saved copy,
since either may be the one that survives; coins are counted as a set, so that sums are cardinalities.

The exchange is an induction over the slots. Two statements are carried through it. `MovedApart`
holds whatever is refused on the way: the two inventories share nothing, contain nothing from elsewhere, and nothing that
is still to be stored; here `ListsOnce` is what keeps an item from being stored for a second slot. `MovedWhole` says that everything listed so
far has changed sides. It is kept because `CanStoreItems` has counted the slots for all the items together (`SlotHasRoom`), but only
if no item has a category limit, which is tested for each item alone; hence the hypothesis of the last two theorems, which the
run has too. Without it they are false, and so are the properties (section 6). The money checks leave the four saturating
`ModifyMoney` calls no way but the exact one (`Paid`). `StepIsWhole` then shows that no other step hands anything over.

The provers take no induction rule with an operator for its parameter. What is used instead is that a set of numbers has a least
element (`LeastSlot`, from the library's `WFMin`): the slots at which a statement holds are a set.

### `CharacterDatabaseProofs`, from `DatabaseAssumption` (numbers of workers are positive) and `NothingAssumption` (`Idle` is no operation, `NoAnswer` no answer)

| theorem | statement |
|---|---|
| `TypeCorrect` | `Spec => []TypeOK` |
| `PinnedOrder` | `Spec => PinnedWritesKeepOrder` |
| `LoginsOwnTheirAnswers` | `Spec => []OneLoad` |
| `ReadYourSaves` | `Spec => []LoginReadsLastSave` |
| `QuietDatabase` | `Spec => []QuietDatabaseIsCurrent` |

A worker's running operation and its queue are one line, the positions `0..Len(queue[w])`: taking an operation from the
queue moves every other one step forward. The invariant `DInv` says what is in that line. `PinnedLine`: the writes of a
connection are on its worker, each newer than the one before and than the table, which gives their order for any number of
workers. `OneLoad`: a loading character has one query under way or one answer, anybody else neither (a cancelled login
disowns its query). With one worker, `LastSaveWins`: of the saves in line the last of a part carries what was asked for, and a
part nobody carries is in the table; `ReadersAreLast`: no save of a character is behind its query, so what it has read by parts
stays what was asked for. The last two say nothing of a character with an abandoned transaction (`spoilt`), as the properties
do. That saves leave out items which are not dirty is sound because `mem` then agrees with what was last requested, which is part
of `ReadersAreLast`.

### `SessionPacketsProofs`, from `PacketsAssumption` (home is a map and no instance)

| theorem | statement |
|---|---|
| `TypeCorrect` | `Spec => []TypeOK` |
| `RightCharacter` | `Spec => PacketsMeetTheirCharacter` |
| `OnlyEarlyWait` | `Spec => OnlyEarlyPacketsAreOvertaken` |

While the socket is open, session and client are together in one of four phases (`Phase`): idle, choosing a
character, entering, playing. Each says whose packets may still be queued and which messages are under way: while idle, for
instance, the queue holds only packets of the character that left, and `m_playerRecentlyLogout` is set if there are any; while
choosing, packet `k` is the login, everything before it is of the character before, and everything behind is early. A
packet for the wrong character would have to be in the queue in a phase that does not allow it. `InOrder` says the queue is in order but for
early packets, and `Answerable` accounts for the answers the client has sent and still owes, which is what bounds packet numbers
for any number of teleports. `PInv` joins them; a packet is treated in one lemma per phase.

### `LootRollsProofs`, from `LootAssumption` (finitely many players and items) and `NoRollAssumption`

| theorem | statement |
|---|---|
| `TypeCorrect` | `Spec => []TypeOK` |
| `OpenRollsEndWell` | `Spec => []RollsGuardTheirItem` |
| `ReceivedOnce` | `Spec => []ItemsGivenOnce` |
| `TheBestVoteWins` | `Spec => BestVoteWins` |

`CorpseInv` is the invariant of one creature: its life (`Life`: rolls and looters exist only with loot, loot only on a corpse), its
open rolls (`Guarded`), its items (`GivenOnce`), and that a group without members has no rolls. A roll
survives what members do since its counts are the sizes of its sets of votes (`CastMatches`, `WithoutVoterMatches`, by
cardinality), and an item is given once since an open roll's item is blocked for everybody else. Steps that end rolls of
several items or creatures at once share `OverKeeps`: whatever fates the ended rolls meet, the rest is untouched.

### `AuctionHouseProofs`, from `MailAssumption`, `AuctionAssumption`, `NoMailAssumption` and `NoAuctionAssumption`

| theorem | statement |
|---|---|
| `TypeCorrect` | `Spec => []TypeOK` |
| `ItemsStayInOnePlace` | `Spec => []ItemsHaveOnePlace` |
| `DatabaseStaysCurrent` | `Spec => []DatabaseIsCurrent` |
| `MarketKept` | `Spec => MarketSpec` |

Each assumes `~MayExpireLoaded`, as the run does: the daily job spares the mails of players in the world, which is what its code
means to do. It does not (run `mail_expiry`, section 6), and the item of such a mail can then leave the mailbox and
the mail that was sent back, both: without the hypothesis `ItemsHaveOnePlace` and `DatabaseIsCurrent` are false. Players and
prices are any, and so are items and mails, of which `MailAssumption` says that there are finitely many: ids are 32-bit counters.

`AInv` has four parts. `PursesOK`: bags and money are in the database but for what `unsaved` says, and nothing is unsaved for who is
not in the world. `OfficeOK`: a mailbox shows mails of its player only, as their rows have them, and every mail has
something attached and, if it can go back, a player to go to. `AuctionsOK`: the book agrees with its table, and the highest bid is below
the buyout, so that the difference the highest bidder pays is positive. `OnePlace`: the sets behind `ItemsHaveOnePlace`. Inside a
handler `OfficeOK` fails for a moment, when a mail is changed in the mailbox and not in its row; `AlmostOK` says what holds then
(`Lesser`: the changed mail has fewer items than its row), and `SaveMailOK` that `_SaveMail` mends it. Sending
is one lemma (`SendSends`), which mails of money (`MoneySent`, `HousePays`) and of items (`HouseGives`) specialise; a handler
that sends three mails uses it three times, with one less room each.

`MarketKept` is the refinement. It takes `AInv` and one more invariant, `Fair`, which `AInv` does not imply and the mapping needs:
a mail between players goes to another player; cash on delivery is asked for one item at most (of several, the first one taken would be
paid for and make the others change hands with it), and never by a mail that was returned; what a player has deleted asks for no payment (or `_SaveMail` would
destroy the sender's item); nobody bids for what is its own (or a sale would have one party). Market's variables are functions of the
state that the steps change piecemeal, so the proof has three layers.

- Sums. `Coins` counts coins as a set; `Total(D, F)` is the same count for a function that is zero where there is nothing (`CoinsAre`), and
  `TotalChange` says that a change of `F` at one place changes the count by as much. `RowAt` and `BookAt` are its two uses: one mail
  row set, one auction set.
- Owners. `OwnerHas`: by `OnePlace`, the owner of an item is whoever has it in any place (`Has`), so that the nested choice of `Owner` never appears
  again; an item's owner stays if every place that was there is still there (`OwnerStays`).
- Steps. `GiveMaps`, `SellMaps`, `LoseMaps`, `BidMaps`, `ChargeMaps` and `RestartMaps` restate the actions of `Market` in these terms; one lemma per handler
  (`TakeItemMarket`, `BuyoutMarket`, ...) ends in one of them. Mails sent on the way are `PaidTo` and `GivenTo`, mails that a save
  removes are `Swept`. A sale is `SoldStep` whether it is a buyout or the end of an auction.

Two facts come out of the case analysis. In a buyout by the highest bidder the bid that comes back and the difference paid are
the price exactly; and a save in the middle of a handler may destroy deleted mails of the same player, so `Sell`
lets the buyer discard goods (cash on delivery) and `Lose` covers every save.

### `BattlegroundQueueProofs`, from `QueueAssumption` (finitely many players in two teams, parties of one team, sizes and times that make sense)

| theorem | statement |
|---|---|
| `QueueTyped` | `Spec => []TypeOK` |
| `SlotsAgree` | `Spec => []SlotsMatchQueue` |
| `ExpiryExact` | `Spec => ExpiryIsExact` |

The invariant is a predicate of a state record, `Good(s)`, since a handler is a sequence of calls that take and return such records:
each call has a lemma, and a handler is put together from those of its calls. It sees the queue as a set of entries: `Entry(q, p, b, l)`
says that `p` is in a group invited to `b` with the time `l` left, so that taking a player out (`LeftQueue`), appending a group and inviting one
are statements about entries, and positions in the lines appear in a few lemmas only. Per player it has five parts. `WaitingOK`, `HolderOK` and
`ParticipantOK` are `SlotsMatchQueue`; `InsideOK` adds that whoever is in a battleground in use, or on the way to it, holds its slot, without
which a logout in transit or an arrival could make a participant of a player who is queued elsewhere. `EventsOK` is what `ExpiryIsExact` needs: an
entry with the time `l` has its event with the same time if and only if its player holds the slot, for a player who was not found when its group was
invited has neither. `Fresh` joins it during the matching: an event with the full time belongs to an invitation given in this very update, so a
group that has waited so far has none.

Most steps concern one player (`OneMoves`) or change counts and lists of free slots only (`Still`). `Update` does not: its four loops are folds, over
the players of a battleground that closes, the battlegrounds, the due events and the groups of a pool. A fold is the `CHOOSE` of a recursive function on
sets; that it exists, and what it computes element by element, follow from `LoopExists`, `AllParts` and `SequenceSteps`, which are proved from the
well-foundedness of the naturals for any loop whose body is given as a function. `UpdateEventsIs` is the induction over the due events (`Executed`: who is out is
exactly who was found and held the slot of an invitation among the events executed so far), `InviteGroupsGood` the one over the pool: the
groups still to be invited still wait in the queue, because they are different groups without a player in common (`Picked`, `Chosen`).

### What is only model-checked

- all liveness properties (the prover has no rule for fairness and `ENABLED`).

Every safety invariant, every action property and both refinements that the runs check are stated by a theorem.

## 6. What the models show about the code

Three runs check a statement of the repository that the code does not keep:

- `transfer_home`. A player whom a dungeon refuses at the worldport acknowledgement is sent home by
  `TeleportTo`, which compares the homebind with the map the player has left. If they are equal
  it takes the near-teleport branch for a player who is not in the world, and waits for
  a packet that is only accepted from one who is.
- `mail_expiry`. `ReturnOrDeleteOldMails` means to spare the mails of players in the world, "has already listed
  his mails". It looks its receiver up by a low guid where a full one is needed and finds
  nobody. A mail may so be returned in the table while its receiver still has it in the mailbox, and takes
  what is attached; `auction_mail` therefore assumes that mails of players in the world do not expire
  (`MayExpireLoaded`), without which an item can be in two places.
- `bg_counts`. A queued player in a far teleport is not found by `InviteGroupToBG`, which skips it as "offline",
  uncounted; when it later leaves the queue the invited count is decreased all the same. The
  count wraps, and `GetFreeSlotsForTeam` offers nothing for an empty battleground.

Everything else that was checked holds. Met while modelling, part of the models, and not the subject of a run:

- `AddSession_` tests `!s->GetSecurity() == SEC_PLAYER`, which is `(!security) == 0`: it queues exactly the
  accounts with a security level, and never a player, against `worldserver.conf.dist` ("Excluding Mods, GMs and Admins").
- `HasRecentlyDisconnected` compares `difftime(i->second, time(NULL))`, never positive, with the tolerance: whoever
  disconnected once skips the queue for ever.
- `RemoveQueuedPlayer` of a session that waits leaves the queue's length to the next departure; the limit can be raised
  without anybody being admitted.
- `HandleAcceptTradeOpcode` tests each incoming item alone against the receiver's category limit; of two that together
  exceed it one goes back to its owner, and the trade is complete. If the other direction of the same slot had found room, that room is still in
  the destination list the returned item is stored with, and `StoreItem` puts a copy into each place of the list: with four
  items, three of them limited to two, TLC finds `ItemsHaveOneOwner` violated. `trade_protocol` and two of the theorems
  therefore have no limited items.
- The deposit of an auction is charged after the transaction with the purse is queued (`unsaved`).
- An invitation to a battleground never expires while its player is in a far teleport at the moment its event is due, since
  the event is executed once; `ExpiryIsExact` says so ("and `FindPlayer`").
- A player who accepts an invitation and logs out in transit stays counted as invited; a battleground with such a count and without
  players is never deleted. Its slot, likewise, outlives the battleground (`SlotOutlivesQueue`).
- A logout removes a queue entry without scheduling an update of the queue: an invitation that becomes free is given
  at the next join or departure.
- One queue update creates at most one battleground, however many groups wait.
- `~DatabaseWorker` deactivates its queue before it is empty: saves still queued when the pool closes are not carried
  out, though `WorldRunnable.cpp:106` says "save and kick all players".
- The winner of a roll who is not in the world gets nothing, and the item stays blocked for all. The items of open rolls stay blocked too
  when the group dissolves, since `Disband` clears `RollId`.
- `RemoveMember` erases a vote before it calls `CountRollVote`, which then finds nothing to do: the departure of the
  last who had not answered leaves the roll to the timer.

## 7. What is not modelled

- Inside the modelled components. `WorldSessions`: bans, configuration, shutdown timers, the
  texts of queue positions. `MapUpdater`: starting and stopping threads, who may create an instance,
  `MapUpdate.Threads = 0`, where the world thread updates maps itself. `SessionPackets`: the
  other handlers, opcodes processed in the network thread, the anti-flood counters, forced far
  teleports, teleports delayed to the end of a unit's update, the idle timeout (it is a disconnect).
  `Trade`: stacks and bags (an item takes one slot), the casting of the prepared spell beyond its
  success or failure, the distance and life checks, which only keep a trade from starting.
  `CharacterDatabase`: synchronous queries, prepared statements, result sets, the other databases.
  `Mail`: letters and notices without attachment, mail templates, delivery delays, money on hand of 2^31 and more, an item
  count in a stack, mails with several items (the code's limit is `MAX_MAIL_ITEMS`), a full mailbox or inventory (refusals), a return of a mail that has just left the mailbox, and
  the daily job's statements, which are not one transaction and may be cut by a crash.
  `AuctionHouse`: selling part of a stack or several stacks, the auction bot, the search and its thread (it reads copies), and
  prices whose fifth part overflows.
  `BattlegroundQueue`: arenas, rated battlegrounds, premade groups (four players or more), the solo queue, random battlegrounds,
  several queues of one player, `Battleground.InvitationType` 1, mixed factions, deserters, AFK reports, and the rules inside a battleground. The queue
  is not stored, so a crash is a fresh start.
  `LootRolls`: the other loot methods, chests, items under the threshold, money, quest and personal items, skinning and
  pickpocketing, raids, leaders, roles and ready checks, dungeon finder groups, two groups at a time, the generation of loot. Groups are
  stored, but loot is not: a crash ends every roll.
- Game content: spells, combat, movement, AI, quests, scripts, grids. It is sequential inside one map
  and its substance is data; a model at the level that keeps it faithful would be the program again.
- Chat, commands, remote access, logging, configuration, data stores: formatting, dispatch and
  read-only tables. Warden and the movement checks only inspect clients.
- The authentication server: its substance is SRP6 arithmetic; a model of the order of requests is planned.
- Tools, and vendored code under `dep`.

## 8. Plan

In this order, each module with its runs and, where marked, theorems.

| module | of | composes | abstract specification | run and bounds | theorems |
|---|---|---|---|---|---|
| `WorldConnection` | `WorldSocket` | one session of `SessionPackets`, abstracted to alive or not | | two reactor threads, one reconnect | no packet reaches a deleted session |
| `DungeonFinder` | `LFGMgr.cpp`, proposals | | a proposal is decided once | five answers reduced to three roles | |
| guild bank | `Guild.cpp` | pinned connections of `CharacterDatabase` | `Market` | one or two workers | |
| instance saves, authentication handshake, shutdown timer | | | | | |
