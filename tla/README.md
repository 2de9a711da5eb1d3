# TLA+ models of the peer-side chaincode handler

This directory model-checks `src/openchain/chaincode/handler.go`. That file is the
peer's end of the bidirectional stream to one chaincode process.

## The system

One `Handler` serves one chaincode stream. Its parts:

| Part | Code | Role |
|---|---|---|
| Stream pump | `processStream` (234-299) | Takes one frame at a time from a Recv goroutine or from the unbuffered `nextState` channel and runs `HandleMessage` on it. Forwards the frame if asked. Exits on EOF, an error, or a failed send, and then deregisters. |
| FSM | `newChaincodeSupportHandler` (309-378) | looplab FSM with the states `created`, `established`, `init`, `ready`, `transaction`, `busyinit`, `busyxact` and `end`. Its callbacks do all the work. |
| Dispatch | `HandleMessage` (1238-1288), `filterError` | `QUERY_COMPLETED`/`QUERY_ERROR` and `INVOKE_QUERY` bypass the FSM. An inadmissible frame ends the session; a write in query context is first answered `ERROR`. |
| Transaction registry | `createTxContext`, `deleteTxContext`, `notify` | Per uuid: a capacity-1 `responseNotifier` and a map of open range iterators. `notify` sends while holding the handler lock, then closes the iterators. |
| In-flight guard | `createUUIDEntry`/`deleteUUIDEntry` | At most one request goroutine per uuid; a duplicate is dropped silently. |
| isTransaction arbiter | `markIsTransaction`, `getIsTransaction`, `deleteIsTransaction` | Only transactions may write. |
| Request goroutines | `handleGetState`, `handleRangeQueryState[Next\|Close]`, `enterBusyState`, `handleQueryChaincode` | Take the guard, do ledger or nested work, then release the guard and reply. `enterBusyState` replies by triggering the next FSM state; the others reply with `serialSend`. |
| Callers | `initOrReady`, `sendExecuteMessage` | Create the context and trigger `INIT`/`READY`/`TRANSACTION`, or send `QUERY`. The support plane (not under `src/`) then waits on the notifier with a timeout and deletes the context. |
| Shim | not in this repository | The untrusted chaincode: it registers, runs uuids, and sends requests and terminal frames. |

These parts interact across several goroutines:

- The pump, the request goroutines and the callers share one mutex and the tables it guards.
- The goroutines reach the pump only through `nextState`.
- The callers reach it through `nextState` and the stream.
- Answers leave through `serialSend`, or through a notifier.

## Modules

`ChaincodeHandler.tla` is one module for the whole handler and its environment, because every action touches the shared tables. It has these groups:

- **State.** `fsm` is `FSM.Current()`. `txCtxs`, `uuidMap`, `isTransaction` and `readyNotify` are the handler fields.
  - `registered` is the registry entry; it is `"gone"` after `deregister`.
  - `nextState` is the set of goroutines blocked in `triggerNextState`.
  - `tasks` are the request goroutines at their `pc`.
  - `iters` are the ledger iterators.
  - `toPeer` and `toCC` are the two directions of the stream.
  - Ghost variables: `notified`, `writes`, `masked` and `panicked` record what the properties talk about.
    - `panicked` is the nil dereference that crashed the peer. A panic stops every action.
- **Pump actions.** `PumpRecv` and `PumpNextState(r)` run `HandleMessage`, which is one of these disjuncts:
  - `HandleQueryDone`;
  - `HandleInvokeQuery`;
  - `HandleCannot`;
  - `HandleRegister`;
  - `HandleInit`;
  - `HandleEvent`, for every other FSM event, with its callbacks.

  `Transitions` is the events table, line by line.
- **Goroutines.** `TaskStep(k)` is one of three steps, each taken only when the handler lock is free (`createUUIDEntry` and `deleteUUIDEntry` take it):
  - `TaskStart` takes the guard, and holds the query-context refusal.
  - `TaskRun` dispatches to `RunGetState`, `RunRangeQuery`, `RunRangeNext`, `RunRangeClose`, `RunWrite`, `RunInvoke` or `RunQueryChaincode`.
  - `TaskReply` is the deferred function: it releases the guard, then calls `serialSend` or `triggerNextState`.

  Putting the release and the reply in a step of their own exposes their order.
- **Callers.**
  - `LauncherNotified` is the handshake wait plus `initOrReady`.
  - `CallerSubmit` is `sendExecuteMessage`.
  - `CallerReceive`, `CallerTimeout` and `CallerDelete` are the support plane's wait, its 30 s timer and its `deleteTxContext`.
- **Shim.** It has these actions:
  - `ShimRecv`;
  - `ShimRequest`, which sends at most `MaxReqs` requests per uuid, pipelined only if `ShimPipelines` is set. A transaction's requests come from `ShimOps` and a query's from `QueryOps`. A `QueryOps` with writes is a chaincode that breaks the query contract, which the peer must not trust it to keep;
  - `ShimFinish`;
  - `ShimCrash`, which closes the stream and loses the frames in flight.
- **Registry helpers.** These are operators named after the code:
  - `HasTxContext` is `getTxContext`;
  - `GetRangeQueryIterator`, `PutRangeQueryIterator` and `DeleteRangeQueryIterator` are the iterator-map helpers;
  - `NotifyDuringStartup` is the send on `readyNotify`. `EnterEstablishedState` and `BeforeInitState` are the two callbacks that send `true` on it.
  - `isRunning` is the state predicate the support plane reads.

  `notify` closes the iterators of the map but leaves them in it. A closed iterator stays closed when a NEXT takes a page from it.
- **Blocking.** `notify` on a full notifier blocks while holding the lock. `LockFree` is the condition that no notifier holds a second frame; every step that takes the lock waits for it.

`RangePaging.tla` is the page arithmetic of `handleRangeQueryState` and `handleRangeQueryStateNext`, parameterised by `Limit` (`maxRangeQueryStateLimit`):

- `PageEnd(n, pos)` is the position after one reply, i.e. the loop `for ; hasNext && i < Limit; i++`.
- `HasMore` is the `Next()` after the last pair taken.
- `PageEnds` (RECURSIVE) is the position after each reply of a whole scan.
- `ScanCorrect(n)` is the contract of spec section 8, stated over key sets: the replies carry keys `1..n` once each and in order, a reply with `HasMore` is full, and only the last reply has `HasMore` false.

`ChaincodeHandler` uses it as `Paging == INSTANCE RangePaging WITH Limit <- K`.

`TxLifecycle.tla` is the abstract promise to each uuid: `idle → open → answered → closed`, with at most one frame delivered, and `closed` reachable from any phase. `ChaincodeHandler` maps onto it:

- `PhaseOf` reads the phase off whether the context exists, `notified` and the caller.
- `answers` is `notified`.
- `LifecycleRefined == Lifecycle!Spec` is checked as a temporal property.

`MC_ChaincodeHandler.tla` defines model values and the request sets the runs use. Each `.cfg` picks the following:

- the uuids: launch `l1`, transactions `t1` (and `t2` for `timeout_session`), query `q1`;
- the request repertoire;
- the bounds;
- the fault switches (`SecHelper`, `LedgerFaults`, `CryptoFaults`, `ExecFaults`).

Data is abstracted:

- A frame is `[type, uuid, iter]`.
- A key range is a key count `n`, and an iterator is its position.
- Ledger, crypto and nested execute calls are outcome sets.

Control is kept: every guard, early return and error path of the handler is an `IF` or a disjunct.

## Runs

A passing run checks all its properties, and each property has a mutant that TLC must catch.

| Run | Checks | Shows |
|---|---|---|
| `writes` | `TypeOK`, `QueryNeverWrites`, `OneAnswerPerRequest`, `BusyHasOwner`, `LaunchedIsRunning` | With a transaction and a query interleaved and every fault enabled:<br>- no query ever reaches `SetState`/`DeleteState`/`Execute`;<br>- each request has at most one answer on the way;<br>- a busy FSM always has a goroutine that will leave it;<br>- once the launcher has taken `COMPLETED` or `READY`, `isRunning` is true and stays true. The support plane reads `isRunning` to decide whether to launch again. |
| `range` | `OneAnswerPerRequest`, `LeakOnlyAfterTimeout`, `RangePagingCorrect` | With range scans and faults:<br>- an open iterator loses its context only when its caller timed out, never after a reply;<br>- the page operator meets the paging contract for limits 1..3 and ranges of 0..7 keys;<br>- every used iterator stands at a reply boundary of its scan. |
| `release` | `RequestAnswered`, `FinishedCallerReleased`, `IteratorReleased`, `LifecycleRefined` | With a transaction (a `PUT_STATE` or a range scan) and a concurrent query that only reads (`GET_STATE`, whose events are self-loops of the FSM the transaction drives), one request per uuid, and ledger faults:<br>- every request is answered while the stream is up;<br>- a caller whose chaincode has finished is released;<br>- an iterator the chaincode leaves open is closed by `notify` once its uuid's terminal frame reaches the pump, unless the caller gave up first or the stream ends;<br>- the handler refines `TxLifecycle`: each context is created once, gets at most one frame, and is deleted for good.<br>These hold only while the chaincode keeps the query contract. A query that writes breaks all four: `notify_race` shows the transaction's terminal `ERROR` used up as a busy-state event and the query notified twice. |

The violation runs below are what the code does against what spec.md or the code itself says. Each is a finding in `PROJECT.json`:

| Run | Property | What TLC finds |
|---|---|---|
| `notify_race` | `NotifiedAtMostOnce` | The FSM events are not tied to a uuid. The sequence:<br>1. A query's `PUT_STATE` during a transaction moves the FSM `transaction→busyxact`.<br>2. The transaction's `ERROR` moves it back.<br>3. The query's refusal `ERROR` then fires `transaction→ready` and notifies the query.<br>4. The query's `QUERY_COMPLETED` notifies it again.<br>In the same race the transaction's terminal `ERROR` is used up as a busy-state event, so its own caller is never notified. |
| `session_end` | `SessionEndReleasesWaiters` | A stream that ends notifies no waiter; only the caller's timeout releases it. A launcher that calls `initOrReady` after the pump has returned blocks in `triggerNextState` forever. |
| `timeout_session` | `TransactionAdmitted` | After `t1`'s caller times out and deletes its context, the FSM is still in `transaction`. `t2`'s `TRANSACTION` (line 1328) is refused by `FSM.Cannot`, and the whole session ends. |
| `iterator_leak` | `LeakOnlyAfterTimeout` | The chaincode pipelines its requests (`ShimPipelines = TRUE`). It sends a second `RANGE_QUERY_STATE` before the answer to its first arrives, then ends the uuid. The pump notifies the caller before the second goroutine runs. `notify` has already cleaned the iterator map when `putRangeQueryIterator` (line 656) adds a fresh open iterator. The caller then takes its answer and deletes the context, and the iterator is never closed. In the `range` run the chaincode waits for each answer, and the same property holds. |
| `nil_txcontext` | `RangeAfterDeleteAnswered` | A range request after the context was deleted dereferences nil (lines 155/161). |
| `nil_unmarshal` | `DecryptFailureAnswered` | Line 667 calls `unmarshalErr.Error()` on a nil error. |
| `nil_response` | `ExecuteFailureAnswered` | Line 1011 reads `response.Payload` before checking `execErr`. |
| `masked_failure` | `NestedFailureReported` | A nested callee's `ERROR` is relayed as `RESPONSE`. |
| `dropped_write` | `BusyHasOwner` | A pipelined shim's write is dropped by the in-flight guard without a trigger. The FSM then stays busy. |

## Bounds

- **Uuids.** One launch, one transaction and one query. That is enough for every cross-uuid interaction in the code: the FSM is shared by all uuids, and a transaction and a query are the two kinds the arbiter distinguishes.
- **Requests.** `MaxReqs = 2` requests per uuid lets a request follow an answered one, which exercises the guard release order. The range runs use up to 3. `release` uses one request per uuid (see below).
- **Range scans.**
  - `MaxIters = 2` and `MaxRange = 2` with `K = 1` give:
    - empty scans, which are closed at once;
    - single pages;
    - a page with `HasMore`, followed by NEXT or CLOSE.
  - `K` stands for `maxRangeQueryStateLimit`, which is 100 in the code. Only its relation to the range size matters.
- **Transactions.** Two transaction uuids appear only in `timeout_session`: a second `TRANSACTION` matters only after the first one's caller has given up.
- **The query in `release`.** A query running beside the transaction multiplies the interleavings about fiftyfold. With two requests per uuid, or with the transaction's full repertoire (reads, nested invokes, NEXT and CLOSE), TLC took more than 6 minutes. `release` therefore gives each uuid one request: the transaction writes or opens a scan (which a range of 2 keys with `K = 1` leaves open), and the query reads. The guard release order, which needs a second request of a uuid, is checked by `OneAnswerPerRequest` in `writes` and `range`.
- **Two transactions in `release`.** With two requests per uuid this took 3 to 6 minutes even without a query, so `release` keeps one transaction.
- **Paging.** `RangePagingCorrect` checks the page operator apart from the handler, over wider bounds than the handler runs use.
- **Time.** On two workers, `writes` takes about a minute and `range` about two; `release` about one.

## Fairness

- Go schedules every runnable goroutine, so there is weak fairness on:
  - the pump's Recv;
  - each `nextState` send;
  - each request goroutine;
  - a caller taking its notifier and deleting its context;
  - the shim reading the stream.
- Nothing forces the shim to send, finish or crash, and nothing forces a timeout. The liveness properties therefore say what happens without relying on timers.

## What is not modelled

- The payload contents, proto encoding, ciphers and logging.
- `shortuuid`.
- The support plane's registry, and the callee handler of a nested invoke. The callee is an outcome set.
- The unsynchronised write of `processStream`'s `err` by the Recv goroutine (line 252). It can hide a `HandleMessage` error, but only for a refused `nextState` event. That happens only in the `timeout_session` and `dropped_write` scenarios, which already violate their properties first. The model reads `HandleMessage`'s own result.
- What a closed iterator returns when a NEXT in flight uses it after `notify` closed it (line 762). This is the ledger's behaviour, which is not under `src/`. It needs a chaincode that pipelines range requests past its own end.
- `deleteTxContext` after a timeout leaves the context's open iterators behind (line 143). The spec says no iterator outlives its context. `LeakOnlyAfterTimeout` allows this one case. The `range` run shows it is the only leak while the chaincode waits for each answer.
- Writes after a caller's timeout (line 970). They reach the ledger, but what the support plane does with them is not under `src/`, and the spec says nothing about them.

## Plan

A composition of two handlers for nested `INVOKE_CHAINCODE` through the support plane would replace the `Execute` outcome set. It would need a run of its own. The project already has the twelve runs its tooling allows, and each of them asks a distinct question, so the composition waits for one of them to be retired.
