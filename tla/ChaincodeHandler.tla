-------------------------- MODULE ChaincodeHandler --------------------------
(***************************************************************************)
(* The peer side of one chaincode stream (src/openchain/chaincode/         *)
(* handler.go): the looplab FSM, the processStream pump with its Recv      *)
(* goroutine and nextState channel, the transaction-context, in-flight     *)
(* uuid and isTransaction tables, the goroutines that serve GET_STATE,     *)
(* range scans, PUT_STATE/DEL_STATE/INVOKE_CHAINCODE and INVOKE_QUERY, and *)
(* the response notifiers.  Its environment is modelled with it: the       *)
(* peer-side callers of initOrReady / sendExecuteMessage (the chaincode    *)
(* support plane, which waits on the notifier with a timeout and then      *)
(* deletes the context), and the chaincode shim at the other end of the   *)
(* stream.  Payloads, keys and values are abstracted away; a message is    *)
(* its type, its uuid and, for range scans, an iterator id.                *)
(***************************************************************************)
EXTENDS Naturals, Sequences, FiniteSets, Functions, TLC

CONSTANTS
    Launch,        \* uuid the launcher passes to initOrReady
    Txs,           \* uuids the peer executes as TRANSACTION
    Queries,       \* uuids the peer executes as QUERY
    ShimOps,       \* the request types the shim sends for the launch uuid and a transaction
    ShimPipelines, \* the shim may send a request before the last one is answered
    QueryOps,      \* the request types the shim sends for a query
    MaxReqs,       \* bound: requests the shim sends for one uuid
    MaxIters,      \* bound: range scans opened in one behaviour
    MaxRange,      \* bound: keys in a scanned range
    K,             \* maxRangeQueryStateLimit (100 in the code)
    SecHelper,     \* chaincodeSupport.getSecHelper() # nil
    LedgerFaults,  \* GetLedger, a ledger call or a payload decode may fail
    CryptoFaults,  \* an encryptor may fail
    ExecFaults     \* nested LaunchChaincode/Execute may fail or the callee answer ERROR

Uuids == {Launch} \cup Txs \cup Queries
IterIds == 1..MaxIters
NoIter == 0

WriteTypes == {"PUT_STATE", "DEL_STATE", "INVOKE_CHAINCODE"}
ReadTypes  == {"GET_STATE", "RANGE_QUERY_STATE", "RANGE_QUERY_STATE_NEXT",
               "RANGE_QUERY_STATE_CLOSE"}
\* What the shim may ask of the peer while it executes a uuid.
RequestTypes == WriteTypes \cup ReadTypes \cup {"INVOKE_QUERY"}
MsgTypes == RequestTypes \cup
    {"REGISTER", "REGISTERED", "INIT", "READY", "TRANSACTION", "QUERY",
     "RESPONSE", "ERROR", "COMPLETED", "QUERY_COMPLETED", "QUERY_ERROR"}
Messages == [type : MsgTypes, uuid : Uuids \cup {NoIter}, iter : IterIds \cup {NoIter}]
Msg(t, u) == [type |-> t, uuid |-> u, iter |-> NoIter]

ASSUME /\ Launch \notin Txs \cup Queries /\ Txs \cap Queries = {}
       /\ ShimOps \subseteq RequestTypes /\ QueryOps \subseteq RequestTypes
       /\ {MaxReqs, MaxIters, MaxRange} \subseteq Nat /\ K \in Nat \ {0}
       /\ {ShimPipelines, SecHelper, LedgerFaults, CryptoFaults, ExecFaults} \subseteq BOOLEAN

\* The state constants createdstate .. endstate.
States == {"created", "established", "init", "ready", "transaction",
           "busyinit", "busyxact", "end"}
LiveStates == {"ready", "init", "busyinit", "transaction", "busyxact"}

\* Variant of Transitions in which COMPLETED leaves "init" unchanged.
TransitionsCompletedStaysInit ==
    {<<"REGISTER", "created", "established">>, <<"INIT", "established", "init">>,
     <<"READY", "established", "ready">>, <<"TRANSACTION", "ready", "transaction">>,
     <<"ERROR", "init", "end">>, <<"ERROR", "transaction", "ready">>,
     <<"ERROR", "busyinit", "init">>, <<"ERROR", "busyxact", "transaction">>,
     <<"RESPONSE", "busyinit", "init">>, <<"RESPONSE", "busyxact", "transaction">>}
    \cup {<<w, "transaction", "busyxact">> : w \in WriteTypes}
    \cup {<<w, "init", "busyinit">> : w \in WriteTypes}
    \cup {<<"COMPLETED", s, IF s = "init" THEN "init" ELSE "ready">> :
            s \in {"init", "ready", "transaction"}}
    \cup {<<r, s, s>> : r \in ReadTypes, s \in LiveStates}

\* The fsm.Events table of newChaincodeSupportHandler as <<event, src, dst>>.
Transitions ==
    {<<"REGISTER", "created", "established">>, <<"INIT", "established", "init">>,
     <<"READY", "established", "ready">>, <<"TRANSACTION", "ready", "transaction">>,
     <<"ERROR", "init", "end">>, <<"ERROR", "transaction", "ready">>,
     <<"ERROR", "busyinit", "init">>, <<"ERROR", "busyxact", "transaction">>,
     <<"RESPONSE", "busyinit", "init">>, <<"RESPONSE", "busyxact", "transaction">>}
    \cup {<<w, "transaction", "busyxact">> : w \in WriteTypes}
    \cup {<<w, "init", "busyinit">> : w \in WriteTypes}
    \cup {<<"COMPLETED", s, "ready">> : s \in {"init", "ready", "transaction"}}
    \cup {<<r, s, s>> : r \in ReadTypes, s \in LiveStates}

VARIABLES
    fsm,           \* handler.FSM.Current()
    registered,    \* "no" | "yes" | "gone": registerHandler made the tables, deregister undid it
    txCtxs,        \* uuid -> [notifier: Seq(Messages), iters: SUBSET IterIds]
    uuidMap,       \* handler.uuidMap: uuids with a state request in flight
    isTransaction, \* handler.isTransaction, a partial function uuid -> BOOLEAN
    readyNotify,   \* handler.readyNotify, a channel of capacity 1
    pump,          \* processStream: "running" | "exited"
    nextState,     \* goroutines blocked in triggerNextState: [msg, send, from]
    tasks,         \* goroutines spawned by the callbacks: [msg, pc, reply, guard]
    iters,         \* ledger range-scan iterators: [st, owner, n, pos]
    toPeer,        \* frames the shim has sent and the pump has not received
    toCC,          \* frames serialSend has written and the shim has not read
    streamUp,      \* neither end has closed the stream
    caller,        \* per uuid, the peer-side caller blocked on the handler
    answer,        \* per uuid, the frame the caller took from its notifier
    shim,          \* per uuid, the shim's execution: "idle"|"running"|"waiting"|"done"
    shimReqs,      \* per uuid, requests the shim has sent
    rangeReqs,     \* RANGE_QUERY_STATE frames the shim has sent
    notified,      \* per uuid, frames notify has put on its notifier
    writes,        \* SetState/DeleteState/nested Execute calls: [uuid, op]
    masked,        \* uuids told RESPONSE although their nested callee failed
    panicked       \* "none" or the nil dereference that crashed the peer

handlerVars == <<fsm, registered, txCtxs, uuidMap, isTransaction, readyNotify,
                 pump, nextState, tasks, iters>>
envVars == <<toPeer, toCC, streamUp, caller, answer, shim, shimReqs, rangeReqs>>
ghostVars == <<notified, writes, masked, panicked>>
vars == <<handlerVars, envVars, ghostVars>>
-----------------------------------------------------------------------------
(* Helpers of handler.go                                                   *)

\* getIsTransaction: an absent uuid reads as FALSE.
IsTransaction(u) == u \in DOMAIN isTransaction /\ isTransaction[u]

\* FSM.Cannot(event) in the current state, and the target of an admissible event.
Can(e) == \E t \in Transitions : t[1] = e /\ t[2] = fsm
Dst(e) == (CHOOSE t \in Transitions : t[1] = e /\ t[2] = fsm)[3]

\* serialSend of a sequence of frames; a send on a closed stream fails.
Emit(frames) == toCC' = IF streamUp THEN toCC \o frames ELSE toCC

\* markIsTransaction
MarkIsTransaction(u, isTrans) == isTransaction' = (u :> isTrans) @@ isTransaction

\* triggerNextState: a send on the unbuffered nextState channel, which
\* blocks its goroutine until the pump receives it.
TriggerNextState(m, send, from) ==
    nextState' = nextState \cup {[msg |-> m, send |-> send, from |-> from]}

\* deleteIsTransaction
DeleteIsTransaction(u) == isTransaction' = Restrict(isTransaction, DOMAIN isTransaction \ {u})

\* notifyDuringStartup: send val on readyNotify to the launcher.
NotifyDuringStartup(val) == readyNotify' = Append(readyNotify, val)

\* enter_established and before_INIT tell the launcher the handshake is up.
EnterEstablishedState == NotifyDuringStartup(TRUE)
BeforeInitState == NotifyDuringStartup(TRUE)

\* getTxContext(u) returns a context, not nil.
HasTxContext(u) == u \in DOMAIN txCtxs

\* getRangeQueryIterator: iterator id is in the map of u's context.
GetRangeQueryIterator(u, id) == id \in txCtxs[u].iters

\* putRangeQueryIterator and deleteRangeQueryIterator on u's context.
PutRangeQueryIterator(u, id) == txCtxs' = [txCtxs EXCEPT ![u].iters = @ \cup {id}]
DeleteRangeQueryIterator(u, id) == txCtxs' = [txCtxs EXCEPT ![u].iters = @ \ {id}]

\* Outcomes of encryptOrDecrypt for uuid u: the identity without a
\* security helper; an error when the context is gone; otherwise the
\* encryptor's result.
CryptoOk(u) == IF ~SecHelper THEN {TRUE}
               ELSE IF u \notin DOMAIN txCtxs THEN {FALSE}
               ELSE IF CryptoFaults THEN BOOLEAN ELSE {TRUE}

\* Outcomes of GetLedger, a ledger call or proto.Unmarshal of a payload.
LedgerOk == IF LedgerFaults THEN BOOLEAN ELSE {TRUE}

\* Variant of Notify that leaves the context's iterators open.
NotifyKeepIters(m) ==
    LET u == m.uuid IN
    IF u \in DOMAIN txCtxs
    THEN /\ txCtxs' = [txCtxs EXCEPT ![u].notifier = Append(@, m)]
         /\ notified' = [notified EXCEPT ![u] = @ + 1]
         /\ UNCHANGED iters
    ELSE UNCHANGED <<txCtxs, iters, notified>>

\* notify: put msg on the uuid's notifier under the handler lock, then close
\* every iterator left in the context's map.  The notifier has capacity 1:
\* a second frame stays in the send, with the lock held, until the caller
\* takes the first (see LockFree).
Notify(m) ==
    LET u == m.uuid IN
    IF u \in DOMAIN txCtxs
    THEN /\ txCtxs' = [txCtxs EXCEPT ![u].notifier = Append(@, m)]
         /\ iters' = [i \in IterIds |->
                        IF i \in txCtxs[u].iters /\ iters[i].st = "open"
                        THEN [iters[i] EXCEPT !.st = "closed"] ELSE iters[i]]
         /\ notified' = [notified EXCEPT ![u] = @ + 1]
    ELSE UNCHANGED <<txCtxs, iters, notified>>

NotifyIf(c, m) == IF c THEN Notify(m) ELSE UNCHANGED <<txCtxs, iters, notified>>

\* No notify is blocked on a full notifier while holding handler.Lock();
\* every step that takes the lock waits for this.
LockFree == \A u \in DOMAIN txCtxs : Len(txCtxs[u].notifier) <= 1

\* registered after deregister (on leaving processStream or entering "end").
Deregistered == IF registered = "yes" THEN "gone" ELSE registered

\* A goroutine spawned by a callback, before its first step.
NewTask(m) == [msg |-> m, pc |-> "start", reply |-> Msg("RESPONSE", m.uuid), guard |-> FALSE]
-----------------------------------------------------------------------------
(* HandleMessage(msg) on the pump, followed by the sendToCC of             *)
(* processStream (send is nextStateInfo.sendToCC).                         *)

\* QUERY_COMPLETED / QUERY_ERROR: outside the FSM.  QUERY_COMPLETED is
\* encrypted in place and becomes QUERY_ERROR if encryption fails.
HandleQueryDone(m) ==
    /\ m.type \in {"QUERY_COMPLETED", "QUERY_ERROR"}
    /\ DeleteIsTransaction(m.uuid)
    /\ \E encOk \in CryptoOk(m.uuid) :
          Notify(IF m.type = "QUERY_COMPLETED" /\ ~encOk
                 THEN [m EXCEPT !.type = "QUERY_ERROR"] ELSE m)
    /\ UNCHANGED <<fsm, registered, readyNotify, pump, tasks, toCC, streamUp>>

\* INVOKE_QUERY: handleQueryChaincode spawns its goroutine.
HandleInvokeQuery(m) ==
    /\ m.type = "INVOKE_QUERY"
    /\ tasks' = tasks \cup {NewTask(m)}
    /\ UNCHANGED <<fsm, registered, txCtxs, isTransaction, readyNotify, pump,
                   iters, toCC, streamUp, notified>>

\* FSM.Cannot: a write in query context is answered ERROR first; either
\* way HandleMessage returns an error and processStream ends.
HandleCannot(m) ==
    /\ m.type \notin {"QUERY_COMPLETED", "QUERY_ERROR", "INVOKE_QUERY"}
    /\ ~Can(m.type)
    /\ Emit(IF m.type \in WriteTypes /\ ~IsTransaction(m.uuid)
            THEN <<Msg("ERROR", m.uuid)>> ELSE <<>>)
    /\ pump' = "exited"
    /\ streamUp' = FALSE
    /\ registered' = Deregistered
    /\ UNCHANGED <<fsm, txCtxs, isTransaction, readyNotify, tasks,
                   iters, notified>>

\* Outcomes of decoding the ChaincodeID and of registerHandler.
RegisterOutcomes == {"ok", "taken"} \cup (IF LedgerFaults THEN {"badPayload"} ELSE {})

\* Variant of HandleRegister that notifies the launcher in before_REGISTER
\* as well as in enter_established.
HandleRegisterNotifyTwice(m) ==
    /\ m.type = "REGISTER" /\ Can("REGISTER")
    /\ \E r \in RegisterOutcomes :
          LET up == r = "ok" /\ streamUp IN
          /\ fsm' = IF up THEN "established" ELSE fsm
          /\ registered' = IF r = "ok" THEN (IF streamUp THEN "yes" ELSE "gone") ELSE registered
          /\ readyNotify' = IF r = "badPayload" THEN readyNotify
                            ELSE readyNotify \o (IF up THEN <<TRUE, TRUE>> ELSE <<FALSE>>)
          /\ toCC' = IF up THEN Append(toCC, Msg("REGISTERED", NoIter)) ELSE toCC
          /\ pump' = IF up THEN pump ELSE "exited"
          /\ streamUp' = up
    /\ UNCHANGED <<txCtxs, isTransaction, tasks, iters, notified>>

\* before_REGISTER: an undecodable ChaincodeID cancels the event; a failing
\* registerHandler (the name is taken) cancels it and notifies false, as
\* does a failing send of REGISTERED; otherwise enter_established notifies
\* true.  The CanceledError ends processStream.
HandleRegister(m) ==
    /\ m.type = "REGISTER" /\ Can("REGISTER")
    /\ \E r \in RegisterOutcomes :
          LET up == r = "ok" /\ streamUp IN
          /\ fsm' = IF up THEN "established" ELSE fsm
          /\ registered' = IF r = "ok" THEN (IF streamUp THEN "yes" ELSE "gone") ELSE registered
          /\ CASE r = "badPayload" -> UNCHANGED readyNotify
            [] up -> EnterEstablishedState
            [] OTHER -> NotifyDuringStartup(FALSE)
          /\ toCC' = IF up THEN Append(toCC, Msg("REGISTERED", NoIter)) ELSE toCC
          /\ pump' = IF up THEN pump ELSE "exited"
          /\ streamUp' = up
    /\ UNCHANGED <<txCtxs, isTransaction, tasks, iters, notified>>

\* Variant of HandleInit that notifies ERROR whether or not INIT was sent.
HandleInitNotifyAlways(m) ==
    /\ m.type = "INIT" /\ Can("INIT")
    /\ fsm' = "init"
    /\ BeforeInitState
    /\ MarkIsTransaction(m.uuid, TRUE)
    /\ Notify(Msg("ERROR", m.uuid))
    /\ toCC' = IF streamUp THEN Append(toCC, m) ELSE toCC
    /\ UNCHANGED <<registered, pump, streamUp, tasks>>

\* before_INIT notifies the launcher; enter_init marks the uuid a
\* transaction and sends INIT, notifying ERROR if the send fails.
HandleInit(m) ==
    /\ m.type = "INIT" /\ Can("INIT")
    /\ fsm' = "init"
    /\ BeforeInitState
    /\ MarkIsTransaction(m.uuid, TRUE)
    /\ IF streamUp
       THEN toCC' = Append(toCC, m) /\ UNCHANGED <<txCtxs, iters, notified>>
       ELSE Notify(Msg("ERROR", m.uuid)) /\ UNCHANGED toCC
    /\ UNCHANGED <<registered, pump, streamUp, tasks>>

\* Variant of HandleEvent in which COMPLETED notifies only from "init".
HandleEventCompletedFromInit(m, send) ==
    LET t == m.type
        dst == Dst(t)
        notifies == \/ t = "READY"
                    \/ t = "COMPLETED" /\ fsm = "init"
                    \/ t = "ERROR" /\ dst \in {"ready", "end"}
        sendFails == send /\ ~streamUp
    IN /\ t \notin {"REGISTER", "INIT", "QUERY_COMPLETED", "QUERY_ERROR", "INVOKE_QUERY"}
       /\ Can(t)
       /\ fsm' = dst
       /\ NotifyIf(notifies, m)
       /\ IF notifies THEN DeleteIsTransaction(m.uuid) ELSE UNCHANGED isTransaction
       /\ registered' = IF dst = "end" \/ sendFails THEN Deregistered ELSE registered
       /\ tasks' = IF t \in ReadTypes \cup WriteTypes THEN tasks \cup {NewTask(m)} ELSE tasks
       /\ toCC' = IF send /\ streamUp THEN Append(toCC, m) ELSE toCC
       /\ pump' = IF sendFails THEN "exited" ELSE pump
       /\ UNCHANGED <<readyNotify, streamUp>>

\* FSM.Event for every other admissible event: enter_ready and enter_end
\* clear isTransaction and notify (a self-loop enters no state), enter_end
\* deregisters (its CanceledError carries no error and is filtered),
\* enter_busy* and after_GET_STATE/RANGE_* spawn their goroutines; then
\* the pump forwards the frame if asked, and ends if that send fails.
HandleEvent(m, send) ==
    LET t == m.type
        dst == Dst(t)
        notifies == \/ t = "READY"
                    \/ t = "COMPLETED" /\ fsm # "ready"
                    \/ t = "ERROR" /\ dst \in {"ready", "end"}
        sendFails == send /\ ~streamUp
    IN /\ t \notin {"REGISTER", "INIT", "QUERY_COMPLETED", "QUERY_ERROR", "INVOKE_QUERY"}
       /\ Can(t)
       /\ fsm' = dst
       /\ NotifyIf(notifies, m)
       /\ IF notifies THEN DeleteIsTransaction(m.uuid) ELSE UNCHANGED isTransaction
       /\ registered' = IF dst = "end" \/ sendFails THEN Deregistered ELSE registered
       /\ tasks' = IF t \in ReadTypes \cup WriteTypes THEN tasks \cup {NewTask(m)} ELSE tasks
       /\ toCC' = IF send /\ streamUp THEN Append(toCC, m) ELSE toCC
       /\ pump' = IF sendFails THEN "exited" ELSE pump
       /\ UNCHANGED <<readyNotify, streamUp>>

HandleMessage(m, send) ==
    \/ HandleQueryDone(m)
    \/ HandleInvokeQuery(m)
    \/ HandleCannot(m)
    \/ HandleRegister(m)
    \/ HandleInit(m)
    \/ HandleEvent(m, send)
-----------------------------------------------------------------------------
(* The pump: processStream selects a frame from the Recv goroutine or a    *)
(* nextStateInfo from the nextState channel and handles it.                *)

PumpLive == pump = "running" /\ LockFree /\ panicked = "none"

\* A frame from the shim; after the stream closes Recv returns EOF and
\* processStream returns.
PumpRecv ==
    /\ PumpLive
    /\ \/ /\ streamUp /\ toPeer # <<>>
          /\ HandleMessage(Head(toPeer), FALSE)
          /\ toPeer' = Tail(toPeer)
       \/ /\ ~streamUp
          /\ pump' = "exited"
          /\ registered' = Deregistered
          /\ UNCHANGED <<fsm, txCtxs, isTransaction, readyNotify, tasks,
                         iters, toPeer, toCC, streamUp, notified>>
    /\ UNCHANGED <<uuidMap, nextState, caller, answer, shim, shimReqs, rangeReqs,
                   writes, masked, panicked>>

\* A goroutine's triggerNextState(msg, send) is received; a caller blocked
\* in it (initOrReady, sendExecuteMessage) returns its notifier.
PumpNextState(r) ==
    /\ PumpLive
    /\ nextState' = nextState \ {r}
    /\ HandleMessage(r.msg, r.send)
    /\ caller' = IF r.from = "caller" THEN [caller EXCEPT ![r.msg.uuid] = "waiting"]
                 ELSE caller
    /\ UNCHANGED <<uuidMap, toPeer, answer, shim, shimReqs, rangeReqs, writes,
                   masked, panicked>>
-----------------------------------------------------------------------------
(* The goroutines of handleGetState, handleRangeQueryState[Next|Close],    *)
(* enterBusyState and handleQueryChaincode: a first step that takes the    *)
(* uuid guard, a step that does the ledger or nested work, and a deferred  *)
(* step that releases the guard and replies (serialSend, or for            *)
(* enterBusyState a triggerNextState that waits for the pump).             *)

\* Move goroutine k to its reply step with frame r.
ReplyWith(k, r) == tasks' = (tasks \ {k}) \cup {[k EXCEPT !.pc = "reply", !.reply = r]}

\* Variant of TaskStart without the isTransaction check of enterBusyState.
TaskStartNoArbiter(k) ==
    LET u == k.msg.uuid IN
    /\ k.pc = "start"
    /\ IF u \in uuidMap
       THEN tasks' = tasks \ {k} /\ UNCHANGED uuidMap
       ELSE /\ uuidMap' = uuidMap \cup {u}
            /\ tasks' = (tasks \ {k}) \cup {[k EXCEPT !.pc = "run", !.guard = TRUE]}
    /\ UNCHANGED <<txCtxs, iters, writes, masked, panicked>>

\* Variant of TaskStart whose query-context refusal lacks its return: the
\* ERROR is triggered and the request is served as well.
TaskStartRefusalFallsThrough(k) ==
    LET u == k.msg.uuid
        refused == k.msg.type \in WriteTypes /\ ~IsTransaction(u)
        refusal == [k EXCEPT !.pc = "reply", !.reply = Msg("ERROR", u)]
    IN /\ k.pc = "start"
       /\ IF u \in uuidMap
          THEN tasks' = (tasks \ {k}) \cup (IF refused THEN {refusal} ELSE {})
               /\ UNCHANGED uuidMap
          ELSE /\ uuidMap' = uuidMap \cup {u}
               /\ tasks' = (tasks \ {k}) \cup {[k EXCEPT !.pc = "run", !.guard = TRUE]}
                           \cup (IF refused THEN {refusal} ELSE {})
       /\ UNCHANGED <<txCtxs, iters, writes, masked, panicked>>

\* enterBusyState refuses a write in query context without taking the
\* guard; every goroutine then drops its request if the uuid has one in flight.
TaskStart(k) ==
    LET u == k.msg.uuid IN
    /\ k.pc = "start"
    /\ IF k.msg.type \in WriteTypes /\ ~IsTransaction(u)
       THEN ReplyWith(k, Msg("ERROR", u)) /\ UNCHANGED uuidMap
       ELSE IF u \in uuidMap
       THEN tasks' = tasks \ {k} /\ UNCHANGED uuidMap
       ELSE /\ uuidMap' = uuidMap \cup {u}
            /\ tasks' = (tasks \ {k}) \cup {[k EXCEPT !.pc = "run", !.guard = TRUE]}
    /\ UNCHANGED <<txCtxs, iters, writes, masked, panicked>>

\* handleGetState: GetLedger, GetState, then decrypt.
RunGetState(k) ==
    /\ k.msg.type = "GET_STATE"
    /\ \E lok \in LedgerOk, cok \in CryptoOk(k.msg.uuid) :
          ReplyWith(k, Msg(IF lok /\ cok THEN "RESPONSE" ELSE "ERROR", k.msg.uuid))
    /\ UNCHANGED <<txCtxs, iters, writes, masked, panicked>>

\* The pages of a range scan, with K pairs at most per reply.
Paging == INSTANCE RangePaging WITH Limit <- K

\* Take the next page of iterator id for uuid u; an exhausted iterator is
\* closed and deleted from the context's map; one that notify has already
\* closed (it stays in the map) is not reopened.  A decrypt error reaches
\* unmarshalErr.Error() on a nil error and panics.
TakePage(k, id, it) ==
    LET u == k.msg.uuid
        end == Paging!PageEnd(it.n, it.pos)
        more == Paging!HasMore(it.n, it.pos)
    IN \E cok \in IF end > it.pos THEN CryptoOk(u) ELSE {TRUE} :
         IF ~cok
         THEN panicked' = "nilUnmarshalErr" /\ UNCHANGED <<tasks, txCtxs, iters>>
         ELSE /\ iters' = [iters EXCEPT ![id] = [it EXCEPT !.pos = end,
                                 !.st = IF more /\ it.st = "open" THEN "open" ELSE "closed"]]
              /\ IF more THEN PutRangeQueryIterator(u, id)
                 ELSE DeleteRangeQueryIterator(u, id)
              /\ ReplyWith(k, [type |-> "RESPONSE", uuid |-> u, iter |-> id])
              /\ UNCHANGED panicked

\* handleRangeQueryState: unmarshal, GetLedger, open the scan, then
\* putRangeQueryIterator into getTxContext(uuid), nil if the caller has
\* already deleted it.
RunRangeQuery(k) ==
    LET u == k.msg.uuid
        id == CHOOSE i \in IterIds : iters[i].st = "free"
    IN /\ k.msg.type = "RANGE_QUERY_STATE"
       /\ \E lok \in LedgerOk :
            IF ~lok
            THEN ReplyWith(k, Msg("ERROR", u)) /\ UNCHANGED <<txCtxs, iters, panicked>>
            ELSE IF ~HasTxContext(u)
            THEN panicked' = "nilTxContext" /\ UNCHANGED <<tasks, txCtxs, iters>>
            ELSE \E n \in 0..MaxRange :
                   TakePage(k, id, [st |-> "open", owner |-> u, n |-> n, pos |-> 0])
       /\ UNCHANGED <<writes, masked>>

\* handleRangeQueryStateNext: unmarshal, look the iterator up in the
\* context (nil context panics), answer ERROR if it is not there.
RunRangeNext(k) ==
    LET u == k.msg.uuid
        id == k.msg.iter
    IN /\ k.msg.type = "RANGE_QUERY_STATE_NEXT"
       /\ \E lok \in LedgerOk :
            IF ~lok
            THEN ReplyWith(k, Msg("ERROR", u)) /\ UNCHANGED <<txCtxs, iters, panicked>>
            ELSE IF ~HasTxContext(u)
            THEN panicked' = "nilTxContext" /\ UNCHANGED <<tasks, txCtxs, iters>>
            ELSE IF ~GetRangeQueryIterator(u, id)
            THEN ReplyWith(k, Msg("ERROR", u)) /\ UNCHANGED <<txCtxs, iters, panicked>>
            ELSE TakePage(k, id, iters[id])
       /\ UNCHANGED <<writes, masked>>

\* handleRangeQueryStateClose: close and delete the iterator if the
\* context has it; RESPONSE either way.
RunRangeClose(k) ==
    LET u == k.msg.uuid
        id == k.msg.iter
    IN /\ k.msg.type = "RANGE_QUERY_STATE_CLOSE"
       /\ \E lok \in LedgerOk :
            IF ~lok
            THEN ReplyWith(k, Msg("ERROR", u)) /\ UNCHANGED <<txCtxs, iters, panicked>>
            ELSE IF ~HasTxContext(u)
            THEN panicked' = "nilTxContext" /\ UNCHANGED <<tasks, txCtxs, iters>>
            ELSE /\ iters' = IF GetRangeQueryIterator(u, id)
                             THEN [iters EXCEPT ![id].st = "closed"] ELSE iters
                 /\ DeleteRangeQueryIterator(u, id)
                 /\ ReplyWith(k, [type |-> "RESPONSE", uuid |-> u, iter |-> id])
                 /\ UNCHANGED panicked
       /\ UNCHANGED <<writes, masked>>

\* enterBusyState for PUT_STATE / DEL_STATE: GetLedger, unmarshal and
\* encrypt (PUT_STATE only), then SetState / DeleteState.
RunWrite(k) ==
    LET u == k.msg.uuid IN
    /\ k.msg.type \in {"PUT_STATE", "DEL_STATE"}
    /\ \E lok \in LedgerOk, sok \in LedgerOk,
          cok \in IF k.msg.type = "PUT_STATE" THEN CryptoOk(u) ELSE {TRUE} :
         /\ writes' = IF lok /\ cok THEN writes \cup {[uuid |-> u, op |-> k.msg.type]}
                      ELSE writes
         /\ ReplyWith(k, Msg(IF lok /\ cok /\ sok THEN "RESPONSE" ELSE "ERROR", u))
    /\ UNCHANGED <<txCtxs, iters, masked, panicked>>

\* Outcomes of chaincodeSupport.Execute: a response, a response whose
\* type is ERROR because the callee failed, or an error with a nil response.
ExecOutcomes == IF ExecFaults THEN {"ok", "calleeError", "execError"} ELSE {"ok"}
LaunchOk == IF ExecFaults THEN BOOLEAN ELSE {TRUE}

\* enterBusyState for INVOKE_CHAINCODE: LaunchChaincode then Execute; the
\* result is response.Payload whatever the error, so a nil response panics.
RunInvoke(k) ==
    LET u == k.msg.uuid IN
    /\ k.msg.type = "INVOKE_CHAINCODE"
    /\ \E lok \in LedgerOk, launched \in LaunchOk, out \in ExecOutcomes :
         IF ~(lok /\ launched)
         THEN ReplyWith(k, Msg("ERROR", u)) /\ UNCHANGED <<writes, masked, panicked>>
         ELSE /\ writes' = writes \cup {[uuid |-> u, op |-> "INVOKE_CHAINCODE"]}
              /\ IF out = "execError"
                 THEN panicked' = "nilResponse" /\ UNCHANGED <<tasks, masked>>
                 ELSE /\ ReplyWith(k, Msg("RESPONSE", u))
                      /\ masked' = IF out = "calleeError" THEN masked \cup {u} ELSE masked
                      /\ UNCHANGED panicked
    /\ UNCHANGED <<txCtxs, iters>>

\* handleQueryChaincode: LaunchChaincode then Execute of a QUERY; an
\* Execute error is answered ERROR, a callee's ERROR is passed on as RESPONSE.
RunQueryChaincode(k) ==
    LET u == k.msg.uuid IN
    /\ k.msg.type = "INVOKE_QUERY"
    /\ \E lok \in LedgerOk, launched \in LaunchOk, out \in ExecOutcomes :
         /\ ReplyWith(k, Msg(IF lok /\ launched /\ out # "execError"
                             THEN "RESPONSE" ELSE "ERROR", u))
         /\ masked' = IF lok /\ launched /\ out = "calleeError"
                      THEN masked \cup {u} ELSE masked
    /\ UNCHANGED <<txCtxs, iters, writes, panicked>>

TaskRun(k) ==
    /\ k.pc = "run"
    /\ \/ RunGetState(k) \/ RunRangeQuery(k) \/ RunRangeNext(k) \/ RunRangeClose(k)
       \/ RunWrite(k) \/ RunInvoke(k) \/ RunQueryChaincode(k)
    /\ UNCHANGED uuidMap

\* Variant of TaskReply in which enterBusyState answers with serialSend,
\* like the read handlers, instead of triggering the next state.
TaskReplySerialSendOnly(k) ==
    /\ k.pc = "reply"
    /\ tasks' = tasks \ {k}
    /\ uuidMap' = IF k.guard THEN uuidMap \ {k.msg.uuid} ELSE uuidMap
    /\ Emit(<<k.reply>>) /\ UNCHANGED nextState
    /\ UNCHANGED <<txCtxs, iters, writes, masked, panicked>>

\* Variant of TaskReply that writes the reply frame twice.
TaskReplyTwice(k) ==
    /\ k.pc = "reply"
    /\ tasks' = tasks \ {k}
    /\ uuidMap' = IF k.guard THEN uuidMap \ {k.msg.uuid} ELSE uuidMap
    /\ IF k.msg.type \in WriteTypes
       THEN TriggerNextState(k.reply, TRUE, "task")
            /\ UNCHANGED toCC
       ELSE Emit(<<k.reply, k.reply>>) /\ UNCHANGED nextState
    /\ UNCHANGED <<txCtxs, iters, writes, masked, panicked>>

\* Variant of TaskReply in which enterBusyState triggers the next state
\* with sendToCC false, so the pump moves the FSM but never forwards the reply.
TaskReplyTriggerNoSend(k) ==
    /\ k.pc = "reply"
    /\ tasks' = tasks \ {k}
    /\ uuidMap' = IF k.guard THEN uuidMap \ {k.msg.uuid} ELSE uuidMap
    /\ IF k.msg.type \in WriteTypes
       THEN TriggerNextState(k.reply, FALSE, "task")
            /\ UNCHANGED toCC
       ELSE Emit(<<k.reply>>) /\ UNCHANGED nextState
    /\ UNCHANGED <<txCtxs, iters, writes, masked, panicked>>

\* The deferred function: deleteUUIDEntry, then serialSend of the reply
\* (its error is ignored) or, for enterBusyState, triggerNextState(reply, true).
TaskReply(k) ==
    /\ k.pc = "reply"
    /\ tasks' = tasks \ {k}
    /\ uuidMap' = IF k.guard THEN uuidMap \ {k.msg.uuid} ELSE uuidMap
    /\ IF k.msg.type \in WriteTypes
       THEN TriggerNextState(k.reply, TRUE, "task")
            /\ UNCHANGED toCC
       ELSE Emit(<<k.reply>>) /\ UNCHANGED nextState
    /\ UNCHANGED <<txCtxs, iters, writes, masked, panicked>>

TaskStep(k) ==
    /\ panicked = "none" /\ LockFree
    /\ \/ TaskStart(k) /\ UNCHANGED <<nextState, toCC>>
       \/ TaskRun(k) /\ UNCHANGED <<nextState, toCC>>
       \/ TaskReply(k)
    /\ UNCHANGED <<fsm, registered, isTransaction, readyNotify, pump,
                   toPeer, streamUp, caller, answer, shim, shimReqs, rangeReqs, notified>>
-----------------------------------------------------------------------------
(* The peer-side callers.  The launcher waits for the handshake on         *)
(* readyNotify and calls initOrReady; the executor calls                   *)
(* sendExecuteMessage for one transaction at a time and for queries at     *)
(* any time.  Each then waits on its notifier until a frame or its timeout *)
(* and deletes the context (chaincode support plane, not under src/).      *)

NewTxCtx == [notifier |-> <<>>, iters |-> {}]

\* Outcomes of initializeSecContext: cloneTx (a marshal and an unmarshal)
\* when there is no deploy transaction, then the unmarshal and marshal of
\* its ChaincodeID; each may fail.
SecContextOk == IF LedgerFaults THEN BOOLEAN ELSE {TRUE}

\* The handshake answer: true runs initOrReady(uuid, args?), which creates
\* the context, installs the deploy security context (initializeSecContext:
\* a clone and a decode that may fail, deleting the context again) and
\* triggers INIT (sendToCC false) or READY (sendToCC true).
LauncherNotified ==
    /\ caller[Launch] = "registering" /\ LockFree
    /\ readyNotify # <<>>
    /\ readyNotify' = Tail(readyNotify)
    /\ IF Head(readyNotify)
       THEN \E deploy \in BOOLEAN, secOk \in SecContextOk :
              IF secOk
              THEN /\ txCtxs' = (Launch :> NewTxCtx) @@ txCtxs
                   /\ TriggerNextState(Msg(IF deploy THEN "INIT" ELSE "READY", Launch),
                                       ~deploy, "caller")
                   /\ caller' = [caller EXCEPT ![Launch] = "triggering"]
              ELSE /\ caller' = [caller EXCEPT ![Launch] = "done"]
                   /\ UNCHANGED <<txCtxs, nextState>>
       ELSE /\ caller' = [caller EXCEPT ![Launch] = "done"]
            /\ UNCHANGED <<txCtxs, nextState>>
    /\ UNCHANGED <<isTransaction, toCC>>

\* isRunning: the FSM has left the handshake states ("end" counts as running).
isRunning == fsm \notin {"created", "established", "init"}

\* The launch gave a COMPLETED or READY frame: the chaincode is running.
Launched == caller[Launch] = "done" /\ answer[Launch] \in {"COMPLETED", "READY"}

\* sendExecuteMessage on the registered handler: createTxContext, mark the
\* uuid, then trigger TRANSACTION or send QUERY directly; a failed send
\* deletes the context again.
CallerSubmit(u) ==
    /\ caller[u] = "idle" /\ LockFree
    /\ Launched /\ registered = "yes"
    /\ u \in Txs => \A v \in Txs : caller[v] \in {"idle", "done"}
    /\ MarkIsTransaction(u, u \in Txs)
    /\ IF u \in Txs
       THEN /\ txCtxs' = (u :> NewTxCtx) @@ txCtxs
            /\ TriggerNextState(Msg("TRANSACTION", u), TRUE, "caller")
            /\ caller' = [caller EXCEPT ![u] = "triggering"]
            /\ UNCHANGED toCC
       ELSE /\ Emit(<<Msg("QUERY", u)>>)
            /\ txCtxs' = IF streamUp THEN (u :> NewTxCtx) @@ txCtxs ELSE txCtxs
            /\ caller' = [caller EXCEPT ![u] = IF streamUp THEN "waiting" ELSE "done"]
            /\ UNCHANGED nextState
    /\ UNCHANGED readyNotify

\* The caller takes the frame from its notifier.
CallerReceive(u) ==
    /\ caller[u] = "waiting"
    /\ txCtxs[u].notifier # <<>>
    /\ answer' = [answer EXCEPT ![u] = Head(txCtxs[u].notifier).type]
    /\ txCtxs' = [txCtxs EXCEPT ![u].notifier = Tail(@)]
    /\ caller' = [caller EXCEPT ![u] = "replied"]

\* The caller's timer fires first (the launcher's too, while it waits for
\* the handshake).
CallerTimeout(u) ==
    /\ \/ caller[u] = "waiting" /\ caller' = [caller EXCEPT ![u] = "timedout"]
       \/ caller[u] = "registering" /\ caller' = [caller EXCEPT ![u] = "done"]
    /\ UNCHANGED <<answer, txCtxs>>

\* deleteTxContext, which leaves the context's iterators as they are.
CallerDelete(u) ==
    /\ caller[u] \in {"replied", "timedout"} /\ LockFree
    /\ txCtxs' = Restrict(txCtxs, DOMAIN txCtxs \ {u})
    /\ caller' = [caller EXCEPT ![u] = "done"]
    /\ UNCHANGED answer

CallerStep(u) ==
    /\ panicked = "none"
    /\ \/ LauncherNotified /\ u = Launch /\ UNCHANGED answer
       \/ CallerSubmit(u) /\ UNCHANGED answer
       \/ (CallerReceive(u) \/ CallerTimeout(u) \/ CallerDelete(u))
          /\ UNCHANGED <<isTransaction, readyNotify, nextState, toCC>>
    /\ UNCHANGED <<fsm, registered, uuidMap, pump, tasks, iters, toPeer,
                   streamUp, shim, shimReqs, rangeReqs, notified, writes, masked, panicked>>
-----------------------------------------------------------------------------
(* The chaincode shim: it registers, runs each uuid it is given, sends at  *)
(* most MaxReqs requests for it, one at a time, and ends it.  It is not    *)
(* trusted: a query may ask for writes, if QueryOps has them.             *)

\* The shim reads the next frame from the peer.
ShimRecv ==
    /\ streamUp /\ toCC # <<>>
    /\ toCC' = Tail(toCC)
    /\ LET m == Head(toCC) IN
       shim' = CASE m.type \in {"INIT", "TRANSACTION", "QUERY"}
                      -> [shim EXCEPT ![m.uuid] = "running"]
                 [] m.type \in {"RESPONSE", "ERROR"} /\ shim[m.uuid] = "waiting"
                      -> [shim EXCEPT ![m.uuid] = "running"]
                 [] OTHER -> shim
    /\ UNCHANGED <<toPeer, streamUp, shimReqs, rangeReqs>>

\* A request on behalf of uuid u; NEXT and CLOSE name an iterator of u.
\* A pipelining shim does not wait for the answer to its last request.
ShimRequest(u, t) ==
    /\ streamUp /\ shimReqs[u] < MaxReqs
    /\ \/ shim[u] = "running"
       \/ ShimPipelines /\ shim[u] = "waiting"
    /\ t = "RANGE_QUERY_STATE" => rangeReqs < MaxIters
    /\ t \in IF u \in Queries THEN QueryOps ELSE ShimOps
    /\ \E i \in IF t \in {"RANGE_QUERY_STATE_NEXT", "RANGE_QUERY_STATE_CLOSE"}
                THEN {j \in IterIds : iters[j].owner = u} ELSE {NoIter} :
          toPeer' = Append(toPeer, [type |-> t, uuid |-> u, iter |-> i])
    /\ shim' = [shim EXCEPT ![u] = "waiting"]
    /\ shimReqs' = [shimReqs EXCEPT ![u] = @ + 1]
    /\ rangeReqs' = IF t = "RANGE_QUERY_STATE" THEN rangeReqs + 1 ELSE rangeReqs
    /\ UNCHANGED <<toCC, streamUp>>

\* The end of a uuid: COMPLETED or ERROR for a transaction,
\* QUERY_COMPLETED or QUERY_ERROR for a query.
ShimFinish(u) ==
    /\ streamUp /\ shim[u] = "running"
    /\ \E t \in IF u \in Queries THEN {"QUERY_COMPLETED", "QUERY_ERROR"}
                ELSE {"COMPLETED", "ERROR"} :
          toPeer' = Append(toPeer, Msg(t, u))
    /\ shim' = [shim EXCEPT ![u] = "done"]
    /\ UNCHANGED <<toCC, streamUp, shimReqs, rangeReqs>>

\* The chaincode process dies: the stream closes and frames in flight are lost.
ShimCrash ==
    /\ streamUp
    /\ streamUp' = FALSE
    /\ toPeer' = <<>>
    /\ toCC' = <<>>
    /\ UNCHANGED <<shim, shimReqs, rangeReqs>>

ShimStep ==
    /\ panicked = "none"
    /\ \/ ShimRecv \/ ShimCrash \/ \E u \in Uuids : ShimFinish(u)
       \/ \E u \in Uuids, t \in ShimOps \cup QueryOps : ShimRequest(u, t)
    /\ UNCHANGED <<handlerVars, caller, answer, ghostVars>>
-----------------------------------------------------------------------------
Init ==
    /\ fsm = "created"
    /\ registered = "no"
    /\ txCtxs = << >>
    /\ uuidMap = {}
    /\ isTransaction = << >>
    /\ readyNotify = <<>>
    /\ pump = "running"
    /\ nextState = {}
    /\ tasks = {}
    /\ iters = [i \in IterIds |-> [st |-> "free", owner |-> NoIter, n |-> 0, pos |-> 0]]
    /\ toPeer = <<Msg("REGISTER", NoIter)>>
    /\ toCC = <<>>
    /\ streamUp = TRUE
    /\ caller = [u \in Uuids |-> IF u = Launch THEN "registering" ELSE "idle"]
    /\ answer = [u \in Uuids |-> "none"]
    /\ shim = [u \in Uuids |-> "idle"]
    /\ shimReqs = [u \in Uuids |-> 0]
    /\ rangeReqs = 0
    /\ notified = [u \in Uuids |-> 0]
    /\ writes = {}
    /\ masked = {}
    /\ panicked = "none"

\* The stream pump, every goroutine and every caller.
Next ==
    \/ PumpRecv
    \/ \E r \in nextState : PumpNextState(r)
    \/ \E k \in tasks : TaskStep(k)
    \/ \E u \in Uuids : CallerStep(u)
    \/ ShimStep

\* Go runs every runnable goroutine: the pump takes each frame and each
\* nextState send, goroutines finish their steps, callers take their
\* notifiers and delete their contexts, and the shim reads what the peer
\* sends.  The shim's own requests, its crash and every timeout are not
\* forced.
Fairness ==
    /\ WF_vars(PumpRecv)
    /\ \A u \in Uuids :
         /\ WF_vars(\E r \in nextState : r.msg.uuid = u /\ PumpNextState(r))
         /\ WF_vars(\E k \in tasks : k.msg.uuid = u /\ TaskStep(k))
         /\ WF_vars(panicked = "none" /\ (CallerReceive(u) \/ CallerDelete(u))
                    /\ UNCHANGED <<isTransaction, readyNotify, nextState, toCC, fsm,
                         registered, uuidMap, pump, tasks, iters, toPeer,
                         streamUp, shim, shimReqs, rangeReqs, ghostVars>>)
    /\ WF_vars(panicked = "none" /\ ShimRecv
               /\ UNCHANGED <<handlerVars, caller, answer, ghostVars>>)

Spec == Init /\ [][Next]_vars /\ Fairness
-----------------------------------------------------------------------------
(* Properties                                                              *)

TypeOK ==
    /\ fsm \in States
    /\ registered \in {"no", "yes", "gone"}
    /\ DOMAIN txCtxs \subseteq Uuids
    /\ \A u \in DOMAIN txCtxs : /\ Len(txCtxs[u].notifier) <= 2
                                /\ txCtxs[u].iters \subseteq IterIds
    /\ uuidMap \subseteq Uuids
    /\ DOMAIN isTransaction \subseteq Uuids
    /\ readyNotify \in Seq(BOOLEAN) /\ Len(readyNotify) <= 1
    /\ pump \in {"running", "exited"}
    /\ \A k \in tasks : k.msg \in Messages /\ k.pc \in {"start", "run", "reply"}
    /\ \A r \in nextState : r.msg \in Messages /\ r.from \in {"caller", "task"}
    /\ \A i \in IterIds : iters[i].st \in {"free", "open", "closed"}
    /\ toPeer \in Seq(Messages) /\ toCC \in Seq(Messages)
    /\ caller \in [Uuids -> {"registering", "idle", "triggering", "waiting",
                             "replied", "timedout", "done"}]
    /\ shim \in [Uuids -> {"idle", "running", "waiting", "done"}]
    /\ writes \subseteq [uuid : Uuids, op : WriteTypes]
    /\ panicked \in {"none", "nilTxContext", "nilUnmarshalErr", "nilResponse"}

\* Answers on their way to the shim for uuid u: replies written to the
\* stream, goroutines serving one of its requests, and enterBusyState
\* replies waiting in triggerNextState.
PendingAnswers(u) ==
    Len(SelectSeq(toCC, LAMBDA m : m.uuid = u /\ m.type \in {"RESPONSE", "ERROR"}))
    + Cardinality({k \in tasks : k.msg.uuid = u})
    + Cardinality({r \in nextState : r.from = "task" /\ r.msg.uuid = u})

\* The isTransaction arbiter of enterBusyState and HandleMessage: no
\* SetState, DeleteState or nested Execute is ever issued for a query,
\* whatever the FSM state its write request finds the handler in.
QueryNeverWrites == \A w \in writes : w.uuid \notin Queries

\* The producer writes exactly once per uuid lifetime (a single-slot
\* rendezvous): notify puts at most one frame on each uuid's notifier, so
\* it never waits, holding the handler lock, for a caller that may be gone.
NotifiedAtMostOnce == \A u \in Uuids : notified[u] <= 1

\* Each request the shim sends gets at most one answer, and none arrives
\* unasked: the in-flight guard, the query-context refusal and the
\* busy-state trigger never produce two replies for one request.
OneAnswerPerRequest ==
    \A u \in Uuids : PendingAnswers(u) <= IF shim[u] = "waiting" THEN 1 ELSE 0

\* While the FSM is in busyinit or busyxact some enterBusyState goroutine
\* is still going to trigger the RESPONSE or ERROR that leaves it; a
\* dropped write would leave the handler busy for good.
BusyHasOwner ==
    (fsm \in {"busyinit", "busyxact"} /\ pump = "running") =>
        \/ \E k \in tasks : k.msg.type \in WriteTypes
        \/ \E r \in nextState : r.from = "task"

\* An iterator stays open without a context only if its caller gave up
\* waiting (deleteTxContext does not close iterators): the spec says every
\* iterator of a transaction is closed when it completes, and notify
\* closes those in the context's map before the caller can take the reply
\* and delete the context.  notify cleans the map only once, so this needs
\* each range goroutine of the uuid to have put its iterator before then.
LeakOnlyAfterTimeout ==
    \A i \in IterIds :
        (iters[i].st = "open" /\ iters[i].owner \notin DOMAIN txCtxs)
            => answer[iters[i].owner] = "none"

\* A range request whose caller has already deleted the context is
\* answered ERROR: handleRangeQueryState[Next|Close] never dereference the
\* nil transaction context getTxContext returns for it.
RangeAfterDeleteAnswered == panicked # "nilTxContext"

\* A decrypt failure while a range page is assembled is answered ERROR
\* ("Failed decrypt value"); the peer does not crash formatting it.
DecryptFailureAnswered == panicked # "nilUnmarshalErr"

\* A failed nested Execute in enterBusyState is answered ERROR; the peer
\* does not crash reading the payload of the nil response.
ExecuteFailureAnswered == panicked # "nilResponse"

\* A nested chaincode that fails is reported to the calling chaincode as
\* an ERROR, not passed on as a RESPONSE.
NestedFailureReported == masked = {}

\* Every request the shim sends is answered, unless the session or the
\* peer ends first.
RequestAnswered ==
    \A u \in Uuids : shim[u] = "waiting" ~>
        (shim[u] # "waiting" \/ ~streamUp \/ panicked # "none")

\* A caller whose chaincode has sent its terminal frame (COMPLETED, ERROR,
\* QUERY_COMPLETED or QUERY_ERROR) is released from its notifier while the
\* stream is up: the pump handles that frame and notify delivers it.
FinishedCallerReleased ==
    \A u \in Uuids :
        (caller[u] = "waiting" /\ shim[u] = "done")
            ~> (caller[u] # "waiting" \/ ~streamUp \/ panicked # "none")

\* A range iterator the chaincode leaves open is closed once its uuid
\* ends: the pump hands the shim's COMPLETED or ERROR frame to the FSM, and
\* notify closes every iterator in the context's map.  It may stay open
\* only if the caller deleted the context unanswered (its timeout), or the
\* stream or the peer ends first.
IteratorReleased ==
    \A i \in IterIds :
        (iters[i].st = "open" /\ shim[iters[i].owner] = "done")
            ~> \/ iters[i].st # "open"
               \/ iters[i].owner \notin DOMAIN txCtxs /\ answer[iters[i].owner] = "none"
               \/ ~streamUp \/ panicked # "none"

\* When the stream ends (EOF, a Recv or send error, or the end state) every
\* caller still blocked on the handler is released, not left to its
\* timeout: one waiting on its notifier, and one whose triggerNextState
\* send on the unbuffered nextState channel no pump will ever receive.
SessionEndReleasesWaiters ==
    \A u \in Uuids :
        (caller[u] \in {"waiting", "triggering"} /\ pump = "exited")
            ~> caller[u] \notin {"waiting", "triggering"}

\* A transaction's failure stays with its uuid: sendExecuteMessage
\* triggers the next TRANSACTION only after the caller of the previous one
\* is done with it, answered or timed out, and the pump then finds the FSM
\* able to take it, rather than refusing it (FSM.Cannot) and ending the
\* session for every uuid.
TransactionAdmitted ==
    [][\A r \in nextState :
          (r.msg.type = "TRANSACTION" /\ r \notin nextState') => Can("TRANSACTION")]_vars

\* A launch that succeeded (initOrReady's notifier gave COMPLETED or READY)
\* leaves the handler in a state isRunning reports as running, so the
\* support plane takes the chaincode as running and does not launch it
\* again.  The launcher is notified by enter_ready, and the frames of the
\* transactions that follow must never take the FSM back to a handshake state.
LaunchedIsRunning == Launched => isRunning

\* The abstract lifecycle of each uuid (TxLifecycle) seen in the handler: a
\* uuid is open from createTxContext until notify puts a frame on its
\* notifier, answered from then on, and closed once deleteTxContext (or a
\* caller that never created a context) is done with it.
PhaseOf == [u \in Uuids |->
               IF u \in DOMAIN txCtxs
               THEN IF notified[u] = 0 THEN "open" ELSE "answered"
               ELSE IF caller[u] \in {"idle", "registering"} THEN "idle" ELSE "closed"]

Lifecycle == INSTANCE TxLifecycle WITH phase <- PhaseOf, answers <- notified

\* The handler implements the lifecycle: initOrReady and sendExecuteMessage
\* create each context once, notify delivers exactly one frame to it while
\* it exists, and deleteTxContext removes it for good.
LifecycleRefined == Lifecycle!Spec

=============================================================================
