# A verification model of openclaw-rtc-plugin

TLA+ modules for the parts of the WebRTC voice-call plugin whose correctness is
in their order of events: the gateway plugin (`src/plugin`), the two RTC nodes, in
Go (`src/rtc-node`) and in TypeScript (`src/plugin/node`), and the browser tab
(`src/plugin/ui`). TLC checks small instances, TLAPS proves the safety properties
for every value of the constants. `PROJECT.json` lists the runs, the source lines
of every definition, the findings, the hazards and the theorems.

## 1. The system

```
browser tab ── rtc.call.start / ice / hangup ──▶ gateway plugin ── node.invoke ──▶ RTC node
 (WebUi)                                          (RtcPlugin over                  (NodeClient: connection,
                                                   CallOrchestrator)                PeerManager: peers;
                                                                                    or TsNode)
```

| Part | State | Operations | What makes it correct |
|---|---|---|---|
| Call orchestrator, `plugin/src/orchestrator.ts` | a record per call, session map | `startCall`, `handleAnswer`, `handleIceCandidate`, `setActive`, `hangup`, `setError`, `setTimeout`, `addTranscript` | the limit on live calls, one live call per session and it is found, ended records stay as they ended, fields agree with each other |
| Gateway methods, `plugin/index.ts` | suspended handlers, the node registry (outside) | `rtc.call.start`, `rtc.call.ice`, `rtc.call.hangup`, the service's `stop` | callers are told what the records say whatever raced the await; a hang-up is final; nobody waits for ever |
| Go peers, `rtc-node/peer.go`, `loopback.go` | `pm.peers`, connections, audio goroutines | `AcceptCall`, `AddRemoteCandidate`, `ClosePeer`, state callback, `OnTrack`, replay | no connection leaks, each is closed once, goroutines end |
| Go client, `rtc-node/gateway.go`, `main.go` | socket, `closed`, `done`, command goroutines | `Connect`, `handshake`, `readLoop`, `Close`, `main` | clean shutdown, the process ends with its connection |
| Browser tab, `plugin/ui/app.ts`, `rtc-peer.ts`; the same logic in `index.html` | `rtcPeer`, `currentCallId`, socket, suspended `startCall`s | the two buttons, `startCall`, `hangup`, `cleanupCall`, callbacks, the event `rtc.call.ended` | what is on the screen can be hung up, calls and microphones are kept apart |
| TypeScript client, `plugin/node/gateway-client.ts` | socket, `connectSent`, reconnect timer, pending requests | `start`, `stop`, the socket's events, `handleChallenge`, `handleInvokeRequest`, `flushPending` | it connects again and again, and the gateway gets one story per command |
| TypeScript peers and commands, `plugin/node/peer-manager.ts`, `index.ts` | `peers`, `loopbacks`, connections, timers | `acceptCall`, `addRemoteCandidate`, `closePeer`, `closeAll`, state and timer callbacks, `handleCommand`, the shutdown | answered calls and running timers stay within reach of `closePeer`, whatever is awaited |
| Volcano client, `plugin/node/volc-client.ts` (no caller yet) | `ws`, `sessionActive` | `connect`, `startSession`, `sendAudio`, `sendTtsText`, `finishSession`, `disconnect`, the socket's events | the flag agrees with the session on the socket |
| Audio pipeline, `plugin/node/audio-pipeline.ts` (no caller yet) | the accumulator's buffer | `resamplePcm`, `chunkPcm`, `push`, `flush`, `reset` | no byte is lost or repeated, reads stay inside the buffer |
| Store, configuration, HTTP route, identity | a JSONL file; none; none; a key file | append/read; parse; serve; sign | not modelled, see 8 |

The hard behaviour is in the awaits and goroutines. A gateway handler is
suspended in `nodeRegistry.invoke` while other requests, a timeout, the loss of
the node or a shutdown go first. The node runs each command in a goroutine of its
own, so a hang-up can overtake the accept it belongs to. `g.closed` is shared
without a lock. The TypeScript node keeps its calls and unfinished commands over a
reconnect, and its connections, hang-ups and timers meet at every await. The
tab's `startCall` resumes on global variables that another click may have changed. Nothing is persisted, so there is no recovery to check
besides a node process that starts again empty.

## 2. The modules

- **CallLifecycle**: the abstract specification. A call goes unborn, initiating,
  connecting, active, ended; a session has one live call, and `MaxLive` bounds the
  live ones. It stands for what the plugin promises and has no source lines.
- **CallService**: the abstract specification of plugin and Go nodes together: a
  call's record, the one command that asks a node for its connection, the processes
  that run, and the connection each has. The record takes an answer only from a node
  that gave one; a working connection is closed only under an ended call or with its
  process. `CallSystem!ImplementsService` is the refinement: `asked` is where the
  command of the call's start stands, `media` where the record of PeerManager does.
- **ConnectionCustody**: the abstract specification of both nodes' connections: who
  can close one. An accept makes it and holds it, the map of stored connections holds it when
  the accept has answered, and then whoever takes it out of the map to close it. No
  connection is open in nobody's hand or in two, with one exception the constant
  `LeavesOpen` names: the TypeScript node forgets the connection of an accept that
  throws. `PeerManager!ImplementsCustody` and `TsNode!ImplementsCustody` are the
  refinements; audio, loopbacks, failures and the client are stutters, and `closeAll`
  takes several connections at once.
- **CallOrchestrator**: one action per method of the class. A method that throws
  changes nothing, so a throw is a disabled action. Records keep every field of
  `types.ts` that a decision or a property reads; time stamps are "set or not",
  the three lists are lengths. `stopService` is the synchronous sweep of
  `index.ts`. `ImplementsLifecycle` is the refinement (`phase` from `state`,
  `holder` from `sessionKey`).
- **RtcPlugin** extends it with the handlers. A request is a record: what it
  asked, the node it was sent to, what the await came to, what the caller was
  told. `Arrive` runs a handler to its await or its response, `Resume` runs it from
  there. `listConnected()` is a sequence in order of arrival, and every command
  goes to its head, as `findRtcNode` does (every node of `Nodes` has the
  capability). Losing a node rejects what is pending on it.
- **PeerManager**: one record per process and call, with the critical sections of
  `pm.mu` as the atomic steps and everything between them interleaved.
- **NodeClient**: one process of the node and its connection, statement by
  statement where `closed` and `done` are touched.
- **CallSystem** extends RtcPlugin and instantiates PeerManager. A command is
  sent, run by a goroutine, and ends with a result that resumes the handler. A
  process exits with everything it held and starts again empty; that it exits when
  its connection is lost is what NodeClient's `ProcessEnds` shows. Commands sent
  into the dead connection of an earlier process are lost.
- **TsGatewayClient**: the reconnecting client of the TypeScript node and the
  gateway at the other end of its socket. A command is a record: where its handler
  is, its result or the reply on the wire, what the gateway made of it. A result
  goes out on whatever socket is open when it is ready; when it is refused, or cannot
  be sent, the catch tries once more with a negative one.
- **TsPeerManager**: one record per call: where `acceptCall` stands, the
  connection's state, the entries in `peers` and `loopbacks`, what the audio does and
  whether a timer can still fire. What stands between two awaits is one step.
- **TsNode** extends TsGatewayClient and instantiates TsPeerManager: `handleCommand`
  for the three commands, and the shutdown, which awaits the connections it found.
  A command runs to its first await within the step that brings it, as in the code.
- **VolcClient**: the object's two fields against every socket it ever made, whose
  close handlers write them without asking whose socket they belong to. `raced`
  records that `connect` ran before an earlier socket's close event.
- **AudioPipeline**: resampling and chunking as functions on byte sequences, the
  accumulator as a state machine. **MCVoice** puts it side by side with VolcClient.
- **WebUi**: one tab. `attempt[a]` is the a-th click on the call button with its
  suspended `startCall` and its `RtcPeer`; the globals hold the number of an
  attempt. `ended[a]` and `early` are history variables that no guard reads: the
  stage at which `cleanupCall` took attempt `a` off the screen, whoever called it, and
  the attempts the user hung up before they were set up. The gateway is reduced to
  taking or refusing a call and taking a hang-up. `CallEnded` is the event
  `rtc.call.ended`: no part of the repository sends it, but all three copies of the tab
  handle it without a look at its call id, so the model lets it come at any time.
- **MC…** modules hold the symmetry sets and constants of the runs; **…_proofs**
  modules hold the theorems.

Definitions whose names end in a description of a fault (`EndCallAgain`,
`TakenStill`, …) are faulty variants of the definition that follows them. No
specification uses them; each property is known to fail when one of them takes
its definition's place.

## 3. The runs

| Run | Instance | Shows |
|---|---|---|
| `orchestrator` | 3 calls, 3 sessions, limit 2 | limits, session map, record consistency, frozen ends, stable answers, refinement of CallLifecycle |
| `plugin` | 2 calls, 2 sessions, 3 requests, 1 node, fairness | answers told agree with records, hang-up final, what can strand a call; every request that awaits a node is answered |
| `peer_manager` | 1 echoing and 1 recording process, 1 call, fairness | no leak, refinement of ConnectionCustody, stoppable replay; audio goroutines end, failed connections are closed |
| `system` | 1 call, 3 requests, 2 nodes | commands reach the call's node, a hang-up of an answered call closes its connection, refinement of CallService |
| `node_client` | 2 commands, fairness | clean shutdown, end of the process |
| `web_ui` | 3 clicks | hang-up within reach; which attempts can leave a microphone on or mix up calls; who can interrupt a set-up |
| `ts_node` | 2 commands, 1 call, 2 lost connections, loopback, fairness | one story per command; refinement of ConnectionCustody; timers within reach; hang-ups release; the node comes back, and exits when told to |
| `voice` | 3 sockets; frames of 3 bytes, 16 bytes; 7 samples | the session flag agrees with the socket; accumulator and `chunkPcm` agree; resampling against a reference |
| `plugin_failed_start`, `system_hangup`, `node_client_panic`, `web_ui_hangup` | as small as the case needs | the findings of section 6 |

Bounds, and why they suffice:

- `orchestrator`: three calls are the least with which a limit of two can be
  exceeded, or a session can place a call after an ended one while another is up.
  `MaxPushes` = 1 and the constraint `FewEntries` keep at most one candidate or
  transcript entry in all, and none once a third call is placed: no method reads
  those lists.
- `plugin`: three requests are two starts and a hang-up, or a start with a
  candidate and a hang-up, or any other mix. What a second node adds (the head of
  the list changes while commands are pending) is in `system`, and the proofs
  hold for any set of nodes. The reasons are those the code tells apart: "user", the
  shutdown's, the failed invoke's.
- `system`: start, candidate and hang-up of one call; calls meet only in the
  orchestrator, which the other runs cover. Each node may exit and start again.
- `peer_manager`: connections of different calls share only the map's lock.
- `ts_node`: calls share nothing but the map, so one suffices; two commands are an
  accept and the hang-up or candidate that races it; two losses let a command live
  through a reconnect that itself fails.
- `voice`: the parts share no state and are exercised in turn. Three sockets are
  one more than a race of close and connect needs. Frames of three bytes with pushes
  of up to seven complete none, one or two; the pushed bytes are numbered, so that a
  loss or a swap shows. Seven samples, with the extreme values among them, give every
  remainder of the two ratios; an input may end in half a sample.
- `web_ui`: three clicks are one more than the two attempts a cross-over needs; the
  attempts are symmetric.

Deadlock is checked everywhere but in the two `node_client` runs and in `ts_node`: a
process that exited, panicked or was killed takes no further step.

## 4. Fairness

- `FairPluginSpec` (run `plugin`): weak fairness of `Resume` for each request. An invoke is
  settled by its result or after `timeoutMs` (15 s, `index.ts:392`).
- `PeerManager!FairSpec`: weak fairness of what the process does on its own
  (goroutines that can run do; pion ends gathering or fails). Nothing is assumed of
  hang-ups, failures or tracks.
- `NodeClient!FairSpec`: weak fairness of `main` and of the reader, separately. The
  handshake is fair only on a lost connection: it reads without a deadline.
- `TsNode!FairSpec`: weak fairness of the reconnect timer, of an attempt to connect
  coming to an end, of a closing socket's event, of the gateway's challenge and its
  hello-ok, of `pc.close()` and of the exit. Connections are lost at most
  `MaxLosses` times: a node whose every connection is lost at once may never return.
- The other runs, WebUi and `voice` among them, assume none.

## 5. What is proved

All proofs are for arbitrary constants under the named assumptions
(`OrchestratorAssumption`: call ids finite, a positive limit, the two reasons the
code uses exist, `undefined` is nobody's value; `PluginAssumption`,
`LoopbackAssumption`, `WebUiAssumption`, `TsClientAssumption`, `TsNodeAssumption`,
`VolcAssumption`, `AudioAssumption` likewise).

- **CallOrchestrator_proofs.** `IInv` is `TypeOK`, `CapacityBound`,
  `MapFindsLiveCall` and `RecordConsistent`. The argument: every step other than
  `startCall` and `stopService` is a `RecordStep` on one record, which never makes
  a record live and keeps its session (`StepShape`); so the live set only
  shrinks and the session map stays right. `startCall` adds one call below the
  limit, and it displaces only an ended call in the map. That no session has two live
  calls is part of `MapFindsLiveCall`: one map entry cannot name both. `EndIsFinal`,
  `AnswerIsStable` and the refinement `LifecycleImplemented` are step properties
  under `IInv`.
- **RtcPlugin_proofs.** Every plugin step is a step of the class or leaves it
  alone (`PluginUsesClass`), so the class's theorems carry over
  (`PluginKeepsLimits`). `CallersToldTruth` needs that no two requests started the
  same call and that a record is answered only by the handler that started it;
  `HangupIsFinal` that ended calls stay ended; `OnlyRejectsStrand` that an
  unanswered start is marked.
- **PeerManager_proofs.** The invariant is per process and call; a step touches
  one record (`OneRecord`). It adds to the checked properties that a close in
  progress and a stored entry exclude each other and when a loopback is attached.
  `ClosedOnce` (`CloserAlone`) follows. Under it the stage of an accept and the entry tell who holds a
  connection (`GoodHolders`), and `CustodyImplemented` has two halves: what each action
  makes of its record is one of the ways `PassedOn` lists, and a record that goes one of
  those ways is a step or a stutter of ConnectionCustody (`PassedOnRefines`).
- **CallSystem_proofs.** `SystemUsesPlugin` is the refinement to RtcPlugin: what
  the nodes do is a result, a timeout or a stutter there. `CommandsFindTheirCall`
  rests on `RouteInv`: a process that has anything of a call, while a handler
  awaits a command of it, is the node the command was sent to, because a process keeps
  its place in the list as long as it lives and is empty when it comes back at
  the end. `HangupReleasesAnswered`, `OnlyEndedCallsAreClosed` and
  `SystemTypeCorrect` rest on `PlaceInv` besides: every connection that is being
  set up has its accept under way and every such accept its connection; a close in
  progress on an open connection belongs to a call that has ended; and a hang-up the
  node has taken leaves nothing open of a call that was answered. The last part needs
  the plugin's own invariants: who was told an answer was told by the node that has
  the call (`StartResponseAgrees`), and a call that is over is not answered again
  (`HangupTakesEffect`).
  `ServiceImplemented` is the refinement of CallService. What it needs beyond
  `PlaceInv` is `OnePlace`: the connection of a call is only ever on the node its
  accept was sent to, and the accept, the connection and the record of the call agree
  about how far it is. Every step is then one of a few kinds: one that moves the
  record, one that runs, answers or fails the accept, one that moves a connection,
  and a process that starts or exits. `NodesKeepConnections` carries what PeerManager
  promises of leaks and closing over to processes that crash;
  `SystemKeepsLimits` and `SystemImplementsLifecycle` carry the class's promises over.
- **NodeClient_proofs.** `CleanShutdown`: a reader that still means to close
  `done` saw `closed` unset after its read had failed, which only a lost connection
  explains, because `Close` sets the flag before it closes the socket.
- **WebUi_proofs.** `WebInvariant` says of every attempt that was placed that it is on
  the screen or has been ended (`OnScreen`), and at which stages an attempt that is
  still under way can have been ended (`EndedWhere`): one ended while its offer was
  made has no connection left and cannot dial, one ended at its microphone prompt gets
  a new connection afterwards and can. Ends are for good, so what `MicIsReleased` and
  `CallsStayApart` except stays excepted. Neither assumes anything of the user or of
  `rtc.call.ended`, and each exception does occur: without it TLC finds the property
  violated. `SetUpsUndisturbed` follows from
  the same invariant: while nothing was interrupted the only `startCall` under way is the
  one on the screen, so its own catch is the only one that can run.
- **TsNode_proofs.** `TsNodeInvariant` says of the client that results and replies
  are under way only on an open socket, for commands that wait for them, and that a
  command whose positive result was taken can only get "yes" for it; of the
  connections that `closePeer`, from any state, leaves an answered call closing; of
  the requests that only a call's accept makes it answered. `HangupCloses` follows for
  any number of losses, because an answered call stays answered and a closing
  connection never opens again. `AnsweredCallReachable` is the part about the map.
  `TsCustodyImplemented` has an invariant of its own (`HeldOnce`): an answered call's
  connection is in the map exactly until it is told to close, and no other gets there;
  so the "closed" event of a connection, which runs `closePeer` again, finds nothing.
- **Voice_proofs.** For the client the invariant is that, while no connect overtook a
  close event, at most one socket is not closed; then a close handler has no other
  socket's fields to clear, and `SessionAgreement` and `NoOrphanSocket` follow. For
  the accumulator it is `Cut`: the frames returned and the rest are the bytes pushed,
  position by position, and the rest is less than a frame. `CutFurther` shows that cuts
  compose, so pushes of any length keep it, and `AccumulatorIsChunkPcm` compares the
  result with `chunkPcm` of the whole, for any frame size. `ResamplersSound` is about
  input of any length: the offsets of `resamplePcm` are computed in closed form for the two
  ratios, every read is shown to be inside of the buffer, or not to be when half a
  sample trails, and the rounded means stay in 16 bits, so `clamp16` changes none.
  `VoiceIsItsParts` splits the joint specification of the runs into the two.

Only model-checked is liveness (`RequestsAnswered`, `AudioEnds`,
`FailureIsCleanedUp`, `ProcessEnds`, `NodeReturns`), which is beyond the prover.
Every other property of the passing runs is also a theorem.

## 6. Findings

Each is a run that ends in a violation of what the repository says.

1. `plugin_failed_start`: a rejected invoke (timeout, node lost) leaves the call
   "initiating" with nobody waiting; it occupies its session and the limit until
   somebody hangs it up or the gateway stops.
   `InitiatingExplained` shows that this is the only way.
2. `system_hangup`: a hang-up that overtakes the answer is acknowledged by the
   node, and the connection is stored afterwards and stays open.
   `HangupClosesAnswered` shows that an answered call does not have the problem.
3. `node_client_panic`: a lost gateway connection makes the Go node close
   `g.done` twice and panic. `PanicOnlyAfterLoss` shows that a signal does not.
4. `web_ui_hangup`: a hang-up while dialling never reaches the gateway; the call
   stays up there. `MicReleased` and `CallsKeptApart` bound what else the race of an
   end with a suspended `startCall` does: an end during the microphone prompt leaves
   the microphone on with no button to turn it off, and an end there or while dialling
   lets the answer reach the next attempt's connection. An attempt ended at any other
   stage does neither. `SetUpUndisturbed` says what begins such a race: the button,
   `rtc.call.ended`, or the attempt's own connection as it is being answered.

The configured limits on the duration and the silence of a call
(`maxCallDurationSec`, `silenceTimeoutSec`) are parsed and read by nobody; there is
no code to model. `SessionAgrees` and `NoOrphan` are stated for `~raced`: after
`disconnect` and `connect` in one go the old socket's close handler does clear the
new socket's fields, and nothing in the repository says otherwise.
`FailureIsCleanedUp` begins when the entry is stored: a connection that fails before
that waits for a hang-up.

## 7. Abstractions and assumptions

- SDP, candidates, audio and text are model values, counts or left out.
- Clients can name any call: `rtc.call.status` lists them all.
- `listConnected()` is in order of arrival; a node that comes back is last. In
  `CallSystem` a node that reconnects is a new process, which is true of the Go node;
  what the TypeScript node keeps over a reconnect is in `TsNode`.
- A recording window (seconds) does not end while a close is under way
  (milliseconds).
- A call has one remote track: the browser offers one audio track
  (`rtc-peer.ts:40-43`). A second one would overwrite the call's loopback
  (`peer.go:172-176`, `peer-manager.ts:184`).
- Frames are well formed: a challenge has its payload (`gateway.go:191`), call ids are
  the plugin's UUIDs (`peer.go:77` slices them), and a positive answer to an accept
  carries its `answerSdp` (`index.ts:165`).
- `g.closed` is read and written without a lock; the model interleaves the single
  reads and writes, which covers a stale read. The one read that a write must not
  miss is ordered behind it by the close of the socket.
- In `CallSystem` audio has no part, and the node list of the gateway may lag
  behind the process in both directions.
- In `TsGatewayClient` the backoff has no length and signatures do not fail. The
  gateway may end a connection whose first frame is a result, and reply either way to
  a result that comes too late. A second signal before the exit is left out.
- In `TsPeerManager` the loopback's import may take until after the hang-up, and its
  recording then starts on a call that is over. A rejected description leaves its
  connection open and stored nowhere (`AcceptThrows`), which ConnectionCustody allows
  with `LeavesOpen`.
- `app.ts` also ends a call on "disconnected" and names its sessions itself;
  otherwise it and `index.html` take the same steps. The model has the steps of
  `app.ts`.
- The owner of a Volcano client, which the repository does not have yet, is taken to
  await `connect` and to call it only while `isConnected` is false. Frames are the
  events they carry; encoding and decoding keep no state.
- Resampling ratios are exact fractions; the two the module exports (3 and 1/2) are
  exact in floating point as well.

## 8. Not modelled, and what is left

Not modelled: the HTTP route (static files), the device identity (a key file and
signatures), the configuration schema beyond its outcome, the call store (nothing
creates one), the read-only `rtc.call.status`, chat and transcript display, `rtc.call.speak`
of the TypeScript node (it logs), `sendRequest` of the Go client (no caller), the
build products `app.js` and `rtc-peer.js`.

What could follow:

1. CallSystem with TypeScript nodes, which keep their calls while the gateway's list
   forgets their place: `CommandsReachTheCall` is expected to fail there
   (`NodeExitKeepsPeers` shows how).
2. WebUi against RtcPlugin in place of the reduced gateway.
3. The owner of the Volcano client, once the node has one.
