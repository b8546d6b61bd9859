--------------------------------- MODULE Node ---------------------------------
(***************************************************************************)
(* The process around RequestGate: app.New with its steps and their error  *)
(* paths, app.Start, app.Close, main, and the identity file that gives the *)
(* node its peer id.  The process may be killed at any point; files stay   *)
(* as the operating system has them, so a key file may be left created but *)
(* not written.  Handlers are not waited for when the node stops: they go  *)
(* on over a closed host and closed databases until the process ends.      *)
(***************************************************************************)
EXTENDS RequestGate

CONSTANTS
    MaxKeys,        \* bound: keys generated
    NoKey           \* no identity file, or no key loaded

Keys == 1..MaxKeys

ASSUME NodeConstantsOK ==
    /\ MaxKeys \in Nat
    /\ NoKey \notin Int

VARIABLES
    phase,          \* how far New, Start or Close has come
    storeOpen,      \* the pebble database is open
    hostOpen,       \* the libp2p host accepts streams
    keyFile,        \* the identity file; 0: created, not written
    key,            \* the key in memory
    generated,      \* keys generated so far
    announced       \* history: the peer ids the node has had

bootVars == <<phase, storeOpen, hostOpen, keyFile, key, generated>>
nodeVars == <<gateVars, bootVars, announced>>

NodeTypeOK ==
    /\ GateTypeOK
    /\ phase \in {"off", "opened", "writing", "identified", "serving", "failing", "running",
                  "closing", "closed"}
    /\ storeOpen \in BOOLEAN
    /\ hostOpen \in BOOLEAN
    /\ keyFile \in Keys \cup {0, NoKey}
    /\ key \in Keys \cup {NoKey}
    /\ generated \in 0..MaxKeys
    /\ announced \subseteq Keys

-----------------------------------------------------------------------------
(* app.New.                                                                *)

\* The process ends, with its handlers and limiters.  Nothing committed or
\* written is lost.
Ends ==
    /\ phase' = "off"
    /\ storeOpen' = FALSE
    /\ hostOpen' = FALSE
    /\ key' = NoKey
    /\ Restart
    /\ UNCHANGED <<keyFile, generated, announced>>

OpenStore ==
    /\ phase = "off"
    /\ phase' = "opened"
    /\ storeOpen' = TRUE
    /\ UNCHANGED <<gateVars, hostOpen, keyFile, key, generated, announced>>

\* The new key is used and not saved.
BadCreateKey ==
    /\ keyFile = NoKey
    /\ generated < MaxKeys
    /\ generated' = generated + 1
    /\ key' = generated + 1
    /\ phase' = "identified"
    /\ UNCHANGED keyFile

\* LoadOrCreateIdentityKey without a file: WriteFile creates it, then writes.
CreateKey ==
    /\ keyFile = NoKey
    /\ generated < MaxKeys
    /\ generated' = generated + 1
    /\ key' = generated + 1
    /\ keyFile' = 0
    /\ phase' = "writing"

LoadKey ==
    /\ keyFile \in Keys
    /\ key' = keyFile
    /\ phase' = "identified"
    /\ UNCHANGED <<keyFile, generated>>

LoadOrCreateIdentityKey ==
    /\ phase = "opened"
    /\ CreateKey \/ LoadKey
    /\ UNCHANGED <<gateVars, storeOpen, hostOpen, announced>>

WriteKey ==
    /\ phase = "writing"
    /\ keyFile' = key
    /\ phase' = "identified"
    /\ UNCHANGED <<gateVars, storeOpen, hostOpen, key, generated, announced>>

\* A key file without a key, a failed write, or a host that cannot listen: the
\* store is closed and main exits.
NewFails ==
    /\ phase \in {"opened", "writing", "identified"}
    /\ phase = "opened" => keyFile = 0
    /\ Ends

\* The host listens under its peer id and the offline handlers are registered.
NewHost ==
    /\ phase = "identified"
    /\ phase' = "serving"
    /\ hostOpen' = TRUE
    /\ announced' = announced \cup {key}
    /\ UNCHANGED <<gateVars, storeOpen, keyFile, key, generated>>

\* The public channel database cannot be opened, while streams are already being
\* served: the store is closed before the host.
OpenChannelsFails ==
    /\ phase = "serving"
    /\ phase' = "failing"
    /\ storeOpen' = FALSE
    /\ UNCHANGED <<gateVars, hostOpen, keyFile, key, generated, announced>>

\* It can, New returns, and app.Start lets the collector run.
Start ==
    /\ phase = "serving"
    /\ phase' = "running"
    /\ UNCHANGED <<gateVars, storeOpen, hostOpen, keyFile, key, generated, announced>>

-----------------------------------------------------------------------------
(* app.Close and the end of main.                                          *)

\* A signal: the collector's context is cancelled and the host closed.
CloseHost ==
    /\ phase = "running"
    /\ phase' = "closing"
    /\ hostOpen' = FALSE
    /\ UNCHANGED <<gateVars, storeOpen, keyFile, key, generated, announced>>

CloseStores ==
    /\ phase = "closing"
    /\ phase' = "closed"
    /\ storeOpen' = FALSE
    /\ UNCHANGED <<gateVars, hostOpen, keyFile, key, generated, announced>>

\* main returns, from New's last error path, after Close, or because closing the
\* host failed and Close stopped there.
Exit ==
    /\ phase \in {"failing", "closing", "closed"}
    /\ Ends

Kill ==
    /\ phase # "off"
    /\ Ends

-----------------------------------------------------------------------------
(* Requests while the process comes and goes.                              *)

Accepting == hostOpen /\ phase \in {"serving", "failing", "running"}

\* A failed call is answered as if it had been done.
BadStorageFails(h) ==
    /\ ~storeOpen
    /\ pc[h] \in {"store", "fetch", "ack"}
    /\ Answer(h, "OK", {})
    /\ UNCHANGED <<req, window, box, minute, passed>>

\* A closed database returns an error, if it does not end the process.
StorageFails(h) ==
    /\ ~storeOpen
    /\ pc[h] \in {"store", "fetch", "ack"}
    /\ Answer(h, "INTERNAL_ERROR", {})
    /\ UNCHANGED <<req, window, box, minute, passed>>

\* The steps of a handler; on a closed host an answer cannot be written.
Serve(h) ==
    /\ \/ AllowRemote(h)
       \/ AllowSender(h)
       \/ storeOpen /\ (StoreMessage(h) \/ FetchMessages(h) \/ AckMessages(h))
       \/ StorageFails(h)
       \/ hostOpen /\ WriteRPC(h)
       \/ ResetStream(h)
    /\ UNCHANGED <<bootVars, announced>>

Receive(h) ==
    /\ Accepting
    /\ \E q \in Requests : HandleRPC(h, q)
    /\ UNCHANGED <<bootVars, announced>>

\* A pass in progress is not waited for either.
Collect ==
    /\ storeOpen /\ phase \in {"running", "closing"}
    /\ \E e \in box : Expire(e)
    /\ UNCHANGED <<bootVars, announced>>

Clock == NextMinute /\ UNCHANGED <<bootVars, announced>>

NodeInit ==
    /\ GateInit
    /\ phase = "off"
    /\ storeOpen = FALSE
    /\ hostOpen = FALSE
    /\ keyFile = NoKey
    /\ key = NoKey
    /\ generated = 0
    /\ announced = {}

Boot == OpenStore \/ LoadOrCreateIdentityKey \/ WriteKey \/ NewHost \/ Start

NodeNext ==
    \/ Boot
    \/ NewFails
    \/ OpenChannelsFails
    \/ CloseHost
    \/ CloseStores
    \/ Exit
    \/ Kill
    \/ \E h \in Handlers : Serve(h) \/ Receive(h)
    \/ Collect
    \/ Clock

NodeSpec == NodeInit /\ [][NodeNext]_nodeVars

-----------------------------------------------------------------------------
(* Properties.                                                             *)

\* A node keeps the peer id it was first seen under, over every restart and
\* wherever in the start it is killed (README: the peer id does not change when
\* the node is restarted with the same data directory).
PeerIdStable == Cardinality(announced) <= 1

\* A store request is answered OK only if the message is in the database at that
\* moment, also while New fails or Close has closed the database under the
\* handler.
OKMeansStored ==
    [][\A h \in Handlers :
          pc[h] = "store" /\ code'[h] = "OK" /\ pc'[h] = "reply" =>
             \E e \in box' : e.to = req[h].to /\ e.id = req[h].id]_nodeVars

-----------------------------------------------------------------------------
(* The inductive invariant, besides that of RequestGate.                   *)

\* A peer id is announced only when its key is in the file, and the file is written
\* only while nothing has been announced.
IdentityOK ==
    /\ announced \subseteq {keyFile} \cap Keys
    /\ phase = "writing" => keyFile = 0 /\ key \in Keys
    /\ phase \notin {"off", "opened", "writing"} => keyFile \in Keys /\ key = keyFile
===============================================================================
