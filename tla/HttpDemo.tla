------------------------------ MODULE HttpDemo ------------------------------
(***************************************************************************)
(* The HTTP demo: app_main, which brings the system up; the event loop,    *)
(* which runs eth_event_handler and got_ip_event_handler and so starts and *)
(* stops the server; and the thread of the server, which runs the handlers *)
(* of /status and /image.  ESP-IDF (the network stack with its DHCP        *)
(* client, the event loop, esp_http_server, esp_http_client) is external.  *)
(***************************************************************************)
EXTENDS Naturals, Sequences

CONSTANTS
  QueueLen,   (* room of the queue of the event loop                       *)
  Addresses,  (* the IP addresses that DHCP gives                          *)
  None,       (* no address: 0.0.0.0                                       *)
  MaxChunks,  (* the chunks of an image                                    *)
  FaultAt     (* the labels of the loop that may fail                      *)

MainLabels == {"probe", "init", "register", "install", "attach", "start",
               "done", "halted"}
LoopLabels == {"idle", "data_up", "ip_up", "available", "start",
               "register_status", "register_image", "undo", "stop",
               "data_down", "ip_down"}
ImageLabels   == {"buffer", "client", "open", "status", "read", "last"}
HandlerLabels == {"idle", "test_status", "test_image", "snapshot", "copy",
                  "count"} \cup ImageLabels

ASSUME DemoAssumption ==
  /\ QueueLen \in Nat \ {0} /\ MaxChunks \in Nat /\ None \notin Addresses
  /\ FaultAt \subseteq LoopLabels

VARIABLES
  main,        (* the label of app_main                                    *)
  initialized, (* demo_context, demo_data_context                          *)
  eth_netif,   (* app_context.eth_netif is set                             *)
  link,        (* the cable                                                *)
  told,        (* the link as last posted to the event loop                *)
  netif_up, address,
               (* of the network stack: link and address                   *)
  queue,       (* the events posted and not handled                        *)
  loop,        (* the label of the event loop                              *)
  available,   (* demo_context.available                                   *)
  ip_info,     (* a local of demo_data_set_network_ready                   *)
  ethernet_up, ip,
               (* the snapshot of demo_data_context: two of its fields     *)
  data_lock,   (* its lock: "free", or held by the "loop" or the "handler" *)
  http_server, (* the handle is not NULL                                   *)
  running,     (* the server has the port                                  *)
  uris,        (* the handlers registered with it                          *)
  handler,     (* the label of the thread of the server                    *)
  answer,      (* the status line of the answer that is being sent         *)
  says_up, says_ip,
               (* the copy of the snapshot, for that answer                *)
  chunks,      (* of the image, passed on                                  *)
  held,        (* what demo_image_client_stream_jpeg holds                 *)
  unreported,  (* history: the last report of the link was not posted      *)
  unready,     (* history: demo_on_network_ready failed for this address,  *)
               (* or was not called for it                                 *)
  leaked       (* history: httpd_stop failed, and left a server running    *)

app     == <<main, initialized, eth_netif>>
network == <<link, told, netif_up, address, unreported>>
data    == <<ip_info, ethernet_up, ip, data_lock>>
server  == <<http_server, running, uris>>
trouble == <<unready, leaked>>
request == <<handler, answer, says_up, says_ip, chunks, held>>
demoVars ==
  <<app, network, queue, loop, available, data, server, request, trouble>>

DemoInit ==
  /\ main = "probe" /\ initialized = FALSE /\ eth_netif = FALSE
  /\ link \in BOOLEAN /\ told = FALSE /\ netif_up = FALSE /\ address = None
  /\ queue = <<>> /\ loop = "idle" /\ available = FALSE
  /\ ip_info = None /\ ethernet_up = FALSE /\ ip = None /\ data_lock = "free"
  /\ http_server = FALSE /\ running = FALSE /\ uris = {}
  /\ handler = "idle" /\ answer = "none" /\ says_up = FALSE /\ says_ip = None
  /\ chunks = 0 /\ held = {}
  /\ unreported = FALSE /\ unready = FALSE /\ leaked = FALSE

---------------------------------------------------------------------------
(* app_main.  A check that fails, or another chip version, ends it: "probe"*)
(* is init, hard reset, version, soft reset, version; "install" makes the  *)
(* MAC, the PHY and the driver.  Events come once the driver is started.   *)
Main(label, then) ==
  /\ main = label /\ main' \in {then, "halted"}
  /\ UNCHANGED <<network, queue, loop, available, data, server, request, trouble>>

Probe    == Main("probe", "init") /\ UNCHANGED <<initialized, eth_netif>>
DemoUp   == Main("init", "register")
            /\ initialized' = (main' = "register") /\ UNCHANGED eth_netif
Register == Main("register", "install") /\ UNCHANGED <<initialized, eth_netif>>

Install  == Main("install", "attach")
            /\ eth_netif' = (main' = "attach") /\ UNCHANGED initialized
Attach   == Main("attach", "start") /\ UNCHANGED <<initialized, eth_netif>>
EthStart == Main("start", "done") /\ UNCHANGED <<initialized, eth_netif>>

AppMain == Probe \/ DemoUp \/ Register \/ Install \/ Attach \/ EthStart

---------------------------------------------------------------------------
(* The network: the cable; the link as w5500_phy_get_link reports it,      *)
(* which notes the new link first and does not repeat a report that finds  *)
(* the queue full; the address, which DHCP finds once the stack knows of   *)
(* the link, and may change later.                                         *)
Outside == UNCHANGED <<app, loop, available, data, server, request, leaked>>

Cable == link' = ~link
         /\ UNCHANGED <<told, netif_up, address, unreported, queue, unready>> /\ Outside

Room == Len(queue) < QueueLen

Post(event) == queue' = IF Room THEN Append(queue, event) ELSE queue

ReportLink ==
  /\ main = "done" /\ told # link
  /\ Post(IF link THEN "up" ELSE "down")
  /\ told' = link /\ unreported' = ~Room
  /\ UNCHANGED <<link, netif_up, address, unready>> /\ Outside

GotIp ==
  /\ netif_up
  /\ address' \in Addresses /\ Post("ip")
  /\ unready' = (unready \/ ~Room)
  /\ UNCHANGED <<link, told, netif_up, unreported>> /\ Outside

---------------------------------------------------------------------------
(* The event loop: one event at a time, with what the stack does about it. *)
Loop(label, then) == loop = label /\ loop' = then /\ UNCHANGED <<app, request>>
MayFail == loop \in FaultAt
Fine    == UNCHANGED trouble

TakeUp ==
  /\ queue # <<>> /\ Head(queue) = "up" /\ Loop("idle", "idle")
  /\ queue' = Tail(queue) /\ netif_up' = TRUE
  /\ UNCHANGED <<link, told, address, unreported, available, data, server>> /\ Fine

(* eth_event_handler, demo_on_network_down.                                *)
(* Mutant: the data is set before the server is stopped.                   *)
TakeDownDataFirst ==
  /\ queue # <<>> /\ Head(queue) = "down" /\ Loop("idle", "stop")
  /\ queue' = Tail(queue) /\ netif_up' = FALSE /\ address' = None
  /\ available' = FALSE /\ ethernet_up' = FALSE
  /\ UNCHANGED <<link, told, unreported, ip_info, ip, data_lock, server>> /\ Fine

TakeDown ==
  /\ queue # <<>> /\ Head(queue) = "down"
  /\ Loop("idle", IF eth_netif /\ initialized THEN "stop" ELSE "idle")
  /\ queue' = Tail(queue) /\ netif_up' = FALSE /\ address' = None
  /\ available' = (available /\ ~(eth_netif /\ initialized))
  /\ UNCHANGED <<link, told, unreported, data, server>> /\ Fine

(* got_ip_event_handler, demo_on_network_ready.                            *)
TakeIp ==
  /\ queue # <<>> /\ Head(queue) = "ip"
  /\ Loop("idle", IF eth_netif /\ initialized THEN "data_up" ELSE "idle")
  /\ queue' = Tail(queue) /\ unready' = FALSE
  /\ UNCHANGED <<network, available, data, server, leaked>>

Loops == UNCHANGED <<network, queue>>
Goes  == Loops /\ Fine

(* demo_data_set_network_ready: the fields are written one by one under    *)
(* the lock, which may not be free for 100 ms.                             *)
DataUp ==
  /\ data_lock = "free" /\ Loop("data_up", "ip_up")
  /\ data_lock' = "loop" /\ ip_info' = address /\ ethernet_up' = TRUE
  /\ UNCHANGED <<ip, available, server>> /\ Goes

IpUp ==
  /\ Loop("ip_up", "available")
  /\ ip' = ip_info /\ data_lock' = "free"
  /\ UNCHANGED <<ip_info, ethernet_up, available, server>> /\ Goes

DataUpFails ==
  /\ Loop("data_up", "idle") /\ ~(data_lock = "free" /\ ~MayFail)
  /\ unready' = TRUE
  /\ UNCHANGED <<data, available, server, leaked>> /\ Loops

SetAvailable ==
  /\ Loop("available", "start")
  /\ available' = TRUE
  /\ UNCHANGED <<data, server>> /\ Goes

(* demo_http_server_start: httpd_start needs the port.                     *)
ServerRuns ==
  /\ http_server /\ Loop("start", "idle")
  /\ UNCHANGED <<available, data, server>> /\ Goes

StartServer ==
  /\ ~http_server /\ ~running /\ Loop("start", "register_status")
  /\ http_server' = TRUE /\ running' = TRUE
  /\ UNCHANGED <<uris, available, data>> /\ Goes

(* Mutants: the demo stays available; the start is repeated until it works.*)
StartFailsAvailable ==
  /\ ~http_server /\ (MayFail \/ running) /\ Loop("start", "undo")
  /\ unready' = TRUE
  /\ UNCHANGED <<available, data, server, leaked>> /\ Loops

StartFailsRetries ==
  /\ ~http_server /\ (MayFail \/ running) /\ Loop("start", "start")
  /\ UNCHANGED <<available, data, server>> /\ Goes

StartFails ==
  /\ ~http_server /\ (MayFail \/ running) /\ Loop("start", "undo")
  /\ available' = FALSE /\ unready' = TRUE
  /\ UNCHANGED <<data, server, leaked>> /\ Loops

RegisterUri(label, uri, then) ==
  /\ Loop(label, then)
  /\ uris' = uris \cup {uri}
  /\ UNCHANGED <<http_server, running, available, data>> /\ Goes

RegisterStatus == RegisterUri("register_status", "/status", "register_image")
RegisterImage  == RegisterUri("register_image", "/image", "idle")

(* httpd_stop waits for the handler that runs.                             *)
StopHttpd == handler = "idle" /\ running' = FALSE /\ uris' = {}

RegisterFails ==
  /\ loop \in {"register_status", "register_image"} /\ MayFail
  /\ Loop(loop, "undo")
  /\ \/ StopHttpd /\ UNCHANGED leaked
     \/ "stop" \in FaultAt /\ leaked' = TRUE /\ UNCHANGED <<running, uris>>
  /\ http_server' = FALSE /\ available' = FALSE /\ unready' = TRUE
  /\ UNCHANGED data /\ Loops

(* demo_data_set_network_down, also from the failed start.                 *)
DataDown ==
  /\ data_lock = "free"
  /\ Loop("undo", "ip_down") \/ Loop("data_down", "ip_down")
  /\ data_lock' = "loop" /\ ethernet_up' = FALSE
  /\ UNCHANGED <<ip_info, ip, available, server>> /\ Goes

IpDown ==
  /\ Loop("ip_down", "idle")
  /\ ip' = None /\ data_lock' = "free"
  /\ UNCHANGED <<ip_info, ethernet_up, available, server>> /\ Goes

DataDownFails ==
  /\ data_lock # "free"
  /\ Loop("undo", "idle") \/ Loop("data_down", "idle")
  /\ UNCHANGED <<data, available, server>> /\ Goes

(* demo_http_server_stop.  Mutant: the handle is kept.                     *)
StopServerKeeps ==
  /\ Loop("stop", "data_down")
  /\ IF http_server THEN StopHttpd ELSE UNCHANGED <<running, uris>>
  /\ UNCHANGED <<http_server, available, data>> /\ Goes

StopServer ==
  /\ Loop("stop", "data_down")
  /\ IF http_server THEN StopHttpd ELSE UNCHANGED <<running, uris>>
  /\ http_server' = FALSE
  /\ UNCHANGED <<available, data>> /\ Goes

StopFails ==
  /\ http_server /\ MayFail /\ Loop("stop", "idle")
  /\ http_server' = FALSE /\ leaked' = TRUE
  /\ UNCHANGED <<running, uris, available, data, unready>> /\ Loops

EventLoop ==
  \/ TakeUp \/ TakeDown \/ TakeIp \/ DataUp \/ IpUp \/ DataUpFails \/ SetAvailable
  \/ ServerRuns \/ StartServer \/ StartFails \/ RegisterStatus \/ RegisterImage
  \/ RegisterFails \/ StopServer \/ StopFails \/ DataDown \/ IpDown \/ DataDownFails

---------------------------------------------------------------------------
(* The thread of the server.  The outcome of an operation on the network   *)
(* is open.  A server that is being stopped takes no further request.      *)
Serve(label, then) ==
  /\ handler = label /\ handler' = then
  /\ UNCHANGED <<app, network, queue, loop, available, ip_info, ethernet_up, ip,
                 server, trouble>>

Request ==
  /\ running /\ ~(http_server /\ loop = "stop")
  /\ \E uri \in uris :
       Serve("idle", IF uri = "/status" THEN "test_status" ELSE "test_image")
  /\ UNCHANGED <<answer, says_up, says_ip, chunks, held, data_lock>>

(* An answer is sent, and counted whether or not it could be: the result   *)
(* of httpd_resp_sendstr is not looked at.                                 *)
Reply(label, status) == Serve(label, "count") /\ answer' = status

Refuse ==
  /\ ~available
  /\ \E label \in {"test_status", "test_image"} : Reply(label, "503")
  /\ UNCHANGED <<says_up, says_ip, chunks, held, data_lock>>

Proceed ==
  /\ available
  /\ Serve("test_status", "snapshot") \/ Serve("test_image", "buffer")
  /\ UNCHANGED <<answer, says_up, says_ip, chunks, held, data_lock>>

(* demo_data_get_snapshot copies the fields under the lock, or fails when  *)
(* that is not free for 100 ms.  Mutant: it copies them without.           *)
SnapshotUnlocked ==
  /\ Serve("snapshot", "copy")
  /\ says_up' = ethernet_up
  /\ UNCHANGED <<answer, says_ip, chunks, held, data_lock>>

Snapshot ==
  /\ data_lock = "free" /\ Serve("snapshot", "copy")
  /\ data_lock' = "handler" /\ says_up' = ethernet_up
  /\ UNCHANGED <<answer, says_ip, chunks, held>>

Copy ==
  /\ Reply("copy", "ok")
  /\ says_ip' = ip /\ data_lock' = "free"
  /\ UNCHANGED <<says_up, chunks, held>>

SnapshotFails ==
  /\ data_lock # "free" /\ Reply("snapshot", "500")
  /\ UNCHANGED <<says_up, says_ip, chunks, held, data_lock>>

(* demo_data_add_bytes: one step, since no other thread looks at           *)
(* bytes_transferred; without effect when the lock is not free for 100 ms. *)
Count ==
  /\ Serve("count", "idle")
  /\ answer' = "none" /\ says_up' = FALSE /\ says_ip' = None /\ chunks' = 0
  /\ UNCHANGED <<held, data_lock>>

(* demo_image_client_stream_jpeg: what each step holds, and frees when it  *)
(* fails; "read" goes round once per chunk.                                *)
ImageStep(label, then, holds) ==
  /\ Serve(label, then)
  /\ held' = holds
  /\ UNCHANGED <<answer, says_up, says_ip, data_lock>>

Allocate   == ImageStep("buffer", "client", {"buffer"}) /\ UNCHANGED chunks
NewClient  == ImageStep("client", "open", held \cup {"client"}) /\ UNCHANGED chunks
Open       == ImageStep("open", "status", held \cup {"connection"}) /\ UNCHANGED chunks
Headers    == ImageStep("status", "read", held) /\ UNCHANGED chunks
Chunk      == chunks < MaxChunks
              /\ ImageStep("read", "read", held) /\ chunks' = chunks + 1
EndOfImage == ImageStep("read", "last", {}) /\ UNCHANGED chunks
LastChunk  == ImageStep("last", "count", {}) /\ UNCHANGED chunks

(* Mutant: a failed open forgets the client.                               *)
FreedForgetful(label) ==
  CASE label = "client" -> {"buffer"}
    [] label = "open"   -> {"buffer"}
    [] label \in {"status", "read"} -> {"buffer", "client", "connection"}
    [] label \in {"buffer", "last"} -> {}

Freed(label) ==
  CASE label = "client" -> {"buffer"}
    [] label = "open"   -> {"buffer", "client"}
    [] label \in {"status", "read"} -> {"buffer", "client", "connection"}
    [] label \in {"buffer", "last"} -> {}

(* The answer is 502, also after chunks.                                   *)
ImageFails ==
  /\ handler \in ImageLabels
  /\ Reply(handler, "502")
  /\ held' = held \ Freed(handler)
  /\ UNCHANGED <<says_up, says_ip, chunks, data_lock>>

Httpd ==
  \/ Refuse \/ Proceed \/ Snapshot \/ Copy \/ SnapshotFails \/ Count
  \/ Allocate \/ NewClient \/ Open \/ Headers \/ Chunk \/ EndOfImage \/ LastChunk
  \/ ImageFails

DemoNext ==
  AppMain \/ Cable \/ ReportLink \/ GotIp \/ EventLoop \/ Request \/ Httpd

DemoSpec == DemoInit /\ [][DemoNext]_demoVars

(* The poll, DHCP, the event loop and a handler go on; app_main halts only *)
(* by a failure.                                                           *)
DemoFairSpec ==
  /\ DemoSpec
  /\ WF_demoVars(AppMain) /\ WF_demoVars(ReportLink)
  /\ WF_demoVars(address = None /\ GotIp)
  /\ WF_demoVars(EventLoop) /\ WF_demoVars(Httpd)

---------------------------------------------------------------------------
(* Every variable keeps the type it has in the code.                       *)
DemoTypeOK ==
  /\ main \in MainLabels /\ loop \in LoopLabels /\ handler \in HandlerLabels
  /\ {initialized, eth_netif, link, told, netif_up, available, ethernet_up,
      http_server, running, says_up, unreported, unready, leaked} \subseteq BOOLEAN
  /\ {address, ip_info, ip, says_ip} \subseteq Addresses \cup {None}
  /\ data_lock \in {"free", "loop", "handler"}
  /\ queue \in Seq({"up", "down", "ip"}) /\ Len(queue) <= QueueLen
  /\ uris \subseteq {"/status", "/image"}
  /\ answer \in {"none", "ok", "500", "502", "503"}
  /\ held \subseteq {"buffer", "client", "connection"}
  /\ chunks \in 0 .. MaxChunks

(* An answer with status "ok" tells of ethernet "up", although the handler *)
(* tests available before it reads the snapshot, and the link may go down  *)
(* in between (demo_http_server.c:13 and 24): demo_on_network_down stops   *)
(* the server, and so waits for the handler, before it sets the data.      *)
(* Only a server that could not be stopped answers otherwise.              *)
OkMeansUp == answer = "ok" => says_up \/ leaked

(* Between two events a demo that is available has a running server with   *)
(* both handlers and data that says so; one that is not has no server, but *)
(* for one that could not be stopped (demo.c:37-91, whatever step of the   *)
(* start failed).                                                          *)
AvailableServes ==
  loop = "idle" =>
    IF available
    THEN http_server /\ running /\ uris = {"/status", "/image"} /\ ethernet_up
    ELSE ~http_server /\ (running => leaked)

(* FR-09: an answer with status "ok" tells the data as it is when it was   *)
(* copied, both fields from the last write, which is complete              *)
(* (demo_data.c:65-75, 84-93 and 106-113).                                 *)
AnswersRecent ==
  [][answer # "ok" /\ answer' = "ok"
       => data_lock # "loop" /\ says_up' = ethernet_up /\ says_ip' = ip]_demoVars

(* A download that ended, on whatever path, has freed its buffer and its   *)
(* connection (demo_image_client.c:43-118).                                *)
DownloadFrees == handler \notin ImageLabels => held = {}

(* FR-06: with a link that stays, the server runs in the end.  Not so when *)
(* the system did not come up, a server could not be stopped, the queue    *)
(* was full for the last report of the link, or the address was not        *)
(* handled (the queue was full, or a step failed): nothing repeats those.  *)
ComesBack ==
  <>[](link /\ main # "halted" /\ ~unreported /\ ~unready /\ ~leaked)
    => <>[](available /\ running)

(* The event loop, which waits for the handler when it stops the server,   *)
(* comes back from every event (demo_http_server.c:156).                   *)
LoopReturns == loop # "idle" ~> loop = "idle"

(* FR-10, README.md:68: backend requests are rejected when the Ethernet    *)
(* interface is unavailable, and the event loop was told of it.            *)
RefusesWhenDown == <>[](~link /\ ~unreported) => <>[]~available
============================================================================
