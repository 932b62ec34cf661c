-------------------------- MODULE HttpDemo_proofs --------------------------
(***************************************************************************)
(* Proofs about the HTTP demo, for any queue, any addresses, any length of *)
(* an image and any places where operations fail.                          *)
(***************************************************************************)
EXTENDS HttpDemo, TLAPS

USE DemoAssumption

LEMMA DemoTypeInit == DemoInit => DemoTypeOK
<1> SUFFICES ASSUME DemoInit PROVE DemoTypeOK
  OBVIOUS
<1>1. {initialized, eth_netif, link, told, netif_up, available, ethernet_up,
       http_server, running, says_up, unreported, unready, leaked} \subseteq BOOLEAN
  BY DEF DemoInit
<1>2. /\ queue \in Seq({"up", "down", "ip"}) /\ Len(queue) <= QueueLen
      /\ chunks \in 0 .. MaxChunks
  BY DEF DemoInit
<1>. QED
  BY <1>1, <1>2 DEF DemoInit, DemoTypeOK, MainLabels, LoopLabels, HandlerLabels

LEMMA DemoTypeMain == DemoTypeOK /\ AppMain => DemoTypeOK'
BY DEF DemoTypeOK, AppMain, Probe, DemoUp, Register, Install, Attach, EthStart, Main, MainLabels,
   network, data, server, request, trouble

LEMMA DemoTypeNetwork == DemoTypeOK /\ (Cable \/ ReportLink \/ GotIp) => DemoTypeOK'
<1> SUFFICES ASSUME DemoTypeOK, Cable \/ ReportLink \/ GotIp PROVE DemoTypeOK'
  OBVIOUS
<1>1. queue' \in Seq({"up", "down", "ip"}) /\ Len(queue') <= QueueLen
  <2>. queue \in Seq({"up", "down", "ip"}) /\ Len(queue) <= QueueLen /\ Len(queue) \in Nat
    BY DEF DemoTypeOK
  <2>1. queue' = queue \/ \E e \in {"up", "down", "ip"} : Post(e)
    BY DEF Cable, ReportLink, GotIp
  <2>. QED
    BY <2>1 DEF Post, Room
<1>2. /\ {link', told', netif_up', unreported', unready'} \subseteq BOOLEAN
      /\ address' \in Addresses \cup {None}
  BY DEF DemoTypeOK, Cable, ReportLink, GotIp, Room
<1>. QED
  BY <1>1, <1>2 DEF DemoTypeOK, Cable, ReportLink, GotIp, Outside, app, data, server, request

LEMMA DemoTypeLoop == DemoTypeOK /\ EventLoop => DemoTypeOK'
<1> SUFFICES ASSUME DemoTypeOK, EventLoop PROVE DemoTypeOK'
  OBVIOUS
<1>1. UNCHANGED <<app, request>> /\ loop' \in LoopLabels
  BY DEF EventLoop, TakeUp, TakeDown, TakeIp, DataUp, IpUp, DataUpFails, SetAvailable, ServerRuns,
     StartServer, StartFails, RegisterStatus, RegisterImage, RegisterUri, RegisterFails,
     StopServer, StopFails, DataDown, IpDown, DataDownFails, Loop, LoopLabels
<1>2. queue' \in Seq({"up", "down", "ip"}) /\ Len(queue') <= QueueLen
  <2>. queue \in Seq({"up", "down", "ip"}) /\ Len(queue) <= QueueLen /\ Len(queue) \in Nat
    BY DEF DemoTypeOK
  <2>1. queue' = queue \/ (queue # <<>> /\ queue' = Tail(queue))
    BY DEF EventLoop, TakeUp, TakeDown, TakeIp, DataUp, IpUp, DataUpFails, SetAvailable, ServerRuns,
       StartServer, StartFails, RegisterStatus, RegisterImage, RegisterUri, RegisterFails,
       StopServer, StopFails, DataDown, IpDown, DataDownFails, Goes, Loops
  <2>. QED
    BY <2>1
<1>3. /\ {link', told', netif_up', available', ethernet_up', http_server', running',
          unreported', unready', leaked'} \subseteq BOOLEAN
      /\ uris' \subseteq {"/status", "/image"}
      /\ {address', ip_info', ip'} \subseteq Addresses \cup {None}
      /\ data_lock' \in {"free", "loop", "handler"}
  BY DEF DemoTypeOK, EventLoop, TakeUp, TakeDown, TakeIp, DataUp, IpUp, DataUpFails, SetAvailable,
     ServerRuns, StartServer, StartFails, RegisterStatus, RegisterImage, RegisterUri, RegisterFails,
     StopServer, StopFails, DataDown, IpDown, DataDownFails, Goes, Fine, Loops, StopHttpd, network,
     data, server, trouble
<1>. QED
  BY <1>1, <1>2, <1>3 DEF DemoTypeOK, app, request

LEMMA DemoTypeHttpd == DemoTypeOK /\ (Request \/ Httpd) => DemoTypeOK'
<1> SUFFICES ASSUME DemoTypeOK, Request \/ Httpd PROVE DemoTypeOK'
  OBVIOUS
<1>1. /\ UNCHANGED <<app, network, queue, loop, available, ip_info, ethernet_up, ip, server,
                     trouble>>
      /\ handler' \in HandlerLabels
  BY DEF Request, Httpd, Refuse, Proceed, Snapshot, Copy, SnapshotFails, Count, Allocate,
     NewClient, Open, Headers, Chunk, EndOfImage, LastChunk, ImageFails, ImageStep, Reply, Serve,
     HandlerLabels, ImageLabels
<1> USE DEF Request, Httpd, Refuse, Proceed, Snapshot, Copy, SnapshotFails, Count, Allocate,
            NewClient, Open, Headers, Chunk, EndOfImage, LastChunk, ImageFails, ImageStep, Reply
<1>2. /\ answer' \in {answer, "none", "ok", "500", "502", "503"}
      /\ says_up' \in {says_up, ethernet_up, FALSE} /\ says_ip' \in {says_ip, ip, None}
      /\ data_lock' \in {data_lock, "free", "handler"}
  OBVIOUS
<1>3. held' \subseteq held \cup {"buffer", "client", "connection"}
  OBVIOUS
<1>4. chunks' \in 0 .. MaxChunks
  BY DEF DemoTypeOK
<1>. QED
  BY <1>1, <1>2, <1>3, <1>4 DEF DemoTypeOK, app, network, server, trouble

LEMMA DemoTypeKept == DemoTypeOK /\ [DemoNext]_demoVars => DemoTypeOK'
<1>1. DemoTypeOK /\ UNCHANGED demoVars => DemoTypeOK'
  BY DEF DemoTypeOK, demoVars, app, network, data, server, request, trouble
<1>. QED
  BY <1>1, DemoTypeMain, DemoTypeNetwork, DemoTypeLoop, DemoTypeHttpd DEF DemoNext

(* Every variable keeps its type, and the queue its bound.                 *)
THEOREM DemoTypeCorrect == DemoSpec => []DemoTypeOK
BY DemoTypeInit, DemoTypeKept, PTL DEF DemoSpec

-----------------------------------------------------------------------------
(* The server.  Once httpd_stop has failed, the port is taken for good.    *)
(* Otherwise a server is there while the demo is available, from the start *)
(* to the stop, and the data says "up" as long as it is there.             *)
ServerInv ==
  /\ running <=> http_server \/ leaked
  /\ ~(http_server /\ leaked)
  /\ http_server => ethernet_up
  /\ loop \in {"ip_up", "available", "start", "register_status", "register_image"}
       => ethernet_up
  /\ loop \in {"start", "register_status", "register_image"} => available
  /\ loop \in {"stop", "undo", "data_down", "ip_down"} => ~available
  /\ loop \in {"undo", "data_down", "ip_down"} => ~http_server
  /\ loop \in {"register_status", "register_image"} => http_server
  /\ loop \in {"idle", "data_up", "ip_up", "available"} => (available <=> http_server)
  /\ loop = "register_image" => "/status" \in uris
  /\ loop \in {"idle", "data_up", "ip_up", "available", "start"} /\ http_server
       => {"/status", "/image"} \subseteq uris

LEMMA ServerLoop == DemoTypeOK /\ ServerInv /\ EventLoop => ServerInv'
<1> SUFFICES ASSUME DemoTypeOK, ServerInv, EventLoop PROVE ServerInv'
  OBVIOUS
<1> USE DEF ServerInv, Loop, Loops, Goes, Fine, server, data, trouble
<1>1. CASE TakeUp
  BY <1>1 DEF TakeUp
<1>2. CASE TakeDown
  <2>1. CASE eth_netif /\ initialized
    BY <1>2, <2>1 DEF TakeDown
  <2>2. CASE ~(eth_netif /\ initialized)
    <3>1. available' = available /\ loop = "idle" /\ loop' = "idle"
      BY <1>2, <2>2 DEF TakeDown, DemoTypeOK
    <3>. QED
      BY <1>2, <3>1 DEF TakeDown
  <2>. QED
    BY <2>1, <2>2
<1>3. CASE TakeIp
  BY <1>3 DEF TakeIp
<1>4. CASE DataUp \/ IpUp \/ DataUpFails \/ SetAvailable \/ ServerRuns
  BY <1>4 DEF DataUp, IpUp, DataUpFails, SetAvailable, ServerRuns
<1>5. CASE StartServer \/ StartFails
  BY <1>5 DEF StartServer, StartFails
<1>6. CASE RegisterStatus \/ RegisterImage
  BY <1>6 DEF RegisterStatus, RegisterImage, RegisterUri
<1>7. CASE RegisterFails
  BY <1>7 DEF RegisterFails, StopHttpd
<1>8. CASE DataDown \/ IpDown \/ DataDownFails
  BY <1>8 DEF DataDown, IpDown, DataDownFails
<1>9. CASE StopServer \/ StopFails
  BY <1>9 DEF StopServer, StopFails, StopHttpd
<1>. QED
  BY <1>1, <1>2, <1>3, <1>4, <1>5, <1>6, <1>7, <1>8, <1>9 DEF EventLoop

LEMMA ServerKept == DemoTypeOK /\ ServerInv /\ [DemoNext]_demoVars => ServerInv'
<1> SUFFICES ASSUME DemoTypeOK, ServerInv, [DemoNext]_demoVars PROVE ServerInv'
  OBVIOUS
<1>1. CASE UNCHANGED <<loop, available, ethernet_up, server, leaked>>
  BY <1>1 DEF ServerInv, server
<1>2. CASE AppMain \/ Cable \/ ReportLink \/ GotIp
  BY <1>1, <1>2 DEF AppMain, Probe, DemoUp, Register, Install, Attach, EthStart, Main, Cable,
     ReportLink, GotIp, Outside, data, trouble
<1>3. CASE Request \/ Httpd
  BY <1>1, <1>3 DEF Request, Httpd, Refuse, Proceed, Snapshot, Copy, SnapshotFails, Count, Allocate,
     NewClient, Open, Headers, Chunk, EndOfImage, LastChunk, ImageFails, ImageStep, Reply, Serve,
     trouble
<1>. QED
  BY <1>1, <1>2, <1>3, ServerLoop DEF DemoNext, demoVars, data, trouble

LEMMA ServerInvariant == DemoSpec => [](DemoTypeOK /\ ServerInv)
<1>1. DemoInit => ServerInv
  BY DEF DemoInit, ServerInv
<1>. QED
  BY <1>1, DemoTypeInit, DemoTypeKept, ServerKept, PTL DEF DemoSpec

(* Between two events available and the server agree, whatever step of a   *)
(* start or a stop failed (demo.c:37-91).                                  *)
THEOREM AvailableServesHolds == DemoSpec => []AvailableServes
<1>1. DemoTypeOK /\ ServerInv => AvailableServes
  BY DEF DemoTypeOK, ServerInv, AvailableServes
<1>. QED
  BY <1>1, ServerInvariant, PTL

-----------------------------------------------------------------------------
(* The lock of the data is held by the loop between its two writes, and by *)
(* the handler while it copies: then nothing it has copied changes.        *)
LockInv ==
  /\ data_lock = "loop" <=> loop \in {"ip_up", "ip_down"}
  /\ data_lock = "handler" <=> handler = "copy"
  /\ handler = "copy" => says_up = ethernet_up

LEMMA LockKept == DemoTypeOK /\ LockInv /\ [DemoNext]_demoVars => LockInv'
<1> SUFFICES ASSUME DemoTypeOK, LockInv, [DemoNext]_demoVars PROVE LockInv'
  OBVIOUS
<1> USE DEF LockInv
<1>1. CASE UNCHANGED <<loop, handler, says_up, data_lock, ethernet_up>>
  BY <1>1
<1>2. CASE AppMain \/ Cable \/ ReportLink \/ GotIp
  BY <1>1, <1>2 DEF AppMain, Probe, DemoUp, Register, Install, Attach, EthStart, Main, Cable,
     ReportLink, GotIp, Outside, data, request
<1>3. CASE EventLoop
  <2>1. UNCHANGED <<handler, says_up>>
    BY <1>3 DEF EventLoop, TakeUp, TakeDown, TakeIp, DataUp, IpUp, DataUpFails, SetAvailable,
       ServerRuns, StartServer, StartFails, RegisterStatus, RegisterImage, RegisterUri,
       RegisterFails, StopServer, StopFails, DataDown, IpDown, DataDownFails, Loop, request
  <2>2. CASE DataUp \/ DataDown
    BY <2>1, <2>2 DEF DataUp, DataDown, Loop
  <2>3. CASE IpUp \/ IpDown
    BY <2>1, <2>3 DEF IpUp, IpDown, Loop
  <2>4. CASE ~(DataUp \/ IpUp \/ DataDown \/ IpDown)
    <3>1. /\ UNCHANGED <<data_lock, ethernet_up>>
          /\ loop \notin {"ip_up", "ip_down"} /\ loop' \notin {"ip_up", "ip_down"}
      BY <1>3, <2>4 DEF EventLoop, TakeUp, TakeDown, TakeIp, DataUpFails, SetAvailable,
         ServerRuns, StartServer, StartFails, RegisterStatus, RegisterImage, RegisterUri,
         RegisterFails, StopServer, StopFails, DataDownFails, Loop, data
    <3>. QED
      BY <2>1, <3>1
  <2>. QED
    BY <2>2, <2>3, <2>4
<1>4. CASE Request \/ Httpd
  <2>1. UNCHANGED <<loop, ethernet_up>>
    BY <1>4 DEF Request, Httpd, Refuse, Proceed, Snapshot, Copy, SnapshotFails, Count, Allocate,
       NewClient, Open, Headers, Chunk, EndOfImage, LastChunk, ImageFails, ImageStep, Reply, Serve
  <2>2. CASE Snapshot \/ Copy
    BY <2>1, <2>2 DEF Snapshot, Copy, Reply, Serve
  <2>3. CASE ~(Snapshot \/ Copy)
    <3>1. data_lock' = data_lock /\ handler # "copy" /\ handler' # "copy"
      BY <1>4, <2>3 DEF Request, Httpd, Refuse, Proceed, SnapshotFails, Count, Allocate,
         NewClient, Open, Headers, Chunk, EndOfImage, LastChunk, ImageFails, ImageStep, Reply,
         Serve, ImageLabels
    <3>. QED
      BY <2>1, <3>1
  <2>. QED
    BY <2>2, <2>3
<1>. QED
  BY <1>1, <1>2, <1>3, <1>4 DEF DemoNext, demoVars, data, request

LEMMA CopyIsRecent ==
  DemoTypeOK /\ LockInv /\ [DemoNext]_demoVars
    => (answer # "ok" /\ answer' = "ok"
          => data_lock # "loop" /\ says_up' = ethernet_up /\ says_ip' = ip)
<1> SUFFICES ASSUME LockInv, [DemoNext]_demoVars, answer # "ok", answer' = "ok"
             PROVE  data_lock # "loop" /\ says_up' = ethernet_up /\ says_ip' = ip
  OBVIOUS
<1>1. Copy
  BY DEF DemoNext, demoVars, AppMain, Probe, DemoUp, Register, Install, Attach, EthStart, Main,
     Cable, ReportLink, GotIp, Outside, EventLoop, TakeUp, TakeDown, TakeIp, DataUp, IpUp,
     DataUpFails, SetAvailable, ServerRuns, StartServer, StartFails, RegisterStatus, RegisterImage,
     RegisterUri, RegisterFails, StopServer, StopFails, DataDown, IpDown, DataDownFails, Loop,
     Request, Httpd, Refuse, Proceed, Snapshot, SnapshotFails, Count, Allocate, NewClient, Open,
     Headers, Chunk, EndOfImage, LastChunk, ImageFails, ImageStep, Reply, request
<1>. QED
  BY <1>1 DEF Copy, Reply, Serve, LockInv

(* An answer with status "ok" tells the data as the last write left it,    *)
(* never half of a write that is going on, for any addresses               *)
(* (demo_data.c:65-75, 84-93 and 106-113).                                 *)
THEOREM AnswersRecentHolds == DemoSpec => AnswersRecent
<1>1. DemoInit => LockInv
  BY DEF DemoInit, LockInv
<1>2. DemoSpec => [](DemoTypeOK /\ LockInv)
  BY <1>1, DemoTypeInit, DemoTypeKept, LockKept, PTL DEF DemoSpec
<1>. QED
  BY <1>2, CopyIsRecent, PTL DEF DemoSpec, AnswersRecent

-----------------------------------------------------------------------------
(* The handlers.  A handler runs in a server that is there, so its reading *)
(* of the data says "up"; an answer that is sent stays as it is.           *)
HandlerInv ==
  /\ handler # "idle" => running
  /\ handler = "copy" => says_up \/ leaked
  /\ OkMeansUp

LEMMA HandlerKept == DemoTypeOK /\ ServerInv /\ HandlerInv /\ [DemoNext]_demoVars => HandlerInv'
<1> SUFFICES ASSUME DemoTypeOK, ServerInv, HandlerInv, [DemoNext]_demoVars PROVE HandlerInv'
  OBVIOUS
<1> USE DEF HandlerInv, OkMeansUp
<1>1. CASE UNCHANGED <<running, leaked, handler, answer, says_up>>
  BY <1>1
<1>2. CASE AppMain \/ Cable \/ ReportLink \/ GotIp
  BY <1>1, <1>2 DEF AppMain, Probe, DemoUp, Register, Install, Attach, EthStart, Main, Cable,
     ReportLink, GotIp, Outside, server, request, trouble
<1>3. CASE EventLoop
  <2>1. UNCHANGED <<handler, answer, says_up>> /\ (leaked => leaked')
    BY <1>3 DEF EventLoop, TakeUp, TakeDown, TakeIp, DataUp, IpUp, DataUpFails, SetAvailable, ServerRuns,
       StartServer, StartFails, RegisterStatus, RegisterImage, RegisterUri, RegisterFails,
       StopServer, StopFails, DataDown, IpDown, DataDownFails, Loop, Goes, Fine, request, trouble, DemoTypeOK
  <2>2. handler # "idle" => (running => running')
    BY <1>3 DEF EventLoop, TakeUp, TakeDown, TakeIp, DataUp, IpUp, DataUpFails, SetAvailable, ServerRuns,
       StartServer, StartFails, RegisterStatus, RegisterImage, RegisterUri, RegisterFails,
       StopServer, StopFails, DataDown, IpDown, DataDownFails, Goes, StopHttpd, server
  <2>. QED
    BY <2>1, <2>2
<1>4. CASE Request \/ Httpd
  <2>1. UNCHANGED <<running, leaked>> /\ running
    BY <1>4 DEF Request, Httpd, Refuse, Proceed, Snapshot, Copy, SnapshotFails, Count, Allocate,
       NewClient, Open, Headers, Chunk, EndOfImage, LastChunk, ImageFails, ImageStep, Reply, Serve,
       server, trouble, ImageLabels
  <2>2. CASE Snapshot
    <3>1. ethernet_up \/ leaked
      BY <2>1 DEF ServerInv
    <3>. QED
      BY <2>1, <2>2, <3>1 DEF Snapshot, Serve
  <2>3. CASE Copy
    BY <2>1, <2>3 DEF Copy, Reply, Serve
  <2>4. CASE ~Snapshot /\ ~Copy
    <3>1. /\ answer' = "ok" => answer = "ok" /\ says_up' = says_up
          /\ handler' # "copy"
      BY <1>4, <2>4 DEF Request, Httpd, Refuse, Proceed, SnapshotFails, Count, Allocate,
         NewClient, Open, Headers, Chunk, EndOfImage, LastChunk, ImageFails, ImageStep, Reply,
         Serve
    <3>. QED
      BY <2>1, <3>1
  <2>. QED
    BY <2>2, <2>3, <2>4
<1>. QED
  BY <1>1, <1>2, <1>3, <1>4 DEF DemoNext, demoVars, server, request, trouble

(* An answer with status "ok" says "up", whenever the link goes down       *)
(* between the test of available and the reading of the snapshot           *)
(* (demo_http_server.c:13 and 24), but for a server that could not be      *)
(* stopped.                                                                *)
THEOREM OkMeansUpHolds == DemoSpec => []OkMeansUp
<1>1. DemoInit => HandlerInv
  BY DEF DemoInit, HandlerInv, OkMeansUp
<1>. QED
  BY <1>1, ServerInvariant, HandlerKept, PTL DEF DemoSpec, HandlerInv

-----------------------------------------------------------------------------
(* What a download holds at each of its steps.                             *)
DownloadInv ==
  /\ handler \notin {"client", "open", "status", "read"} => held = {}
  /\ handler = "client" => held \subseteq {"buffer"}
  /\ handler = "open" => held \subseteq {"buffer", "client"}

LEMMA DownloadKept == DemoTypeOK /\ DownloadInv /\ [DemoNext]_demoVars => DownloadInv'
<1> SUFFICES ASSUME DemoTypeOK, DownloadInv, [DemoNext]_demoVars PROVE DownloadInv'
  OBVIOUS
<1>. held \subseteq {"buffer", "client", "connection"} /\ handler \in HandlerLabels
  BY DEF DemoTypeOK
<1> USE DEF DownloadInv
<1>1. CASE UNCHANGED request
  BY <1>1 DEF request
<1>2. CASE AppMain \/ Cable \/ ReportLink \/ GotIp
  BY <1>1, <1>2 DEF AppMain, Probe, DemoUp, Register, Install, Attach, EthStart, Main, Cable,
     ReportLink, GotIp, Outside
<1>3. CASE EventLoop
  BY <1>1, <1>3 DEF EventLoop, TakeUp, TakeDown, TakeIp, DataUp, IpUp, DataUpFails, SetAvailable,
     ServerRuns, StartServer, StartFails, RegisterStatus, RegisterImage, RegisterUri, RegisterFails,
     StopServer, StopFails, DataDown, IpDown, DataDownFails, Loop
<1>4. CASE Request \/ Refuse \/ Proceed \/ Snapshot \/ Copy \/ SnapshotFails \/ Count
  BY <1>4 DEF Request, Refuse, Proceed, Snapshot, Copy, SnapshotFails, Count, Reply, Serve
<1>5. CASE Allocate \/ NewClient \/ Open \/ Headers
  BY <1>5 DEF Allocate, NewClient, Open, Headers, ImageStep, Serve
<1>6. CASE Chunk \/ EndOfImage \/ LastChunk
  BY <1>6 DEF Chunk, EndOfImage, LastChunk, ImageStep, Serve
<1>7. CASE ImageFails
  <2>1. handler \in ImageLabels /\ handler' = "count" /\ held' = held \ Freed(handler)
    BY <1>7 DEF ImageFails, Reply, Serve
  <2>2. held' = {}
    <3>1. Freed("client") = {"buffer"} /\ Freed("open") = {"buffer", "client"}
      BY DEF Freed
    <3>2. Freed("status") = {"buffer", "client", "connection"}
          /\ Freed("read") = {"buffer", "client", "connection"}
      BY DEF Freed
    <3>. QED
      BY <2>1, <3>1, <3>2 DEF ImageLabels
  <2>. QED
    BY <2>1, <2>2
<1>. QED
  BY <1>1, <1>2, <1>3, <1>4, <1>5, <1>6, <1>7 DEF DemoNext, Httpd, demoVars

(* A download frees what it holds on every path                            *)
(* (demo_image_client.c:43-118).                                           *)
THEOREM DownloadFreesHolds == DemoSpec => []DownloadFrees
<1>1. DemoInit => DownloadInv
  BY DEF DemoInit, DownloadInv
<1>2. DownloadInv => DownloadFrees
  BY DEF DownloadInv, DownloadFrees, ImageLabels
<1>. QED
  BY <1>1, <1>2, DemoTypeInit, DemoTypeKept, DownloadKept, PTL DEF DemoSpec

=============================================================================
