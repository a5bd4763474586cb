--------------------------- MODULE StationProofs ---------------------------
(***************************************************************************)
(* Theorems about the tasks and what they open and close: Lifecycle by     *)
(* itself, for any number of disconnects and failed initialisations; the   *)
(* SIP socket in these surroundings (Station), where what was proved of    *)
(* the socket and of the tasks holds of the two together, and together     *)
(* they give what neither shows alone; and what an upload leaves behind    *)
(* (WebStation), for images of any number of parts and any number of       *)
(* uploads, resets and lost connections.                                   *)
(***************************************************************************)
EXTENDS Station, WebStation, Integers, TLAPS
------------------------------------------------------------------------------
(* Lifecycle *)

\* A client that is to run, or runs, has its SIP socket open, unless the event
\* handler has closed it and is on its way to stop the io_context.
OpenInv ==
    pc \in {"set_handler", "run"} /\ ~stopped /\ ~sip =>
        ev \in {"deinit_rtp", "stop"}

\* run() never serves a closed SIP socket while the event handler is at rest:
\* what sip_task saw of the socket before it runs is invalidated by deinit only,
\* and deinit is followed by a stop() that no restart() can have swallowed.
THEOREM RunsWithOpenSocket == Spec => []RunningMeansOpen
<1>1. Init => OpenInv
  BY DEF Init, OpenInv
<1>2. OpenInv /\ [Next]_vars => OpenInv'
  <2> SUFFICES ASSUME OpenInv, [Next]_vars
               PROVE  OpenInv'
    OBVIOUS
  <2> USE DEF OpenInv
  <2>1. CASE WaitForWifi
    BY <2>1 DEF WaitForWifi, Goto, handler
  <2>2. CASE CheckInitialized
    BY <2>2 DEF CheckInitialized, Goto, handler
  <2>3. CASE InitRtp
    BY <2>3 DEF InitRtp, Goto, handler
  <2>4. CASE InitSip
    <3>1. PICK open, success \in BOOLEAN :
              /\ SocketInit(sip, open, success)
              /\ sip' = open
              /\ result' = (resultRtp /\ success)
      BY <2>4 DEF InitSip
    <3>2. success => open
      BY <3>1 DEF SocketInit
    <3>3. result' => sip'
      BY <3>1, <3>2
    <3>4. pc' = "set_handler" => result'
      BY <2>4 DEF InitSip, Goto
    <3>5. pc' \in {"set_handler", "delay"}
      BY <2>4 DEF InitSip, Goto
    <3> QED BY <3>3, <3>4, <3>5
  <2>5. CASE Delay
    BY <2>5 DEF Delay, Goto, handler
  <2>6. CASE SetEventHandler
    BY <2>6 DEF SetEventHandler, Goto, handler
  <2>7. CASE RunReturns
    BY <2>7 DEF RunReturns, Goto, handler
  <2>8. CASE Restart
    BY <2>8 DEF Restart, Goto, handler
  <2>9. CASE DeinitSip
    BY <2>9 DEF DeinitSip, Step, Following, task
  <2>10. CASE DeinitRtp
    BY <2>10 DEF DeinitRtp, Step, Following, task
  <2>11. CASE Stop
    BY <2>11 DEF Stop, task
  <2>12. CASE WebServer \/ Connect \/ ClearBit \/ SetBit
    BY <2>12 DEF WebServer, Connect, ClearBit, SetBit, Step, task
  <2>13. CASE StaStart \/ StaDisconnected \/ GotIp
    BY <2>13 DEF StaStart, StaDisconnected, GotIp, task
  <2>14. CASE UNCHANGED vars
    BY <2>14 DEF vars, task, handler
  <2> QED
    BY <2>1, <2>2, <2>3, <2>4, <2>5, <2>6, <2>7, <2>8, <2>9, <2>10, <2>11,
       <2>12, <2>13, <2>14 DEF Next, SipTask, EventHandler
<1>3. OpenInv => RunningMeansOpen
  BY DEF OpenInv, RunningMeansOpen
<1> QED
  BY <1>1, <1>2, <1>3, PTL DEF Spec

\* Between init() and run() the started client is given its event handler.
HandlerInv == started => handlerSet \/ pc = "set_handler"

\* A started client has an event handler by the time it runs: ev_start is posted
\* under the very condition under which sip_task goes on to set_event_handler.
THEOREM StartsWithHandler == Spec => []HandlerSetBeforeStart
<1>1. Init => HandlerInv
  BY DEF Init, HandlerInv
<1>2. HandlerInv /\ [Next]_vars => HandlerInv'
  <2> SUFFICES ASSUME HandlerInv, [Next]_vars
               PROVE  HandlerInv'
    OBVIOUS
  <2> USE DEF HandlerInv
  <2>1. CASE InitSip
    <3>1. PICK success \in BOOLEAN :
              /\ result' = (resultRtp /\ success)
              /\ started' = Starts(resultRtp, success)
      BY <2>1 DEF InitSip
    <3>2. started' => result'
      BY <3>1 DEF Starts
    <3>3. result' => pc' = "set_handler"
      BY <2>1 DEF InitSip, Goto
    <3> QED BY <3>2, <3>3
  <2>2. CASE SetEventHandler
    BY <2>2 DEF SetEventHandler
  <2>3. CASE WaitForWifi \/ CheckInitialized \/ InitRtp \/ Delay
    BY <2>3 DEF WaitForWifi, CheckInitialized, InitRtp, Delay, Goto
  <2>4. CASE RunReturns \/ Restart
    BY <2>4 DEF RunReturns, Restart, Goto
  <2>5. CASE EventHandler \/ StaStart \/ StaDisconnected \/ GotIp
    BY <2>5 DEF EventHandler, DeinitSip, DeinitRtp, Stop, WebServer, Connect,
                ClearBit, SetBit, StaStart, StaDisconnected, GotIp, task
  <2>6. CASE UNCHANGED vars
    BY <2>6 DEF vars, task
  <2> QED
    BY <2>1, <2>2, <2>3, <2>4, <2>5, <2>6 DEF Next, SipTask
<1>3. HandlerInv => HandlerSetBeforeStart
  BY DEF HandlerInv, HandlerSetBeforeStart
<1> QED
  BY <1>1, <1>2, <1>3, PTL DEF Spec

\* The bit outlives the connection until ClearBit only, and is set with an IP.
BitInv ==
    /\ bit => link = "up" \/ ev \in {"deinit_sip", "deinit_rtp", "stop",
                                     "web_stop", "connect", "clear_bit"}
    /\ ev \in {"web_start", "set_bit"} => link = "up"

\* CONNECTED_BIT means an IP whenever the event handler is at rest.
THEOREM BitMeansIp == Spec => []ConnectedBitMeansIp
<1>1. Init => BitInv
  BY DEF Init, BitInv
<1>2. BitInv /\ [Next]_vars => BitInv'
  <2> SUFFICES ASSUME BitInv, [Next]_vars
               PROVE  BitInv'
    OBVIOUS
  <2> USE DEF BitInv
  <2>1. CASE SipTask
    BY <2>1 DEF SipTask, WaitForWifi, CheckInitialized, InitRtp, InitSip, Delay,
                SetEventHandler, RunReturns, Restart, handler
  <2>2. CASE DeinitSip \/ DeinitRtp \/ Stop
    BY <2>2 DEF DeinitSip, DeinitRtp, Stop, Step, Following
  <2>3. CASE WebServer
    BY <2>3 DEF WebServer, Step, Following
  <2>4. CASE Connect \/ ClearBit \/ SetBit
    BY <2>4 DEF Connect, ClearBit, SetBit, Step, Following
  <2>5. CASE StaStart \/ StaDisconnected \/ GotIp
    BY <2>5 DEF StaStart, StaDisconnected, GotIp, Following
  <2>6. CASE UNCHANGED vars
    BY <2>6 DEF vars, handler
  <2> QED
    BY <2>1, <2>2, <2>3, <2>4, <2>5, <2>6 DEF Next, EventHandler
<1>3. BitInv => ConnectedBitMeansIp
  BY DEF BitInv, ConnectedBitMeansIp
<1> QED
  BY <1>1, <1>2, <1>3, PTL DEF Spec
-----------------------------------------------------------------------------
(* Types *)

FlagsType ==
    /\ bit \in BOOLEAN /\ stopped \in BOOLEAN /\ sip \in BOOLEAN /\ rtp \in BOOLEAN
    /\ resultRtp \in BOOLEAN /\ result \in BOOLEAN
    /\ started \in BOOLEAN /\ handlerSet \in BOOLEAN

LEMMA FlagsTypeStep == FlagsType /\ [Next]_vars => FlagsType'
<1> SUFFICES ASSUME FlagsType, [Next]_vars PROVE FlagsType'
    OBVIOUS
<1> USE DEF FlagsType
<1>1. CASE SipTask /\ ~InitRtp /\ ~InitSip
    BY <1>1, Zenon
    DEF SipTask, WaitForWifi, CheckInitialized, Delay, SetEventHandler, RunReturns,
        Restart, Restarted, handler
<1>2. CASE InitRtp
    <2>1. rtp' \in BOOLEAN /\ resultRtp' \in BOOLEAN
        BY <1>2, Zenon DEF InitRtp
    <2>2. UNCHANGED <<result, started, handlerSet, bit, stopped, sip>>
        BY <1>2 DEF InitRtp, handler
    <2> QED
        BY <2>1, <2>2
<1>3. CASE InitSip
    <2>1. PICK open, success \in BOOLEAN :
              /\ sip' = open
              /\ result' = (resultRtp /\ success)
              /\ started' = Starts(resultRtp, success)
        BY <1>3, Zenon DEF InitSip
    <2>2. result' \in BOOLEAN /\ started' \in BOOLEAN /\ sip' \in BOOLEAN
        BY <2>1, Zenon DEF Starts
    <2>3. UNCHANGED <<resultRtp, handlerSet, bit, stopped, rtp>>
        BY <1>3 DEF InitSip, handler
    <2> QED
        BY <2>2, <2>3
<1>4. CASE EventHandler
    BY <1>4, Zenon
    DEF EventHandler, DeinitSip, DeinitRtp, Stop, WebServer, Connect, ClearBit, SetBit,
        task
<1>5. CASE StaStart \/ StaDisconnected \/ GotIp \/ UNCHANGED vars
    BY <1>5, Zenon DEF StaStart, StaDisconnected, GotIp, vars, task, handler
<1> QED
    BY <1>1, <1>2, <1>3, <1>4, <1>5 DEF Next

PlacesType ==
    /\ pc \in {"wait", "check", "init_rtp", "init_sip", "delay",
               "set_handler", "run", "restart"}
    /\ ev \in {"idle", "deinit_sip", "deinit_rtp", "stop", "web_stop",
               "connect", "clear_bit", "web_start", "set_bit"}
    /\ link \in {"off", "associating", "up", "down"}
    /\ disconnects \in 0..MaxDisconnects
    /\ failures \in 0..MaxFailures

LEMMA PlacesTypeStep == PlacesType /\ FlagsType /\ [Next]_vars => PlacesType'
<1> SUFFICES ASSUME PlacesType, FlagsType, [Next]_vars PROVE PlacesType'
    OBVIOUS
<1> USE DEF PlacesType
<1>1. CASE SipTask /\ ~InitRtp /\ ~InitSip
    BY <1>1
    DEF SipTask, WaitForWifi, CheckInitialized, Delay, SetEventHandler, RunReturns,
        Restart, Goto, handler
<1>2. CASE InitRtp \/ InitSip
    <2>1. \E open, openAfter, success \in BOOLEAN : SocketInit(open, openAfter, success)
        <3>1. sip \in BOOLEAN /\ rtp \in BOOLEAN
            BY DEF FlagsType
        <3> QED
            BY <1>2, <3>1 DEF InitRtp, InitSip
    <2>2. failures' \in 0..MaxFailures
        BY <2>1, LifecycleAssumption DEF SocketInit
    <2>3. pc' \in {"init_sip", "set_handler", "delay"} /\ UNCHANGED handler
        BY <1>2 DEF InitRtp, InitSip, Goto
    <2> QED
        BY <2>2, <2>3 DEF handler
<1>3. CASE EventHandler
    BY <1>3
    DEF EventHandler, DeinitSip, DeinitRtp, Stop, WebServer, Connect, ClearBit, SetBit,
        Step, Following, task
<1>4. CASE StaStart \/ StaDisconnected \/ GotIp
    BY <1>4, LifecycleAssumption DEF StaStart, StaDisconnected, GotIp, Following, task
<1>5. CASE UNCHANGED vars
    BY <1>5 DEF vars, task, handler
<1> QED
    BY <1>1, <1>2, <1>3, <1>4, <1>5 DEF Next

\* The calls of the two tasks lead from one to another that the code has, and every
\* variable keeps its shape.
THEOREM LifecycleTypes == Spec => []TypeOK
<1>1. Init => FlagsType
    BY Zenon DEF Init, FlagsType
<1>2. Init => PlacesType
    BY LifecycleAssumption DEF Init, PlacesType
<1>3. FlagsType /\ PlacesType => TypeOK
    <2> SUFFICES ASSUME FlagsType, PlacesType PROVE TypeOK
        OBVIOUS
    <2>1. {bit, stopped, sip, rtp, resultRtp, result, started, handlerSet}
              \subseteq BOOLEAN
        BY Zenon DEF FlagsType
    <2> QED
        BY <2>1 DEF PlacesType, TypeOK
<1> QED
    BY <1>1, <1>2, <1>3, FlagsTypeStep, PlacesTypeStep, PTL DEF Spec
------------------------------------------------------------------------------
(* Station *)

\* The theorems about the socket, in the station's variables.
Proved ==
    INSTANCE UdpClientProofs WITH open <- sip, MaxOpens <- MaxDisconnects + 1

LEMMA LifecycleStep == StationNext => [Next]_vars
BY DEF StationNext, SocketOpened, SocketClosed, Elsewhere, Serve,
       DatagramArrives, Next, SipTask, EventHandler

LEMMA SocketStep == StationNext => [Udp!Next]_(Udp!vars)
<1> SUFFICES ASSUME StationNext PROVE Udp!Next \/ UNCHANGED Udp!vars
  OBVIOUS
<1>1. CASE SocketOpened
  BY <1>1 DEF SocketOpened, Udp!Next
<1>2. CASE SocketClosed
  BY <1>2 DEF SocketClosed, Udp!Next
<1>3. CASE Elsewhere
  BY <1>3 DEF Elsewhere, Udp!vars, reception
<1>4. CASE Serve
  BY <1>4 DEF Serve, Udp!Next
<1>5. CASE DatagramArrives
  BY <1>5 DEF DatagramArrives, Udp!Next
<1>. QED
  BY <1>1, <1>2, <1>3, <1>4, <1>5 DEF StationNext

\* Udp and Proved are the same instance under two names.
LEMMA SameSocket == [Udp!Next]_(Udp!vars) => [Proved!Next]_(Proved!vars)
<1>1. Udp!Zero = Proved!Zero /\ Udp!Failed = Proved!Failed
      /\ Udp!Datagrams = Proved!Datagrams
  BY DEF Udp!Zero, Proved!Zero, Udp!Failed, Proved!Failed, Udp!Datagrams,
         Proved!Datagrams
<1>2. ASSUME NEW queue, Udp!DoReceive(queue) PROVE Proved!DoReceive(queue)
  BY <1>1, <1>2 DEF Udp!DoReceive, Proved!DoReceive
<1>3. Udp!Open => Proved!Open
  BY <1>2 DEF Udp!Open, Proved!Open
<1>4. Udp!Close => Proved!Close
  BY <1>1 DEF Udp!Close, Proved!Close
<1>5. Udp!Read => Proved!Read
  BY DEF Udp!Read, Proved!Read, Udp!Overwritten, Proved!Overwritten,
         Udp!Received, Proved!Received
<1>6. Udp!HandleData => Proved!HandleData
  <2>1. ASSUME NEW size PROVE Udp!Terminated(size) = Proved!Terminated(size)
    BY <1>1 DEF Udp!Terminated, Proved!Terminated
  <2>. QED
    BY <2>1, <1>2 DEF Udp!HandleData, Proved!HandleData, Udp!Rearmed,
                      Proved!Rearmed
<1>7. Udp!HandleNothing => Proved!HandleNothing
  BY <1>2 DEF Udp!HandleNothing, Proved!HandleNothing, Udp!Rearmed,
              Proved!Rearmed, Udp!RearmedAfterNothing,
              Proved!RearmedAfterNothing
<1>8. ASSUME NEW datagram PROVE Udp!Arrive(datagram) => Proved!Arrive(datagram)
  BY DEF Udp!Arrive, Proved!Arrive
<1>9. UNCHANGED Udp!vars => UNCHANGED Proved!vars
  BY DEF Udp!vars, Proved!vars
<1>. QED
  BY <1>1, <1>3, <1>4, <1>5, <1>6, <1>7, <1>8, <1>9
     DEF Udp!Next, Proved!Next, Udp!Running, Proved!Running

LEMMA SocketSteps == [StationNext]_stationVars => [Proved!Next]_(Proved!vars)
<1>1. [StationNext]_stationVars => [Udp!Next]_(Udp!vars)
  BY SocketStep DEF stationVars, vars, reception, Udp!vars
<1>. QED
  BY <1>1, SameSocket

\* The station gives the constants of the socket values it can do with.
LEMMA SocketConstants == Proved!UdpClientAssumption
BY StationAssumption, LifecycleAssumption DEF Proved!UdpClientAssumption

\* The inductive invariant of the socket is one of the station.
LEMMA SocketInv ==
    /\ StationInit => Proved!TypeInv
    /\ Proved!TypeInv /\ [StationNext]_stationVars => Proved!TypeInv'
<1>1. StationInit => Proved!Init
  BY DEF StationInit, Udp!Init, Proved!Init, Udp!Zero, Proved!Zero
<1>. QED
  BY <1>1, SocketConstants, SocketSteps, Proved!TypeInit, Proved!TypeStep

\* In their own variables the two tasks behave as Lifecycle says: its theorems
\* hold in the station.
THEOREM LifecycleInStation == StationSpec => Spec
<1>1. StationInit => Init
  BY DEF StationInit
<1>2. [StationNext]_stationVars => [Next]_vars
  BY LifecycleStep DEF stationVars
<1>. QED
  BY <1>1, <1>2, PTL DEF StationSpec, Spec

\* In its own variables the socket behaves as UdpClient says.
THEOREM SocketInStation == StationSpec => Udp!Spec
<1>1. StationInit => Udp!Init
  BY DEF StationInit
<1>2. UNCHANGED stationVars => UNCHANGED Udp!vars
  BY DEF stationVars, vars, reception, Udp!vars
<1>3. [StationNext]_stationVars => [Udp!Next]_(Udp!vars)
  BY <1>2, SocketStep
<1>. QED
  BY <1>1, <1>3, PTL DEF StationSpec, Udp!Spec
-----------------------------------------------------------------------------
\* Where the sip_task takes the socket to be open, init() has succeeded once.
OpenedInv == sip \/ pc \in {"set_handler", "run"} => opens > 0

LEMMA OpenedStep ==
    ASSUME opens \in Nat, OpenedInv, [StationNext]_stationVars
    PROVE  OpenedInv'
<1> USE DEF OpenedInv
<1>1. CASE SocketOpened
  BY <1>1 DEF SocketOpened, Udp!Open
<1>2. CASE SocketClosed
  BY <1>2 DEF SocketClosed, DeinitSip, task, Udp!Close
<1>3. CASE Elsewhere
  <2>1. sip' = sip /\ opens' = opens
    BY <1>3 DEF Elsewhere, reception
  <2>2. CASE InitSip
    <3>1. PICK after, success \in BOOLEAN :
              /\ SocketInit(sip, after, success)
              /\ sip' = after
              /\ result' = (resultRtp /\ success)
      BY <2>2 DEF InitSip
    <3>2. ~success
      BY <2>1, <3>1 DEF SocketInit
    <3>3. pc' = "delay"
      BY <2>2, <3>1, <3>2 DEF InitSip, Goto
    <3>. QED
      BY <2>1, <3>3
  <2>3. CASE CheckInitialized
    BY <2>1, <2>3 DEF CheckInitialized, Goto
  <2>4. CASE WaitForWifi \/ InitRtp \/ Delay \/ SetEventHandler \/ RunReturns
             \/ Restart
    BY <2>1, <2>4 DEF WaitForWifi, InitRtp, Delay, SetEventHandler, RunReturns,
                      Restart, Goto
  <2>5. CASE EventHandler \/ StaStart \/ StaDisconnected \/ GotIp
    <3>1. pc' = pc
      BY <2>5 DEF EventHandler, DeinitSip, DeinitRtp, Stop, WebServer, Connect,
                  ClearBit, SetBit, StaStart, StaDisconnected, GotIp, task
    <3>. QED
      BY <2>1, <3>1
  <2>. QED
    BY <1>3, <2>2, <2>3, <2>4, <2>5 DEF Elsewhere, SipTask
<1>4. CASE Serve \/ DatagramArrives
  BY <1>4 DEF Serve, DatagramArrives, vars, task, Udp!Running, Udp!Read,
              Udp!HandleData, Udp!HandleNothing, Udp!Arrive
<1>5. CASE UNCHANGED stationVars
  BY <1>5 DEF stationVars, vars, task, reception
<1>. QED
  BY <1>1, <1>2, <1>3, <1>4, <1>5 DEF StationNext

\* io_context.run() does not run out of work: the operations that init() leaves
\* behind outlive every disconnect, and sip_task is there after an init() only.
THEOREM RunsWithWork == StationSpec => []RunHasWork
<1>1. StationInit => OpenedInv /\ Proved!TypeInv
  <2>1. StationInit => OpenedInv
    BY DEF StationInit, Init, OpenedInv
  <2>. QED
    BY <2>1, SocketInv
<1>2. OpenedInv /\ Proved!TypeInv /\ [StationNext]_stationVars
        => OpenedInv' /\ Proved!TypeInv'
  <2> SUFFICES ASSUME OpenedInv, Proved!TypeInv, [StationNext]_stationVars
               PROVE  OpenedInv' /\ Proved!TypeInv'
    OBVIOUS
  <2>1. opens \in Nat
    BY LifecycleAssumption DEF Proved!TypeInv
  <2>. QED
    BY <2>1, OpenedStep, SocketInv
<1>3. OpenedInv /\ Proved!TypeInv => RunHasWork
  BY LifecycleAssumption DEF OpenedInv, Proved!TypeInv, RunHasWork
<1>. QED
  BY <1>1, <1>2, <1>3, PTL DEF StationSpec

\* The operations of the socket are kept, whatever the two tasks do.
THEOREM ReceivesAreKeptInStation == StationSpec => []ReceivesPerInit
<1>1. Proved!TypeInv => ReceivesPerInit
  BY DEF Proved!TypeInv, ReceivesPerInit, Udp!ReceivesPerInit
<1>2. StationInit => Proved!TypeInv
  BY SocketInv
<1>3. Proved!TypeInv /\ [StationNext]_stationVars => Proved!TypeInv'
  BY SocketInv
<1>. QED
  BY <1>1, <1>2, <1>3, PTL DEF StationSpec

\* Until a second init() each handler of the station finds in the buffer what its
\* operation received.
THEOREM TextsAreIntactInStation == StationSpec => []Intact
<1>1. Udp!Intact <=> Proved!Intact
  BY DEF Udp!Intact, Proved!Intact, Udp!Holds, Proved!Holds
<1>2. StationInit => Proved!TypeInv /\ Intact
  <2>1. StationInit => Intact
    BY DEF StationInit, Udp!Init, Intact, Udp!Intact
  <2>. QED
    BY <2>1, SocketInv
<1>3. Proved!TypeInv /\ Intact /\ [StationNext]_stationVars
        => Proved!TypeInv' /\ Intact'
  <2> SUFFICES ASSUME Proved!TypeInv, Intact, [StationNext]_stationVars
               PROVE  Proved!TypeInv' /\ Intact'
    OBVIOUS
  <2>1. Proved!Intact
    BY <1>1 DEF Intact
  <2>2. [Proved!Next]_(Proved!vars)
    BY SocketSteps
  <2>3. Proved!Intact'
    BY <2>1, <2>2, SocketConstants, Proved!IntactStep
  <2>4. Intact'
    BY <2>3 DEF Intact, Udp!Intact, Proved!Intact, Udp!Holds, Proved!Holds
  <2>. QED
    BY <2>4, SocketInv
<1>. QED
  BY <1>2, <1>3, PTL DEF StationSpec
------------------------------------------------------------------------------
(* WebStation *)

\* The steps of the station, seen from the upload.
LEMMA UploadSteps == [WebNext]_webStationVars => [Upl!Next]_upload
<1> SUFFICES ASSUME [WebNext]_webStationVars PROVE [Upl!Next]_upload
    OBVIOUS
<1>1. CASE WebStop \/ WebStart \/ OtherCall \/ StationEvent
    BY <1>1 DEF WebStop, WebStart, OtherCall, StationEvent
<1>2. CASE UploadBegins \/ UploadReceives \/ UploadHandler \/ DeviceReset
    BY <1>2
    DEF UploadBegins, UploadReceives, UploadHandler, DeviceReset, Upl!Next, Upl!Handler
<1>3. CASE UNCHANGED webStationVars
    BY <1>3 DEF webStationVars
<1> QED
    BY <1>1, <1>2, <1>3 DEF WebNext

\* A partition's image.
Image == [image : Nat, parts : Int, valid : BOOLEAN]

UploadType ==
    /\ slots \in [{0, 1} -> Image]
    /\ running \in {0, 1} /\ boot \in {0, 1}
    /\ uploads \in Nat /\ promised \in Nat

\* An upload that has begun to write has its image in the partition to update, and
\* what has been promised is an earlier one.
Underway ==
    /\ at \in {"recv", "write", "abort", "end", "set_boot"} =>
           slots[Upl!Update].image = uploads
    /\ at # "idle" => promised < uploads
    /\ promised <= uploads

\* A handle is open only between esp_ota_begin and the call that closes it.
HandleInv == at \in {"idle", "begin", "set_boot"} => ~handle

UploadInv ==
    /\ UploadType /\ Underway /\ HandleInv
    /\ Upl!RunsWholeImage /\ Upl!PromisedUntilNext

LEMMA UploadInvInit == WebInit => UploadInv
<1> SUFFICES ASSUME WebInit PROVE UploadInv
    OBVIOUS
<1>1. /\ at = "idle" /\ handle = FALSE /\ running = 0 /\ boot = 0
      /\ promised = 0 /\ uploads = 0
      /\ slots = [p \in {0, 1} |-> [image |-> 0, parts |-> Parts, valid |-> TRUE]]
    BY DEF WebInit, Upl!Init, Upl!Partitions
<1>2. slots \in [{0, 1} -> Image]
    BY <1>1, WebStationAssumption DEF Image
<1>3. Upl!RunsWholeImage
    BY <1>1 DEF Upl!RunsWholeImage, Upl!Whole
<1> QED
    BY <1>1, <1>2, <1>3
    DEF UploadInv, UploadType, Underway, HandleInv, Upl!PromisedUntilNext

\* A step that leaves flash, choice and counts alone.
LEMMA UploadGoesOn ==
    ASSUME UploadInv, UNCHANGED <<slots, running, boot, promised, uploads>>,
           at # "idle", at' # "begin", HandleInv',
           at' \in {"recv", "write", "abort", "end", "set_boot"} =>
               at \in {"recv", "write", "abort", "end", "set_boot"}
    PROVE  UploadInv'
<1>1. UploadType' /\ Underway'
    BY DEF UploadInv, UploadType, Underway, Upl!Update
<1>2. (Upl!RunsWholeImage)' /\ (Upl!PromisedUntilNext)'
    BY DEF UploadInv, Upl!RunsWholeImage, Upl!PromisedUntilNext, Upl!Whole, Upl!Applied
<1> QED
    BY <1>1, <1>2 DEF UploadInv

\* A step that writes to the partition to update and to no other one.
LEMMA UploadWrites ==
    ASSUME UploadInv, UNCHANGED <<running, boot, promised, uploads>>,
           at # "idle", at' # "begin", HandleInv',
           NEW new \in Image, slots' = [slots EXCEPT ![Upl!Update] = new],
           at' \in {"recv", "write", "abort", "end", "set_boot"} => new.image = uploads
    PROVE  UploadInv'
<1>1. UploadType' /\ Underway'
    BY DEF UploadInv, UploadType, Underway, Upl!Update
<1>2. slots'[running] = slots[running]
    BY DEF UploadInv, UploadType, Upl!Update
<1>3. (Upl!RunsWholeImage)'
    BY <1>2 DEF UploadInv, Upl!RunsWholeImage, Upl!Whole
<1>4. (Upl!PromisedUntilNext)'
    BY <1>1 DEF UploadInv, UploadType, Underway, Upl!PromisedUntilNext
<1> QED
    BY <1>1, <1>3, <1>4 DEF UploadInv

LEMMA UploadInvStep == UploadInv /\ [Upl!Next]_upload => UploadInv'
<1> SUFFICES ASSUME UploadInv, [Upl!Next]_upload PROVE UploadInv'
    OBVIOUS
<1>a. /\ slots \in [{0, 1} -> Image] /\ running \in {0, 1} /\ boot \in {0, 1}
      /\ uploads \in Nat /\ promised \in Nat
    BY DEF UploadInv, UploadType
<1>b. Upl!Update \in {0, 1} /\ Upl!Update # running
    BY <1>a DEF Upl!Update
<1>c. slots[Upl!Update] \in Image
    BY <1>a, <1>b
<1>1. CASE Upl!Request
    <2>1. UNCHANGED <<slots, running, boot, promised, handle>>
        BY <1>1 DEF Upl!Request
    <2>2. at = "idle" /\ at' = "begin" /\ uploads' = uploads + 1
        BY <1>1 DEF Upl!Request, Upl!Goto
    <2>3. UploadType' /\ Underway'
        BY <1>a, <2>1, <2>2 DEF UploadInv, UploadType, Underway
    <2>4. HandleInv'
        BY <2>1, <2>2 DEF UploadInv, HandleInv
    <2>5. (Upl!RunsWholeImage)'
        BY <2>1 DEF UploadInv, Upl!RunsWholeImage, Upl!Whole
    <2>6. (Upl!PromisedUntilNext)'
        BY <1>a, <2>2, <2>3 DEF Underway, Upl!PromisedUntilNext
    <2> QED
        BY <2>3, <2>4, <2>5, <2>6 DEF UploadInv
<1>2. CASE Upl!Begin
    <2>1. PICK valid \in BOOLEAN :
              slots' = [slots EXCEPT ![Upl!Update] =
                           [image |-> uploads, parts |-> 0, valid |-> valid]]
        BY <1>2 DEF Upl!Begin
    <2> DEFINE new == [image |-> uploads, parts |-> 0, valid |-> valid]
    <2>2. new \in Image /\ new.image = uploads
        BY <1>a DEF Image
    <2>3. at = "begin" /\ at' = "recv" /\ UNCHANGED <<running, boot, promised, uploads>>
        BY <1>2 DEF Upl!Begin, Upl!Goto
    <2> HIDE DEF new
    <2>4. slots' = [slots EXCEPT ![Upl!Update] = new]
        BY <2>1 DEF new
    <2>5. HandleInv'
        BY <2>3 DEF HandleInv
    <2> QED
        BY <2>2, <2>3, <2>4, <2>5, UploadWrites
<1>3. CASE Upl!BeginFails
    <2>1. PICK kept \in {slots[Upl!Update].parts, 0} :
              slots' = [slots EXCEPT ![Upl!Update].parts = kept]
        BY <1>3 DEF Upl!BeginFails
    <2> DEFINE new == [slots[Upl!Update] EXCEPT !.parts = kept]
    <2>2. kept \in Int
        BY <1>c DEF Image
    <2>3. new \in Image
        BY <1>c, <2>2 DEF Image
    <2>4. at = "begin" /\ at' = "idle"
          /\ UNCHANGED <<handle, running, boot, promised, uploads>>
        BY <1>3 DEF Upl!BeginFails, Upl!Fail, Upl!Goto
    <2>5. slots' = [slots EXCEPT ![Upl!Update] = new]
        BY <1>a, <1>b, <2>1
    <2>6. HandleInv'
        BY <2>4 DEF UploadInv, HandleInv
    <2> HIDE DEF new
    <2> QED
        BY <2>3, <2>4, <2>5, <2>6, UploadWrites
<1>4. CASE Upl!Receive \/ Upl!ReceiveFails \/ Upl!WriteFails \/ Upl!AllReceived
    <2>1. /\ at \in {"recv", "write"} /\ at' \in {"write", "abort", "end"}
          /\ UNCHANGED <<slots, running, boot, promised, uploads>>
        BY <1>4
        DEF Upl!Receive, Upl!ReceiveFails, Upl!WriteFails, Upl!AllReceived, Upl!Goto
    <2> QED
        BY <2>1, UploadGoesOn DEF HandleInv
<1>5. CASE Upl!Write
    <2> DEFINE new == [slots[Upl!Update] EXCEPT !.parts = @ + 1]
    <2>1. new \in Image /\ new.image = slots[Upl!Update].image
        BY <1>c DEF Image
    <2>2. at = "write" /\ at' = "recv" /\ UNCHANGED <<running, boot, promised, uploads>>
        BY <1>5 DEF Upl!Write, Upl!Goto
    <2>3. slots' = [slots EXCEPT ![Upl!Update] = new]
        BY <1>5, <1>a, <1>b DEF Upl!Write
    <2>4. slots[Upl!Update].image = uploads
        BY <2>2 DEF UploadInv, Underway
    <2> HIDE DEF new
    <2>5. HandleInv'
        BY <2>2 DEF HandleInv
    <2> QED
        BY <2>1, <2>2, <2>3, <2>4, <2>5, UploadWrites
<1>6. CASE Upl!Abort \/ Upl!End \/ Upl!EndFails
    <2>1. /\ at \in {"abort", "end"} /\ at' \in {"idle", "set_boot"} /\ ~handle'
          /\ UNCHANGED <<slots, running, boot, promised, uploads>>
        BY <1>6
        DEF Upl!Abort, Upl!Closed, Upl!End, Upl!EndFails, Upl!Fail, Upl!Goto
    <2> QED
        BY <2>1, UploadGoesOn DEF HandleInv
<1>7. CASE Upl!SetBootFails
    <2>1. /\ at = "set_boot" /\ at' = "idle"
          /\ UNCHANGED <<handle, slots, running, boot, promised, uploads>>
        BY <1>7 DEF Upl!SetBootFails, Upl!Fail, Upl!Goto
    <2>2. HandleInv'
        BY <2>1 DEF UploadInv, HandleInv
    <2> QED
        BY <2>1, <2>2, UploadGoesOn
<1>8. CASE Upl!SetBoot
    <2>1. /\ at = "set_boot" /\ at' = "idle" /\ Upl!Whole(Upl!Update)
          /\ boot' = Upl!Update /\ promised' = uploads
          /\ UNCHANGED <<handle, slots, running, uploads>>
        BY <1>8 DEF Upl!SetBoot, Upl!Goto
    <2>2. slots[Upl!Update].image = uploads
        BY <2>1 DEF UploadInv, Underway
    <2>3. UploadType' /\ Underway'
        BY <1>a, <1>b, <2>1 DEF UploadType, Underway
    <2>4. HandleInv'
        BY <2>1 DEF UploadInv, HandleInv
    <2>5. (Upl!RunsWholeImage)'
        BY <2>1 DEF UploadInv, Upl!RunsWholeImage, Upl!Whole
    <2>6. (Upl!PromisedUntilNext)'
        BY <2>1, <2>2 DEF Upl!PromisedUntilNext, Upl!Applied, Upl!Whole
    <2> QED
        BY <2>3, <2>4, <2>5, <2>6 DEF UploadInv
<1>9. CASE Upl!Reset
    <2>1. /\ at' = "idle" /\ handle' = FALSE /\ promised' = 0
          /\ running' = IF Upl!Whole(boot) THEN boot ELSE 1 - boot
          /\ UNCHANGED <<slots, boot, uploads>>
        BY <1>9 DEF Upl!Reset
    <2>2. UploadType' /\ Underway'
        BY <1>a, <2>1 DEF UploadType, Underway
    <2>3. HandleInv'
        BY <2>1 DEF HandleInv
    <2>4. Upl!Whole(running)
        BY DEF UploadInv, Upl!RunsWholeImage
    <2>5. Upl!Whole(running')
        BY <1>a, <2>1, <2>4
    <2>6. (Upl!RunsWholeImage)'
        BY <2>1, <2>5 DEF Upl!RunsWholeImage, Upl!Whole
    <2>7. (Upl!PromisedUntilNext)'
        BY <2>1 DEF Upl!PromisedUntilNext
    <2> QED
        BY <2>2, <2>3, <2>6, <2>7 DEF UploadInv
<1>10. CASE Upl!ReceiveTimesOut \/ UNCHANGED upload
    <2>1. UNCHANGED upload
        BY <1>10 DEF Upl!ReceiveTimesOut, Upl!vars, upload
    <2> QED
        BY <2>1
        DEF upload, UploadInv, UploadType, Underway, HandleInv, Upl!Update, Upl!Whole,
            Upl!RunsWholeImage, Upl!PromisedUntilNext, Upl!Applied
<1> QED
    BY <1>1, <1>2, <1>3, <1>4, <1>5, <1>6, <1>7, <1>8, <1>9, <1>10
    DEF Upl!Next, Upl!Handler

\* The invariant holds throughout, and with it what it was made for.
LEMMA UploadInvHolds == WebFairSpec => []UploadInv
<1>1. UploadInv /\ [WebNext]_webStationVars => UploadInv'
    BY UploadSteps, UploadInvStep
<1> QED
    BY <1>1, UploadInvInit, PTL DEF WebFairSpec

\* The device always runs a whole image: no upload touches the partition that runs,
\* and the bootloader finds one wherever a reset comes.
THEOREM AlwaysRunsWholeImage == WebFairSpec => []RunsWholeImage
<1>1. UploadInv => RunsWholeImage
    BY DEF UploadInv, RunsWholeImage
<1> QED
    BY <1>1, UploadInvHolds, PTL

\* Whichever way the handler takes, it leaves no OTA handle open.
THEOREM HandlesAreClosed == WebFairSpec => []NoHandleLeft
<1>1. UploadInv => NoHandleLeft
    BY DEF UploadInv, HandleInv, NoHandleLeft, Upl!NoHandleLeft
<1> QED
    BY <1>1, UploadInvHolds, PTL

\* The image the page has promised is whole and chosen until the next upload.
THEOREM PromisesAreKept == WebFairSpec => []PromisedUntilNext
<1>1. UploadInv => PromisedUntilNext
    BY DEF UploadInv, PromisedUntilNext
<1> QED
    BY <1>1, UploadInvHolds, PTL
-----------------------------------------------------------------------------
(* Types *)

\* While an image is received, what is there and what remains is all of it.
Counted ==
    /\ at \in {"recv", "write"} => slots[Upl!Update].parts + remaining = Parts
    /\ at = "write" => remaining > 0

LEMMA CountedStep ==
    ASSUME UploadInv, Upl!TypeOK, Counted, [Upl!Next]_upload
    PROVE  Upl!TypeOK' /\ Counted'
<1>a. Parts \in Nat /\ MaxUploads \in Nat /\ MaxResets \in Nat
    BY WebStationAssumption
<1>b. /\ remaining \in 0..Parts /\ uploads \in 0..MaxUploads /\ resets \in 0..MaxResets
      /\ slots \in [Upl!Partitions -> [image : 0..MaxUploads, parts : 0..Parts,
                                       valid : BOOLEAN]]
      /\ running \in {0, 1} /\ boot \in {0, 1} /\ promised \in 0..MaxUploads
      /\ handle \in BOOLEAN
    BY DEF Upl!TypeOK, Upl!Partitions
<1>c. Upl!Update \in Upl!Partitions
    BY <1>b DEF Upl!Update, Upl!Partitions
<1>d. slots[Upl!Update] \in [image : 0..MaxUploads, parts : 0..Parts, valid : BOOLEAN]
    BY <1>b, <1>c
<1>1. CASE Upl!Request
    BY <1>1, <1>a, <1>b
    DEF Upl!Request, Upl!Goto, Upl!TypeOK, Upl!Partitions, Counted
<1>2. CASE Upl!Begin
    <2>1. PICK valid \in BOOLEAN :
              slots' = [slots EXCEPT ![Upl!Update] =
                           [image |-> uploads, parts |-> 0, valid |-> valid]]
        BY <1>2 DEF Upl!Begin
    <2>2. /\ at' = "recv" /\ remaining' = Parts /\ handle' = TRUE
          /\ UNCHANGED <<running, boot, promised, uploads, resets>>
        BY <1>2 DEF Upl!Begin, Upl!Goto
    <2>3. slots' \in [Upl!Partitions -> [image : 0..MaxUploads, parts : 0..Parts,
                                         valid : BOOLEAN]]
        BY <1>a, <1>b, <1>c, <2>1
    <2>4. slots'[Upl!Update].parts = 0
        BY <1>b, <1>c, <2>1
    <2>5. Upl!TypeOK'
        BY <1>a, <1>b, <2>2, <2>3 DEF Upl!TypeOK, Upl!Partitions
    <2>6. Counted'
        BY <1>a, <2>2, <2>4 DEF Counted, Upl!Update
    <2> QED
        BY <2>5, <2>6
<1>3. CASE Upl!BeginFails
    <2>1. PICK kept \in {slots[Upl!Update].parts, 0} :
              slots' = [slots EXCEPT ![Upl!Update].parts = kept]
        BY <1>3 DEF Upl!BeginFails
    <2>2. slots' \in [Upl!Partitions -> [image : 0..MaxUploads, parts : 0..Parts,
                                         valid : BOOLEAN]]
        BY <1>a, <1>b, <1>c, <1>d, <2>1
    <2> QED
        BY <1>3, <1>b, <2>2
        DEF Upl!BeginFails, Upl!Fail, Upl!Goto, Upl!TypeOK, Upl!Partitions, Counted
<1>4. CASE Upl!Receive \/ Upl!ReceiveFails \/ Upl!WriteFails \/ Upl!AllReceived
    BY <1>4, <1>a, <1>b
    DEF Upl!Receive, Upl!ReceiveFails, Upl!WriteFails, Upl!AllReceived, Upl!Received,
        Upl!Goto, Upl!TypeOK, Upl!Partitions, Upl!Update, Counted
<1>5. CASE Upl!Write
    <2>1. /\ at = "write" /\ at' = "recv" /\ remaining' = remaining - 1
          /\ slots' = [slots EXCEPT ![Upl!Update].parts = @ + 1]
          /\ UNCHANGED <<handle, running, boot, promised, uploads, resets>>
        BY <1>5 DEF Upl!Write, Upl!Goto
    <2>2. slots[Upl!Update].parts + 1 \in 0..Parts /\ remaining' \in 0..Parts
        BY <1>a, <1>b, <1>d, <2>1 DEF Counted
    <2>3. slots' \in [Upl!Partitions -> [image : 0..MaxUploads, parts : 0..Parts,
                                         valid : BOOLEAN]]
        BY <1>b, <1>c, <1>d, <2>1, <2>2
    <2>4. slots'[Upl!Update].parts = slots[Upl!Update].parts + 1
        BY <1>b, <1>c, <1>d, <2>1
    <2>5. Upl!TypeOK'
        BY <1>b, <2>1, <2>2, <2>3 DEF Upl!TypeOK, Upl!Partitions
    <2>6. Counted'
        BY <1>b, <1>d, <2>1, <2>4 DEF Counted, Upl!Update
    <2> QED
        BY <2>5, <2>6
<1>6. CASE Upl!Abort \/ Upl!End \/ Upl!EndFails
    BY <1>6, <1>b
    DEF Upl!Abort, Upl!Closed, Upl!End, Upl!EndFails, Upl!Fail, Upl!Goto, Upl!TypeOK,
        Upl!Partitions, Counted
<1>7. CASE Upl!SetBoot \/ Upl!SetBootFails
    BY <1>7, <1>b, <1>c
    DEF Upl!SetBoot, Upl!SetBootFails, Upl!Fail, Upl!Goto, Upl!TypeOK, Upl!Partitions,
        Counted
<1>8. CASE Upl!Reset
    <2>1. /\ at' = "idle" /\ remaining' = 0 /\ handle' = FALSE /\ promised' = 0
          /\ resets' \in 0..MaxResets /\ running' \in {0, 1}
          /\ UNCHANGED <<slots, boot, uploads>>
        BY <1>8, <1>a, <1>b DEF Upl!Reset
    <2>2. /\ at' \in {"idle", "begin", "recv", "abort", "write", "end", "set_boot"}
          /\ running' \in Upl!Partitions /\ boot' \in Upl!Partitions
          /\ handle' \in BOOLEAN
        BY <2>1, <1>b DEF Upl!Partitions
    <2>3. remaining' \in 0..Parts /\ promised' \in 0..MaxUploads
        BY <2>1, <1>a
    <2>4. Upl!TypeOK'
        BY <2>1, <2>2, <2>3, <1>b DEF Upl!TypeOK
    <2> QED
        BY <2>1, <2>4 DEF Counted
<1>9. CASE Upl!ReceiveTimesOut \/ UNCHANGED upload
    BY <1>9
    DEF Upl!ReceiveTimesOut, Upl!vars, upload, Upl!TypeOK, Counted, Upl!Update
<1> QED
    BY <1>1, <1>2, <1>3, <1>4, <1>5, <1>6, <1>7, <1>8, <1>9 DEF Upl!Next, Upl!Handler

\* Every variable of an upload keeps its shape: nothing is written past the end of
\* an image, whatever fails in between.
THEOREM UploadTypes == WebFairSpec => []Upl!TypeOK
<1>1. WebInit => Upl!TypeOK /\ Counted
    <2> SUFFICES ASSUME WebInit PROVE Upl!TypeOK /\ Counted
        OBVIOUS
    <2>1. Upl!Init
        BY DEF WebInit
    <2>2. slots \in [Upl!Partitions -> [image : 0..MaxUploads, parts : 0..Parts,
                                        valid : BOOLEAN]]
        BY <2>1, WebStationAssumption DEF Upl!Init
    <2>3. /\ at = "idle" /\ remaining = 0 /\ handle = FALSE /\ running = 0 /\ boot = 0
          /\ promised = 0 /\ uploads = 0 /\ resets = 0
        BY <2>1 DEF Upl!Init
    <2>4. 0 \in 0..Parts /\ 0 \in 0..MaxUploads /\ 0 \in 0..MaxResets
        BY WebStationAssumption
    <2>5. at \in {"idle", "begin", "recv", "abort", "write", "end", "set_boot"}
          /\ running \in Upl!Partitions /\ boot \in Upl!Partitions
        BY <2>3 DEF Upl!Partitions
    <2>6. handle \in BOOLEAN
        BY <2>3
    <2> QED
        BY <2>2, <2>3, <2>4, <2>5, <2>6 DEF Upl!TypeOK, Counted
<1>2. UploadInv /\ Upl!TypeOK /\ Counted /\ [WebNext]_webStationVars
          => Upl!TypeOK' /\ Counted'
    BY UploadSteps, CountedStep
<1> QED
    BY <1>1, <1>2, UploadInvHolds, PTL DEF WebFairSpec
=============================================================================
