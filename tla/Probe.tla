------------------------------- MODULE Probe --------------------------------
(***************************************************************************)
(* The connection probe of the EFA adapter (adapter_efa_probe*.c): one     *)
(* transmitting endpoint and one receiving endpoint agree, over a UDP      *)
(* control interface that loses, duplicates, delays and reorders packets,  *)
(* that both have reset their libfabric endpoint, that both have opened    *)
(* it, and that probe packets pass between them; only then is the          *)
(* application told "Connected".                                           *)
(*                                                                         *)
(* Each endpoint has a probe thread (ProbeControlThread) with a FIFO of    *)
(* control packets and state changes, and an Endpoint Manager that         *)
(* executes the Reset and Start commands the probe queues, at a time of    *)
(* its own.  The threads that write to the FIFO are the receive thread of  *)
(* the control interface, the poll thread and the probe thread itself.     *)
(*                                                                         *)
(* Abstractions.  Both sides run this version of the SDK, so the branches  *)
(* for probe versions before 3 and 5 are left out; a reset from a side     *)
(* without a negotiated version is still written as version 1.0.  The      *)
(* number of a control packet and the address of a libfabric endpoint are  *)
(* kept relative to the newest one: "Last" and "Now" become "Old" when a   *)
(* newer number is drawn or the endpoint is opened at a new address, which *)
(* is exact as long as no packet outlives 65536 commands.  Time is a count *)
(* of units; a timer that reaches zero is a timeout of CdiFifoRead.  The   *)
(* endpoint of the Tx lives as long as its connection, and the shutdown of *)
(* connections is left out.                                                *)
(***************************************************************************)
EXTENDS Integers, Sequences

CONSTANTS
  ProbePackets,     \* EFA_PROBE_PACKET_COUNT
  FifoSize,         \* MAX_PROBE_CONTROL_COMMANDS_PER_CONNECTION
  CommandRetries,   \* TX_COMMAND_MAX_RETRIES
  ResetRetries,     \* RX_RESET_COMMAND_MAX_RETRIES
  AckWaits,         \* EFA_TX_PROBE_ACK_MAX_RETRIES
  AckWaitTime,      \* EFA_TX_PROBE_ACK_TIMEOUT
  AckTime,          \* TX_COMMAND_ACK_TIMEOUT_MSEC
  ManagerTime,      \* ENDPOINT_MANAGER_COMPLETION_TIMEOUT_MSEC
  ResetTime,        \* SEND_RESET_COMMAND_FREQUENCY_MSEC
  ProbeTime,        \* EFA_PROBE_MONITOR_TIMEOUT_MSEC
  PingTime,         \* SEND_PING_COMMAND_FREQUENCY_MSEC
  PingMonitorTime,  \* RX_PING_MONITOR_TIMEOUT_MSEC
  ReusesAddress,    \* libfabric opens an endpoint again at its old address
  HasLibfabric19,   \* the adapter has the libfabric of older versions too
  Apps,             \* does the application send payloads while connected?
  Faults,           \* the kinds of faults such an application may meet
  MaxFaults         \* bound on the number of faults

FaultKinds == {"Lost", "Doubled", "Late", "Failed", "TxError", "RxError"}

ASSUME ProbeAssumption ==
  /\ {ProbePackets, FifoSize, CommandRetries, ResetRetries, AckWaits}
       \subseteq Nat \ {0}
  /\ FifoSize > 1
  /\ {AckWaitTime, AckTime, ManagerTime, ResetTime, ProbeTime, PingTime,
      PingMonitorTime} \subseteq Nat \ {0}
  /\ {ReusesAddress, HasLibfabric19} \subseteq BOOLEAN
  /\ Apps \subseteq BOOLEAN
  /\ Faults \in [BOOLEAN -> SUBSET FaultKinds]
  /\ MaxFaults \in Nat

VARIABLES
  tx,        \* probe and adapter state of the transmitting endpoint
  rx,        \* probe and adapter state of the receiving endpoint
  fifo,      \* control_packet_fifo_handle of each side
  commands,  \* commands queued in the Endpoint Manager of each side
  network,   \* control packets on their way
  efa,       \* the EFA packet on its way, one at a time
  crash,     \* a pointer that is NULL has been dereferenced
  sends,     \* the application sends payloads while it is connected
  faults     \* faults so far

vars == <<tx, rx, fifo, commands, network, efa, crash, sends, faults>>

Sides == {"Tx", "Rx"}
States == {"Idle", "SendReset", "Resetting", "ResetDone",
           "SendProtocolVersion", "WaitForStart", "EfaStart", "EfaProbe",
           "EfaTxProbeAcks", "EfaConnected", "EfaConnectedPing", "EfaReset",
           "Destroy"}
None == "None"
Kinds == {"Reset", "ProtocolVersion", "Ping"}      \* commands of the Tx
Ages == {"Last", "Old"}
Addresses == {"Now", "Old"}
DefaultTime == ManagerTime          \* DEFAULT_TIMEOUT_MSEC is the same
Longest == AckWaitTime + AckTime + ManagerTime + ResetTime + ProbeTime
           + PingTime + PingMonitorTime

(* What a FIFO holds: a state change, a command of the Tx with its packet  *)
(* number, or a command or acknowledgement of the Rx with its address and  *)
(* whether its version is that of a legacy SDK.                            *)
Change(s) == [type |-> "Change", state |-> s]
Command(k) == [type |-> "Command", command |-> k, num |-> "Last"]
Reply(k, saved) ==
  [type |-> "Reply", command |-> k, ack |-> saved.command, num |-> saved.num,
   gid |-> "Now", legacy |-> k = "Reset" /\ ~rx.version]
NoAck == [command |-> None, num |-> "Old"]
Changes == [type : {"Change"}, state : States]
Commands == [type : {"Command"}, command : Kinds, num : Ages]
Replies == [type : {"Reply"}, command : {"Reset", "Ack", "Connected"},
            ack : Kinds \cup {None}, num : Ages, gid : Addresses,
            legacy : BOOLEAN]

(* Both sides have: the state and the timer of ProbeControlThread, and     *)
(* whether it waits in CdiFifoRead; a negotiated version; a libfabric      *)
(* endpoint; who gets the EFA packets; what the application was told.      *)
Transmitters ==
  [state : States, timer : 0 .. Longest, reading : BOOLEAN,
   version : BOOLEAN, open : BOOLEAN, callback : {"App", "Probe"},
   connected : BOOLEAN, retries : 0 .. CommandRetries + 1,
   pending : Kinds \cup {None}, gid : Addresses \cup {None},
   peer : Addresses \cup {None}, acked : Nat, waits : 0 .. AckWaits]
Receivers ==
  [state : States, timer : 0 .. Longest, reading : BOOLEAN,
   version : BOOLEAN, open : BOOLEAN, callback : {"App", "Probe"},
   connected : BOOLEAN, exists : BOOLEAN,
   ack : [command : Kinds \cup {None}, num : Ages],
   resets : 0 .. ResetRetries - 1, received : 0 .. ProbePackets,
   probes : Nat, payloads : Nat, fresh : BOOLEAN]
TypeOK ==
  /\ tx \in Transmitters /\ rx \in Receivers
  /\ fifo \in [Sides -> Seq(Changes \cup Commands \cup Replies)]
  /\ \A s \in Sides : Len(fifo[s]) < FifoSize
  /\ commands \in [Sides -> Seq({"Reset", "Start"})]
  /\ network \subseteq Commands \cup Replies
  /\ efa \in [kind : {None, "Probe", "App", "Spent"}, to : Addresses, acked : BOOLEAN]
  /\ crash \in BOOLEAN
  /\ sends \in Apps
  /\ faults \in 0 .. MaxFaults

-----------------------------------------------------------------------------
NoPacket == [kind |-> None, to |-> "Old", acked |-> FALSE]
Spent == [NoPacket EXCEPT !.kind = "Spent"]

(* EfaTxEndpointOpen and ProbeEndpointCreate: the endpoint of a connection *)
(* that sends is opened when the connection is created, and the thread     *)
(* starts at once.                                                         *)
NewTx ==
  [state |-> "Idle", timer |-> 0, reading |-> TRUE, version |-> FALSE,
   open |-> TRUE, callback |-> "App", connected |-> FALSE, retries |-> 0,
   pending |-> None, gid |-> None, peer |-> None, acked |-> 0, waits |-> 0]

(* The same for EndpointManagerRxCreateEndpoint.                           *)
NewRx ==
  [state |-> "SendReset", timer |-> 0, reading |-> TRUE, version |-> FALSE,
   open |-> TRUE, callback |-> "App", connected |-> FALSE, exists |-> TRUE,
   ack |-> NoAck, resets |-> 0, received |-> 0,
   probes |-> 0, payloads |-> 0, fresh |-> FALSE]

NoRx == [NewRx EXCEPT !.exists = FALSE, !.open = FALSE, !.timer = 1]

Init ==
  /\ tx = NewTx
  /\ rx = NoRx
  /\ fifo = [s \in Sides |-> <<>>]
  /\ commands = [s \in Sides |-> <<>>]
  /\ network = {}
  /\ efa = NoPacket
  /\ crash = FALSE
  /\ sends \in Apps
  /\ faults = 0

-----------------------------------------------------------------------------
(* The network, the scheduler and libfabric do what they seldom do.        *)
Fault(kind) ==
  ~crash /\ kind \in Faults[sends] /\ faults < MaxFaults /\ faults' = faults + 1

-----------------------------------------------------------------------------
(* Ageing of packet numbers and of addresses.                              *)
OldNum(m) == IF m.type = "Change" THEN m ELSE [m EXCEPT !.num = "Old"]
OldGid(m) == IF m.type = "Reply" THEN [m EXCEPT !.gid = "Old"] ELSE m
AgeAll(Old(_), f) == [s \in Sides |-> [i \in DOMAIN f[s] |-> Old(f[s][i])]]

(* The thread goes on with state s after time t; zero means at once.       *)
Goto(e, s, t) ==
  [e EXCEPT !.state = s, !.timer = t, !.reading = (t > 0)]

(* ProbeControlQueueStateChange, for a thread that waits for room: one     *)
(* entry of a FIFO stays empty.                                            *)
HasRoomForTwo(s) == Len(fifo[s]) + 2 < FifoSize
HasRoom(s) == Len(fifo[s]) + 1 < FifoSize
Put(s, m) == fifo' = [fifo EXCEPT ![s] = Append(@, m)]

(* ProbeControlEfaConnectionQueueReset and EndpointManagerQueueEndpointReset: *)
(* the application is told, the Endpoint Manager is asked.                 *)
QueueReset(s) == commands' = [commands EXCEPT ![s] = Append(@, "Reset")]
QueueStart(s) == commands' = [commands EXCEPT ![s] = Append(@, "Start")]
-----------------------------------------------------------------------------
(* ProbeControlSendCommand: a command of the Tx draws a new packet number, *)
(* so every number in flight is of an older command; the Tx waits for the  *)
(* acknowledgement of this one.  f is the FIFOs of the step.               *)
SendCommand(k, e, r, f) ==
  /\ network' = {OldNum(m) : m \in network} \cup {Command(k)}
  /\ fifo' = AgeAll(OldNum, f)
  /\ rx' = [r EXCEPT !.ack.num = "Old"]
  /\ tx' = [e EXCEPT !.pending = k]

(* The same for a command or an acknowledgement of the Rx, which carries   *)
(* the address of its endpoint.                                            *)
SendReply(k, saved) == network' = network \cup {Reply(k, saved)}

(* The thread of the Tx goes on with state s after time t.                 *)
TxGoto(s, t) == Goto(tx, s, t)
RxGoto(s, t) == Goto(rx, s, t)

(* ProbeTxControlProcessProbeState, one state each: it runs when the timer *)
(* has reached zero, and again until a state asks to wait.                 *)
TxProcess(s) == tx.state = s /\ tx.timer = 0 /\ ~crash

TxSendReset ==
  /\ \E s \in {"Idle", "SendReset", "Resetting", "WaitForStart"} :
       /\ TxProcess(s)
       /\ LET next == IF s = "Idle" THEN "SendReset" ELSE s
              told == s \in {"Idle", "SendReset"}
          IN SendCommand("Reset",
               [TxGoto(next, ResetTime) EXCEPT
                  !.connected = @ /\ ~told], rx, fifo)
  /\ UNCHANGED <<commands, efa, crash, faults>>

TxEfaReset ==
  /\ TxProcess("EfaReset")
  /\ SendCommand("Reset",
       [TxGoto("Resetting", ManagerTime) EXCEPT
          !.connected = FALSE, !.gid = None], rx, fifo)
  /\ QueueReset("Tx")
  /\ UNCHANGED <<efa, crash, faults>>

TxResetDone ==
  /\ TxProcess("ResetDone")
  /\ tx' = TxGoto("WaitForStart", ManagerTime)
  /\ UNCHANGED <<rx, fifo, commands, network, efa, crash, faults>>

(* ProcessSendCommandRetry, for the version and for the ping.              *)
TxSendWithRetry ==
  /\ \E s \in {"SendProtocolVersion", "EfaConnectedPing"} :
       /\ TxProcess(s)
       /\ IF tx.retries < CommandRetries
          THEN SendCommand(
                 IF s = "EfaConnectedPing" THEN "Ping" ELSE "ProtocolVersion",
                 [TxGoto(s, AckTime) EXCEPT !.retries = @ + 1], rx, fifo)
          ELSE /\ tx' = [TxGoto("EfaReset", 0) EXCEPT !.retries = @ + 1]
               /\ UNCHANGED <<rx, fifo, network>>
  /\ UNCHANGED <<commands, efa, crash, faults>>

(* What a new round of probe packets starts with.                          *)
KeptCount == [tx EXCEPT !.callback = "Probe", !.retries = 0, !.waits = 0]
NewRound ==
  [tx EXCEPT !.callback = "Probe", !.retries = 0, !.acked = 0, !.waits = 0]

(* ProbeControlEfaConnectionStart and the first probe packet.              *)
(* EfaTxEndpointStart asserts that the endpoint is open and has no peer    *)
(* yet; the header of the packet needs the negotiated version.  The call   *)
(* fi_av_insert may fail.                                                  *)
TxEfaStart ==
  /\ TxProcess("EfaStart")
  /\ \/ /\ ~(tx.open /\ tx.peer = None /\ tx.version)
        /\ crash' = TRUE
        /\ UNCHANGED <<tx, efa, faults>>
     \/ /\ tx.open /\ tx.peer = None /\ tx.version /\ tx.gid # None
        /\ tx' = [Goto(NewRound, "EfaProbe", ProbeTime) EXCEPT !.peer = tx.gid]
        /\ efa' = [kind |-> "Probe", to |-> tx.gid, acked |-> FALSE]
        /\ UNCHANGED <<crash, faults>>
     \/ /\ tx.open /\ tx.peer = None
        /\ \/ tx.gid = None /\ UNCHANGED faults
           \/ Fault("Failed")
        /\ tx' = Goto(NewRound, "EfaReset", ResetTime)
        /\ UNCHANGED <<efa, crash>>
  /\ UNCHANGED <<rx, fifo, commands, network>>

(* No Connected came in time: the whole handshake is done again.           *)
ProbeFailed == TxGoto("EfaReset", 0)

TxEfaProbe ==
  /\ TxProcess("EfaProbe")
  /\ tx' = ProbeFailed
  /\ UNCHANGED <<rx, fifo, commands, network, efa, crash, faults>>

AlmostAllAcked == tx.acked >= ProbePackets - 1
AllAcked == tx.acked >= ProbePackets

(* Once all probe packets are acknowledged the application gets the        *)
(* endpoint back (ProbeControlEfaConnectionEnableApplication), and the     *)
(* thread writes to the FIFO that only it reads.                           *)
TxEfaTxProbeAcks ==
  /\ TxProcess("EfaTxProbeAcks")
  /\ \/ /\ AllAcked
        /\ HasRoom("Tx")
        /\ Put("Tx", Change("EfaConnected"))
        /\ tx' = [TxGoto("EfaConnected", ManagerTime)
                    EXCEPT !.callback = "App"]
     \/ /\ ~AllAcked
        /\ LET more == tx.waits + 1 < AckWaits
           IN tx' = [TxGoto(IF more THEN "EfaTxProbeAcks" ELSE "EfaReset",
                            IF more THEN AckWaitTime ELSE 0)
                       EXCEPT !.waits = @ + 1]
        /\ UNCHANGED fifo
  /\ UNCHANGED <<rx, commands, network, efa, crash, faults>>

TxEfaConnected ==
  /\ TxProcess("EfaConnected")
  /\ tx' = [TxGoto("EfaConnectedPing", 0)
              EXCEPT !.connected = TRUE, !.retries = 0]
  /\ UNCHANGED <<rx, fifo, commands, network, efa, crash, faults>>

TxProcessState ==
  \/ TxSendReset \/ TxEfaReset \/ TxResetDone \/ TxSendWithRetry
  \/ TxEfaStart \/ TxEfaProbe \/ TxEfaTxProbeAcks \/ TxEfaConnected

-----------------------------------------------------------------------------
(* CdiFifoRead returns m to the thread of side s.                          *)
Reads(s, m) == fifo[s] # <<>> /\ m = Head(fifo[s])
Pop(s) == [fifo EXCEPT ![s] = Tail(@)]

(* The thread has read what changes nothing: it waits for the rest of the  *)
(* time.                                                                   *)
Resumed(e) == [e EXCEPT !.reading = (e.timer > 0)]

(* ProbeControlThread reads a state change.  EfaConnected is logged with   *)
(* the negotiated version, which must exist.                               *)
ReadsChange(e, m) ==
  /\ m.type = "Change"
  /\ crash' = (m.state = "EfaConnected" /\ ~e.version)

TxReadChange ==
  /\ tx.reading /\ ~crash
  /\ \E m \in Changes : /\ Reads("Tx", m)
                        /\ ReadsChange(tx, m)
                        /\ tx' = TxGoto(m.state, 0)
  /\ fifo' = Pop("Tx")
  /\ UNCHANGED <<rx, commands, network, efa, faults>>

(* ProbeTxControlProcessPacket, kProbeCommandReset.  The command is        *)
(* executed but the state stays when no version can be agreed on           *)
(* (EfaAdapterEndpointProtocolVersionSet).                                 *)
TxReadReset ==
  /\ tx.reading /\ ~crash
  /\ \E m \in Replies :
       /\ Reads("Tx", m) /\ m.command = "Reset"
       /\ LET agreed == tx.version \/ HasLibfabric19 \/ ~m.legacy
              e == [tx EXCEPT !.connected = FALSE, !.gid = m.gid]
          IN \/ /\ agreed
                /\ tx' = Goto([e EXCEPT !.version = TRUE],
                              "Resetting", ManagerTime)
             \/ ~agreed /\ tx' = Resumed(e)
  /\ fifo' = Pop("Tx")
  /\ QueueReset("Tx")
  /\ UNCHANGED <<rx, network, efa, crash, faults>>

(* ProbeTxControlProcessPacket, kProbeCommandAck: taken in every state,    *)
(* but only for the command that is pending and with its number.           *)
TxReadAck ==
  /\ tx.reading /\ ~crash
  /\ \E m \in Replies :
       /\ Reads("Tx", m) /\ m.command = "Ack"
       /\ LET e == [tx EXCEPT !.pending = None]
          IN \/ /\ m.ack # tx.pending \/ m.num # "Last"
                /\ tx' = Resumed(tx)
                /\ UNCHANGED commands
             \/ /\ m.ack = tx.pending /\ m.num = "Last" /\ m.ack = "Reset"
                /\ tx' = [Goto(e, "SendProtocolVersion", 0) EXCEPT
                            !.gid = m.gid, !.version = FALSE, !.retries = 0]
                /\ UNCHANGED commands
             \/ /\ m.ack = tx.pending /\ m.num = "Last"
                /\ m.ack = "ProtocolVersion"
                /\ tx' = [Goto(e, "WaitForStart", ManagerTime)
                            EXCEPT !.version = TRUE]
                /\ QueueStart("Tx")
             \/ /\ m.ack = tx.pending /\ m.num = "Last" /\ m.ack = "Ping"
                /\ tx' = Goto(e, "EfaConnected", PingTime)
                /\ UNCHANGED commands
  /\ fifo' = Pop("Tx")
  /\ UNCHANGED <<rx, network, efa, crash, faults>>

(* ProbeTxControlProcessPacket, kProbeCommandConnected.                    *)
TxReadConnected ==
  /\ tx.reading /\ ~crash
  /\ \E m \in Replies : Reads("Tx", m) /\ m.command = "Connected"
  /\ tx' = TxGoto(IF tx.state = "EfaProbe" THEN "EfaTxProbeAcks"
                  ELSE "SendReset", 0)
  /\ fifo' = Pop("Tx")
  /\ UNCHANGED <<rx, commands, network, efa, crash, faults>>

TxRead == TxReadChange \/ TxReadReset \/ TxReadAck \/ TxReadConnected

-----------------------------------------------------------------------------
(* ProbeRxControlProcessProbeState, one state each.                        *)
RxProcess(s) == rx.exists /\ rx.state = s /\ rx.timer = 0 /\ ~crash

(* The saved acknowledgement is sent, if there is one.                     *)
SendSavedAck ==
  IF rx.ack.command = None THEN UNCHANGED network ELSE SendReply("Ack", rx.ack)

(* DestroyRxEndpoint: the application is told, and the thread waits inside *)
(* EndpointManagerEndpointDestroy until its endpoint is gone.              *)
Destroyed == [rx EXCEPT !.state = "Destroy", !.timer = DefaultTime,
                        !.reading = FALSE, !.connected = FALSE]

(* EfaStart, or no answer of the Endpoint Manager to the Start command.    *)
RxEfaStart ==
  /\ \E s \in {"EfaStart", "WaitForStart"} : RxProcess(s)
  /\ SendSavedAck
  /\ rx' = [RxGoto("EfaProbe", ResetTime) EXCEPT
              !.callback = "Probe", !.resets = 0, !.received = 0,
              !.ack = NoAck]
  /\ UNCHANGED <<tx, fifo, commands, efa, crash, faults>>

RxResetting ==
  /\ RxProcess("Resetting")
  /\ SendReply("Reset", NoAck)
  /\ rx' = RxGoto("Resetting", ResetTime)
  /\ UNCHANGED <<tx, fifo, commands, efa, crash, faults>>

RxEfaReset ==
  /\ RxProcess("EfaReset")
  /\ QueueReset("Rx")
  /\ rx' = [RxGoto("Resetting", ManagerTime) EXCEPT !.connected = FALSE]
  /\ UNCHANGED <<tx, fifo, network, efa, crash, faults>>

(* After a few resets without an answer the endpoint destroys itself.      *)
LastReset == rx.resets + 1 >= ResetRetries

RxSendReset ==
  /\ RxProcess("SendReset")
  /\ rx' = IF LastReset THEN Destroyed
           ELSE [RxGoto("SendReset", ResetTime)
                   EXCEPT !.connected = FALSE, !.resets = @ + 1]
  /\ IF LastReset THEN UNCHANGED network ELSE SendReply("Reset", NoAck)
  /\ UNCHANGED <<tx, fifo, commands, efa, crash, faults>>

(* A reset the Tx asked for is acknowledged when it is done; a reset of    *)
(* this side's own making is announced to the Tx.                          *)
RxResetDone ==
  /\ RxProcess("ResetDone")
  /\ \/ /\ rx.version
        /\ QueueStart("Rx")
        /\ rx' = RxGoto("WaitForStart", ManagerTime)
        /\ UNCHANGED network
     \/ /\ ~rx.version
        /\ SendSavedAck
        /\ rx' = IF rx.ack.command # None
                 THEN [RxGoto("EfaProbe", ProbeTime) EXCEPT !.ack = NoAck]
                 ELSE RxGoto("SendReset", 0)
        /\ UNCHANGED commands
  /\ UNCHANGED <<tx, fifo, efa, crash, faults>>

RxEfaProbe ==
  /\ RxProcess("EfaProbe")
  /\ rx' = RxGoto("SendReset", 0)
  /\ UNCHANGED <<tx, fifo, commands, network, efa, crash, faults>>

(* The application is told, then the Tx.                                   *)
RxEfaConnected ==
  /\ RxProcess("EfaConnected")
  /\ SendReply("Connected", NoAck)
  /\ rx' = [RxGoto("EfaConnectedPing", PingMonitorTime) EXCEPT
              !.connected = TRUE, !.resets = 0, !.fresh = FALSE]
  /\ UNCHANGED <<tx, fifo, commands, efa, crash, faults>>

(* No ping for long: packets that arrived since the last look count too.   *)
RxEfaConnectedPing ==
  /\ RxProcess("EfaConnectedPing")
  /\ rx' = IF rx.fresh
           THEN [RxGoto("EfaConnectedPing", PingMonitorTime) EXCEPT
                   !.resets = 0, !.fresh = FALSE]
           ELSE Destroyed
  /\ UNCHANGED <<tx, fifo, commands, network, efa, crash, faults>>

RxProcessState ==
  \/ RxEfaStart \/ RxResetting \/ RxEfaReset \/ RxSendReset \/ RxResetDone
  \/ RxEfaProbe \/ RxEfaConnected \/ RxEfaConnectedPing

RxReads == rx.exists /\ rx.reading /\ ~crash

RxReadChange ==
  /\ RxReads
  /\ \E m \in Changes : /\ Reads("Rx", m)
                        /\ ReadsChange(rx, m)
                        /\ rx' = RxGoto(m.state, 0)
  /\ fifo' = Pop("Rx")
  /\ UNCHANGED <<tx, commands, network, efa, faults>>

(* ProbeRxControlProcessPacket.                                            *)
RxReadReset ==
  /\ RxReads
  /\ \E m \in Commands :
       /\ Reads("Rx", m) /\ m.command = "Reset"
       /\ rx' = [RxGoto("EfaReset", 0) EXCEPT
                   !.version = FALSE,
                   !.ack = [command |-> "Reset", num |-> m.num]]
  /\ fifo' = Pop("Rx")
  /\ UNCHANGED <<tx, commands, network, efa, crash, faults>>

RxReadProtocolVersion ==
  /\ RxReads
  /\ \E m \in Commands :
       /\ Reads("Rx", m) /\ m.command = "ProtocolVersion"
       /\ rx' = [RxGoto("WaitForStart", ManagerTime) EXCEPT
                   !.version = TRUE,
                   !.ack = [command |-> "ProtocolVersion", num |-> m.num]]
  /\ fifo' = Pop("Rx")
  /\ QueueStart("Rx")
  /\ UNCHANGED <<tx, network, efa, crash, faults>>

(* The time the Rx waits for the next ping starts anew.                    *)
Pinged == RxGoto("EfaConnectedPing", PingMonitorTime)

RxReadPing ==
  /\ RxReads
  /\ \E m \in Commands :
       /\ Reads("Rx", m) /\ m.command = "Ping"
       /\ rx' = Pinged
       /\ SendReply("Ack", m)
  /\ fifo' = Pop("Rx")
  /\ UNCHANGED <<tx, commands, efa, crash, faults>>

RxRead == RxReadChange \/ RxReadReset \/ RxReadProtocolVersion \/ RxReadPing

-----------------------------------------------------------------------------
(* The Endpoint Manager executes a command while the poll thread waits.    *)
Pending(s, k) == commands[s] # <<>> /\ Head(commands[s]) = k
Executed(s) == commands' = [commands EXCEPT ![s] = Tail(@)]

(* EfaEndpointReset: the libfabric endpoint is closed, what was in flight  *)
(* is gone, and the probe is told (ProbeEndpointResetDone).                *)
TxExecuteReset ==
  /\ Pending("Tx", "Reset") /\ HasRoom("Tx") /\ ~crash
  /\ tx' = [tx EXCEPT !.open = FALSE, !.peer = None]
  /\ efa' = NoPacket
  /\ Put("Tx", Change("ResetDone"))
  /\ Executed("Tx")
  /\ UNCHANGED <<rx, network, crash, faults>>

RxExecuteReset ==
  /\ Pending("Rx", "Reset") /\ HasRoom("Rx") /\ ~crash
  /\ rx' = [rx EXCEPT !.open = FALSE, !.probes = 0, !.payloads = 0]
  /\ Put("Rx", Change("ResetDone"))
  /\ Executed("Rx")
  /\ UNCHANGED <<tx, network, efa, crash, faults>>

(* EfaEndpointStart: opened if it is closed, and the probe goes on if it   *)
(* still waits for that (ProbeEndpointStart).                              *)
Started(s, state) ==
  IF state = "WaitForStart"
  THEN [fifo EXCEPT ![s] = Append(@, Change("EfaStart"))] ELSE fifo

TxExecuteStart ==
  /\ Pending("Tx", "Start") /\ ~crash /\ HasRoom("Tx")
  /\ tx' = [tx EXCEPT !.open = TRUE]
  /\ fifo' = Started("Tx", tx.state)
  /\ Executed("Tx")
  /\ UNCHANGED <<rx, network, efa, crash, faults>>

(* LibFabricEndpointOpen fails, and the probe is not told.                 *)
FailedStart(s, e) ==
  /\ Pending(s, "Start") /\ ~e.open /\ Executed(s)
  /\ Fault("Failed")
  /\ UNCHANGED <<tx, rx, fifo, network, efa, crash>>

(* A receiver that opens its endpoint may get an address it has not had    *)
(* before, and what the Tx has heard of is then an old one.  f and net are *)
(* the FIFOs and the network of the step.                                  *)
Opened(f, net) ==
  IF ReusesAddress
  THEN fifo' = f /\ network' = net /\ UNCHANGED <<tx, efa>>
  ELSE /\ fifo' = AgeAll(OldGid, f)
       /\ network' = {OldGid(m) : m \in net}
       /\ tx' = [tx EXCEPT !.gid = IF @ = "Now" THEN "Old" ELSE @,
                           !.peer = IF @ = "Now" THEN "Old" ELSE @]
       /\ efa' = [efa EXCEPT !.to = "Old"]

RxExecuteStart ==
  /\ Pending("Rx", "Start") /\ ~crash /\ HasRoom("Rx")
  /\ rx' = [rx EXCEPT !.open = TRUE]
  /\ LET f == Started("Rx", rx.state)
     IN IF rx.open THEN fifo' = f /\ UNCHANGED <<tx, network, efa>>
        ELSE Opened(f, network)
  /\ Executed("Rx")
  /\ UNCHANGED <<crash, faults>>

(* DestroyEndpoint of the Endpoint Manager: it joins the probe thread and  *)
(* frees the endpoint.                                                     *)
RxDestroyed ==
  /\ rx.exists /\ rx.state = "Destroy" /\ ~crash
  /\ rx' = NoRx
  /\ fifo' = [fifo EXCEPT !["Rx"] = <<>>]
  /\ commands' = [commands EXCEPT !["Rx"] = <<>>]
  /\ UNCHANGED <<tx, network, efa, crash, faults>>

-----------------------------------------------------------------------------
(* ProbeRxControlMessageFromEndpoint: the receive thread of the control    *)
(* interface hands a packet to the FIFO of the endpoint.  FindProbeEndpoint *)
(* saves the address of the sender for the Tx before that; a receiver      *)
(* without an endpoint creates one.  A packet that stays in the network    *)
(* comes again.                                                            *)
Takes(m, left) ==
  \/ left = network \ {m} /\ UNCHANGED faults
  \/ left = network /\ Fault("Doubled")

TxDeliver ==
  /\ ~crash /\ HasRoom("Tx")
  /\ \E m \in network \cap Replies, left \in SUBSET network :
       /\ Takes(m, left) /\ network' = left
       /\ Put("Tx", m)
       /\ tx' = [tx EXCEPT !.gid = m.gid]
  /\ UNCHANGED <<rx, commands, efa, crash>>

RxDeliver ==
  /\ ~crash
  /\ \E m \in network \cap Commands, left \in SUBSET network :
       /\ Takes(m, left)
       /\ \/ /\ rx.exists /\ HasRoom("Rx")
             /\ Put("Rx", m)
             /\ network' = left
             /\ UNCHANGED <<tx, rx, efa>>
          \/ /\ ~rx.exists
             /\ rx' = NewRx
             /\ Opened([fifo EXCEPT !["Rx"] = <<m>>], left)
  /\ UNCHANGED <<commands, crash>>

Lose ==
  /\ Fault("Lost")
  /\ \E m \in network : network' = network \ {m}
  /\ UNCHANGED <<tx, rx, fifo, commands, efa, crash>>

-----------------------------------------------------------------------------
(* The EFA packet reaches the completion queue of an endpoint that is open *)
(* at the address it was sent to; libfabric gives up on any other.         *)
InFlight == efa.kind \in {"Probe", "App"}
Reachable == efa.to = "Now" /\ rx.exists /\ rx.open

EfaArrive ==
  /\ InFlight /\ ~efa.acked /\ Reachable /\ ~crash
  /\ efa' = [efa EXCEPT !.acked = TRUE]
  /\ rx' = IF efa.kind = "Probe" THEN [rx EXCEPT !.probes = @ + 1]
           ELSE [rx EXCEPT !.payloads = @ + 1]
  /\ UNCHANGED <<tx, fifo, commands, network, crash, faults>>

(* ProbeEndpointError, called by a poll thread.                            *)
Report(s) == HasRoom(s) /\ Put(s, Change("EfaReset"))

(* The poll thread leaves an endpoint alone while commands for it wait; a  *)
(* poll under way when the command was queued still goes on.               *)
Polls(s) ==
  IF commands[s] = <<>> THEN UNCHANGED faults
  ELSE Fault("Late")

(* A packet that was not acknowledged ends the connection, if there is one. *)
NeverFailed == FALSE
Failed == ~efa.acked /\ tx.connected

(* Poll of adapter_efa_tx.c: a completion, good or bad, goes to the owner  *)
(* of the endpoint.  ProbeTxEfaMessageFromEndpoint counts it and sends the *)
(* next packet, whose header needs the negotiated version.                 *)
EfaComplete ==
  /\ InFlight /\ ~crash /\ Polls("Tx")
  /\ efa.acked \/ ~Reachable
  /\ LET failed == Failed
         told == [tx EXCEPT !.connected = @ /\ ~failed]
         more == tx.callback = "Probe" /\ tx.acked + 1 < ProbePackets
     IN /\ IF failed THEN Report("Tx") ELSE UNCHANGED fifo
        /\ tx' = IF tx.callback = "Probe" THEN [told EXCEPT !.acked = @ + 1]
                 ELSE told
        /\ crash' = (more /\ ~tx.version)
        /\ efa' = CASE more -> [NoPacket EXCEPT !.kind = "Probe",
                                               !.to = tx.peer]
                     [] ~more /\ efa.kind = "App" -> Spent
                     [] OTHER -> NoPacket
  /\ UNCHANGED <<rx, commands, network>>

(* The poll thread of the Rx hands a packet to the owner of the endpoint:  *)
(* ProbeRxEfaMessageFromEndpoint counts it and gives the endpoint to the   *)
(* application after the last one.                                         *)
EfaReceive ==
  /\ ~crash /\ Polls("Rx")
  /\ \E taken \in {[rx EXCEPT !.probes = @ - 1], [rx EXCEPT !.payloads = @ - 1]} :
       /\ taken.probes >= 0 /\ taken.payloads >= 0
       /\ LET last == rx.received + 1 >= ProbePackets
          IN IF rx.callback = "App"
             THEN rx' = [taken EXCEPT !.fresh = TRUE] /\ UNCHANGED fifo
             ELSE /\ rx' = [taken EXCEPT
                              !.received = @ + 1,
                              !.callback = IF last THEN "App" ELSE "Probe"]
                  /\ IF last THEN HasRoom("Rx")
                                  /\ Put("Rx", Change("EfaConnected"))
                     ELSE UNCHANGED fifo
  /\ UNCHANGED <<tx, commands, network, efa, crash>>

(* The application sends one payload of one packet per unit of time.       *)
AppSend ==
  /\ sends /\ tx.connected /\ efa.kind = None /\ ~crash
  /\ Polls("Tx")
  /\ crash' = (~tx.open \/ tx.peer = None)
  /\ efa' = IF crash' THEN efa
            ELSE [NoPacket EXCEPT !.kind = "App", !.to = tx.peer]
  /\ UNCHANGED <<tx, rx, fifo, commands, network, sends>>

(* A failure to send, or to give receive buffers back to libfabric.        *)
TxError ==
  /\ Fault("TxError") /\ tx.connected
  /\ tx' = [tx EXCEPT !.connected = FALSE]
  /\ Report("Tx")
  /\ UNCHANGED <<rx, commands, network, efa, crash>>

RxError ==
  /\ Fault("RxError") /\ rx.connected
  /\ rx' = [rx EXCEPT !.connected = FALSE]
  /\ Report("Rx")
  /\ UNCHANGED <<tx, commands, network, efa, crash>>

-----------------------------------------------------------------------------
(* A unit of time passes.  Packets and threads are fast: time that passes  *)
(* while one of them has something to do is a fault.                       *)
Waiting(e) == e.reading /\ e.timer > 0
Quiet ==
  /\ network = {} /\ ~InFlight /\ rx.probes = 0 /\ rx.payloads = 0
  /\ \A s \in Sides : fifo[s] = <<>> /\ commands[s] = <<>>
  /\ Waiting(tx) /\ (rx.exists => Waiting(rx))

Aged(e) == IF Waiting(e) THEN [e EXCEPT !.timer = @ - 1] ELSE e

Tick ==
  /\ ~crash
  /\ Waiting(tx) \/ (rx.exists /\ Waiting(rx))
  /\ \/ Quiet /\ UNCHANGED faults
     \/ ~Quiet /\ Fault("Late")
  /\ tx' = Aged(tx)
  /\ rx' = IF rx.exists THEN Aged(rx) ELSE rx
  /\ efa' = IF efa.kind = "Spent" THEN NoPacket ELSE efa
  /\ UNCHANGED <<fifo, commands, network, crash>>

-----------------------------------------------------------------------------
Execute == TxExecuteReset \/ RxExecuteReset \/ TxExecuteStart
           \/ RxExecuteStart \/ RxDestroyed
Efa == EfaArrive \/ EfaComplete \/ EfaReceive
Step == /\ UNCHANGED sends
        /\ \/ TxProcessState \/ TxRead \/ RxProcessState \/ RxRead \/ Execute
           \/ TxDeliver \/ RxDeliver \/ Efa \/ Tick

Other == /\ UNCHANGED sends
         /\ \/ Lose \/ TxError \/ RxError
            \/ FailedStart("Tx", tx) \/ FailedStart("Rx", rx)

Next == Step \/ AppSend \/ Other

Spec == Init /\ [][Next]_vars
FairSpec == Spec /\ WF_vars(Step) /\ WF_vars(AppSend)

-----------------------------------------------------------------------------
(* Properties.                                                             *)

(* The owner of the endpoint gets its own completions: while a probe       *)
(* packet is under way the callback of the Tx is the probe's, and no packet *)
(* counts as a probe packet that is not.  The poll thread looks at the     *)
(* callback when the completion comes, not when the packet was sent        *)
(* (EfaConnectionEnableApplication, adapter_efa_probe_control.c), so that  *)
(* this is true only as long as the application sends nothing.             *)
PacketsMeetTheirOwner ==
  ~sends => /\ efa.kind = "Probe" => tx.callback = "Probe"
            /\ efa.kind = "App" => tx.callback = "App"

(* The probe thread never waits for room in the FIFO that only it reads:   *)
(* ProbeControlQueueStateChange has no timeout.                            *)
NeverWaitsForItself ==
  ~(TxProcess("EfaTxProbeAcks") /\ AllAcked /\ ~HasRoom("Tx"))

(* The application of the Tx is told Connected only when every probe       *)
(* packet was acknowledged since the libfabric endpoint was started, as    *)
(* long as it sends nothing itself (PacketsMeetTheirOwner).                *)
OnlyProvenConnections ==
  [][~sends /\ ~tx.connected /\ tx.connected' => tx.acked = ProbePackets]_vars

(* Whatever was lost, doubled or late, the application of the Tx is told   *)
(* Connected in the end; with payloads under way both applications are,    *)
(* and the Tx sends to the address the receiver has now (a payload sent to *)
(* an endpoint that was opened again is what makes the Tx reset).  Nothing *)
(* else restarts a handshake that has stalled, so every state must time    *)
(* out into one that starts it again.                                      *)
Agreed == tx.connected /\ rx.exists /\ rx.connected /\ tx.peer = "Now"
Settles == <>[](crash \/ Agreed \/ (~sends /\ tx.connected))
=============================================================================
