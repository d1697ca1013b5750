---------------------------- MODULE Probe_proofs ----------------------------
(***************************************************************************)
(* Proofs about the connection probe, for any numbers of retries, times    *)
(* and faults: every variable keeps its type - no counter passes its       *)
(* limit, no FIFO is filled, no packet is sent to an endpoint without a    *)
(* peer - and, as long as the application sends nothing, the owner of the  *)
(* endpoint gets its own completions.                                      *)
(***************************************************************************)
EXTENDS Probe, TLAPS

(* The FIFOs carry four of the states only, and a counter that its state   *)
(* counts is below its limit there.                                        *)
Told == [type : {"Change"},
         state : {"EfaReset", "ResetDone", "EfaStart", "EfaConnected"}]
Messages == Told \cup Commands \cup Replies
ToldInv == fifo \in [Sides -> Seq(Messages)]
TxCounts(e) ==
  /\ e.state \in {"SendProtocolVersion", "EfaConnectedPing"} =>
       e.retries <= CommandRetries
  /\ e.state = "EfaProbe" => e.waits = 0
  /\ e.state = "EfaTxProbeAcks" => e.waits < AckWaits
RxCounts(e) == e.callback = "Probe" => e.received < ProbePackets
CountInv == TxCounts(tx) /\ RxCounts(rx)

(* A packet under way has a peer it was sent to: a reset takes both.       *)
PeerInv == InFlight => tx.peer # None

(* With an application that sends nothing, a packet under way is one of    *)
(* the probe, and the round it belongs to is not over.                     *)
OwnerInv ==
  ~sends => /\ efa.kind # "App"
            /\ efa.kind = "Probe" =>
                 tx.callback = "Probe" /\ tx.acked < ProbePackets

IInv == TypeOK /\ ToldInv /\ CountInv /\ PeerInv /\ OwnerInv

-----------------------------------------------------------------------------
(* The parts the actions are built from.                                   *)
(* A message that ages stays a message of its kind.                        *)
LEMMA OldNumType ==
  /\ \A m \in Messages : OldNum(m) \in Messages
  /\ \A m \in Commands : OldNum(m) \in Commands
  /\ \A m \in Replies : OldNum(m) \in Replies
<1>1. \A m \in Told : OldNum(m) \in Told BY DEF OldNum, Told
<1>2. \A m \in Commands : OldNum(m) \in Commands BY DEF OldNum, Commands, Ages
<1>3. \A m \in Replies : OldNum(m) \in Replies BY DEF OldNum, Replies, Ages
<1> QED BY <1>1, <1>2, <1>3 DEF Messages

(* A reply whose address ages stays a reply.                               *)
LEMMA OldGidType ==
  /\ \A m \in Messages : OldGid(m) \in Messages
  /\ \A m \in Commands : OldGid(m) \in Commands
  /\ \A m \in Replies : OldGid(m) \in Replies
<1>1. \A m \in Told : OldGid(m) \in Told BY DEF OldGid, Told
<1>2. \A m \in Commands : OldGid(m) \in Commands BY DEF OldGid, Commands
<1>3. \A m \in Replies : OldGid(m) \in Replies BY DEF OldGid, Replies, Addresses
<1> QED BY <1>1, <1>2, <1>3 DEF Messages

(* The FIFOs that age keep their lengths.                                  *)
LEMMA AgeAllType ==
  ASSUME NEW f \in [Sides -> Seq(Messages)]
  PROVE  /\ AgeAll(OldNum, f) \in [Sides -> Seq(Messages)]
         /\ AgeAll(OldGid, f) \in [Sides -> Seq(Messages)]
         /\ \A s \in Sides : /\ Len(AgeAll(OldNum, f)[s]) = Len(f[s])
                             /\ Len(AgeAll(OldGid, f)[s]) = Len(f[s])
<1>1. \A s \in Sides : /\ [i \in DOMAIN f[s] |-> OldNum(f[s][i])] \in Seq(Messages)
                       /\ Len([i \in DOMAIN f[s] |-> OldNum(f[s][i])]) = Len(f[s])
  BY OldNumType
<1>2. \A s \in Sides : /\ [i \in DOMAIN f[s] |-> OldGid(f[s][i])] \in Seq(Messages)
                       /\ Len([i \in DOMAIN f[s] |-> OldGid(f[s][i])]) = Len(f[s])
  BY OldGidType
<1> QED BY <1>1, <1>2 DEF AgeAll

(* What the FIFOs of a step may be: of messages, none of them full.        *)
Fifos == {f \in [Sides -> Seq(Messages)] : \A s \in Sides : Len(f[s]) < FifoSize}

(* Ageing fills no FIFO.                                                   *)
LEMMA AgeAllKeeps ==
  ASSUME NEW f \in Fifos
  PROVE  AgeAll(OldNum, f) \in Fifos /\ AgeAll(OldGid, f) \in Fifos
BY AgeAllType DEF Fifos

(* A message that finds room fits.                                         *)
LEMMA PutKeeps ==
  ASSUME fifo \in Fifos, NEW s \in Sides, NEW m \in Messages, HasRoom(s)
  PROVE  /\ [fifo EXCEPT ![s] = Append(@, m)] \in Fifos
         /\ Put(s, m) => fifo' \in Fifos
<1>1. Append(fifo[s], m) \in Seq(Messages) /\ Len(Append(fifo[s], m)) < FifoSize
  BY DEF Fifos, HasRoom
<1>2. [fifo EXCEPT ![s] = Append(fifo[s], m)] \in Fifos
  <2> DEFINE q == Append(fifo[s], m)
  <2>1. q \in Seq(Messages) /\ Len(q) < FifoSize BY <1>1
  <2> HIDE DEF q
  <2>2. [fifo EXCEPT ![s] = q] \in Fifos BY <2>1 DEF Fifos
  <2> QED BY <2>2 DEF q
<1> QED BY <1>2 DEF Put

(* What is left after a read fits, and what was read is a message.         *)
LEMMA PopKeeps ==
  ASSUME fifo \in Fifos, NEW s \in Sides, fifo[s] # <<>>
  PROVE  Pop(s) \in Fifos /\ Head(fifo[s]) \in Messages
<1>1. Tail(fifo[s]) \in Seq(Messages) /\ Len(Tail(fifo[s])) = Len(fifo[s]) - 1
  BY DEF Fifos
<1> DEFINE q == Tail(fifo[s])
<1>2. q \in Seq(Messages) /\ Len(q) < FifoSize BY <1>1, ProbeAssumption DEF Fifos
<1> HIDE DEF q
<1>3. [fifo EXCEPT ![s] = q] \in Fifos BY <1>2 DEF Fifos
<1>4. Head(fifo[s]) \in Messages BY DEF Fifos
<1>5. Pop(s) = [fifo EXCEPT ![s] = q] BY Zenon DEF Pop, q
<1> QED BY ONLY <1>3, <1>4, <1>5

(* The thread goes on in a state of its own.                               *)
LEMMA GotoType ==
  ASSUME NEW s \in States, NEW t \in 0 .. Longest
  PROVE  /\ \A e \in Transmitters : Goto(e, s, t) \in Transmitters
         /\ \A e \in Receivers : Goto(e, s, t) \in Receivers
<1>1. (t > 0) \in BOOLEAN OBVIOUS
<1>2. ASSUME NEW b \in BOOLEAN, NEW e \in Transmitters
      PROVE  [e EXCEPT !.state = s, !.timer = t, !.reading = b] \in Transmitters
  BY DEF Transmitters
<1>3. ASSUME NEW b \in BOOLEAN, NEW e \in Receivers
      PROVE  [e EXCEPT !.state = s, !.timer = t, !.reading = b] \in Receivers
  BY DEF Receivers
<1>4. \A e \in Transmitters : Goto(e, s, t) \in Transmitters BY <1>1, <1>2 DEF Goto
<1>5. \A e \in Receivers : Goto(e, s, t) \in Receivers BY <1>1, <1>3 DEF Goto
<1> QED BY <1>4, <1>5

(* Every time is one a timer may be set to.                                *)
LEMMA Times ==
  /\ {0, AckWaitTime, AckTime, ManagerTime, ResetTime, ProbeTime, PingTime,
      PingMonitorTime, DefaultTime} \subseteq 0 .. Longest
  /\ Longest \in Nat
BY ProbeAssumption DEF Longest, DefaultTime
-----------------------------------------------------------------------------
(* The transmitter.                                                        *)
(* The move of the thread changes nothing else.                            *)
LEMMA TxMoves ==
  ASSUME NEW e \in Transmitters, NEW s \in States, NEW t \in 0 .. Longest
  PROVE  /\ Goto(e, s, t) \in Transmitters
         /\ Goto(e, s, t).state = s
         /\ Goto(e, s, t).retries = e.retries
         /\ Goto(e, s, t).waits = e.waits
         /\ Goto(e, s, t).acked = e.acked
         /\ Goto(e, s, t).peer = e.peer
         /\ Goto(e, s, t).callback = e.callback
         /\ Goto(e, s, t).connected = e.connected
BY GotoType DEF Goto, Transmitters

Kept(e) == e \in Transmitters /\ TxCounts(e)

(* Only these fields matter for the counters.                              *)
LEMMA KeptWhenCountersStay ==
  ASSUME NEW d \in Transmitters, NEW e \in Transmitters, TxCounts(d),
         e.state = d.state, e.retries = d.retries, e.waits = d.waits
  PROVE  Kept(e)
BY DEF Kept, TxCounts

(* ProbeTxControlProcessProbeState keeps the counters within their limits. *)
LEMMA TxProcessKeeps ==
  ASSUME IInv, TxProcessState PROVE Kept(tx')
<1>a. tx \in Transmitters /\ TxCounts(tx) BY DEF IInv, TypeOK, CountInv
<1>c. tx.retries \in 0 .. CommandRetries + 1 /\ tx.waits \in 0 .. AckWaits
      /\ tx.gid \in Addresses \cup {None}
  BY <1>a DEF Transmitters
<1> DEFINE g(s, t) == Goto(tx, s, t)
<1>g. \A s \in States, t \in 0 .. Longest :
        /\ g(s, t) \in Transmitters /\ g(s, t).state = s
        /\ g(s, t).retries = tx.retries /\ g(s, t).waits = tx.waits
        /\ g(s, t).connected = tx.connected
  BY <1>a, TxMoves
<1>b. /\ CommandRetries \in Nat \ {0} /\ AckWaits \in Nat \ {0}
      /\ 0 \in 0 .. CommandRetries + 1 /\ 0 \in 0 .. AckWaits
  BY ProbeAssumption
<1>1. CASE TxSendReset
  <2>1. PICK s \in {"Idle", "SendReset", "Resetting", "WaitForStart"} :
          LET next == IF s = "Idle" THEN "SendReset" ELSE s
              told == s \in {"Idle", "SendReset"}
          IN  tx' = [[g(next, ResetTime) EXCEPT !.connected = @ /\ ~told]
                      EXCEPT !.pending = "Reset"]
    BY <1>1 DEF TxSendReset, SendCommand, TxGoto
  <2> DEFINE next == IF s = "Idle" THEN "SendReset" ELSE s
             d == g(next, ResetTime)
  <2>2. next \in {"SendReset", "Resetting", "WaitForStart"} OBVIOUS
  <2>3. d \in Transmitters /\ d.state = next BY <1>g, <2>2, Times DEF States
  <2>4. PICK b \in BOOLEAN : tx' = [[d EXCEPT !.connected = b] EXCEPT !.pending = "Reset"]
    BY <2>1
  <2> HIDE DEF d
  <2>5. tx' \in Transmitters /\ tx'.state = d.state
    BY <2>3, <2>4 DEF Transmitters, Kinds
  <2> QED BY <2>5, <2>3, <2>2 DEF Kept, TxCounts
<1>2. CASE TxEfaReset
  <2> DEFINE d == g("Resetting", ManagerTime)
  <2>1. tx' = [[d EXCEPT !.connected = FALSE, !.gid = None] EXCEPT !.pending = "Reset"]
    BY <1>2 DEF TxEfaReset, SendCommand, TxGoto
  <2>2. d \in Transmitters /\ d.state = "Resetting" BY <1>g, Times DEF States
  <2> HIDE DEF d
  <2>3. tx' \in Transmitters /\ tx'.state = "Resetting"
    BY <2>1, <2>2 DEF Transmitters, Kinds
  <2> QED BY <2>3 DEF Kept, TxCounts
<1>3. CASE TxResetDone
  <2>1. tx' = g("WaitForStart", ManagerTime) BY <1>3 DEF TxResetDone, TxGoto
  <2>2. tx' \in Transmitters /\ tx'.state = "WaitForStart" BY <2>1, <1>g, Times DEF States
  <2> QED BY <2>2 DEF Kept, TxCounts
<1>4. CASE TxSendWithRetry
  <2>1. PICK s \in {"SendProtocolVersion", "EfaConnectedPing"} :
          /\ tx.state = s
          /\ \/ /\ tx.retries < CommandRetries
                /\ \E k \in Kinds :
                     tx' = [[g(s, AckTime) EXCEPT !.retries = @ + 1] EXCEPT !.pending = k]
             \/ tx' = [g("EfaReset", 0) EXCEPT !.retries = @ + 1]
    BY <1>4 DEF TxSendWithRetry, TxProcess, SendCommand, TxGoto, Kinds
  <2>s. s \in States /\ tx.state = s BY <2>1 DEF States
  <2>2. tx.retries \in Nat /\ tx.retries <= CommandRetries
    <3>1. tx.state \in {"SendProtocolVersion", "EfaConnectedPing"} BY <2>1
    <3> QED BY <3>1, <1>a, <1>b, <1>c DEF TxCounts
  <2>3. CASE /\ tx.retries < CommandRetries
             /\ \E k \in Kinds :
                  tx' = [[g(s, AckTime) EXCEPT !.retries = @ + 1] EXCEPT !.pending = k]
    <3> DEFINE d == g(s, AckTime)
    <3>1. d \in Transmitters /\ d.state = s /\ d.retries = tx.retries
      BY <1>g, <2>s, Times
    <3>2. PICK k \in Kinds : tx' = [[d EXCEPT !.retries = @ + 1] EXCEPT !.pending = k]
      BY <2>3
    <3> HIDE DEF d
    <3>3. tx.retries < CommandRetries BY <2>3
    <3>4. d.retries + 1 \in 0 .. CommandRetries + 1 /\ d.retries + 1 <= CommandRetries
      BY <3>1, <3>3, <2>2, <1>b
    <3>5. k \in Kinds \cup {None} OBVIOUS
    <3>6. tx' \in Transmitters /\ tx'.state = s /\ tx'.retries = d.retries + 1
      BY <3>1, <3>2, <3>4, <3>5 DEF Transmitters
    <3>7. s \in {"SendProtocolVersion", "EfaConnectedPing"} OBVIOUS
    <3> QED BY <3>4, <3>6, <3>7 DEF Kept, TxCounts
  <2>4. CASE tx' = [g("EfaReset", 0) EXCEPT !.retries = @ + 1]
    <3> DEFINE d == g("EfaReset", 0)
    <3>1. d \in Transmitters /\ d.state = "EfaReset" /\ d.retries = tx.retries
      BY <1>g, Times DEF States
    <3> HIDE DEF d
    <3>2. tx' \in Transmitters /\ tx'.state = "EfaReset"
      BY <3>1, <2>4, <2>2, <1>b DEF Transmitters, d
    <3> QED BY <3>2 DEF Kept, TxCounts
  <2> QED BY <2>1, <2>3, <2>4
<1>5. CASE TxEfaStart
  <2>1. NewRound \in Transmitters /\ NewRound.waits = 0
    BY <1>a, <1>b DEF NewRound, Transmitters
  <2>r. {"EfaProbe", "EfaReset"} \subseteq States BY DEF States
  <2>m. \A s \in States, t \in 0 .. Longest :
          /\ Goto(NewRound, s, t) \in Transmitters
          /\ Goto(NewRound, s, t).state = s
          /\ Goto(NewRound, s, t).waits = 0
    BY <2>1, TxMoves
  <2> DEFINE d == Goto(NewRound, "EfaProbe", ProbeTime)
             r == Goto(NewRound, "EfaReset", ResetTime)
  <2>2. d \in Transmitters /\ d.state = "EfaProbe" /\ d.waits = 0
    BY <2>m, <2>r, Times
  <2>3. r \in Transmitters /\ r.state = "EfaReset"
    BY <2>m, <2>r, Times
  <2>4. \/ tx' = tx \/ tx' = r
        \/ tx.gid # None /\ tx' = [d EXCEPT !.peer = tx.gid]
    BY <1>5 DEF TxEfaStart
  <2> HIDE DEF d, r
  <2>5. CASE tx' = tx BY <2>5, <1>a DEF Kept
  <2>6. CASE tx' = r BY <2>6, <2>3 DEF Kept, TxCounts
  <2>7. CASE tx.gid # None /\ tx' = [d EXCEPT !.peer = tx.gid]
    <3>1. tx.gid \in Addresses BY <2>7, <1>c
    <3>2. tx' \in Transmitters /\ tx'.state = "EfaProbe" /\ tx'.waits = 0
      BY <2>2, <2>7, <3>1 DEF Transmitters
    <3> QED BY <3>2 DEF Kept, TxCounts
  <2> QED BY <2>4, <2>5, <2>6, <2>7
<1>6. CASE TxEfaProbe
  <2>1. tx' = g("EfaReset", 0) BY <1>6 DEF TxEfaProbe, ProbeFailed, TxGoto
  <2>2. tx' \in Transmitters /\ tx'.state = "EfaReset" BY <2>1, <1>g, Times DEF States
  <2> QED BY <2>2 DEF Kept, TxCounts
<1>7. CASE TxEfaTxProbeAcks
  <2>1. tx.state = "EfaTxProbeAcks" /\ tx.waits \in Nat /\ tx.waits < AckWaits
    BY <1>7, <1>a, <1>b, <1>c DEF TxEfaTxProbeAcks, TxProcess, TxCounts
  <2>2. CASE AllAcked
    <3> DEFINE d == g("EfaConnected", ManagerTime)
    <3>1. d \in Transmitters /\ d.state = "EfaConnected" BY <1>g, Times DEF States
    <3>2. tx' = [d EXCEPT !.callback = "App"]
      BY <1>7, <2>2 DEF TxEfaTxProbeAcks, TxGoto
    <3> HIDE DEF d
    <3>3. tx' \in Transmitters /\ tx'.state = "EfaConnected"
      BY <3>1, <3>2 DEF Transmitters
    <3> QED BY <3>3 DEF Kept, TxCounts
  <2>3. CASE ~AllAcked
    <3> DEFINE more == tx.waits + 1 < AckWaits
               s == IF more THEN "EfaTxProbeAcks" ELSE "EfaReset"
               d == g(s, IF more THEN AckWaitTime ELSE 0)
    <3>1. /\ d \in Transmitters /\ d.waits = tx.waits
          /\ d.state = s
      <4>1. s \in States BY DEF States
      <4>2. (IF more THEN AckWaitTime ELSE 0) \in 0 .. Longest BY Times
      <4> QED BY <4>1, <4>2, <1>g
    <3>2. tx' = [d EXCEPT !.waits = @ + 1]
      BY <1>7, <2>3 DEF TxEfaTxProbeAcks, TxGoto
    <3>3. s = "EfaTxProbeAcks" => tx.waits + 1 < AckWaits OBVIOUS
    <3>4. s \in {"EfaTxProbeAcks", "EfaReset"} OBVIOUS
    <3> HIDE DEF d, s
    <3>5. tx' \in Transmitters /\ tx'.state = s /\ tx'.waits = tx.waits + 1
      BY <3>1, <3>2, <2>1, <1>b DEF Transmitters
    <3> QED BY <3>3, <3>4, <3>5 DEF Kept, TxCounts
  <2> QED BY <2>2, <2>3
<1>8. CASE TxEfaConnected
  <2> DEFINE d == g("EfaConnectedPing", 0)
  <2>1. d \in Transmitters /\ d.state = "EfaConnectedPing" BY <1>g, Times DEF States
  <2>2. tx' = [d EXCEPT !.connected = TRUE, !.retries = 0]
    BY <1>8 DEF TxEfaConnected, TxGoto
  <2> HIDE DEF d
  <2>3. tx' \in Transmitters /\ tx'.state = "EfaConnectedPing" /\ tx'.retries = 0
    BY <2>1, <2>2, <1>b DEF Transmitters
  <2> QED BY <2>3, <1>b DEF Kept, TxCounts
<1> QED BY <1>1, <1>2, <1>3, <1>4, <1>5, <1>6, <1>7, <1>8 DEF TxProcessState

(* Reading what changes nothing changes nothing but the wait.              *)
LEMMA TxResumes ==
  ASSUME NEW e \in Transmitters
  PROVE  /\ Resumed(e) \in Transmitters /\ Resumed(e).state = e.state
         /\ Resumed(e).retries = e.retries /\ Resumed(e).waits = e.waits
         /\ Resumed(e).peer = e.peer /\ Resumed(e).acked = e.acked
         /\ Resumed(e).callback = e.callback
<1>1. (e.timer > 0) \in BOOLEAN OBVIOUS
<1>2. ASSUME NEW b \in BOOLEAN
      PROVE  LET r == [e EXCEPT !.reading = b]
             IN  /\ r \in Transmitters /\ r.state = e.state
                 /\ r.retries = e.retries /\ r.waits = e.waits
                 /\ r.peer = e.peer /\ r.acked = e.acked /\ r.callback = e.callback
  BY DEF Transmitters
<1> QED BY <1>1, <1>2 DEF Resumed

(* So does reading from the FIFO.                                          *)
LEMMA TxReadKeeps ==
  ASSUME IInv, TxRead PROVE Kept(tx')
<1>a. tx \in Transmitters /\ TxCounts(tx) BY DEF IInv, TypeOK, CountInv
<1>b. 0 \in 0 .. CommandRetries + 1 /\ CommandRetries \in Nat BY ProbeAssumption
<1> DEFINE g(s, t) == Goto(tx, s, t)
<1>g. \A s \in States, t \in 0 .. Longest :
        /\ g(s, t) \in Transmitters /\ g(s, t).state = s
        /\ g(s, t).retries = tx.retries /\ g(s, t).waits = tx.waits
  BY <1>a, TxMoves
<1>r. Kept(Resumed(tx))
  BY <1>a, TxResumes, KeptWhenCountersStay
<1>1. CASE TxReadChange
  <2>1. PICK m \in Changes : Reads("Tx", m) /\ tx' = g(m.state, 0)
    BY <1>1 DEF TxReadChange, TxGoto
  <2>2. m.state \in {"EfaReset", "ResetDone", "EfaStart", "EfaConnected"}
    <3>1. m \in Messages BY <2>1, PopKeeps DEF IInv, TypeOK, ToldInv, Fifos, Reads, Sides
    <3>2. m.type = "Change" BY DEF Changes
    <3>3. m \in Told BY <3>1, <3>2 DEF Messages, Commands, Replies
    <3> QED BY <3>3 DEF Told
  <2>3. tx' \in Transmitters /\ tx'.state = m.state
    BY <2>1, <2>2, <1>g, Times DEF States
  <2> QED BY <2>2, <2>3 DEF Kept, TxCounts
<1>2. CASE TxReadReset
  <2>1. PICK m \in Replies :
          LET e == [tx EXCEPT !.connected = FALSE, !.gid = m.gid]
          IN  \/ tx' = Goto([e EXCEPT !.version = TRUE], "Resetting", ManagerTime)
              \/ tx' = Resumed(e)
    BY <1>2 DEF TxReadReset
  <2> DEFINE e == [tx EXCEPT !.connected = FALSE, !.gid = m.gid]
  <2>2. m.gid \in Addresses BY DEF Replies
  <2>3. /\ e \in Transmitters /\ e.state = tx.state
        /\ e.retries = tx.retries /\ e.waits = tx.waits
    BY <1>a, <2>2 DEF Transmitters
  <2>4. \/ tx' = Goto([e EXCEPT !.version = TRUE], "Resetting", ManagerTime)
        \/ tx' = Resumed(e)
    BY <2>1
  <2> HIDE DEF e
  <2>5. CASE tx' = Goto([e EXCEPT !.version = TRUE], "Resetting", ManagerTime)
    <3> DEFINE d == [e EXCEPT !.version = TRUE]
    <3>1. d \in Transmitters BY <2>3 DEF Transmitters
    <3>2. tx' = Goto(d, "Resetting", ManagerTime) BY <2>5
    <3> HIDE DEF d
    <3>3. "Resetting" \in States BY DEF States
    <3>4. tx' \in Transmitters /\ tx'.state = "Resetting"
      BY <3>1, <3>2, <3>3, TxMoves, Times
    <3> QED BY <3>4 DEF Kept, TxCounts
  <2>6. CASE tx' = Resumed(e)
    <3>3. /\ tx' \in Transmitters /\ tx'.state = tx.state
          /\ tx'.retries = tx.retries /\ tx'.waits = tx.waits
      BY <2>3, <2>6, TxResumes
    <3> QED BY <1>a, <3>3, KeptWhenCountersStay
  <2> QED BY <2>4, <2>5, <2>6
<1>3. CASE TxReadAck
  <2> DEFINE e == [tx EXCEPT !.pending = None]
  <2>1. e \in Transmitters BY <1>a DEF Transmitters
  <2>2. \/ tx' = Resumed(tx)
        \/ \E m \in Replies :
             tx' = [Goto(e, "SendProtocolVersion", 0) EXCEPT
                      !.gid = m.gid, !.version = FALSE, !.retries = 0]
        \/ tx' = [Goto(e, "WaitForStart", ManagerTime) EXCEPT !.version = TRUE]
        \/ tx' = Goto(e, "EfaConnected", PingTime)
    BY <1>3 DEF TxReadAck
  <2>g. \A s \in States, t \in 0 .. Longest :
          /\ Goto(e, s, t) \in Transmitters /\ Goto(e, s, t).state = s
    BY <2>1, TxMoves
  <2>s. {"SendProtocolVersion", "WaitForStart", "EfaConnected"} \subseteq States
    BY DEF States
  <2> HIDE DEF e
  <2>3. CASE tx' = Resumed(tx) BY <2>3, <1>r
  <2>4. CASE \E m \in Replies :
               tx' = [Goto(e, "SendProtocolVersion", 0) EXCEPT
                        !.gid = m.gid, !.version = FALSE, !.retries = 0]
    <3> DEFINE d == Goto(e, "SendProtocolVersion", 0)
    <3>1. PICK m \in Replies :
            tx' = [d EXCEPT !.gid = m.gid, !.version = FALSE, !.retries = 0]
      BY <2>4
    <3>2. d \in Transmitters /\ d.state = "SendProtocolVersion" BY <2>g, <2>s, Times
    <3>3. m.gid \in Addresses BY DEF Replies
    <3> HIDE DEF d
    <3>4. tx' \in Transmitters /\ tx'.state = "SendProtocolVersion" /\ tx'.retries = 0
      BY <3>1, <3>2, <3>3, <1>b DEF Transmitters
    <3> QED BY <3>4, <1>b DEF Kept, TxCounts
  <2>5. CASE tx' = [Goto(e, "WaitForStart", ManagerTime) EXCEPT !.version = TRUE]
    <3> DEFINE d == Goto(e, "WaitForStart", ManagerTime)
    <3>1. tx' = [d EXCEPT !.version = TRUE] BY <2>5
    <3>2. d \in Transmitters /\ d.state = "WaitForStart" BY <2>g, <2>s, Times
    <3> HIDE DEF d
    <3>3. tx' \in Transmitters /\ tx'.state = "WaitForStart"
      BY <3>1, <3>2 DEF Transmitters
    <3> QED BY <3>3 DEF Kept, TxCounts
  <2>6. CASE tx' = Goto(e, "EfaConnected", PingTime)
    <3>1. tx' \in Transmitters /\ tx'.state = "EfaConnected" BY <2>6, <2>g, <2>s, Times
    <3> QED BY <3>1 DEF Kept, TxCounts
  <2> QED BY <2>2, <2>3, <2>4, <2>5, <2>6
<1>4. CASE TxReadConnected
  <2> DEFINE s == IF tx.state = "EfaProbe" THEN "EfaTxProbeAcks" ELSE "SendReset"
  <2>1. tx' = g(s, 0) BY <1>4 DEF TxReadConnected, TxGoto
  <2>2. s \in States BY DEF States
  <2>3. /\ tx' \in Transmitters /\ tx'.state = s /\ tx'.waits = tx.waits
    BY <2>1, <2>2, <1>g, Times
  <2>4. AckWaits \in Nat \ {0} BY ProbeAssumption
  <2> QED BY <2>3, <2>4, <1>a DEF Kept, TxCounts
<1> QED BY <1>1, <1>2, <1>3, <1>4 DEF TxRead

(* The other threads leave the counters of the transmitter alone.          *)
SameCounters ==
  /\ tx' \in Transmitters /\ tx'.state = tx.state
  /\ tx'.retries = tx.retries /\ tx'.waits = tx.waits

(* And so do all others.                                                   *)
LEMMA OthersKeepTx ==
  ASSUME IInv, Next, ~TxProcessState, ~TxRead PROVE Kept(tx')
<1>a. tx \in Transmitters /\ TxCounts(tx) BY DEF IInv, TypeOK, CountInv
<1>o. ASSUME NEW f, NEW net, Opened(f, net) PROVE SameCounters
  <2>1. CASE ReusesAddress BY <2>1, <1>o, <1>a DEF Opened, SameCounters
  <2>2. CASE ~ReusesAddress
    <3>1. PICK a \in Addresses \cup {None}, b \in Addresses \cup {None} :
            tx' = [tx EXCEPT !.gid = a, !.peer = b]
      <4>1. tx.gid \in Addresses \cup {None} /\ tx.peer \in Addresses \cup {None}
        BY <1>a DEF Transmitters
      <4> DEFINE a == IF tx.gid = "Now" THEN "Old" ELSE tx.gid
                 b == IF tx.peer = "Now" THEN "Old" ELSE tx.peer
      <4>2. a \in Addresses \cup {None} /\ b \in Addresses \cup {None}
        BY <4>1 DEF Addresses
      <4>3. tx' = [tx EXCEPT !.gid = a, !.peer = b] BY <1>o, <2>2 DEF Opened
      <4> QED BY <4>2, <4>3
    <3> QED BY <3>1, <1>a DEF SameCounters, Transmitters
  <2> QED BY <2>1, <2>2
<1>1. SameCounters
  <2>1. CASE UNCHANGED tx BY <2>1, <1>a DEF SameCounters
  <2>2. CASE TxExecuteReset
    BY <2>2, <1>a DEF TxExecuteReset, SameCounters, Transmitters
  <2>3. CASE TxExecuteStart
    BY <2>3, <1>a DEF TxExecuteStart, SameCounters, Transmitters
  <2>4. CASE RxExecuteStart
    <3>1. UNCHANGED tx \/ \E f : Opened(f, network) BY <2>4 DEF RxExecuteStart
    <3> QED BY <3>1, <2>1, <1>o
  <2>5. CASE RxDeliver
    <3>1. UNCHANGED tx \/ \E f, net : Opened(f, net) BY <2>5 DEF RxDeliver
    <3> QED BY <3>1, <2>1, <1>o
  <2>6. CASE TxDeliver
    <3>1. PICK m \in Replies : tx' = [tx EXCEPT !.gid = m.gid] BY <2>6 DEF TxDeliver
    <3>2. m.gid \in Addresses BY DEF Replies
    <3> QED BY <3>1, <3>2, <1>a DEF SameCounters, Transmitters
  <2>7. CASE EfaComplete
    <3> DEFINE told == [tx EXCEPT !.connected = @ /\ ~Failed]
    <3>1. tx' = told \/ tx' = [told EXCEPT !.acked = @ + 1]
      BY <2>7 DEF EfaComplete
    <3>2. PICK b \in BOOLEAN : told = [tx EXCEPT !.connected = b] OBVIOUS
    <3> HIDE DEF told
    <3>3. /\ told \in Transmitters /\ told.state = tx.state
          /\ told.retries = tx.retries /\ told.waits = tx.waits
      BY <3>2, <1>a DEF Transmitters
    <3>4. CASE tx' = told BY <3>3, <3>4 DEF SameCounters
    <3>5. CASE tx' = [told EXCEPT !.acked = @ + 1]
      BY <3>3, <3>5 DEF SameCounters, Transmitters
    <3> QED BY <3>1, <3>4, <3>5
  <2>8. CASE TxError BY <2>8, <1>a DEF TxError, SameCounters, Transmitters
  <2>9. CASE Tick
    <3>1. tx' = Aged(tx) BY <2>9 DEF Tick
    <3>2. CASE Waiting(tx)
      <4>1. tx.timer \in 0 .. Longest /\ tx.timer > 0
        BY <3>2, <1>a DEF Waiting, Transmitters
      <4>2. tx' = [tx EXCEPT !.timer = @ - 1] BY <3>1, <3>2 DEF Aged
      <4> QED BY <4>1, <4>2, <1>a, Times DEF SameCounters, Transmitters
    <3>3. CASE ~Waiting(tx) BY <3>1, <3>3, <2>1 DEF Aged
    <3> QED BY <3>2, <3>3
  <2> QED
    BY <2>1, <2>2, <2>3, <2>4, <2>5, <2>6, <2>7, <2>8, <2>9
    DEF Next, Step, Other, Execute, Efa, AppSend, Lose, RxError, FailedStart,
        RxProcessState, RxRead, RxEfaStart, RxResetting, RxEfaReset, RxSendReset,
        RxResetDone, RxEfaProbe, RxEfaConnected, RxEfaConnectedPing, RxReadChange,
        RxReadReset, RxReadProtocolVersion, RxReadPing, RxExecuteReset, RxDestroyed,
        EfaArrive, EfaReceive
<1> QED BY <1>1, <1>a, KeptWhenCountersStay DEF SameCounters

-----------------------------------------------------------------------------
(* The receiver.                                                           *)
RxKept(e) == e \in Receivers /\ RxCounts(e)

(* The move of the thread changes nothing else.                            *)
LEMMA RxMoves ==
  ASSUME NEW e \in Receivers, NEW s \in States, NEW t \in 0 .. Longest
  PROVE  /\ Goto(e, s, t) \in Receivers
         /\ Goto(e, s, t).callback = e.callback
         /\ Goto(e, s, t).received = e.received
         /\ Goto(e, s, t).resets = e.resets
         /\ Goto(e, s, t).probes = e.probes
         /\ Goto(e, s, t).payloads = e.payloads
BY GotoType DEF Goto, Receivers

(* Only these fields matter for the counters.                              *)
LEMMA RxKeptWhenCountersStay ==
  ASSUME NEW d \in Receivers, NEW e \in Receivers, RxCounts(d),
         e.callback = d.callback, e.received = d.received
  PROVE  RxKept(e)
BY DEF RxKept, RxCounts

(* An acknowledgement that is not saved has the type of one that is.       *)
LEMMA NoAckType == NoAck \in [command : Kinds \cup {None}, num : Ages]
BY DEF NoAck, Ages

(* A new receiver and none are receivers whose application owns the        *)
(* endpoint.                                                               *)
LEMMA NewRxType ==
  NewRx \in Receivers /\ NoRx \in Receivers /\ NewRx.callback = "App" /\ NoRx.callback = "App"
<1>1. /\ 0 \in 0 .. Longest /\ 1 \in 0 .. Longest
      /\ 0 \in 0 .. ResetRetries - 1 /\ 0 \in 0 .. ProbePackets
  BY ProbeAssumption DEF Longest
<1>2. NewRx \in Receivers /\ NewRx.callback = "App"
  BY <1>1, NoAckType DEF NewRx, Receivers, States
<1>3. NoRx \in Receivers /\ NoRx.callback = "App"
  BY <1>1, <1>2 DEF NoRx, Receivers
<1> QED BY <1>2, <1>3

(* ProbeRxControlProcessProbeState keeps the counters within their limits. *)
LEMMA RxProcessKeeps ==
  ASSUME IInv, RxProcessState PROVE RxKept(rx')
<1>a. rx \in Receivers /\ RxCounts(rx) BY DEF IInv, TypeOK, CountInv
<1>b. /\ ProbePackets \in Nat \ {0} /\ ResetRetries \in Nat \ {0}
      /\ 0 \in 0 .. ResetRetries - 1 /\ 0 \in 0 .. ProbePackets
  BY ProbeAssumption
<1> DEFINE g(s, t) == Goto(rx, s, t)
<1>g. \A s \in States, t \in 0 .. Longest :
        /\ g(s, t) \in Receivers /\ g(s, t).callback = rx.callback
        /\ g(s, t).received = rx.received /\ g(s, t).resets = rx.resets
  BY <1>a, RxMoves
<1>s. {"EfaProbe", "Resetting", "SendReset", "WaitForStart", "EfaConnectedPing",
       "Destroy"} \subseteq States
  BY DEF States
<1>d. RxKept(Destroyed)
  <2>1. "Destroy" \in States /\ DefaultTime \in 0 .. Longest BY <1>s, Times
  <2>2. /\ Destroyed \in Receivers /\ Destroyed.callback = rx.callback
        /\ Destroyed.received = rx.received
    BY <2>1, <1>a DEF Destroyed, Receivers
  <2> QED BY <2>2, <1>a, RxKeptWhenCountersStay
<1>1. CASE RxEfaStart
  <2> DEFINE d == g("EfaProbe", ResetTime)
  <2>1. rx' = [d EXCEPT !.callback = "Probe", !.resets = 0, !.received = 0,
                        !.ack = NoAck]
    BY <1>1 DEF RxEfaStart, RxGoto
  <2>2. d \in Receivers BY <1>g, <1>s, Times
  <2> HIDE DEF d
  <2>3. rx' \in Receivers /\ rx'.received = 0
    BY <2>1, <2>2, <1>b, NoAckType DEF Receivers
  <2> QED BY <2>3, <1>b DEF RxKept, RxCounts
<1>2. CASE RxResetting
  <2>1. rx' = g("Resetting", ResetTime) BY <1>2 DEF RxResetting, RxGoto
  <2> QED BY <2>1, <1>a, <1>g, <1>s, Times, RxKeptWhenCountersStay
<1>3. CASE RxEfaReset
  <2> DEFINE d == g("Resetting", ManagerTime)
  <2>1. rx' = [d EXCEPT !.connected = FALSE] BY <1>3 DEF RxEfaReset, RxGoto
  <2>2. /\ d \in Receivers /\ d.callback = rx.callback /\ d.received = rx.received
    BY <1>g, <1>s, Times
  <2> HIDE DEF d
  <2>3. /\ rx' \in Receivers /\ rx'.callback = rx.callback
        /\ rx'.received = rx.received
    BY <2>1, <2>2 DEF Receivers
  <2> QED BY <2>3, <1>a, RxKeptWhenCountersStay
<1>4. CASE RxSendReset
  <2>1. CASE LastReset
    <3>1. rx' = Destroyed BY <1>4, <2>1 DEF RxSendReset
    <3> QED BY <3>1, <1>d
  <2>2. CASE ~LastReset
    <3> DEFINE d == g("SendReset", ResetTime)
    <3>1. rx' = [d EXCEPT !.connected = FALSE, !.resets = @ + 1]
      BY <1>4, <2>2 DEF RxSendReset, RxGoto
    <3>2. /\ d \in Receivers /\ d.callback = rx.callback /\ d.received = rx.received
          /\ d.resets = rx.resets
      BY <1>g, <1>s, Times
    <3>3. rx.resets \in 0 .. ResetRetries - 1 BY <1>a DEF Receivers
    <3>4. rx.resets + 1 \in 0 .. ResetRetries - 1 BY <3>3, <2>2, <1>b DEF LastReset
    <3> HIDE DEF d
    <3>5. /\ rx' \in Receivers /\ rx'.callback = rx.callback
          /\ rx'.received = rx.received
      BY <3>1, <3>2, <3>4 DEF Receivers
    <3> QED BY <3>5, <1>a, RxKeptWhenCountersStay
  <2> QED BY <2>1, <2>2
<1>5. CASE RxResetDone
  <2> DEFINE d == g("EfaProbe", ProbeTime)
  <2>1. \/ rx' = g("WaitForStart", ManagerTime)
        \/ rx' = g("SendReset", 0)
        \/ rx' = [d EXCEPT !.ack = NoAck]
    BY <1>5 DEF RxResetDone, RxGoto
  <2>2. d \in Receivers /\ d.callback = rx.callback /\ d.received = rx.received
    BY <1>g, <1>s, Times
  <2>3. CASE rx' = g("WaitForStart", ManagerTime)
    BY <2>3, <1>a, <1>g, <1>s, Times, RxKeptWhenCountersStay
  <2>4. CASE rx' = g("SendReset", 0)
    BY <2>4, <1>a, <1>g, <1>s, Times, RxKeptWhenCountersStay
  <2> HIDE DEF d
  <2>5. CASE rx' = [d EXCEPT !.ack = NoAck]
    <3>1. /\ rx' \in Receivers /\ rx'.callback = rx.callback
          /\ rx'.received = rx.received
      BY <2>2, <2>5, NoAckType DEF Receivers
    <3> QED BY <3>1, <1>a, RxKeptWhenCountersStay
  <2> QED BY <2>1, <2>3, <2>4, <2>5
<1>6. CASE RxEfaProbe
  <2>1. rx' = g("SendReset", 0) BY <1>6 DEF RxEfaProbe, RxGoto
  <2> QED BY <2>1, <1>a, <1>g, <1>s, Times, RxKeptWhenCountersStay
<1>7. ASSUME NEW b \in BOOLEAN,
             LET d == g("EfaConnectedPing", PingMonitorTime)
             IN  \/ rx' = [d EXCEPT !.connected = TRUE, !.resets = 0, !.fresh = FALSE]
                 \/ rx' = [d EXCEPT !.resets = 0, !.fresh = FALSE]
      PROVE  RxKept(rx')
  <2> DEFINE d == g("EfaConnectedPing", PingMonitorTime)
  <2>1. /\ d \in Receivers /\ d.callback = rx.callback /\ d.received = rx.received
    BY <1>g, <1>s, Times
  <2>2. \/ rx' = [d EXCEPT !.connected = TRUE, !.resets = 0, !.fresh = FALSE]
        \/ rx' = [d EXCEPT !.resets = 0, !.fresh = FALSE]
    BY <1>7
  <2> HIDE DEF d
  <2>3. /\ rx' \in Receivers /\ rx'.callback = rx.callback
        /\ rx'.received = rx.received
    <3>1. CASE rx' = [d EXCEPT !.connected = TRUE, !.resets = 0, !.fresh = FALSE]
      BY <2>1, <3>1, <1>b DEF Receivers
    <3>2. CASE rx' = [d EXCEPT !.resets = 0, !.fresh = FALSE]
      BY <2>1, <3>2, <1>b DEF Receivers
    <3> QED BY <2>2, <3>1, <3>2
  <2> QED BY <2>3, <1>a, RxKeptWhenCountersStay
<1>8. CASE RxEfaConnected BY <1>7, <1>8 DEF RxEfaConnected, RxGoto
<1>9. CASE RxEfaConnectedPing
  <2>1. CASE rx.fresh BY <1>7, <1>9, <2>1 DEF RxEfaConnectedPing, RxGoto
  <2>2. CASE ~rx.fresh BY <1>9, <2>2, <1>d DEF RxEfaConnectedPing
  <2> QED BY <2>1, <2>2
<1> QED BY <1>1, <1>2, <1>3, <1>4, <1>5, <1>6, <1>8, <1>9 DEF RxProcessState

(* So does reading from the FIFO.                                          *)
LEMMA RxReadKeeps ==
  ASSUME IInv, RxRead PROVE RxKept(rx')
<1>a. rx \in Receivers /\ RxCounts(rx) BY DEF IInv, TypeOK, CountInv
<1> DEFINE g(s, t) == Goto(rx, s, t)
<1>g. \A s \in States, t \in 0 .. Longest :
        /\ g(s, t) \in Receivers /\ g(s, t).callback = rx.callback
        /\ g(s, t).received = rx.received
  BY <1>a, RxMoves
<1>1. CASE RxReadChange
  <2>1. PICK m \in Changes : rx' = g(m.state, 0) BY <1>1 DEF RxReadChange, RxGoto
  <2>2. m.state \in States BY DEF Changes
  <2> QED BY <2>1, <2>2, <1>a, <1>g, Times, RxKeptWhenCountersStay
<1>2. CASE RxReadReset
  <2> DEFINE d == g("EfaReset", 0)
  <2>1. PICK m \in Commands :
          rx' = [d EXCEPT !.version = FALSE,
                          !.ack = [command |-> "Reset", num |-> m.num]]
    BY <1>2 DEF RxReadReset, RxGoto
  <2>2. [command |-> "Reset", num |-> m.num] \in [command : Kinds \cup {None}, num : Ages]
    BY DEF Commands, Kinds
  <2>3. "EfaReset" \in States BY DEF States
  <2>4. d \in Receivers /\ d.callback = rx.callback /\ d.received = rx.received
    BY <1>g, <2>3, Times
  <2> HIDE DEF d
  <2>5. rx' \in Receivers /\ rx'.callback = rx.callback /\ rx'.received = rx.received
    BY <2>1, <2>2, <2>4 DEF Receivers
  <2> QED BY <2>5, <1>a, RxKeptWhenCountersStay
<1>3. CASE RxReadProtocolVersion
  <2> DEFINE d == g("WaitForStart", ManagerTime)
  <2>1. PICK m \in Commands :
          rx' = [d EXCEPT !.version = TRUE,
                          !.ack = [command |-> "ProtocolVersion", num |-> m.num]]
    BY <1>3 DEF RxReadProtocolVersion, RxGoto
  <2>2. [command |-> "ProtocolVersion", num |-> m.num]
          \in [command : Kinds \cup {None}, num : Ages]
    BY DEF Commands, Kinds
  <2>3. "WaitForStart" \in States BY DEF States
  <2>4. d \in Receivers /\ d.callback = rx.callback /\ d.received = rx.received
    BY <1>g, <2>3, Times
  <2> HIDE DEF d
  <2>5. rx' \in Receivers /\ rx'.callback = rx.callback /\ rx'.received = rx.received
    BY <2>1, <2>2, <2>4 DEF Receivers
  <2> QED BY <2>5, <1>a, RxKeptWhenCountersStay
<1>4. CASE RxReadPing
  <2>1. rx' = g("EfaConnectedPing", PingMonitorTime)
    BY <1>4 DEF RxReadPing, Pinged, RxGoto
  <2>2. "EfaConnectedPing" \in States BY DEF States
  <2> QED BY <2>1, <2>2, <1>a, <1>g, Times, RxKeptWhenCountersStay
<1> QED BY <1>1, <1>2, <1>3, <1>4 DEF RxRead

(* And so do all others: the last probe packet gives the endpoint back.    *)
LEMMA OthersKeepRx ==
  ASSUME IInv, Next, ~RxProcessState, ~RxRead PROVE RxKept(rx')
<1>a. rx \in Receivers /\ RxCounts(rx) BY DEF IInv, TypeOK, CountInv
<1>b. ProbePackets \in Nat \ {0} BY ProbeAssumption
<1> DEFINE Same == /\ rx' \in Receivers /\ rx'.callback = rx.callback
                   /\ rx'.received = rx.received
<1>q. ASSUME Same PROVE RxKept(rx')
  BY <1>q, <1>a, RxKeptWhenCountersStay
<1>1. CASE UNCHANGED rx BY <1>1, <1>q, <1>a
<1>2. CASE \E b \in Ages : rx' = [rx EXCEPT !.ack.num = b]
  <2>1. PICK b \in Ages : rx' = [rx EXCEPT !.ack.num = b] BY <1>2
  <2>2. Same
    <3>1. rx.ack \in [command : Kinds \cup {None}, num : Ages] BY <1>a DEF Receivers
    <3> DEFINE k == [rx.ack EXCEPT !.num = b]
    <3>2. k \in [command : Kinds \cup {None}, num : Ages] BY <3>1
    <3>3. rx' = [rx EXCEPT !.ack = k] BY <2>1
    <3> HIDE DEF k
    <3> QED BY <3>2, <3>3, <1>a DEF Receivers
  <2> QED BY <2>2, <1>q
<1>3. ASSUME NEW k, NEW e, NEW f, SendCommand(k, e, rx, f) PROVE RxKept(rx')
  <2>1. rx' = [rx EXCEPT !.ack.num = "Old"] BY <1>3 DEF SendCommand
  <2>2. "Old" \in Ages BY DEF Ages
  <2> QED BY <2>1, <2>2, <1>2
<1>4. CASE TxProcessState
  <2>1. UNCHANGED rx \/ \E k, e, f : SendCommand(k, e, rx, f)
    BY <1>4 DEF TxProcessState, TxSendReset, TxEfaReset, TxResetDone, TxSendWithRetry,
                TxEfaStart, TxEfaProbe, TxEfaTxProbeAcks, TxEfaConnected
  <2> QED BY <2>1, <1>1, <1>3
<1>5. CASE RxExecuteReset
  <2>1. Same BY <1>5, <1>a DEF RxExecuteReset, Receivers
  <2> QED BY <2>1, <1>q
<1>6. CASE RxExecuteStart
  <2>1. Same BY <1>6, <1>a DEF RxExecuteStart, Receivers
  <2> QED BY <2>1, <1>q
<1>7. CASE RxDestroyed
  BY <1>7, NewRxType DEF RxDestroyed, RxKept, RxCounts
<1>8. CASE RxDeliver
  <2>1. UNCHANGED rx \/ rx' = NewRx BY <1>8 DEF RxDeliver
  <2> QED BY <2>1, <1>1, NewRxType DEF RxKept, RxCounts
<1>9. CASE EfaArrive
  <2>1. Same BY <1>9, <1>a DEF EfaArrive, Receivers
  <2> QED BY <2>1, <1>q
<1>10. CASE EfaReceive
  <2> DEFINE last == rx.received + 1 >= ProbePackets
  <2>1. PICK taken \in {[rx EXCEPT !.probes = @ - 1], [rx EXCEPT !.payloads = @ - 1]} :
          /\ taken.probes >= 0 /\ taken.payloads >= 0
          /\ IF rx.callback = "App"
             THEN rx' = [taken EXCEPT !.fresh = TRUE]
             ELSE rx' = [taken EXCEPT !.received = @ + 1,
                                      !.callback = IF last THEN "App" ELSE "Probe"]
    BY <1>10 DEF EfaReceive
  <2>2. /\ taken \in Receivers /\ taken.callback = rx.callback
        /\ taken.received = rx.received
    BY <2>1, <1>a DEF Receivers
  <2>3. CASE rx.callback = "App"
    <3>1. rx' = [taken EXCEPT !.fresh = TRUE] BY <2>1, <2>3
    <3>2. Same BY <3>1, <2>2 DEF Receivers
    <3> QED BY <3>2, <1>q
  <2>4. CASE rx.callback # "App"
    <3>1. rx.callback = "Probe" /\ rx.received \in 0 .. ProbePackets
      BY <2>4, <1>a DEF Receivers
    <3>2. rx.received + 1 \in 0 .. ProbePackets BY <3>1, <1>a, <1>b DEF RxCounts
    <3> DEFINE c == IF last THEN "App" ELSE "Probe"
    <3>3. rx' = [taken EXCEPT !.received = @ + 1, !.callback = c] BY <2>1, <2>4
    <3>4. c \in {"App", "Probe"} /\ (c = "Probe" => rx.received + 1 < ProbePackets)
      BY <3>2, <1>b
    <3> HIDE DEF c
    <3>5. rx' \in Receivers /\ rx'.callback = c /\ rx'.received = rx.received + 1
      BY <3>2, <3>3, <3>4, <2>2 DEF Receivers
    <3> QED BY <3>4, <3>5 DEF RxKept, RxCounts
  <2> QED BY <2>3, <2>4
<1>11. CASE RxError
  <2>1. Same BY <1>11, <1>a DEF RxError, Receivers
  <2> QED BY <2>1, <1>q
<1>12. CASE Tick
  <2>1. rx' = rx \/ rx' = Aged(rx) BY <1>12 DEF Tick
  <2>2. CASE rx' = Aged(rx) /\ Waiting(rx)
    <3>1. rx.timer \in 0 .. Longest /\ rx.timer > 0
      BY <2>2, <1>a DEF Waiting, Receivers
    <3>2. rx' = [rx EXCEPT !.timer = @ - 1] BY <2>2 DEF Aged
    <3>3. Same BY <3>1, <3>2, <1>a, Times DEF Receivers
    <3> QED BY <3>3, <1>q
  <2>3. CASE rx' = Aged(rx) /\ ~Waiting(rx) BY <2>3, <1>1 DEF Aged
  <2> QED BY <2>1, <2>2, <2>3, <1>1
<1> QED
  BY <1>1, <1>4, <1>5, <1>6, <1>7, <1>8, <1>9, <1>10, <1>11, <1>12
  DEF Next, Step, Other, Execute, Efa, AppSend, Lose, TxError, FailedStart,
      TxRead, TxReadChange, TxReadReset, TxReadAck, TxReadConnected,
      TxExecuteReset, TxExecuteStart, TxDeliver, EfaComplete

-----------------------------------------------------------------------------
(* What is between the two: FIFOs, commands, packets.                      *)
(* The FIFOs of a state are as they may be.                                *)
LEMMA FifosThen ==
  ASSUME IInv PROVE fifo \in Fifos
BY DEF IInv, TypeOK, ToldInv, Fifos

(* What a FIFO may hold: the state changes that are told, ...              *)
LEMMA ChangeType ==
  ASSUME NEW s \in {"EfaReset", "ResetDone", "EfaStart", "EfaConnected"}
  PROVE  Change(s) \in Messages
BY DEF Change, Messages, Told

(* ... the commands of the transmitter ...                                 *)
LEMMA CommandType ==
  ASSUME NEW k \in Kinds PROVE Command(k) \in Commands
BY DEF Command, Commands, Ages

(* ... and those of the receiver.                                          *)
LEMMA ReplyType ==
  ASSUME IInv, NEW k \in {"Reset", "Ack", "Connected"}, NEW saved,
         saved.command \in Kinds \cup {None}, saved.num \in Ages
  PROVE  Reply(k, saved) \in Replies
<1>1. (k = "Reset" /\ ~rx.version) \in BOOLEAN OBVIOUS
<1>2. ASSUME NEW b \in BOOLEAN
      PROVE  [type |-> "Reply", command |-> k, ack |-> saved.command,
              num |-> saved.num, gid |-> "Now", legacy |-> b] \in Replies
  BY DEF Replies, Addresses
<1> QED BY <1>1, <1>2 DEF Reply

(* The FIFO of a side that has started, if the manager found room.         *)
LEMMA StartedKeeps ==
  ASSUME fifo \in Fifos, NEW s \in Sides, NEW state, HasRoom(s)
  PROVE  Started(s, state) \in Fifos
<1>1. Change("EfaStart") \in Messages BY ChangeType
<1>2. [fifo EXCEPT ![s] = Append(@, Change("EfaStart"))] \in Fifos BY <1>1, PutKeeps
<1> QED BY <1>2 DEF Started

(* Nor does a new address of the receiver fill a FIFO.                     *)
LEMMA OpenedKeeps ==
  ASSUME NEW f \in Fifos, NEW net, Opened(f, net)
  PROVE  fifo' \in Fifos
BY AgeAllKeeps DEF Opened

(* Every step leaves the FIFOs with messages and with a free entry.        *)
LEMMA FifosKept ==
  ASSUME IInv, Next PROVE fifo' \in Fifos
<1>a. fifo \in Fifos /\ {"Tx", "Rx"} = Sides BY FifosThen DEF Sides
<1>1. CASE UNCHANGED fifo BY <1>1, <1>a
<1>2. CASE TxProcessState
  <2>1. ASSUME NEW k, NEW e, NEW r, SendCommand(k, e, r, fifo) PROVE fifo' \in Fifos
    BY <2>1, <1>a, AgeAllKeeps DEF SendCommand
  <2>2. CASE TxEfaTxProbeAcks
    <3>1. Change("EfaConnected") \in Messages BY ChangeType
    <3>2. UNCHANGED fifo \/ (HasRoom("Tx") /\ Put("Tx", Change("EfaConnected")))
      BY <2>2 DEF TxEfaTxProbeAcks
    <3> QED BY <3>1, <3>2, <1>1, <1>a, PutKeeps
  <2> QED
    BY <1>1, <1>2, <2>1, <2>2
    DEF TxProcessState, TxSendReset, TxEfaReset, TxResetDone, TxSendWithRetry,
        TxEfaStart, TxEfaProbe, TxEfaConnected
<1>3. CASE TxRead
  <2>1. fifo["Tx"] # <<>> /\ fifo' = Pop("Tx")
    BY <1>3 DEF TxRead, TxReadChange, TxReadReset, TxReadAck, TxReadConnected, Reads
  <2> QED BY <2>1, <1>a, PopKeeps
<1>4. CASE RxRead
  <2>1. fifo["Rx"] # <<>> /\ fifo' = Pop("Rx")
    BY <1>4 DEF RxRead, RxReadChange, RxReadReset, RxReadProtocolVersion, RxReadPing, Reads
  <2> QED BY <2>1, <1>a, PopKeeps
<1>5. CASE Execute
  <2>1. Change("ResetDone") \in Messages BY ChangeType
  <2>2. CASE TxExecuteReset BY <2>1, <2>2, <1>a, PutKeeps DEF TxExecuteReset
  <2>3. CASE RxExecuteReset BY <2>1, <2>3, <1>a, PutKeeps DEF RxExecuteReset
  <2>4. CASE TxExecuteStart BY <2>4, <1>a, StartedKeeps DEF TxExecuteStart
  <2>5. CASE RxExecuteStart
    <3>1. Started("Rx", rx.state) \in Fifos BY <2>5, <1>a, StartedKeeps DEF RxExecuteStart
    <3>2. \/ fifo' = Started("Rx", rx.state)
          \/ Opened(Started("Rx", rx.state), network)
      BY <2>5 DEF RxExecuteStart
    <3> QED BY <3>1, <3>2, OpenedKeeps
  <2>6. CASE RxDestroyed
    <3>1. fifo' = [fifo EXCEPT !["Rx"] = <<>>] BY <2>6 DEF RxDestroyed
    <3>2. <<>> \in Seq(Messages) /\ Len(<<>>) < FifoSize BY ProbeAssumption
    <3> DEFINE q == <<>>
    <3>3. q \in Seq(Messages) /\ Len(q) < FifoSize BY <3>2
    <3>4. fifo' = [fifo EXCEPT !["Rx"] = q] BY <3>1
    <3> HIDE DEF q
    <3> QED BY <3>3, <3>4, <1>a DEF Fifos
  <2> QED BY <1>5, <2>2, <2>3, <2>4, <2>5, <2>6 DEF Execute
<1>6. CASE TxDeliver
  <2>1. PICK m \in Replies : Put("Tx", m) BY <1>6 DEF TxDeliver
  <2>2. HasRoom("Tx") /\ m \in Messages BY <1>6 DEF TxDeliver, Messages
  <2> QED BY <2>1, <2>2, <1>a, PutKeeps
<1>7. CASE RxDeliver
  <2>1. PICK m \in Commands :
          \/ HasRoom("Rx") /\ Put("Rx", m)
          \/ \E net : Opened([fifo EXCEPT !["Rx"] = <<m>>], net)
    BY <1>7 DEF RxDeliver
  <2>2. m \in Messages BY DEF Messages
  <2>3. CASE HasRoom("Rx") /\ Put("Rx", m) BY <2>2, <2>3, <1>a, PutKeeps
  <2>4. [fifo EXCEPT !["Rx"] = <<m>>] \in Fifos
    <3> DEFINE q == <<m>>
    <3>1. q \in Seq(Messages) /\ Len(q) = 1 BY <2>2
    <3>2. q \in Seq(Messages) /\ Len(q) < FifoSize BY <3>1, ProbeAssumption
    <3> HIDE DEF q
    <3>3. [fifo EXCEPT !["Rx"] = q] \in Fifos BY <3>2, <1>a DEF Fifos
    <3> QED BY <3>3 DEF q
  <2> QED BY <2>1, <2>3, <2>4, OpenedKeeps
<1>8. ASSUME NEW s \in Sides, Report(s) PROVE fifo' \in Fifos
  BY <1>8, <1>a, ChangeType, PutKeeps DEF Report
<1>9. CASE EfaComplete
  <2>1. Report("Tx") \/ UNCHANGED fifo BY <1>9 DEF EfaComplete
  <2> QED BY <2>1, <1>1, <1>8, <1>a
<1>10. CASE EfaReceive
  <2>1. UNCHANGED fifo \/ (HasRoom("Rx") /\ Put("Rx", Change("EfaConnected")))
    BY <1>10 DEF EfaReceive
  <2> QED BY <2>1, <1>1, <1>a, ChangeType, PutKeeps
<1>11. CASE TxError BY <1>11, <1>8, <1>a DEF TxError
<1>12. CASE RxError BY <1>12, <1>8, <1>a DEF RxError
<1> QED
  BY <1>1, <1>2, <1>3, <1>4, <1>5, <1>6, <1>7, <1>9, <1>10, <1>11, <1>12
  DEF Next, Step, Other, Efa, AppSend, Lose, FailedStart, EfaArrive, Tick,
      RxProcessState, RxEfaStart, RxResetting, RxEfaReset, RxSendReset,
      RxResetDone, RxEfaProbe, RxEfaConnected, RxEfaConnectedPing

(* The Endpoint Manager has resets and starts to do.                       *)
LEMMA CommandsKept ==
  ASSUME IInv, Next PROVE commands' \in [Sides -> Seq({"Reset", "Start"})]
<1> DEFINE Queues == [Sides -> Seq({"Reset", "Start"})]
<1>a. commands \in Queues /\ {"Tx", "Rx"} = Sides BY DEF IInv, TypeOK, Sides
<1>1. CASE UNCHANGED commands BY <1>1, <1>a
<1>2. ASSUME NEW s \in Sides, NEW c \in {"Reset", "Start"},
             commands' = [commands EXCEPT ![s] = Append(@, c)]
      PROVE  commands' \in Queues
  <2> DEFINE q == Append(commands[s], c)
  <2>1. q \in Seq({"Reset", "Start"}) BY <1>a
  <2>2. commands' = [commands EXCEPT ![s] = q] BY <1>2
  <2> HIDE DEF q
  <2> QED BY <2>1, <2>2, <1>a
<1>3. ASSUME NEW s \in Sides, commands[s] # <<>>, Executed(s)
      PROVE  commands' \in Queues
  <2> DEFINE q == Tail(commands[s])
  <2>1. q \in Seq({"Reset", "Start"}) BY <1>3, <1>a
  <2>2. commands' = [commands EXCEPT ![s] = q] BY <1>3 DEF Executed
  <2> HIDE DEF q
  <2> QED BY <2>1, <2>2, <1>a
<1>4. CASE \E s \in Sides : QueueReset(s) \/ QueueStart(s)
  BY <1>2, <1>4 DEF QueueReset, QueueStart
<1>5. CASE Execute
  <2>1. CASE RxDestroyed
    <3>1. commands' = [commands EXCEPT !["Rx"] = <<>>] BY <2>1 DEF RxDestroyed
    <3> DEFINE q == <<>>
    <3>2. q \in Seq({"Reset", "Start"}) /\ commands' = [commands EXCEPT !["Rx"] = q]
      BY <3>1
    <3> HIDE DEF q
    <3> QED BY <3>2, <1>a
  <2>2. CASE ~RxDestroyed
    <3>1. \E s \in Sides : commands[s] # <<>> /\ Executed(s)
      BY <1>5, <2>2, <1>a
      DEF Execute, TxExecuteReset, RxExecuteReset, TxExecuteStart, RxExecuteStart, Pending
    <3> QED BY <3>1, <1>3
  <2> QED BY <2>1, <2>2
<1>6. CASE FailedStart("Tx", tx) \/ FailedStart("Rx", rx)
  BY <1>6, <1>3, <1>a DEF FailedStart, Pending
<1>7. CASE TxProcessState \/ TxRead \/ RxProcessState \/ RxRead
  BY <1>1, <1>4, <1>7, <1>a
  DEF TxProcessState, TxSendReset, TxEfaReset, TxResetDone, TxSendWithRetry,
      TxEfaStart, TxEfaProbe, TxEfaTxProbeAcks, TxEfaConnected,
      TxRead, TxReadChange, TxReadReset, TxReadAck, TxReadConnected,
      RxProcessState, RxEfaStart, RxResetting, RxEfaReset, RxSendReset,
      RxResetDone, RxEfaProbe, RxEfaConnected, RxEfaConnectedPing,
      RxRead, RxReadChange, RxReadReset, RxReadProtocolVersion, RxReadPing
<1> QED
  BY <1>1, <1>5, <1>6, <1>7
  DEF Next, Step, Other, Efa, AppSend, Lose, TxDeliver, RxDeliver, EfaArrive,
      EfaComplete, EfaReceive, TxError, RxError, Tick

(* The network has commands and replies.                                   *)
LEMMA NetworkKept ==
  ASSUME IInv, Next PROVE network' \subseteq Commands \cup Replies
<1>a. network \subseteq Commands \cup Replies BY DEF IInv, TypeOK
<1>k. rx.ack \in [command : Kinds \cup {None}, num : Ages]
  BY DEF IInv, TypeOK, Receivers
<1>n. NoAck.command \in Kinds \cup {None} /\ NoAck.num \in Ages BY DEF NoAck, Ages
<1>1. CASE network' \subseteq network BY <1>1, <1>a
<1>2. ASSUME NEW k \in Kinds, NEW e, NEW r, NEW f, SendCommand(k, e, r, f)
      PROVE  network' \subseteq Commands \cup Replies
  BY <1>2, <1>a, OldNumType, CommandType DEF SendCommand
<1>3. ASSUME NEW k \in {"Reset", "Ack", "Connected"}, NEW saved,
             saved.command \in Kinds \cup {None}, saved.num \in Ages,
             SendReply(k, saved)
      PROVE  network' \subseteq Commands \cup Replies
  BY <1>3, <1>a, ReplyType DEF SendReply
<1>4. ASSUME NEW f, NEW net \in SUBSET (Commands \cup Replies), Opened(f, net)
      PROVE  network' \subseteq Commands \cup Replies
  <2>1. \A m \in net : OldGid(m) \in Commands \cup Replies BY OldGidType
  <2>2. network' = net \/ network' = {OldGid(m) : m \in net} BY <1>4 DEF Opened
  <2> QED BY <2>1, <2>2
<1>5. CASE TxProcessState
  BY <1>1, <1>2, <1>5
  DEF Kinds, TxProcessState, TxSendReset, TxEfaReset, TxResetDone, TxSendWithRetry,
      TxEfaStart, TxEfaProbe, TxEfaTxProbeAcks, TxEfaConnected
<1>6. CASE RxProcessState
  <2>1. ASSUME SendSavedAck PROVE network' \subseteq Commands \cup Replies
    BY <2>1, <1>1, <1>3, <1>k DEF SendSavedAck
  <2> QED
    BY <1>1, <1>3, <1>6, <1>n, <2>1
    DEF RxProcessState, RxEfaStart, RxResetting, RxEfaReset, RxSendReset,
        RxResetDone, RxEfaProbe, RxEfaConnected, RxEfaConnectedPing
<1>7. CASE RxRead
  <2>1. UNCHANGED network \/ \E m \in Commands : SendReply("Ack", m)
    BY <1>7 DEF RxRead, RxReadChange, RxReadReset, RxReadProtocolVersion, RxReadPing
  <2>2. \A m \in Commands : m.command \in Kinds \cup {None} /\ m.num \in Ages
    BY DEF Commands
  <2> QED BY <2>1, <2>2, <1>1, <1>3
<1>8. CASE RxExecuteStart
  <2>1. UNCHANGED network \/ \E f : Opened(f, network) BY <1>8 DEF RxExecuteStart
  <2> QED BY <2>1, <1>1, <1>4, <1>a
<1>9. CASE RxDeliver
  <2>1. \E left \in SUBSET network : network' = left \/ \E f : Opened(f, left)
    BY <1>9 DEF RxDeliver
  <2> QED BY <2>1, <1>1, <1>4, <1>a
<1> QED
  BY <1>1, <1>5, <1>6, <1>7, <1>8, <1>9
  DEF Next, Step, Other, Efa, AppSend, Lose, TxDeliver, EfaArrive,
      EfaComplete, EfaReceive, TxError, RxError, Tick, FailedStart, Execute,
      TxExecuteReset, RxExecuteReset, TxExecuteStart, RxDestroyed,
      TxRead, TxReadChange, TxReadReset, TxReadAck, TxReadConnected

(* The flags and the count of the faults.                                  *)
LEMMA FlagsKept ==
  ASSUME IInv, Next
  PROVE  crash' \in BOOLEAN /\ sends' \in Apps /\ faults' \in 0 .. MaxFaults
<1>a. crash \in BOOLEAN /\ sends \in Apps /\ faults \in 0 .. MaxFaults
  BY DEF IInv, TypeOK
<1>f. ASSUME NEW k, Fault(k) PROVE faults' \in 0 .. MaxFaults
  BY <1>a, <1>f, ProbeAssumption DEF Fault
<1>1. sends' \in Apps BY <1>a DEF Next, Step, Other, AppSend
<1>2. faults' \in 0 .. MaxFaults
  <2>1. ASSUME NEW s, Polls(s) PROVE faults' \in 0 .. MaxFaults
    BY <2>1, <1>a, <1>f DEF Polls
  <2>2. ASSUME NEW m, NEW left, Takes(m, left) PROVE faults' \in 0 .. MaxFaults
    BY <2>2, <1>a, <1>f DEF Takes
  <2>3. CASE UNCHANGED faults \/ \E k : Fault(k) BY <2>3, <1>a, <1>f
  <2>4. CASE TxDeliver \/ RxDeliver BY <2>4, <2>2 DEF TxDeliver, RxDeliver
  <2>5. CASE EfaComplete \/ EfaReceive \/ AppSend
    BY <2>5, <2>1 DEF EfaComplete, EfaReceive, AppSend
  <2>6. CASE TxProcessState \/ TxRead \/ RxProcessState \/ RxRead
    <3>1. UNCHANGED faults \/ \E k : Fault(k)
      BY <2>6
      DEF TxProcessState, TxSendReset, TxEfaReset, TxResetDone, TxSendWithRetry,
          TxEfaStart, TxEfaProbe, TxEfaTxProbeAcks, TxEfaConnected,
          TxRead, TxReadChange, TxReadReset, TxReadAck, TxReadConnected,
          RxProcessState, RxEfaStart, RxResetting, RxEfaReset, RxSendReset,
          RxResetDone, RxEfaProbe, RxEfaConnected, RxEfaConnectedPing,
          RxRead, RxReadChange, RxReadReset, RxReadProtocolVersion, RxReadPing
    <3> QED BY <2>3, <3>1
  <2> QED
    BY <2>3, <2>4, <2>5, <2>6
    DEF Next, Step, Other, Efa, Lose, EfaArrive, TxError, RxError, Tick, FailedStart,
        Execute, TxExecuteReset, RxExecuteReset, TxExecuteStart, RxExecuteStart,
        RxDestroyed
<1>3. crash' \in BOOLEAN
  <2>1. CASE UNCHANGED crash BY <2>1, <1>a
  <2>2. ASSUME NEW e, NEW m, ReadsChange(e, m) PROVE crash' \in BOOLEAN
    BY <2>2 DEF ReadsChange
  <2>3. CASE TxReadChange \/ RxReadChange BY <2>2, <2>3 DEF TxReadChange, RxReadChange
  <2>4. CASE EfaComplete BY <2>4 DEF EfaComplete
  <2>5. CASE AppSend BY <2>5 DEF AppSend
  <2>6. CASE TxEfaStart BY <2>6, <1>a DEF TxEfaStart
  <2>7. CASE TxProcessState \/ TxRead \/ RxProcessState \/ RxRead
    BY <2>1, <2>3, <2>6, <2>7
    DEF TxProcessState, TxSendReset, TxEfaReset, TxResetDone, TxSendWithRetry,
        TxEfaProbe, TxEfaTxProbeAcks, TxEfaConnected,
        TxRead, TxReadReset, TxReadAck, TxReadConnected,
        RxProcessState, RxEfaStart, RxResetting, RxEfaReset, RxSendReset,
        RxResetDone, RxEfaProbe, RxEfaConnected, RxEfaConnectedPing,
        RxRead, RxReadReset, RxReadProtocolVersion, RxReadPing
  <2> QED
    BY <2>1, <2>4, <2>5, <2>7
    DEF Next, Step, Other, Efa, Lose, EfaArrive, EfaReceive, TxError, RxError, Tick,
        FailedStart, TxDeliver, RxDeliver,
        Execute, TxExecuteReset, RxExecuteReset, TxExecuteStart, RxExecuteStart,
        RxDestroyed
<1> QED BY <1>1, <1>2, <1>3

-----------------------------------------------------------------------------
(* The packet under way.                                                   *)
EfaTypes == [kind : {None, "Probe", "App", "Spent"}, to : Addresses, acked : BOOLEAN]
PacketInv == efa \in EfaTypes /\ PeerInv /\ OwnerInv

(* What the packet depends on of the transmitter; it stays as it is when   *)
(* this does.                                                              *)
SameOwner ==
  /\ sends' = sends /\ tx'.callback = tx.callback /\ tx'.acked = tx.acked
  /\ tx.peer # None => tx'.peer # None

(* A packet that stays as it is meets its owner as before.                 *)
LEMMA PacketStays ==
  ASSUME PacketInv, SameOwner, efa' \in EfaTypes, efa'.kind = efa.kind
  PROVE  PacketInv'
BY DEF PacketInv, PeerInv, OwnerInv, SameOwner, InFlight

(* Without a packet under way there is nothing to keep.                    *)
LEMMA NoPacketInv ==
  ASSUME efa' \in EfaTypes, efa'.kind \in {None, "Spent"}
  PROVE  PacketInv'
BY DEF PacketInv, PeerInv, OwnerInv, InFlight, None

(* The two packets that are none.                                          *)
LEMMA NoPacketType ==
  /\ NoPacket \in EfaTypes /\ NoPacket.kind = None
  /\ Spent \in EfaTypes /\ Spent.kind = "Spent"
BY DEF NoPacket, Spent, EfaTypes, Addresses

(* Every step keeps what is known of the packet under way. The callback    *)
(* goes back to the application only when all probe packets are            *)
(* acknowledged, and then none is under way; a new round begins only       *)
(* without a peer, and then none is either.                                *)
LEMMA PacketKept ==
  ASSUME IInv, Next PROVE PacketInv'
<1>a. /\ PacketInv /\ tx \in Transmitters /\ efa \in EfaTypes
      /\ tx.peer \in Addresses \cup {None} /\ tx.acked \in Nat
      /\ tx.gid \in Addresses \cup {None} /\ tx.callback \in {"App", "Probe"}
  BY DEF IInv, TypeOK, PacketInv, EfaTypes, Transmitters
<1>b. ProbePackets \in Nat \ {0} BY ProbeAssumption
<1> DEFINE Like(d) == /\ d \in Transmitters /\ d.callback = tx.callback
                      /\ d.acked = tx.acked /\ d.peer = tx.peer
<1>c. ASSUME sends' = sends, efa' = efa, Like(tx') PROVE PacketInv'
  BY <1>a, <1>c, PacketStays DEF SameOwner
<1>m. \A s \in States, t \in 0 .. Longest : Like(Goto(tx, s, t)) BY <1>a, TxMoves
<1>s. {"SendReset", "Resetting", "ResetDone", "WaitForStart", "SendProtocolVersion",
       "EfaStart", "EfaProbe", "EfaReset", "EfaTxProbeAcks", "EfaConnected",
       "EfaConnectedPing"} \subseteq States
  BY DEF States
\* The fields that do not matter, one at a time.
<1>f. ASSUME NEW d, Like(d)
      PROVE  /\ \A b \in BOOLEAN : Like([d EXCEPT !.connected = b])
             /\ \A b \in BOOLEAN : Like([d EXCEPT !.version = b])
             /\ \A b \in BOOLEAN : Like([d EXCEPT !.open = b])
             /\ \A b \in BOOLEAN : Like([d EXCEPT !.reading = b])
             /\ \A k \in Kinds \cup {None} : Like([d EXCEPT !.pending = k])
             /\ \A g \in Addresses \cup {None} : Like([d EXCEPT !.gid = g])
             /\ \A n \in 0 .. CommandRetries + 1 : Like([d EXCEPT !.retries = n])
             /\ \A n \in 0 .. AckWaits : Like([d EXCEPT !.waits = n])
             /\ \A t \in 0 .. Longest : Like([d EXCEPT !.timer = t])
  BY <1>f DEF Transmitters
<1>g. {TRUE, FALSE} \subseteq BOOLEAN /\ Addresses \subseteq Addresses \cup {None}
  OBVIOUS
<1>t. Kept(tx') BY TxProcessKeeps, TxReadKeeps, OthersKeepTx
<1>u. tx' \in Transmitters BY <1>t DEF Kept
<1>e. ASSUME UNCHANGED <<sends, efa>>, tx'.callback = tx.callback,
             tx'.acked = tx.acked, tx'.peer = tx.peer
      PROVE  PacketInv'
  BY <1>c, <1>e, <1>u
<1>1. CASE UNCHANGED <<tx, sends, efa>> BY <1>1, <1>e
<1>2. ASSUME TxProcessState, UNCHANGED sends PROVE PacketInv'
  <2>0. \A s \in States, t \in 0 .. Longest :
          LET d == Goto(tx, s, t)
          IN  d.callback = tx.callback /\ d.acked = tx.acked /\ d.peer = tx.peer
    BY <1>m
  <2>1. CASE TxSendReset
    <3>1. PICK s \in States, b \in BOOLEAN :
            tx' = [[Goto(tx, s, ResetTime) EXCEPT !.connected = b]
                    EXCEPT !.pending = "Reset"]
      BY <2>1, <1>s DEF TxSendReset, SendCommand, TxGoto
    <3> DEFINE d == Goto(tx, s, ResetTime)
    <3>2. Like(d) BY <1>m, Times
    <3>3. tx' = [[d EXCEPT !.connected = b] EXCEPT !.pending = "Reset"] BY <3>1
    <3> HIDE DEF d
    <3>4. tx'.callback = d.callback /\ tx'.acked = d.acked /\ tx'.peer = d.peer
      BY <3>2, <3>3 DEF Transmitters
    <3> QED BY <3>2, <3>4, <2>1, <1>2, <1>e DEF TxSendReset
  <2>2. CASE TxEfaReset
    <3> DEFINE d == Goto(tx, "Resetting", ManagerTime)
    <3>1. tx' = [[d EXCEPT !.connected = FALSE, !.gid = None] EXCEPT !.pending = "Reset"]
      BY <2>2 DEF TxEfaReset, SendCommand, TxGoto
    <3>2. Like(d) BY <1>m, <1>s, Times
    <3> HIDE DEF d
    <3>3. /\ tx'.callback = d.callback /\ tx'.acked = d.acked /\ tx'.peer = d.peer
      BY <3>1, <3>2 DEF Transmitters
    <3> QED BY <3>2, <3>3, <2>2, <1>2, <1>e DEF TxEfaReset
  <2>3. CASE TxResetDone
    <3>1. tx' = Goto(tx, "WaitForStart", ManagerTime) BY <2>3 DEF TxResetDone, TxGoto
    <3>2. Like(tx') BY <3>1, <1>m, <1>s, Times
    <3> QED BY <3>2, <2>3, <1>2, <1>e DEF TxResetDone
  <2>4. CASE TxSendWithRetry
    <3>1. PICK s \in States, t \in 0 .. Longest, k \in Kinds :
            LET d == Goto(tx, s, t)
            IN  \/ tx' = [[d EXCEPT !.retries = @ + 1] EXCEPT !.pending = k]
                \/ tx' = [d EXCEPT !.retries = @ + 1]
      <4>1. "Ping" \in Kinds /\ "ProtocolVersion" \in Kinds BY DEF Kinds
      <4>2. PICK r \in {"SendProtocolVersion", "EfaConnectedPing"} :
              \/ tx' = [[Goto(tx, r, AckTime) EXCEPT !.retries = @ + 1] EXCEPT
                          !.pending = IF r = "EfaConnectedPing" THEN "Ping"
                                                                ELSE "ProtocolVersion"]
              \/ tx' = [Goto(tx, "EfaReset", 0) EXCEPT !.retries = @ + 1]
        BY <2>4 DEF TxSendWithRetry, SendCommand, TxGoto
      <4>3. r \in States /\ "EfaReset" \in States BY <1>s
      <4>4. AckTime \in 0 .. Longest /\ 0 \in 0 .. Longest BY Times
      <4> QED BY <4>1, <4>2, <4>3, <4>4
    <3> DEFINE d == Goto(tx, s, t)
    <3>2. Like(d) BY <1>m
    <3>3. \/ tx' = [[d EXCEPT !.retries = @ + 1] EXCEPT !.pending = k]
          \/ tx' = [d EXCEPT !.retries = @ + 1]
      BY <3>1
    <3> HIDE DEF d
    <3>4. /\ tx'.callback = d.callback /\ tx'.acked = d.acked /\ tx'.peer = d.peer
      BY <3>2, <3>3 DEF Transmitters
    <3> QED BY <3>2, <3>4, <2>4, <1>2, <1>e DEF TxSendWithRetry
  <2>5. CASE TxEfaStart
    <3>1. /\ NewRound \in Transmitters /\ NewRound.acked = 0
          /\ NewRound.callback = "Probe" /\ NewRound.peer = tx.peer
      <4>1. 0 \in 0 .. CommandRetries + 1 /\ 0 \in 0 .. AckWaits BY ProbeAssumption
      <4> QED BY <1>a, <4>1 DEF NewRound, Transmitters
    <3>2. \A s \in States, t \in 0 .. Longest :
            LET d == Goto(NewRound, s, t)
            IN  /\ d \in Transmitters /\ d.acked = 0
                /\ d.callback = "Probe" /\ d.peer = tx.peer
      BY <3>1, TxMoves
    <3> DEFINE d == Goto(NewRound, "EfaProbe", ProbeTime)
               r == Goto(NewRound, "EfaReset", ResetTime)
    <3>3. /\ d \in Transmitters /\ d.acked = 0 /\ d.callback = "Probe"
          /\ r \in Transmitters /\ r.peer = tx.peer
      BY <3>2, <1>s, Times
    <3>4. \/ UNCHANGED <<tx, efa>>
          \/ /\ tx.gid # None /\ tx' = [d EXCEPT !.peer = tx.gid]
             /\ efa' = [kind |-> "Probe", to |-> tx.gid, acked |-> FALSE]
          \/ tx.peer = None /\ tx' = r /\ efa' = efa
      BY <2>5 DEF TxEfaStart
    <3> HIDE DEF d, r
    <3>5. CASE UNCHANGED <<tx, efa>> BY <3>5, <1>1, <1>2
    <3>6. CASE /\ tx.gid # None /\ tx' = [d EXCEPT !.peer = tx.gid]
               /\ efa' = [kind |-> "Probe", to |-> tx.gid, acked |-> FALSE]
      <4>1. tx.gid \in Addresses BY <3>6, <1>a
      <4>2. tx'.peer # None /\ tx'.callback = "Probe" /\ tx'.acked = 0
        BY <3>3, <3>6 DEF Transmitters
      <4>3. efa' \in EfaTypes /\ efa'.kind = "Probe" BY <3>6, <4>1 DEF EfaTypes
      <4> QED BY <4>2, <4>3, <1>b DEF PacketInv, PeerInv, OwnerInv
    <3>7. CASE tx.peer = None /\ tx' = r /\ efa' = efa
      <4>1. efa.kind \in {None, "Spent"}
        BY <3>7, <1>a DEF PacketInv, PeerInv, InFlight, EfaTypes
      <4> QED BY <4>1, <3>7, <1>a, NoPacketInv
    <3> QED BY <3>4, <3>5, <3>6, <3>7
  <2>6. CASE TxEfaProbe
    <3>1. tx' = Goto(tx, "EfaReset", 0) BY <2>6 DEF TxEfaProbe, ProbeFailed, TxGoto
    <3>2. Like(tx') BY <3>1, <1>m, <1>s, Times
    <3> QED BY <3>2, <2>6, <1>2, <1>e DEF TxEfaProbe
  <2>7. CASE TxEfaTxProbeAcks
    <3>e. efa' = efa BY <2>7 DEF TxEfaTxProbeAcks
    <3>1. CASE AllAcked
      <4> DEFINE d == Goto(tx, "EfaConnected", ManagerTime)
      <4>1. tx' = [d EXCEPT !.callback = "App"]
        BY <2>7, <3>1 DEF TxEfaTxProbeAcks, TxGoto
      <4>2. Like(d) BY <1>m, <1>s, Times
      <4> HIDE DEF d
      <4>3. tx'.peer = tx.peer BY <4>1, <4>2 DEF Transmitters
      <4>4. ~sends => efa.kind \notin {"App", "Probe"}
        BY <3>1, <1>a, <1>b DEF AllAcked, PacketInv, OwnerInv
      <4> QED BY <4>3, <4>4, <3>e, <1>2, <1>a DEF PacketInv, PeerInv, OwnerInv, InFlight
    <3>2. CASE ~AllAcked
      <4>1. PICK s \in States, t \in 0 .. Longest :
              tx' = [Goto(tx, s, t) EXCEPT !.waits = @ + 1]
        BY <2>7, <3>2, <1>s, Times DEF TxEfaTxProbeAcks, TxGoto
      <4> DEFINE d == Goto(tx, s, t)
      <4>2. Like(d) /\ tx' = [d EXCEPT !.waits = @ + 1] BY <4>1, <1>m
      <4> HIDE DEF d
      <4>3. tx'.callback = d.callback /\ tx'.acked = d.acked /\ tx'.peer = d.peer
        BY <4>2 DEF Transmitters
      <4> QED BY <4>2, <4>3, <3>e, <1>2, <1>e
    <3> QED BY <3>1, <3>2
  <2>8. CASE TxEfaConnected
    <3> DEFINE d == Goto(tx, "EfaConnectedPing", 0)
    <3>1. tx' = [d EXCEPT !.connected = TRUE, !.retries = 0]
      BY <2>8 DEF TxEfaConnected, TxGoto
    <3>2. Like(d) BY <1>m, <1>s, Times
    <3> HIDE DEF d
    <3>3. tx'.callback = d.callback /\ tx'.acked = d.acked /\ tx'.peer = d.peer
      BY <3>1, <3>2 DEF Transmitters
    <3> QED BY <3>2, <3>3, <2>8, <1>2, <1>e DEF TxEfaConnected
  <2> QED BY <1>2, <2>1, <2>2, <2>3, <2>4, <2>5, <2>6, <2>7, <2>8 DEF TxProcessState
<1>3. ASSUME TxRead, UNCHANGED sends PROVE PacketInv'
  <2>e. efa' = efa
    BY <1>3 DEF TxRead, TxReadChange, TxReadReset, TxReadAck, TxReadConnected
  <2>1. CASE TxReadChange
    <3>1. \E s \in States : tx' = Goto(tx, s, 0)
      <4>1. \A m \in Changes : m.state \in States BY DEF Changes
      <4> QED BY <2>1, <4>1 DEF TxReadChange, TxGoto
    <3>2. Like(tx') BY <3>1, <1>m, Times
    <3> QED BY <3>2, <2>e, <1>3, <1>e
  <2>2. CASE TxReadReset
    <3>1. PICK m \in Replies :
            LET e == [tx EXCEPT !.connected = FALSE, !.gid = m.gid]
            IN  \/ tx' = Goto([e EXCEPT !.version = TRUE], "Resetting", ManagerTime)
                \/ tx' = Resumed(e)
      BY <2>2 DEF TxReadReset
    <3> DEFINE e == [tx EXCEPT !.connected = FALSE, !.gid = m.gid]
               v == [e EXCEPT !.version = TRUE]
    <3>2. tx' = Goto(v, "Resetting", ManagerTime) \/ tx' = Resumed(e) BY <3>1
    <3>3. m.gid \in Addresses BY DEF Replies
    <3>4. Like(e) BY <3>3, <1>a DEF Transmitters
    <3> HIDE DEF e
    <3>5. Like(v) BY <3>4, <1>f
    <3> HIDE DEF v
    <3>6. CASE tx' = Goto(v, "Resetting", ManagerTime)
      <4>1. "Resetting" \in States /\ ManagerTime \in 0 .. Longest BY <1>s, Times
      <4>2. Like(tx') BY <3>5, <3>6, <4>1, TxMoves
      <4> QED BY <4>2, <2>e, <1>3, <1>e
    <3>7. CASE tx' = Resumed(e)
      <4>1. Like(tx') BY <3>4, <3>7, TxResumes
      <4> QED BY <4>1, <2>e, <1>3, <1>e
    <3> QED BY <3>2, <3>6, <3>7
  <2>3. CASE TxReadAck
    <3> DEFINE e == [tx EXCEPT !.pending = None]
    <3>1. Like(e) BY <1>a DEF Transmitters
    <3>2. \/ tx' = Resumed(tx)
          \/ \E m \in Replies :
               tx' = [Goto(e, "SendProtocolVersion", 0) EXCEPT
                        !.gid = m.gid, !.version = FALSE, !.retries = 0]
          \/ tx' = [Goto(e, "WaitForStart", ManagerTime) EXCEPT !.version = TRUE]
          \/ tx' = Goto(e, "EfaConnected", PingTime)
      BY <2>3 DEF TxReadAck
    <3> HIDE DEF e
    <3>m. \A s \in States, t \in 0 .. Longest : Like(Goto(e, s, t)) BY <3>1, TxMoves
    <3>3. CASE tx' = Resumed(tx)
      <4>1. Like(tx') BY <3>3, <1>a, TxResumes
      <4> QED BY <4>1, <2>e, <1>3, <1>e
    <3>4. CASE \E m \in Replies :
                 tx' = [Goto(e, "SendProtocolVersion", 0) EXCEPT
                          !.gid = m.gid, !.version = FALSE, !.retries = 0]
      <4> DEFINE d == Goto(e, "SendProtocolVersion", 0)
      <4>1. PICK m \in Replies :
              tx' = [d EXCEPT !.gid = m.gid, !.version = FALSE, !.retries = 0]
        BY <3>4
      <4>2. Like(d) BY <3>m, <1>s, Times
      <4> HIDE DEF d
      <4>3. tx'.callback = d.callback /\ tx'.acked = d.acked /\ tx'.peer = d.peer
        BY <4>1, <4>2 DEF Transmitters
      <4> QED BY <4>2, <4>3, <2>e, <1>3, <1>e
    <3>5. CASE tx' = [Goto(e, "WaitForStart", ManagerTime) EXCEPT !.version = TRUE]
      <4> DEFINE d == Goto(e, "WaitForStart", ManagerTime)
      <4>1. Like(d) /\ tx' = [d EXCEPT !.version = TRUE] BY <3>5, <3>m, <1>s, Times
      <4> HIDE DEF d
      <4>2. Like(tx') BY <4>1, <1>f
      <4> QED BY <4>2, <2>e, <1>3, <1>e
    <3>6. CASE tx' = Goto(e, "EfaConnected", PingTime)
      <4>1. Like(tx') BY <3>6, <3>m, <1>s, Times
      <4> QED BY <4>1, <2>e, <1>3, <1>e
    <3> QED BY <3>2, <3>3, <3>4, <3>5, <3>6
  <2>4. CASE TxReadConnected
    <3>1. \E s \in States : tx' = Goto(tx, s, 0)
      BY <2>4, <1>s DEF TxReadConnected, TxGoto
    <3>2. Like(tx') BY <3>1, <1>m, Times
    <3> QED BY <3>2, <2>e, <1>3, <1>e
  <2> QED BY <1>3, <2>1, <2>2, <2>3, <2>4 DEF TxRead
<1>4. ASSUME UNCHANGED sends, NEW f, NEW net, Opened(f, net) PROVE PacketInv'
  <2>1. CASE ReusesAddress
    BY <2>1, <1>4, <1>1 DEF Opened
  <2>2. CASE ~ReusesAddress
    <3>1. /\ tx' = [tx EXCEPT !.gid = IF @ = "Now" THEN "Old" ELSE @,
                              !.peer = IF @ = "Now" THEN "Old" ELSE @]
          /\ efa' = [efa EXCEPT !.to = "Old"]
      BY <1>4, <2>2 DEF Opened
    <3>2. /\ tx'.callback = tx.callback /\ tx'.acked = tx.acked
          /\ tx'.peer = IF tx.peer = "Now" THEN "Old" ELSE tx.peer
      BY <3>1, <1>a DEF Transmitters
    <3>3. tx.peer # None => tx'.peer # None BY <3>2 DEF None
    <3>4. efa' \in EfaTypes /\ efa'.kind = efa.kind
      BY <3>1, <1>a DEF EfaTypes, Addresses
    <3> QED BY <3>2, <3>3, <3>4, <1>4, <1>a, PacketStays DEF SameOwner
  <2> QED BY <2>1, <2>2
<1>5. ASSUME Execute, UNCHANGED sends PROVE PacketInv'
  <2>1. CASE TxExecuteReset
    BY <2>1, NoPacketType, NoPacketInv DEF TxExecuteReset
  <2>2. CASE TxExecuteStart
    <3>1. /\ tx'.callback = tx.callback /\ tx'.acked = tx.acked /\ tx'.peer = tx.peer
      BY <2>2, <1>a DEF TxExecuteStart, Transmitters
    <3> QED BY <3>1, <2>2, <1>5, <1>e DEF TxExecuteStart
  <2>3. CASE RxExecuteStart
    <3>1. UNCHANGED <<tx, efa>> \/ \E f : Opened(f, network)
      BY <2>3 DEF RxExecuteStart
    <3> QED BY <3>1, <1>5, <1>1, <1>4
  <2> QED
    BY <1>5, <1>1, <2>1, <2>2, <2>3 DEF Execute, RxExecuteReset, RxDestroyed
<1>6. ASSUME TxDeliver, UNCHANGED sends PROVE PacketInv'
  <2>1. /\ tx'.callback = tx.callback /\ tx'.acked = tx.acked /\ tx'.peer = tx.peer
    BY <1>6, <1>a DEF TxDeliver, Transmitters
  <2> QED BY <2>1, <1>6, <1>e DEF TxDeliver
<1>7. ASSUME RxDeliver, UNCHANGED sends PROVE PacketInv'
  <2>1. UNCHANGED <<tx, efa>> \/ \E f, net : Opened(f, net) BY <1>7 DEF RxDeliver
  <2> QED BY <2>1, <1>7, <1>1, <1>4
<1>8. ASSUME EfaArrive, UNCHANGED sends PROVE PacketInv'
  <2>1. efa' = [efa EXCEPT !.acked = TRUE] /\ tx' = tx BY <1>8 DEF EfaArrive
  <2>2. efa' \in EfaTypes /\ efa'.kind = efa.kind BY <2>1, <1>a DEF EfaTypes
  <2> QED BY <2>1, <2>2, <1>8, <1>a, PacketStays DEF SameOwner
<1>9. ASSUME EfaComplete, UNCHANGED sends PROVE PacketInv'
  <2> DEFINE told == [tx EXCEPT !.connected = @ /\ ~Failed]
             more == tx.callback = "Probe" /\ tx.acked + 1 < ProbePackets
  <2>1. /\ InFlight
        /\ tx' = IF tx.callback = "Probe" THEN [told EXCEPT !.acked = @ + 1] ELSE told
        /\ efa' = CASE more -> [NoPacket EXCEPT !.kind = "Probe", !.to = tx.peer]
                    [] ~more /\ efa.kind = "App" -> Spent
                    [] OTHER -> NoPacket
    BY <1>9 DEF EfaComplete
  <2>2. CASE more
    <3>1. tx.peer \in Addresses BY <2>1, <1>a DEF PacketInv, PeerInv
    <3>2. efa' = [NoPacket EXCEPT !.kind = "Probe", !.to = tx.peer] BY <2>1, <2>2
    <3>3. efa' \in EfaTypes /\ efa'.kind = "Probe"
      BY <3>1, <3>2, NoPacketType DEF EfaTypes
    <3>4. PICK b \in BOOLEAN : told = [tx EXCEPT !.connected = b] OBVIOUS
    <3> HIDE DEF told
    <3>5. tx' = [told EXCEPT !.acked = @ + 1] BY <2>1, <2>2
    <3>6. Like(told) BY <3>4, <1>a, <1>f
    <3>7. /\ tx'.callback = tx.callback /\ tx'.peer = tx.peer
          /\ tx'.acked = tx.acked + 1
      BY <3>5, <3>6 DEF Transmitters
    <3> QED BY <3>1, <3>3, <3>7, <2>2 DEF PacketInv, PeerInv, OwnerInv, None, Addresses
  <2>3. CASE ~more
    <3>1. efa' = Spent \/ efa' = NoPacket BY <2>1, <2>3
    <3> QED BY <3>1, NoPacketType, NoPacketInv
  <2> QED BY <2>2, <2>3
<1>10. ASSUME AppSend PROVE PacketInv'
  <2>1. /\ UNCHANGED <<tx, sends>> /\ sends
        /\ efa' = efa \/ (tx.peer # None /\ efa' = [NoPacket EXCEPT !.kind = "App",
                                                            !.to = tx.peer])
    BY <1>10 DEF AppSend
  <2>2. CASE efa' = efa BY <2>1, <2>2, <1>1
  <2>3. CASE tx.peer # None /\ efa' = [NoPacket EXCEPT !.kind = "App", !.to = tx.peer]
    <3>1. efa' \in EfaTypes BY <2>3, <1>a, NoPacketType DEF EfaTypes
    <3> QED BY <3>1, <2>1, <2>3 DEF PacketInv, PeerInv, OwnerInv
  <2> QED BY <2>1, <2>2, <2>3
<1>11. ASSUME TxError, UNCHANGED sends PROVE PacketInv'
  <2>1. /\ tx'.callback = tx.callback /\ tx'.acked = tx.acked /\ tx'.peer = tx.peer
    BY <1>11, <1>a DEF TxError, Transmitters
  <2> QED BY <2>1, <1>11, <1>e DEF TxError
<1>12. ASSUME Tick, UNCHANGED sends PROVE PacketInv'
  <2>1. tx' = tx \/ tx' = [tx EXCEPT !.timer = @ - 1] BY <1>12 DEF Tick, Aged
  <2>2. /\ tx'.callback = tx.callback /\ tx'.acked = tx.acked /\ tx'.peer = tx.peer
    BY <2>1, <1>a DEF Transmitters
  <2>3. CASE efa' = efa BY <2>2, <2>3, <1>12, <1>e
  <2>4. CASE efa' = NoPacket BY <2>4, NoPacketType, NoPacketInv
  <2> QED BY <1>12, <2>3, <2>4 DEF Tick
<1>13. ASSUME RxProcessState \/ RxRead, UNCHANGED sends PROVE PacketInv'
  BY <1>13, <1>1
  DEF RxProcessState, RxEfaStart, RxResetting, RxEfaReset, RxSendReset,
      RxResetDone, RxEfaProbe, RxEfaConnected, RxEfaConnectedPing,
      RxRead, RxReadChange, RxReadReset, RxReadProtocolVersion, RxReadPing
<1>14. ASSUME Lose \/ RxError \/ FailedStart("Tx", tx) \/ FailedStart("Rx", rx)
                \/ EfaReceive, UNCHANGED sends
       PROVE  PacketInv'
  BY <1>14, <1>1 DEF Lose, RxError, FailedStart, EfaReceive
<1> QED
  BY <1>2, <1>3, <1>5, <1>6, <1>7, <1>8, <1>9, <1>10, <1>11, <1>12, <1>13, <1>14
  DEF Next, Step, Other, Efa

-----------------------------------------------------------------------------
(* The invariant.                                                          *)
(* What the FIFOs may be implies their types.                              *)
LEMMA FifosAreTyped ==
  ASSUME NEW f \in Fifos
  PROVE  /\ f \in [Sides -> Seq(Messages)]
         /\ f \in [Sides -> Seq(Changes \cup Commands \cup Replies)]
         /\ \A s \in Sides : Len(f[s]) < FifoSize
<1>1. Messages \subseteq Changes \cup Commands \cup Replies
  BY DEF Messages, Told, Changes, States
<1> DEFINE All == Changes \cup Commands \cup Replies
<1>2. Messages \subseteq All BY <1>1
<1> HIDE DEF All
<1>3. \A s \in Sides : f[s] \in Seq(All) BY <1>2 DEF Fifos
<1>4. f = [s \in Sides |-> f[s]] BY DEF Fifos
<1>5. f \in [Sides -> Seq(All)] BY <1>3, <1>4
<1> QED BY <1>5 DEF Fifos, All

(* The invariant holds at first.                                           *)
LEMMA InitHolds ==
  ASSUME Init PROVE IInv
<1>1. /\ 0 \in 0 .. Longest /\ 0 \in 0 .. CommandRetries + 1 /\ 0 \in 0 .. AckWaits
      /\ 0 \in 0 .. MaxFaults /\ FifoSize > 1 /\ FifoSize \in Nat
  BY ProbeAssumption, Times
<1>2. tx \in Transmitters /\ tx.state = "Idle" BY <1>1 DEF Init, NewTx, Transmitters, States
<1>3. rx \in Receivers /\ rx.callback = "App" BY NewRxType DEF Init
<1>4. fifo \in Fifos
  <2> DEFINE q == <<>>
  <2>1. q \in Seq(Messages) /\ Len(q) < FifoSize BY <1>1
  <2>2. fifo = [s \in Sides |-> q] BY DEF Init
  <2> HIDE DEF q
  <2> QED BY <2>1, <2>2 DEF Fifos
<1>5. commands \in [Sides -> Seq({"Reset", "Start"})]
  <2> DEFINE q == <<>>
  <2>1. q \in Seq({"Reset", "Start"}) /\ commands = [s \in Sides |-> q] BY DEF Init
  <2> HIDE DEF q
  <2> QED BY <2>1
<1>6. PacketInv BY NoPacketType DEF Init, PacketInv, PeerInv, OwnerInv, InFlight, None
<1>7. network \subseteq Commands \cup Replies /\ crash \in BOOLEAN /\ sends \in Apps
      /\ faults \in 0 .. MaxFaults
  BY <1>1 DEF Init
<1> QED
  BY <1>2, <1>3, <1>4, <1>5, <1>6, <1>7, FifosAreTyped
  DEF IInv, TypeOK, ToldInv, CountInv, TxCounts, RxCounts, PacketInv, EfaTypes

(* Every step keeps it.                                                    *)
LEMMA StepKeeps ==
  ASSUME IInv, [Next]_vars PROVE IInv'
<1>1. CASE UNCHANGED vars
  BY <1>1
  DEF IInv, TypeOK, ToldInv, CountInv, PeerInv, OwnerInv, InFlight, vars
<1>2. CASE Next
  <2>1. Kept(tx') BY <1>2, TxProcessKeeps, TxReadKeeps, OthersKeepTx
  <2>2. RxKept(rx') BY <1>2, RxProcessKeeps, RxReadKeeps, OthersKeepRx
  <2>3. /\ fifo' \in Fifos /\ commands' \in [Sides -> Seq({"Reset", "Start"})]
        /\ network' \subseteq Commands \cup Replies /\ PacketInv'
        /\ crash' \in BOOLEAN /\ sends' \in Apps /\ faults' \in 0 .. MaxFaults
    BY <1>2, FifosKept, CommandsKept, NetworkKept, PacketKept, FlagsKept
  <2>4. /\ fifo' \in [Sides -> Seq(Messages)]
        /\ fifo' \in [Sides -> Seq(Changes \cup Commands \cup Replies)]
        /\ \A s \in Sides : Len(fifo'[s]) < FifoSize
    BY <2>3, FifosAreTyped
  <2>5. TypeOK' BY <2>1, <2>2, <2>3, <2>4 DEF TypeOK, Kept, RxKept, PacketInv, EfaTypes
  <2>6. CountInv' BY <2>1, <2>2 DEF CountInv, Kept, RxKept
  <2>7. ToldInv' /\ PeerInv' /\ OwnerInv' BY <2>3, <2>4 DEF ToldInv, PacketInv
  <2> QED BY <2>5, <2>6, <2>7 DEF IInv
<1> QED BY <1>1, <1>2

(* The inductive invariant holds in every state.                           *)
THEOREM Invariance == Spec => []IInv
BY InitHolds, StepKeeps, PTL DEF Spec

(* Every variable keeps its type: no retry, wait, reset or packet is       *)
(* counted beyond its limit (TX_COMMAND_MAX_RETRIES,                       *)
(* EFA_TX_PROBE_ACK_MAX_RETRIES, RX_RESET_COMMAND_MAX_RETRIES,             *)
(* EFA_PROBE_PACKET_COUNT), and a FIFO keeps its free entry.               *)
THEOREM TypeCorrect == Spec => []TypeOK
<1>1. IInv => TypeOK BY DEF IInv
<1> QED BY <1>1, Invariance, PTL

(* While the application sends nothing, every packet under way is one of   *)
(* the probe, and its completion finds the callback of the probe           *)
(* (EfaConnectionEnableApplication, adapter_efa_probe_control.c).          *)
THEOREM OwnersAreMet == Spec => []PacketsMeetTheirOwner
<1>1. IInv => PacketsMeetTheirOwner BY DEF IInv, OwnerInv, PacketsMeetTheirOwner
<1> QED BY <1>1, Invariance, PTL
=============================================================================
