----------------------------- MODULE BoardProofs -----------------------------
(***************************************************************************)
(* The safety properties of the board's threads (MCBoard.tla), for any     *)
(* senders, priorities, mailbox sizes, rings and loads.                    *)
(*                                                                         *)
(* EthInv is the inductive invariant of the Ethernet threads.  It adds to  *)
(* the properties where each thread may be, that only the holder of the    *)
(* core lock is inside the core, that between a packet and its             *)
(* acknowledgement exactly one of message, transmission and token exists,  *)
(* and what is on its way to wake the receive thread.  CameraInv follows   *)
(* the two halves of the frame buffer through a capture.                   *)
(***************************************************************************)
EXTENDS MCBoard, FiniteSetTheorems, TLAPS

-----------------------------------------------------------------------------
(* The Ethernet threads *)

\* Where each thread may be.
Places ==
    /\ \A s \in Stack : at[s] \in {"idle", "lock", "send", "take", "unlock"}
    /\ at[erx] \in {"recv", "test", "change", "lock", "set", "send", "take",
                    "unlock", "get", "scan", "copy"}
    /\ at[etx] \in {"recv", "tx", "spin", "transmit", "fill", "ack"}
    /\ at[phy] \in {"poll", "change", "post", "delay"}

\* A thread inside the core holds its lock.
InCore ==
    \A s \in Sender : at[s] \in {"set", "send", "take", "unlock"} => core = s

\* The packet of sender s is in the mailbox, with the transmit thread, or
\* acknowledged.
Outstanding(s) ==
    \/ eth_tx_mb = <<s>> /\ msg = Nobody /\ tx_ack = 0
    \/ eth_tx_mb = <<>> /\ msg = s /\ tx_ack = 0
    \/ eth_tx_mb = <<>> /\ msg = Nobody /\ tx_ack = 1

\* One packet is under way while its sender waits, and none otherwise.
OnePacket ==
    /\ \A s \in Sender : at[s] = "take" => Outstanding(s)
    /\ (\A s \in Sender : at[s] # "take")
          => eth_tx_mb = <<>> /\ msg = Nobody /\ tx_ack = 0
    /\ msg = Nobody <=> at[etx] = "recv"

\* The monitor has seen a link whenever it reports one; the receive thread
\* learns of a change it has not read, and sets what it has read.
LinkFacts ==
    /\ at[phy] \in {"change", "post"} => phy_speed_new # "down"
    /\ link.status <=> (phy_speed # "down" \/ at[phy] = "post")
    /\ link.changed \/ link.read \/ link_up => link.status
    /\ at[erx] = "change" => link.changed
    /\ at[erx] \in {"lock", "set"} => link.read
    /\ link.changed => at[phy] = "post" \/ eth_rx_mb > 0 \/ at[erx] \in {"test", "change"}
    /\ link.status /\ ~link.changed => link_up \/ at[erx] \in {"lock", "set"}

\* A message is there while the interrupt is served, and wherever a frame has
\* come in since the receive thread found the ring empty; a descriptor that was
\* seen stays.
FrameFacts ==
    /\ irq = "serving" => eth_rx_mb > 0
    /\ at[erx] = "recv" /\ ring > 0 /\ why = "empty" => eth_rx_mb > 0 \/ irq # "none"
    /\ at[erx] = "copy" => ring > 0
    /\ at[etx] \in {"spin", "transmit", "fill"} => txring < ETH_TXBUFNB

EthInv == EthTypeOK /\ Places /\ InCore /\ OnePacket /\ LinkFacts /\ FrameFacts

-----------------------------------------------------------------------------
(* The camera server *)

\* The DMA runs from HAL_DCMI_Start_DMA until the frame ends or is stopped.
DmaFacts == dma # "off" => cam_srv \in {"take", "stop"}

\* What the two halves of the buffer hold, from the memset to the end of the round.
BufferFacts ==
    /\ cam_srv \in {"enable", "start"} => jpeg_buf[1] = Cleared /\ jpeg_buf[2] = Cleared
    /\ dma = "on" => jpeg_buf[1] = Cleared /\ jpeg_buf[2] = Cleared
    /\ dma = "half" => jpeg_buf[1] = gen /\ jpeg_buf[2] = Cleared
    /\ cam_srv \in {"take", "stop", "resume", "check", "write", "writing"}
          => /\ jpeg_buf[1] \in {Cleared, gen, Overrun}
             /\ jpeg_buf[2] \in {Cleared, gen}

CameraInv == CameraTypeOK /\ DmaFacts /\ BufferFacts /\ WholeFrameSent

(* The parts of a frame buffer are all of it.                               *)
LEMMA Halves ==
    ASSUME NEW b, b \in [1 .. 2 -> Cleared .. Overrun], NEW g, b[1] = g, b[2] = g
    PROVE  b = [i \in 1 .. 2 |-> g]
OBVIOUS

(* At the start the buffer is cleared and nothing is captured.              *)
LEMMA CameraStarts == CameraInit => CameraInv
<1> SUFFICES ASSUME CameraInit PROVE CameraInv
  OBVIOUS
<1>1. CameraTypeOK
  <2>1. g_newconn \in BOOLEAN /\ pcb \in BOOLEAN /\ raw \in BOOLEAN /\ ie \in BOOLEAN /\ got \in BOOLEAN
    BY Zenon DEF CameraInit
  <2>2. jpeg_buf \in [1 .. 2 -> Cleared .. Overrun]
    BY DEF CameraInit, Cleared, Overrun
  <2>3. dcmi_sem \in 0 .. RT_SEM_VALUE_MAX
    BY CameraAssumption DEF CameraInit
  <2> QED
    BY <2>1, <2>2, <2>3 DEF CameraInit, CameraTypeOK, Lvgl
<1>2. DmaFacts /\ BufferFacts /\ WholeFrameSent
  BY DEF CameraInit, DmaFacts, BufferFacts, WholeFrameSent
<1> QED
  BY <1>1, <1>2 DEF CameraInv

(* Every step of the server, of LVGL, of the sensor with its DMA and of the  *)
(* frame interrupt keeps the contents of the buffer what the server takes    *)
(* them for.                                                                *)
LEMMA CameraSteps == CameraInv /\ [CameraNext]_camera => CameraInv'
<1> SUFFICES ASSUME CameraInv, [CameraNext]_camera PROVE CameraInv'
    OBVIOUS
<1> USE CameraAssumption
    DEF CameraInv, CameraTypeOK, DmaFacts, BufferFacts, WholeFrameSent, Cleared, Overrun,
        Lvgl, Cam, Goes, Blocks, camera, capture, client
<1>1. CASE Netif
  BY <1>1 DEF Netif
<1>2. CASE eth_camera_listen_create
  BY <1>2 DEF eth_camera_listen_create
<1>3. CASE Accept
  BY <1>3 DEF Accept
<1>4. CASE AcceptTimeout
  BY <1>4 DEF AcceptTimeout
<1>5. CASE Clear
  BY <1>5 DEF Clear
<1>6. CASE EnableIt
  BY <1>6 DEF EnableIt
<1>7. CASE HAL_DCMI_Start_DMA
  BY <1>7 DEF HAL_DCMI_Start_DMA
<1>8. CASE Take
  BY <1>8 DEF Take
<1>9. CASE TakeTimeout
  BY <1>9 DEF TakeTimeout
<1>10. CASE Stop
  BY <1>10 DEF Stop
<1>11. CASE eth_camera_resume_lvgl
  BY <1>11 DEF eth_camera_resume_lvgl
<1>12. CASE Check
  <2>1. Valid => jpeg_buf[1] = gen /\ jpeg_buf[2] = gen
    BY <1>12 DEF Check, Valid
  <2>2. Valid => jpeg_buf = [i \in 1 .. 2 |-> gen]
    BY <2>1, Halves
  <2> QED
    BY <1>12, <2>2 DEF Check
<1>13. CASE Write
  BY <1>13 DEF Write
<1>14. CASE WriteEnd
  BY <1>14 DEF WriteEnd
<1>15. CASE Close
  BY <1>15 DEF Close
<1>16. CASE Nap
  BY <1>16 DEF Nap
<1>17. CASE LvglTimeout
  BY <1>17 DEF LvglTimeout
<1>18. CASE LvglDraw
  BY <1>18 DEF LvglDraw
<1>19. CASE LvglSleep
  BY <1>19 DEF LvglSleep
<1>20. CASE DmaHalf
  BY <1>20 DEF DmaHalf
<1>21. CASE DmaFull
  BY <1>21 DEF DmaFull
<1>22. CASE DmaWrap
  BY <1>22 DEF DmaWrap
<1>23. CASE FrameEnd
  BY <1>23 DEF FrameEnd
<1>24. CASE FrameEventCallback
  <2>1. CameraTypeOK'
    <3>1. dcmi_sem' \in 0 .. RT_SEM_VALUE_MAX
      BY <1>24 DEF FrameEventCallback
    <3>2. ie' \in BOOLEAN
      BY <1>24, Zenon DEF FrameEventCallback
    <3> QED
      BY <1>24, <3>1, <3>2 DEF FrameEventCallback
  <2>2. (DmaFacts /\ BufferFacts /\ WholeFrameSent)'
    BY <1>24 DEF FrameEventCallback
  <2> QED
    BY <2>1, <2>2
<1>25. ASSUME NEW e \in {"ERR_RST", "ERR_ABRT"}, ClientLost(e) PROVE CameraInv'
  <2>1. pcb' \in BOOLEAN
    BY <1>25, Zenon DEF ClientLost
  <2> QED
    BY <1>25, <2>1 DEF ClientLost
<1>26. CASE UNCHANGED camera
  BY <1>26
<1> QED
  BY <1>1, <1>2, <1>3, <1>4, <1>5, <1>6, <1>7, <1>8, <1>9, <1>10, <1>11, <1>12, <1>13, <1>14, <1>15, <1>16, <1>17, <1>18, <1>19, <1>20, <1>21, <1>22, <1>23, <1>24, <1>25, <1>26
     DEF CameraNext, eth_camera_server_thread, lvgl_thread_entry, Sensor

-----------------------------------------------------------------------------
(* The receive thread, the transmit thread and the monitor are three threads, *)
(* and none of them is an application's.                                      *)
LEMMA Threads ==
    /\ erx # etx /\ erx # phy /\ etx # phy
    /\ \A s \in Stack : s # erx /\ s # etx /\ s # phy
    /\ etx \notin Sender /\ phy \notin Sender
    /\ Sender \subseteq EthThread /\ Nobody \notin Sender
<1>1. \A a, b : Cardinality({a, b}) <= 2
  <2> TAKE a, b
  <2>1. IsFiniteSet({b}) /\ Cardinality({b}) = 1
    BY FS_Singleton
  <2>2. Cardinality({b} \union {a}) = IF a \in {b} THEN Cardinality({b}) ELSE Cardinality({b}) + 1
    BY <2>1, FS_AddElement
  <2> QED
    BY <2>1, <2>2, {b} \union {a} = {a, b}
<1>2. Cardinality({erx, etx, phy}) = 3
  BY EthAssumption
<1>3. erx # etx /\ erx # phy /\ etx # phy
  <2>1. ASSUME NEW a, NEW b, {erx, etx, phy} = {a, b} PROVE FALSE
    <3>1. Cardinality({erx, etx, phy}) = Cardinality({a, b})
      BY <2>1, Zenon
    <3>2. Cardinality({a, b}) <= 2
      BY <1>1
    <3> QED
      BY <1>2, <3>1, <3>2
  <2>2. erx = etx => {erx, etx, phy} = {etx, phy}
    OBVIOUS
  <2>3. erx = phy => {erx, etx, phy} = {etx, phy}
    OBVIOUS
  <2>4. etx = phy => {erx, etx, phy} = {erx, phy}
    OBVIOUS
  <2> QED
    BY <2>1, <2>2, <2>3, <2>4
<1> QED
  BY <1>3, EthAssumption DEF Sender, EthThread

(* Mailboxes and rings have room for something.                             *)
LEMMA Sizes ==
    /\ MailMax \in Nat /\ MailMax > 0
    /\ ETH_RXBUFNB \in Nat /\ ETH_RXBUFNB > 0
    /\ ETH_TXBUFNB \in Nat /\ ETH_TXBUFNB > 0
BY EthAssumption

(* The threads start outside the core, with nothing under way and no link.  *)
LEMMA EthStarts == EthInit => EthInv
<1> SUFFICES ASSUME EthInit PROVE EthInv
  OBVIOUS
<1> USE EthAssumption, Threads, Sizes DEF EthInit
<1>1. PICK load \in Loads : wire = load.frames /\ work = load.packets
  OBVIOUS
<1>2. EthTypeOK
  <2>1. wire \in Nat /\ work \in Nat
    BY <1>1
  <2>2. link_up \in BOOLEAN /\ Lock \in BOOLEAN
    BY Zenon
  <2> QED
    BY <2>1, <2>2 DEF EthTypeOK, EthThread
<1>3. Places /\ InCore /\ OnePacket
  BY DEF Places, InCore, OnePacket, EthThread, Sender
<1>4. LinkFacts /\ FrameFacts
  BY DEF LinkFacts, FrameFacts, EthThread
<1> QED
  BY <1>2, <1>3, <1>4 DEF EthInv

(* A thread that is about to send finds the transmit mailbox empty: it is the *)
(* only one in the core.                                                      *)
LEMMA NothingSent ==
    ASSUME EthInv, NEW s \in Sender, at[s] \in {"send", "set", "unlock"}
    PROVE  eth_tx_mb = <<>> /\ msg = Nobody /\ tx_ack = 0
<1>1. \A r \in Sender : at[r] # "take"
  BY Threads DEF EthInv, InCore
<1> QED
  BY <1>1 DEF EthInv, OnePacket

(* Every step of the threads, of the MAC and of the interrupt keeps the      *)
(* invariant.                                                               *)
LEMMA EthSteps == EthInv /\ [EthNext]_ethernet => EthInv'
<1> SUFFICES ASSUME EthInv, [EthNext]_ethernet PROVE EthInv'
  OBVIOUS
<1>a. EthTypeOK /\ Places /\ InCore /\ OnePacket /\ LinkFacts /\ FrameFacts
  BY DEF EthInv
<1> USE Threads, Sizes, <1>a
    DEF At, Ready, Goto, Notify, ethernet, driver, monitor, bounds, sending
<1>1. ASSUME NEW s \in Sender, LOCK_TCPIP_CORE(s) PROVE EthInv'
  <2>1. EthTypeOK'
    BY <1>1 DEF LOCK_TCPIP_CORE, EthTypeOK, FrameFacts
  <2>2. Places'
    BY <1>1 DEF LOCK_TCPIP_CORE, EthTypeOK, Places
  <2>3. InCore'
    BY <1>1 DEF LOCK_TCPIP_CORE, EthTypeOK, Places, InCore
  <2>4. OnePacket'
    BY <1>1 DEF LOCK_TCPIP_CORE, EthTypeOK, Places, InCore, OnePacket, Outstanding
  <2>5. LinkFacts'
    BY <1>1 DEF LOCK_TCPIP_CORE, EthTypeOK, Places, LinkFacts
  <2>6. FrameFacts'
    BY <1>1 DEF LOCK_TCPIP_CORE, EthTypeOK, Places, FrameFacts
  <2> QED
    BY <2>1, <2>2, <2>3, <2>4, <2>5, <2>6 DEF EthInv
<1>2. ASSUME NEW s \in Sender, UNLOCK_TCPIP_CORE(s) PROVE EthInv'
  <2>1. EthTypeOK'
    BY <1>2 DEF UNLOCK_TCPIP_CORE, EthTypeOK, FrameFacts
  <2>2. Places'
    BY <1>2 DEF UNLOCK_TCPIP_CORE, EthTypeOK, Places
  <2>3. InCore'
    BY <1>2 DEF UNLOCK_TCPIP_CORE, EthTypeOK, Places, InCore
  <2>4. OnePacket'
    BY <1>2 DEF UNLOCK_TCPIP_CORE, EthTypeOK, Places, InCore, OnePacket, Outstanding
  <2>5. LinkFacts'
    BY <1>2 DEF UNLOCK_TCPIP_CORE, EthTypeOK, Places, LinkFacts
  <2>6. FrameFacts'
    BY <1>2 DEF UNLOCK_TCPIP_CORE, EthTypeOK, Places, FrameFacts
  <2> QED
    BY <2>1, <2>2, <2>3, <2>4, <2>5, <2>6 DEF EthInv
<1>3. ASSUME NEW s \in Sender, ethernetif_linkoutput(s) PROVE EthInv'
  <2>a. eth_tx_mb = <<>> /\ msg = Nobody /\ tx_ack = 0
    BY <1>3, NothingSent DEF ethernetif_linkoutput
  <2>b. /\ eth_tx_mb' = <<s>> /\ at' = [at EXCEPT ![s] = "take"]
        /\ at[s] = "send" /\ core = s
        /\ UNCHANGED <<core, msg, tx_ack, eth_rx_mb, link, link_up, driver, monitor, bounds>>
    BY <1>3, <2>a DEF ethernetif_linkoutput, InCore
  <2>1. EthTypeOK'
    BY <2>a, <2>b DEF EthTypeOK, FrameFacts
  <2>2. Places'
    BY <2>a, <2>b DEF EthTypeOK, Places
  <2>3. InCore'
    BY <2>a, <2>b DEF EthTypeOK, Places, InCore
  <2>4. OnePacket'
    BY <2>a, <2>b DEF EthTypeOK, Places, InCore, OnePacket, Outstanding
  <2>5. LinkFacts'
    BY <2>a, <2>b DEF EthTypeOK, Places, LinkFacts
  <2>6. FrameFacts'
    BY <2>a, <2>b DEF EthTypeOK, Places, FrameFacts
  <2> QED
    BY <2>1, <2>2, <2>3, <2>4, <2>5, <2>6 DEF EthInv
<1>4. ASSUME NEW s \in Sender, AckTaken(s) PROVE EthInv'
  <2>1. EthTypeOK'
    BY <1>4 DEF AckTaken, EthTypeOK, FrameFacts
  <2>2. Places'
    BY <1>4 DEF AckTaken, EthTypeOK, Places
  <2>3. InCore'
    BY <1>4 DEF AckTaken, EthTypeOK, Places, InCore
  <2>4. OnePacket'
    BY <1>4 DEF AckTaken, EthTypeOK, Places, InCore, OnePacket, Outstanding
  <2>5. LinkFacts'
    BY <1>4 DEF AckTaken, EthTypeOK, Places, LinkFacts
  <2>6. FrameFacts'
    BY <1>4 DEF AckTaken, EthTypeOK, Places, FrameFacts
  <2> QED
    BY <2>1, <2>2, <2>3, <2>4, <2>5, <2>6 DEF EthInv
<1>5. ASSUME NEW s \in Stack, Wakes(s) PROVE EthInv'
  <2>a. work \in Nat /\ work' \in Nat
    BY <1>5 DEF Wakes, EthTypeOK
  <2>1. EthTypeOK'
    BY <1>5, <2>a DEF Wakes, EthTypeOK, FrameFacts
  <2>2. Places'
    BY <1>5, <2>a DEF Wakes, EthTypeOK, Places
  <2>3. InCore'
    BY <1>5, <2>a DEF Wakes, EthTypeOK, Places, InCore
  <2>4. OnePacket'
    BY <1>5, <2>a DEF Wakes, EthTypeOK, Places, InCore, OnePacket, Outstanding
  <2>5. LinkFacts'
    BY <1>5, <2>a DEF Wakes, EthTypeOK, Places, LinkFacts
  <2>6. FrameFacts'
    BY <1>5, <2>a DEF Wakes, EthTypeOK, Places, FrameFacts
  <2> QED
    BY <2>1, <2>2, <2>3, <2>4, <2>5, <2>6 DEF EthInv
<1>6. CASE TxRecv
  <2>a. PICK s \in Sender : at[s] = "take" /\ eth_tx_mb = <<s>> /\ msg = Nobody /\ tx_ack = 0
    BY <1>6 DEF TxRecv, OnePacket, Outstanding, EthTypeOK
  <2>b. /\ msg' = s /\ eth_tx_mb' = <<>> /\ at' = [at EXCEPT ![etx] = "tx"] /\ at[etx] = "recv"
        /\ UNCHANGED <<core, tx_ack, eth_rx_mb, link, link_up, driver, monitor, bounds>>
    BY <1>6, <2>a DEF TxRecv
  <2>c. eth_tx_mb' \in Seq(Sender) /\ Len(eth_tx_mb') <= MailMax
    BY <2>b
  <2>d. \A r \in Sender : at[r] = "take" => r = s
    BY <2>a DEF InCore
  <2>1. EthTypeOK'
    BY <2>b, <2>c DEF EthTypeOK, FrameFacts
  <2>2. Places'
    BY <2>a, <2>b DEF EthTypeOK, Places
  <2>3. InCore'
    BY <2>a, <2>b DEF EthTypeOK, Places, InCore
  <2>4. OnePacket'
    <3>1. \A r \in Sender : at'[r] = at[r]
      BY <2>b DEF EthTypeOK
    <3>2. \A r \in Sender : at'[r] = "take" => Outstanding(r)'
      BY <2>a, <2>b, <2>d, <3>1 DEF Outstanding
    <3>3. msg' = Nobody <=> at'[etx] = "recv"
      BY <2>b DEF EthTypeOK, EthThread
    <3> QED
      BY <2>a, <3>1, <3>2, <3>3 DEF OnePacket
  <2>5. LinkFacts'
    BY <2>a, <2>b DEF EthTypeOK, Places, LinkFacts
  <2>6. FrameFacts'
    BY <2>a, <2>b DEF EthTypeOK, Places, FrameFacts
  <2> QED
    BY <2>1, <2>2, <2>3, <2>4, <2>5, <2>6 DEF EthInv
<1>7. CASE TxCopy
  <2>1. EthTypeOK'
    BY <1>7 DEF TxCopy, EthTypeOK, FrameFacts
  <2>2. Places'
    BY <1>7 DEF TxCopy, EthTypeOK, Places
  <2>3. InCore'
    BY <1>7 DEF TxCopy, EthTypeOK, Places, InCore
  <2>4. OnePacket'
    BY <1>7 DEF TxCopy, EthTypeOK, Places, InCore, OnePacket, Outstanding
  <2>5. LinkFacts'
    BY <1>7 DEF TxCopy, EthTypeOK, Places, LinkFacts
  <2>6. FrameFacts'
    BY <1>7 DEF TxCopy, EthTypeOK, Places, FrameFacts
  <2> QED
    BY <2>1, <2>2, <2>3, <2>4, <2>5, <2>6 DEF EthInv
<1>8. CASE TxSpin
  <2>1. EthTypeOK'
    BY <1>8 DEF TxSpin, EthTypeOK, FrameFacts
  <2>2. Places'
    BY <1>8 DEF TxSpin, EthTypeOK, Places
  <2>3. InCore'
    BY <1>8 DEF TxSpin, EthTypeOK, Places, InCore
  <2>4. OnePacket'
    BY <1>8 DEF TxSpin, EthTypeOK, Places, InCore, OnePacket, Outstanding
  <2>5. LinkFacts'
    BY <1>8 DEF TxSpin, EthTypeOK, Places, LinkFacts
  <2>6. FrameFacts'
    BY <1>8 DEF TxSpin, EthTypeOK, Places, FrameFacts
  <2> QED
    BY <2>1, <2>2, <2>3, <2>4, <2>5, <2>6 DEF EthInv
<1>9. CASE TxLock
  <2>1. EthTypeOK'
    BY <1>9 DEF TxLock, EthTypeOK, FrameFacts
  <2>2. Places'
    BY <1>9 DEF TxLock, EthTypeOK, Places
  <2>3. InCore'
    BY <1>9 DEF TxLock, EthTypeOK, Places, InCore
  <2>4. OnePacket'
    BY <1>9 DEF TxLock, EthTypeOK, Places, InCore, OnePacket, Outstanding
  <2>5. LinkFacts'
    BY <1>9 DEF TxLock, EthTypeOK, Places, LinkFacts
  <2>6. FrameFacts'
    BY <1>9 DEF TxLock, EthTypeOK, Places, FrameFacts
  <2> QED
    BY <2>1, <2>2, <2>3, <2>4, <2>5, <2>6 DEF EthInv
<1>10. CASE TxFill
  <2>a. txring \in 0 .. ETH_TXBUFNB /\ txring' \in 0 .. ETH_TXBUFNB
    BY <1>10 DEF TxFill, EthTypeOK, FrameFacts
  <2>b. Lock' \in BOOLEAN
    BY <1>10, Zenon DEF TxFill
  <2>1. EthTypeOK'
    BY <1>10, <2>a, <2>b DEF TxFill, EthTypeOK, FrameFacts
  <2>2. Places'
    BY <1>10, <2>a, <2>b DEF TxFill, EthTypeOK, Places
  <2>3. InCore'
    BY <1>10, <2>a, <2>b DEF TxFill, EthTypeOK, Places, InCore
  <2>4. OnePacket'
    BY <1>10, <2>a, <2>b DEF TxFill, EthTypeOK, Places, InCore, OnePacket, Outstanding
  <2>5. LinkFacts'
    BY <1>10, <2>a, <2>b DEF TxFill, EthTypeOK, Places, LinkFacts
  <2>6. FrameFacts'
    <3>1. at'[etx] = "ack" /\ at'[erx] = at[erx] /\ UNCHANGED <<eth_rx_mb, ring, irq, why>>
      BY <1>10 DEF TxFill, EthTypeOK, EthThread
    <3> QED
      BY <3>1 DEF FrameFacts
  <2> QED
    BY <2>1, <2>2, <2>3, <2>4, <2>5, <2>6 DEF EthInv
<1>11. CASE TxAck
  <2>a. PICK s \in Sender : at[s] = "take" /\ eth_tx_mb = <<>> /\ msg = s /\ tx_ack = 0
    BY <1>11 DEF TxAck, OnePacket, Outstanding, EthTypeOK
  <2>b. /\ tx_ack' = 1 /\ msg' = Nobody /\ at' = [at EXCEPT ![etx] = "recv"] /\ at[etx] = "ack"
        /\ UNCHANGED <<core, eth_tx_mb, eth_rx_mb, link, link_up, driver, monitor, bounds>>
    BY <1>11, <2>a DEF TxAck
  <2>c. \A r \in Sender : at[r] = "take" => r = s
    BY <2>a DEF InCore
  <2>1. EthTypeOK'
    BY <2>a, <2>b DEF EthTypeOK, FrameFacts
  <2>2. Places'
    BY <2>a, <2>b DEF EthTypeOK, Places
  <2>3. InCore'
    BY <2>a, <2>b DEF EthTypeOK, Places, InCore
  <2>4. OnePacket'
    <3>1. \A r \in Sender : at'[r] = at[r]
      BY <2>b DEF EthTypeOK
    <3>2. \A r \in Sender : at'[r] = "take" => Outstanding(r)'
      BY <2>a, <2>b, <2>c, <3>1 DEF Outstanding
    <3>3. msg' = Nobody <=> at'[etx] = "recv"
      BY <2>b DEF EthTypeOK, EthThread
    <3> QED
      BY <2>a, <3>1, <3>2, <3>3 DEF OnePacket
  <2>5. LinkFacts'
    BY <2>a, <2>b DEF EthTypeOK, Places, LinkFacts
  <2>6. FrameFacts'
    BY <2>a, <2>b DEF EthTypeOK, Places, FrameFacts
  <2> QED
    BY <2>1, <2>2, <2>3, <2>4, <2>5, <2>6 DEF EthInv
<1>12. CASE RxRecv
  <2>a. eth_rx_mb > 0 /\ eth_rx_mb' = eth_rx_mb - 1 /\ eth_rx_mb' \in 0 .. MailMax
    BY <1>12 DEF RxRecv, EthTypeOK
  <2>b. /\ at' = [at EXCEPT ![erx] = "test"] /\ at[erx] = "recv" /\ irq = "none"
        /\ UNCHANGED <<sending, link, link_up, driver, monitor, bounds>>
    BY <1>12 DEF RxRecv
  <2>1. EthTypeOK'
    BY <2>a, <2>b DEF EthTypeOK, FrameFacts
  <2>2. Places'
    BY <2>a, <2>b DEF EthTypeOK, Places
  <2>3. InCore'
    BY <2>a, <2>b DEF EthTypeOK, Places, InCore
  <2>4. OnePacket'
    BY <2>a, <2>b DEF EthTypeOK, Places, InCore, OnePacket, Outstanding
  <2>c. at'[erx] = "test" /\ at'[phy] = at[phy] /\ at'[etx] = at[etx]
    BY <2>b DEF EthTypeOK, EthThread
  <2>5. LinkFacts'
    BY <2>b, <2>c DEF LinkFacts
  <2>6. FrameFacts'
    BY <2>b, <2>c DEF FrameFacts
  <2> QED
    BY <2>1, <2>2, <2>3, <2>4, <2>5, <2>6 DEF EthInv
<1>13. CASE LinkTest
  <2>1. EthTypeOK'
    BY <1>13 DEF LinkTest, EthTypeOK, FrameFacts
  <2>2. Places'
    BY <1>13 DEF LinkTest, EthTypeOK, Places
  <2>3. InCore'
    BY <1>13 DEF LinkTest, EthTypeOK, Places, InCore
  <2>4. OnePacket'
    BY <1>13 DEF LinkTest, EthTypeOK, Places, InCore, OnePacket, Outstanding
  <2>5. LinkFacts'
    BY <1>13 DEF LinkTest, EthTypeOK, Places, LinkFacts
  <2>6. FrameFacts'
    BY <1>13 DEF LinkTest, EthTypeOK, Places, FrameFacts
  <2> QED
    BY <2>1, <2>2, <2>3, <2>4, <2>5, <2>6 DEF EthInv
<1>14. CASE LinkRead
  <2>1. EthTypeOK'
    BY <1>14 DEF LinkRead, EthTypeOK, FrameFacts
  <2>2. Places'
    BY <1>14 DEF LinkRead, EthTypeOK, Places
  <2>3. InCore'
    BY <1>14 DEF LinkRead, EthTypeOK, Places, InCore
  <2>4. OnePacket'
    BY <1>14 DEF LinkRead, EthTypeOK, Places, InCore, OnePacket, Outstanding
  <2>5. LinkFacts'
    <3>1. at[erx] = "change" /\ at'[erx] = "lock" /\ at'[phy] = at[phy]
      BY <1>14 DEF LinkRead, EthTypeOK, EthThread
    <3>2. ~link'.changed /\ link'.status = link.status /\ link'.read = link.status
      BY <1>14 DEF LinkRead, EthTypeOK
    <3>3. link.status
      BY <3>1 DEF LinkFacts
    <3> QED
      BY <1>14, <3>1, <3>2, <3>3 DEF LinkRead, LinkFacts
  <2>6. FrameFacts'
    BY <1>14 DEF LinkRead, EthTypeOK, Places, FrameFacts
  <2> QED
    BY <2>1, <2>2, <2>3, <2>4, <2>5, <2>6 DEF EthInv
<1>15. CASE LinkSet
  <2>1. CASE at' = [at EXCEPT ![erx] = "unlock"]
    <3>1. EthTypeOK'
      BY <1>15, <2>1 DEF LinkSet, EthTypeOK, FrameFacts
    <3>2. Places'
      BY <1>15, <2>1 DEF LinkSet, EthTypeOK, Places
    <3>3. InCore'
      BY <1>15, <2>1 DEF LinkSet, EthTypeOK, Places, InCore
    <3>4. OnePacket'
      BY <1>15, <2>1 DEF LinkSet, EthTypeOK, Places, InCore, OnePacket, Outstanding
    <3>5. LinkFacts'
      BY <1>15, <2>1 DEF LinkSet, EthTypeOK, Places, LinkFacts
    <3>6. FrameFacts'
      BY <1>15, <2>1 DEF LinkSet, EthTypeOK, Places, FrameFacts
    <3> QED
      BY <3>1, <3>2, <3>3, <3>4, <3>5, <3>6 DEF EthInv
  <2>2. CASE at' = [at EXCEPT ![erx] = "send"]
    <3>1. EthTypeOK'
      BY <1>15, <2>2 DEF LinkSet, EthTypeOK, FrameFacts
    <3>2. Places'
      BY <1>15, <2>2 DEF LinkSet, EthTypeOK, Places
    <3>3. InCore'
      BY <1>15, <2>2 DEF LinkSet, EthTypeOK, Places, InCore
    <3>4. OnePacket'
      BY <1>15, <2>2 DEF LinkSet, EthTypeOK, Places, InCore, OnePacket, Outstanding
    <3>5. LinkFacts'
      BY <1>15, <2>2 DEF LinkSet, EthTypeOK, Places, LinkFacts
    <3>6. FrameFacts'
      BY <1>15, <2>2 DEF LinkSet, EthTypeOK, Places, FrameFacts
    <3> QED
      BY <3>1, <3>2, <3>3, <3>4, <3>5, <3>6 DEF EthInv
  <2> QED
    BY <1>15, <2>1, <2>2 DEF LinkSet
<1>16. CASE RxLock
  <2>1. EthTypeOK'
    BY <1>16 DEF RxLock, EthTypeOK, FrameFacts
  <2>2. Places'
    BY <1>16 DEF RxLock, EthTypeOK, Places
  <2>3. InCore'
    BY <1>16 DEF RxLock, EthTypeOK, Places, InCore
  <2>4. OnePacket'
    BY <1>16 DEF RxLock, EthTypeOK, Places, InCore, OnePacket, Outstanding
  <2>5. LinkFacts'
    BY <1>16 DEF RxLock, EthTypeOK, Places, LinkFacts
  <2>6. FrameFacts'
    BY <1>16 DEF RxLock, EthTypeOK, Places, FrameFacts
  <2> QED
    BY <2>1, <2>2, <2>3, <2>4, <2>5, <2>6 DEF EthInv
<1>17. CASE RxScan
  <2>1. EthTypeOK'
    BY <1>17 DEF RxScan, EthTypeOK, FrameFacts
  <2>2. Places'
    BY <1>17 DEF RxScan, EthTypeOK, Places
  <2>3. InCore'
    BY <1>17 DEF RxScan, EthTypeOK, Places, InCore
  <2>4. OnePacket'
    BY <1>17 DEF RxScan, EthTypeOK, Places, InCore, OnePacket, Outstanding
  <2>5. LinkFacts'
    BY <1>17 DEF RxScan, EthTypeOK, Places, LinkFacts
  <2>6. FrameFacts'
    BY <1>17 DEF RxScan, EthTypeOK, Places, FrameFacts
  <2> QED
    BY <2>1, <2>2, <2>3, <2>4, <2>5, <2>6 DEF EthInv
<1>18. CASE RxCopy
  <2>a. ring' \in 0 .. ETH_RXBUFNB
    BY <1>18 DEF RxCopy, EthTypeOK, FrameFacts
  <2>b. at'[erx] # "copy" /\ at'[etx] = at[etx] /\ irq = "none"
    BY <1>18 DEF RxCopy, EthTypeOK, EthThread
  <2>1. CASE UNCHANGED why /\ at' = [at EXCEPT ![erx] = "get"]
    <3>1. EthTypeOK'
      BY <1>18, <2>1, <2>a DEF RxCopy, EthTypeOK
    <3>2. Places'
      BY <1>18, <2>1 DEF RxCopy, EthTypeOK, Places
    <3>3. InCore'
      BY <1>18, <2>1 DEF RxCopy, EthTypeOK, Places, InCore
    <3>4. OnePacket'
      BY <1>18, <2>1 DEF RxCopy, EthTypeOK, Places, InCore, OnePacket, Outstanding
    <3>5. LinkFacts'
      BY <1>18, <2>1 DEF RxCopy, EthTypeOK, Places, LinkFacts
    <3>6. FrameFacts'
      BY <1>18, <2>1, <2>b DEF RxCopy, EthTypeOK, EthThread, FrameFacts
    <3> QED
      BY <3>1, <3>2, <3>3, <3>4, <3>5, <3>6 DEF EthInv
  <2>2. CASE why' = "nomem" /\ at' = [at EXCEPT ![erx] = "recv"]
    <3>1. EthTypeOK'
      BY <1>18, <2>2, <2>a DEF RxCopy, EthTypeOK
    <3>2. Places'
      BY <1>18, <2>2 DEF RxCopy, EthTypeOK, Places
    <3>3. InCore'
      BY <1>18, <2>2 DEF RxCopy, EthTypeOK, Places, InCore
    <3>4. OnePacket'
      BY <1>18, <2>2 DEF RxCopy, EthTypeOK, Places, InCore, OnePacket, Outstanding
    <3>5. LinkFacts'
      BY <1>18, <2>2 DEF RxCopy, EthTypeOK, Places, LinkFacts
    <3>6. FrameFacts'
      BY <1>18, <2>2, <2>b DEF RxCopy, EthTypeOK, EthThread, FrameFacts
    <3> QED
      BY <3>1, <3>2, <3>3, <3>4, <3>5, <3>6 DEF EthInv
  <2> QED
    BY <1>18, <2>1, <2>2 DEF RxCopy
<1>19. CASE PhyPoll
  <2>1. EthTypeOK'
    BY <1>19 DEF PhyPoll, EthTypeOK, FrameFacts
  <2>2. Places'
    BY <1>19 DEF PhyPoll, EthTypeOK, Places
  <2>3. InCore'
    BY <1>19 DEF PhyPoll, EthTypeOK, Places, InCore
  <2>4. OnePacket'
    BY <1>19 DEF PhyPoll, EthTypeOK, Places, InCore, OnePacket, Outstanding
  <2>5. LinkFacts'
    BY <1>19 DEF PhyPoll, EthTypeOK, Places, LinkFacts
  <2>6. FrameFacts'
    BY <1>19 DEF PhyPoll, EthTypeOK, Places, FrameFacts
  <2> QED
    BY <2>1, <2>2, <2>3, <2>4, <2>5, <2>6 DEF EthInv
<1>20. CASE PhyPollAgain
  <2>1. EthTypeOK'
    BY <1>20 DEF PhyPollAgain, EthTypeOK, FrameFacts
  <2>2. Places'
    BY <1>20 DEF PhyPollAgain, EthTypeOK, Places
  <2>3. InCore'
    BY <1>20 DEF PhyPollAgain, EthTypeOK, Places, InCore
  <2>4. OnePacket'
    BY <1>20 DEF PhyPollAgain, EthTypeOK, Places, InCore, OnePacket, Outstanding
  <2>5. LinkFacts'
    BY <1>20 DEF PhyPollAgain, EthTypeOK, Places, LinkFacts
  <2>6. FrameFacts'
    BY <1>20 DEF PhyPollAgain, EthTypeOK, Places, FrameFacts
  <2> QED
    BY <2>1, <2>2, <2>3, <2>4, <2>5, <2>6 DEF EthInv
<1>21. CASE LinkChange
  <2>1. EthTypeOK'
    BY <1>21 DEF LinkChange, EthTypeOK, FrameFacts
  <2>2. Places'
    BY <1>21 DEF LinkChange, EthTypeOK, Places
  <2>3. InCore'
    BY <1>21 DEF LinkChange, EthTypeOK, Places, InCore
  <2>4. OnePacket'
    BY <1>21 DEF LinkChange, EthTypeOK, Places, InCore, OnePacket, Outstanding
  <2>5. LinkFacts'
    <3>1. at[phy] = "change" /\ at'[phy] = "post" /\ at'[erx] = at[erx]
      BY <1>21 DEF LinkChange, EthTypeOK, EthThread
    <3>2. link'.changed /\ link'.status /\ link'.read = link.read
      BY <1>21, <3>1 DEF LinkChange, EthTypeOK, LinkFacts
    <3> QED
      BY <1>21, <3>1, <3>2 DEF LinkChange, LinkFacts
  <2>6. FrameFacts'
    BY <1>21 DEF LinkChange, EthTypeOK, Places, FrameFacts
  <2> QED
    BY <2>1, <2>2, <2>3, <2>4, <2>5, <2>6 DEF EthInv
<1>22. CASE LinkPost
  <2>a. eth_rx_mb' \in 0 .. MailMax
    BY <1>22 DEF LinkPost, EthTypeOK
  <2>1. EthTypeOK'
    BY <1>22, <2>a DEF LinkPost, EthTypeOK, FrameFacts
  <2>2. Places'
    BY <1>22 DEF LinkPost, EthTypeOK, Places
  <2>3. InCore'
    BY <1>22 DEF LinkPost, EthTypeOK, Places, InCore
  <2>4. OnePacket'
    BY <1>22 DEF LinkPost, EthTypeOK, Places, InCore, OnePacket, Outstanding
  <2>5. LinkFacts'
    BY <1>22 DEF LinkPost, EthTypeOK, Places, LinkFacts
  <2>6. FrameFacts'
    BY <1>22 DEF LinkPost, EthTypeOK, Places, FrameFacts
  <2> QED
    BY <2>1, <2>2, <2>3, <2>4, <2>5, <2>6 DEF EthInv
<1>23. CASE PhyWake
  <2>1. EthTypeOK'
    BY <1>23 DEF PhyWake, EthTypeOK, FrameFacts
  <2>2. Places'
    BY <1>23 DEF PhyWake, EthTypeOK, Places
  <2>3. InCore'
    BY <1>23 DEF PhyWake, EthTypeOK, Places, InCore
  <2>4. OnePacket'
    BY <1>23 DEF PhyWake, EthTypeOK, Places, InCore, OnePacket, Outstanding
  <2>5. LinkFacts'
    BY <1>23 DEF PhyWake, EthTypeOK, Places, LinkFacts
  <2>6. FrameFacts'
    BY <1>23 DEF PhyWake, EthTypeOK, Places, FrameFacts
  <2> QED
    BY <2>1, <2>2, <2>3, <2>4, <2>5, <2>6 DEF EthInv
<1>24. CASE RxCpltCallback
  <2>1. EthTypeOK'
    BY <1>24 DEF RxCpltCallback, EthTypeOK, FrameFacts
  <2>2. Places'
    BY <1>24 DEF RxCpltCallback, EthTypeOK, Places
  <2>3. InCore'
    BY <1>24 DEF RxCpltCallback, EthTypeOK, Places, InCore
  <2>4. OnePacket'
    BY <1>24 DEF RxCpltCallback, EthTypeOK, Places, InCore, OnePacket, Outstanding
  <2>5. LinkFacts'
    BY <1>24 DEF RxCpltCallback, EthTypeOK, Places, LinkFacts
  <2>6. FrameFacts'
    BY <1>24 DEF RxCpltCallback, EthTypeOK, Places, FrameFacts
  <2> QED
    BY <2>1, <2>2, <2>3, <2>4, <2>5, <2>6 DEF EthInv
<1>25. CASE IrqEnd
  <2>1. EthTypeOK'
    BY <1>25 DEF IrqEnd, EthTypeOK, FrameFacts
  <2>2. Places'
    BY <1>25 DEF IrqEnd, EthTypeOK, Places
  <2>3. InCore'
    BY <1>25 DEF IrqEnd, EthTypeOK, Places, InCore
  <2>4. OnePacket'
    BY <1>25 DEF IrqEnd, EthTypeOK, Places, InCore, OnePacket, Outstanding
  <2>5. LinkFacts'
    BY <1>25 DEF IrqEnd, EthTypeOK, Places, LinkFacts
  <2>6. FrameFacts'
    BY <1>25 DEF IrqEnd, EthTypeOK, Places, FrameFacts
  <2> QED
    BY <2>1, <2>2, <2>3, <2>4, <2>5, <2>6 DEF EthInv
<1>26. CASE FrameArrives
  <2>1. EthTypeOK'
    BY <1>26 DEF FrameArrives, EthTypeOK, FrameFacts
  <2>2. Places'
    BY <1>26 DEF FrameArrives, EthTypeOK, Places
  <2>3. InCore'
    BY <1>26 DEF FrameArrives, EthTypeOK, Places, InCore
  <2>4. OnePacket'
    BY <1>26 DEF FrameArrives, EthTypeOK, Places, InCore, OnePacket, Outstanding
  <2>5. LinkFacts'
    BY <1>26 DEF FrameArrives, EthTypeOK, Places, LinkFacts
  <2>6. FrameFacts'
    BY <1>26 DEF FrameArrives, EthTypeOK, Places, FrameFacts
  <2> QED
    BY <2>1, <2>2, <2>3, <2>4, <2>5, <2>6 DEF EthInv
<1>27. CASE FrameSent
  <2>1. EthTypeOK'
    BY <1>27 DEF FrameSent, EthTypeOK, FrameFacts
  <2>2. Places'
    BY <1>27 DEF FrameSent, EthTypeOK, Places
  <2>3. InCore'
    BY <1>27 DEF FrameSent, EthTypeOK, Places, InCore
  <2>4. OnePacket'
    BY <1>27 DEF FrameSent, EthTypeOK, Places, InCore, OnePacket, Outstanding
  <2>5. LinkFacts'
    BY <1>27 DEF FrameSent, EthTypeOK, Places, LinkFacts
  <2>6. FrameFacts'
    BY <1>27 DEF FrameSent, EthTypeOK, Places, FrameFacts
  <2> QED
    BY <2>1, <2>2, <2>3, <2>4, <2>5, <2>6 DEF EthInv
<1>28. CASE CableChange
  <2>1. EthTypeOK'
    BY <1>28 DEF CableChange, EthTypeOK, FrameFacts
  <2>2. Places'
    BY <1>28 DEF CableChange, EthTypeOK, Places
  <2>3. InCore'
    BY <1>28 DEF CableChange, EthTypeOK, Places, InCore
  <2>4. OnePacket'
    BY <1>28 DEF CableChange, EthTypeOK, Places, InCore, OnePacket, Outstanding
  <2>5. LinkFacts'
    BY <1>28 DEF CableChange, EthTypeOK, Places, LinkFacts
  <2>6. FrameFacts'
    BY <1>28 DEF CableChange, EthTypeOK, Places, FrameFacts
  <2> QED
    BY <2>1, <2>2, <2>3, <2>4, <2>5, <2>6 DEF EthInv
<1>29. CASE UNCHANGED ethernet
  <2>1. EthTypeOK'
    BY <1>29 DEF EthTypeOK, FrameFacts
  <2>2. Places'
    BY <1>29 DEF EthTypeOK, Places
  <2>3. InCore'
    BY <1>29 DEF EthTypeOK, Places, InCore
  <2>4. OnePacket'
    BY <1>29 DEF EthTypeOK, Places, InCore, OnePacket, Outstanding
  <2>5. LinkFacts'
    BY <1>29 DEF EthTypeOK, Places, LinkFacts
  <2>6. FrameFacts'
    BY <1>29 DEF EthTypeOK, Places, FrameFacts
  <2> QED
    BY <2>1, <2>2, <2>3, <2>4, <2>5, <2>6 DEF EthInv
<1> QED
  BY <1>1, <1>2, <1>3, <1>4, <1>5, <1>6, <1>7, <1>8, <1>9, <1>10, <1>11, <1>12, <1>13, <1>14, <1>15, <1>16, <1>17, <1>18, <1>19, <1>20, <1>21, <1>22, <1>23, <1>24, <1>25, <1>26, <1>27, <1>28, <1>29
     DEF EthNext, SenderStep, eth_tx_thread_entry, eth_rx_thread_entry,
         phy_monitor_thread_entry, Interrupt

-----------------------------------------------------------------------------
(* The board: either part runs, the other stays as it was. *)

(* The inductive invariants of both parts hold in every behaviour of the     *)
(* board, whatever the senders, priorities, mailbox and ring sizes.          *)
THEOREM BoardInvariance == Spec => [](EthInv /\ CameraInv)
<1>1. Init => EthInv /\ CameraInv
  BY EthStarts, CameraStarts DEF Init
<1>2. EthInv /\ CameraInv /\ [Next]_vars => (EthInv /\ CameraInv)'
  <2> SUFFICES ASSUME EthInv, CameraInv, [Next]_vars PROVE EthInv' /\ CameraInv'
    OBVIOUS
  <2>1. [EthNext]_ethernet /\ [CameraNext]_camera
    BY DEF Next, UseEthernet, UseCamera, vars
  <2> QED
    BY <2>1, EthSteps, CameraSteps
<1> QED
  BY <1>1, <1>2, PTL DEF Spec

(* Mailboxes, rings and semaphores keep within their bounds, and              *)
(* ethernetif_linkoutput never finds the transmit mailbox full, so that its    *)
(* silent drop of a packet does not happen.                                   *)
THEOREM QueuesBoundedAlways == Spec => []QueuesBounded
<1>1. EthInv /\ CameraInv => QueuesBounded
  <2> SUFFICES ASSUME EthInv, CameraInv PROVE QueuesBounded
    OBVIOUS
  <2>1. EthTypeOK /\ CameraTypeOK
    BY DEF EthInv, CameraInv
  <2>2. RoomToSend
    <3> SUFFICES ASSUME NEW s \in Sender, at[s] = "send" PROVE Len(eth_tx_mb) < MailMax
      BY DEF RoomToSend
    <3>1. eth_tx_mb = <<>>
      BY NothingSent
    <3> QED
      BY <3>1, Sizes
  <2> QED
    BY <2>1, <2>2 DEF QueuesBounded, TypeOK
<1> QED
  BY <1>1, BoardInvariance, PTL

(* The message the transmit thread reads, a local variable of its sender, is   *)
(* alive: the sender of every message that is queued or being sent is still    *)
(* in rt_sem_take of ethernetif_linkoutput.                                   *)
THEOREM MessagesAlive == Spec => []MessageAlive
<1>1. EthInv /\ CameraInv => MessageAlive
  <2> SUFFICES ASSUME EthInv, NEW s \in Sender,
                      msg = s \/ \E i \in DOMAIN eth_tx_mb : eth_tx_mb[i] = s
               PROVE  at[s] = "take"
    BY DEF MessageAlive
  <2>1. PICK r \in Sender : at[r] = "take" /\ Outstanding(r)
    <3>1. ~(eth_tx_mb = <<>> /\ msg = Nobody)
      BY Threads
    <3> QED
      BY <3>1 DEF EthInv, OnePacket
  <2>2. s = r
    <3>1. CASE msg = s
      BY <2>1, <3>1, Threads DEF Outstanding
    <3>2. CASE \E i \in DOMAIN eth_tx_mb : eth_tx_mb[i] = s
      BY <2>1, <3>2 DEF Outstanding
    <3> QED
      BY <3>1, <3>2
  <2> QED
    BY <2>1, <2>2
<1> QED
  BY <1>1, BoardInvariance, PTL

(* A link change that phy_monitor_thread_entry has reported reaches the netif  *)
(* before the receive thread sleeps, be the mailbox full, or the flag tested    *)
(* just before eth_device_linkchange sets it.                                  *)
THEOREM LinkChangesKept == Spec => []LinkChangeKept
<1>1. EthInv /\ CameraInv => LinkChangeKept
  <2> SUFFICES ASSUME EthInv, Asleep, at[phy] # "post"
               PROVE  ~link.changed /\ link_up = (phy_speed # "down")
    BY DEF LinkChangeKept
  <2>1. ~link.changed
    BY DEF EthInv, LinkFacts, Asleep
  <2>2. link_up <=> phy_speed # "down"
    BY <2>1 DEF EthInv, LinkFacts, Asleep
  <2>3. link_up \in BOOLEAN
    BY DEF EthInv, EthTypeOK
  <2> QED
    BY <2>1, <2>2, <2>3, Zenon
<1> QED
  BY <1>1, BoardInvariance, PTL

(* However the interrupts of several frames fall together, the receive thread  *)
(* sleeps beside a frame only after its loop gave up on the HAL lock or for    *)
(* want of a pbuf.                                                            *)
THEOREM FramesAreNoticed == Spec => []FramesNoticed
<1>1. EthInv /\ CameraInv => FramesNoticed
  BY DEF EthInv, EthTypeOK, FrameFacts, FramesNoticed, Asleep
<1> QED
  BY <1>1, BoardInvariance, PTL

(* What eth_camera.c sends is one whole picture of the capture it has just     *)
(* made, although a stale token of dcmi_sem may cut a capture short.           *)
THEOREM WholeFramesSent == Spec => []WholeFrameSent
BY BoardInvariance, PTL DEF CameraInv
=============================================================================
