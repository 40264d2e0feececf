------------------------------- MODULE Ethernet -------------------------------
(***************************************************************************)
(* The threads between lwIP and the Ethernet MAC: netif/ethernetif.c and   *)
(* drv_eth.c.  A packet goes out through the transmit thread, which        *)
(* acknowledges it; frames and link changes come in through the receive    *)
(* thread, which is told of them by one mailbox; the PHY monitor polls the *)
(* cable.  Kernel calls are the atomic ones the kernel's modules promise.  *)
(*                                                                         *)
(* The two threads have one priority, so the time slice interleaves them.  *)
(***************************************************************************)
EXTENDS Naturals, Sequences, FiniteSets

CONSTANTS
    erx, etx, phy,  \* the receive and transmit threads and the PHY monitor
    Stack,          \* the threads that send through lwIP, the tcpip thread too
    Nobody,
    priority,       \* of every thread, 0 most urgent
    MailMax,        \* RT_LWIP_ETHTHREAD_MBOX_SIZE, of both mailboxes
    ETH_RXBUFNB, ETH_TXBUFNB, \* DMA descriptors
    Loads           \* bounds: how many frames come in and packets go out

EthThread == Stack \union {erx, etx, phy}

\* The lwIP core runs in Stack and, for a link change, in the receive thread.
Sender == Stack \union {erx}

ASSUME EthAssumption ==
    /\ Cardinality({erx, etx, phy}) = 3 /\ Stack \intersect {erx, etx, phy} = {}
    /\ Nobody \notin EthThread
    /\ priority \in [EthThread -> Nat]
    /\ {MailMax, ETH_RXBUFNB, ETH_TXBUFNB} \subseteq Nat \ {0}
    /\ Loads \subseteq [frames : Nat, packets : Nat]

VARIABLES
    at,             \* where each thread is
    core,           \* the holder of lock_tcpip_core
    eth_tx_mb, msg, \* messages to the transmit thread, by their sender; its own
    tx_ack,         \* the semaphore a sender waits on
    eth_rx_mb,      \* messages to the receive thread, all of them the device
    link,           \* link_changed and link_status, and what erx read of it
    link_up,        \* NETIF_FLAG_LINK_UP of the netif
    ring, txring,   \* descriptors with a received frame; with one to be sent
    irq,            \* "none", "raised", or "serving": the receive interrupt
    Lock,           \* EthHandle.Lock
    why,            \* why the receive thread last stopped reading
    cable, phy_speed, phy_speed_new,
    wire, work      \* frames and packets still to come

driver == <<ring, txring, irq, Lock, why>>
monitor == <<cable, phy_speed, phy_speed_new>>
bounds == <<wire, work>>
sending == <<core, eth_tx_mb, msg, tx_ack>>
ethernet == <<at, sending, eth_rx_mb, link, link_up, driver, monitor, bounds>>

EthTypeOK ==
    /\ at \in [EthThread -> {"idle", "lock", "send", "take", "unlock", "recv",
                             "test", "change", "set", "get", "scan", "copy", "tx",
                             "spin", "transmit", "fill", "ack", "poll", "post", "delay"}]
    /\ core \in Sender \union {Nobody} /\ msg \in Sender \union {Nobody}
    /\ eth_tx_mb \in Seq(Sender) /\ Len(eth_tx_mb) <= MailMax
    /\ tx_ack \in Nat /\ eth_rx_mb \in 0 .. MailMax
    /\ link \in [changed : BOOLEAN, status : BOOLEAN, read : BOOLEAN]
    /\ link_up \in BOOLEAN /\ Lock \in BOOLEAN
    /\ ring \in 0 .. ETH_RXBUFNB /\ txring \in 0 .. ETH_TXBUFNB
    /\ irq \in {"none", "raised", "serving"}
    /\ why \in {"empty", "busy", "nomem"}
    /\ {cable, phy_speed, phy_speed_new} \subseteq {"down", "half", "full"}
    /\ wire \in Nat /\ work \in Nat

\* eth_system_device_init_private and rt_hw_stm32_eth_init are done, and the
\* monitor has found and reset the PHY.
EthInit ==
    /\ at = [t \in EthThread |->
                CASE t \in Stack -> "idle" [] t = phy -> "poll" [] OTHER -> "recv"]
    /\ core = Nobody /\ msg = Nobody /\ eth_tx_mb = <<>> /\ tx_ack = 0
    /\ eth_rx_mb = 0
    /\ link = [changed |-> FALSE, status |-> FALSE, read |-> FALSE]
    /\ link_up = FALSE
    /\ ring = 0 /\ txring = 0 /\ irq = "none" /\ Lock = FALSE /\ why = "empty"
    /\ cable = "down" /\ phy_speed = "down" /\ phy_speed_new = "down"
    /\ \E load \in Loads : wire = load.frames /\ work = load.packets

-----------------------------------------------------------------------------
(* Who runs *)

Ready(t) ==
    CASE at[t] \in {"idle", "delay"} -> FALSE
      [] at[t] = "lock" -> core = Nobody
      [] at[t] = "take" -> tx_ack > 0
      [] at[t] = "recv" -> IF t = erx THEN eth_rx_mb > 0 ELSE eth_tx_mb # <<>>
      [] OTHER -> TRUE

\* No interrupt is being served, and no ready thread is more urgent; the holder
\* of the core lock may have the priority of whoever waits for it.
At(t, c) ==
    /\ at[t] = c /\ Ready(t) /\ irq = "none"
    /\ t = core \/ \A u \in EthThread : Ready(u) => priority[t] <= priority[u]

Goto(t, c) == at' = [at EXCEPT ![t] = c]

\* rt_mb_send: a full mailbox refuses the message.
Notify == eth_rx_mb' = IF eth_rx_mb < MailMax THEN eth_rx_mb + 1 ELSE eth_rx_mb

-----------------------------------------------------------------------------
(* Sending, by a thread inside the lwIP core *)

\* Something to send turns up.
Wakes(s) ==
    /\ at[s] = "idle" /\ work > 0
    /\ work' = work - 1
    /\ Goto(s, "lock")
    /\ UNCHANGED <<sending, eth_rx_mb, link, link_up, driver, monitor, wire>>

\* Mutant: the core is entered without its lock.
LOCK_TCPIP_CORE_free(s) ==
    /\ at[s] = "lock" /\ irq = "none"
    /\ UNCHANGED core
    /\ Goto(s, IF s = erx THEN "set" ELSE "send")
    /\ UNCHANGED <<eth_tx_mb, msg, tx_ack, eth_rx_mb, link, link_up, driver, monitor, bounds>>

LOCK_TCPIP_CORE(s) ==
    /\ At(s, "lock")
    /\ core' = s
    /\ Goto(s, IF s = erx THEN "set" ELSE "send")
    /\ UNCHANGED <<eth_tx_mb, msg, tx_ack, eth_rx_mb, link, link_up, driver, monitor, bounds>>

UNLOCK_TCPIP_CORE(s) ==
    /\ At(s, "unlock")
    /\ core' = Nobody
    /\ Goto(s, IF s = erx THEN "get" ELSE "idle")
    /\ UNCHANGED <<eth_tx_mb, msg, tx_ack, eth_rx_mb, link, link_up, driver, monitor, bounds>>

\* ethernetif_linkoutput: the message is a local variable of the sender.  If the
\* mailbox is full the packet is dropped, and ERR_OK returned.
ethernetif_linkoutput(s) ==
    /\ At(s, "send")
    /\ IF Len(eth_tx_mb) < MailMax
       THEN eth_tx_mb' = Append(eth_tx_mb, s) /\ Goto(s, "take")
       ELSE UNCHANGED eth_tx_mb /\ Goto(s, "unlock")
    /\ UNCHANGED <<core, msg, tx_ack, eth_rx_mb, link, link_up, driver, monitor, bounds>>

\* Its rt_sem_take(&tx_ack, RT_WAITING_FOREVER).
AckTaken(s) ==
    /\ At(s, "take")
    /\ tx_ack' = tx_ack - 1
    /\ Goto(s, "unlock")
    /\ UNCHANGED <<core, eth_tx_mb, msg, eth_rx_mb, link, link_up, driver, monitor, bounds>>

-----------------------------------------------------------------------------
(* eth_tx_thread_entry and rt_stm32_eth_tx *)

TxRecv ==
    /\ At(etx, "recv")
    /\ msg' = Head(eth_tx_mb)
    /\ eth_tx_mb' = Tail(eth_tx_mb)
    /\ Goto(etx, "tx")
    /\ UNCHANGED <<core, tx_ack, eth_rx_mb, link, link_up, driver, monitor, bounds>>

\* Mutant: nobody looks who owns the descriptor.
TxCopy_untested ==
    /\ At(etx, "tx")
    /\ Goto(etx, "spin")
    /\ UNCHANGED <<sending, eth_rx_mb, link, link_up, driver, monitor, bounds>>

\* The frame is copied, unless the DMA still owns the descriptor.
TxCopy ==
    /\ At(etx, "tx")
    /\ Goto(etx, IF txring = ETH_TXBUFNB THEN "ack" ELSE "spin")
    /\ UNCHANGED <<sending, eth_rx_mb, link, link_up, driver, monitor, bounds>>

\* while (EthHandle.Lock == HAL_LOCKED);
TxSpin ==
    /\ At(etx, "spin") /\ ~Lock
    /\ Goto(etx, "transmit")
    /\ UNCHANGED <<sending, eth_rx_mb, link, link_up, driver, monitor, bounds>>

\* HAL_ETH_TransmitFrame: HAL_BUSY if the lock was taken since.
TxLock ==
    /\ At(etx, "transmit")
    /\ Lock' = TRUE
    /\ Goto(etx, IF Lock THEN "ack" ELSE "fill")
    /\ UNCHANGED <<sending, eth_rx_mb, link, link_up, ring, txring, irq, why, monitor, bounds>>

TxFill ==
    /\ At(etx, "fill")
    /\ Lock' = FALSE
    /\ txring' = txring + 1
    /\ Goto(etx, "ack")
    /\ UNCHANGED <<sending, eth_rx_mb, link, link_up, ring, irq, why, monitor, bounds>>

\* Mutant: a frame the driver refused is not acknowledged.
TxAck_when_sent ==
    /\ At(etx, "ack")
    /\ tx_ack' = IF txring = ETH_TXBUFNB THEN tx_ack ELSE tx_ack + 1
    /\ msg' = Nobody
    /\ Goto(etx, "recv")
    /\ UNCHANGED <<core, eth_tx_mb, eth_rx_mb, link, link_up, driver, monitor, bounds>>

\* The packet is acknowledged whether or not it was sent.
TxAck ==
    /\ At(etx, "ack")
    /\ tx_ack' = tx_ack + 1
    /\ msg' = Nobody
    /\ Goto(etx, "recv")
    /\ UNCHANGED <<core, eth_tx_mb, eth_rx_mb, link, link_up, driver, monitor, bounds>>

-----------------------------------------------------------------------------
(* eth_rx_thread_entry and rt_stm32_eth_rx *)

RxRecv ==
    /\ At(erx, "recv")
    /\ eth_rx_mb' = eth_rx_mb - 1
    /\ Goto(erx, "test")
    /\ UNCHANGED <<sending, link, link_up, driver, monitor, bounds>>

\* if (device->link_changed), with interrupts enabled.
LinkTest ==
    /\ At(erx, "test")
    /\ Goto(erx, IF link.changed THEN "change" ELSE "get")
    /\ UNCHANGED <<sending, eth_rx_mb, link, link_up, driver, monitor, bounds>>

LinkRead ==
    /\ At(erx, "change")
    /\ link' = [link EXCEPT !.changed = FALSE, !.read = link.status]
    /\ Goto(erx, "lock")
    /\ UNCHANGED <<sending, eth_rx_mb, link_up, driver, monitor, bounds>>

\* netif_set_link_up or _down, in the core: an interface that comes up and has
\* an address announces it.
LinkSet ==
    /\ At(erx, "set")
    /\ link_up' = link.read
    /\ \/ Goto(erx, "unlock")
       \/ link.read /\ ~link_up /\ Goto(erx, "send")
    /\ UNCHANGED <<sending, eth_rx_mb, link, driver, monitor, bounds>>

\* HAL_ETH_GetReceivedFrame_IT: HAL_BUSY if the transmit thread has the lock,
\* which the loop of the receive thread takes for an empty ring.
RxLock ==
    /\ At(erx, "get")
    /\ Lock' = TRUE
    /\ why' = IF Lock THEN "busy" ELSE why
    /\ Goto(erx, IF Lock THEN "recv" ELSE "scan")
    /\ UNCHANGED <<sending, eth_rx_mb, link, link_up, ring, txring, irq, monitor, bounds>>

RxScan ==
    /\ At(erx, "scan")
    /\ Lock' = FALSE
    /\ why' = IF ring = 0 THEN "empty" ELSE why
    /\ Goto(erx, IF ring = 0 THEN "recv" ELSE "copy")
    /\ UNCHANGED <<sending, eth_rx_mb, link, link_up, ring, txring, irq, monitor, bounds>>

\* Mutant: one frame is read for each message.
RxCopy_one ==
    /\ At(erx, "copy")
    /\ ring' = ring - 1
    /\ why' = "empty"
    /\ Goto(erx, "recv")
    /\ UNCHANGED <<sending, eth_rx_mb, link, link_up, txring, irq, Lock, monitor, bounds>>

\* The frame is copied and handed on, or dropped for want of a pbuf, which ends
\* the loop; its descriptor, and reception, go on.
RxCopy ==
    /\ At(erx, "copy")
    /\ ring' = ring - 1
    /\ \/ UNCHANGED why /\ Goto(erx, "get")
       \/ why' = "nomem" /\ Goto(erx, "recv")
    /\ UNCHANGED <<sending, eth_rx_mb, link, link_up, txring, irq, Lock, monitor, bounds>>

-----------------------------------------------------------------------------
(* The MAC and its interrupt *)

\* With no free descriptor the frame is missed.
FrameArrives ==
    /\ wire > 0 /\ cable # "down"
    /\ wire' = wire - 1
    /\ IF ring < ETH_RXBUFNB
       THEN ring' = ring + 1 /\ irq' = IF irq = "none" THEN "raised" ELSE irq
       ELSE UNCHANGED <<ring, irq>>
    /\ UNCHANGED <<at, sending, eth_rx_mb, link, link_up, txring, Lock, why, monitor, work>>

FrameSent ==
    /\ txring > 0
    /\ txring' = txring - 1
    /\ UNCHANGED <<at, sending, eth_rx_mb, link, link_up, ring, irq, Lock, why, monitor, bounds>>

\* HAL_ETH_RxCpltCallback: eth_device_ready.
RxCpltCallback ==
    /\ irq = "raised"
    /\ Notify
    /\ irq' = "serving"
    /\ UNCHANGED <<at, sending, link, link_up, ring, txring, Lock, why, monitor, bounds>>

\* The rest of HAL_ETH_IRQHandler: the flag is cleared, for frames that came in
\* since too, and the lock released, whoever holds it.
IrqEnd ==
    /\ irq = "serving"
    /\ irq' = "none"
    /\ Lock' = FALSE
    /\ UNCHANGED <<at, sending, eth_rx_mb, link, link_up, ring, txring, why, monitor, bounds>>

-----------------------------------------------------------------------------
(* phy_monitor_thread_entry and eth_device_linkchange *)

\* External: the cable.
CableChange ==
    /\ cable' \in {"down", "half", "full"} \ {cable}
    /\ UNCHANGED <<at, sending, eth_rx_mb, link, link_up, driver, phy_speed,
                   phy_speed_new, bounds>>

\* Everything but the read is inside if (status & ...), the delay too.
PhyPoll ==
    /\ At(phy, "poll") /\ cable # "down"
    /\ phy_speed_new' = cable
    /\ Goto(phy, IF cable = phy_speed THEN "delay" ELSE "change")
    /\ UNCHANGED <<sending, eth_rx_mb, link, link_up, driver, cable, phy_speed, bounds>>

\* Without a link the monitor reads the register again at once.
PhyPollAgain == At(phy, "poll") /\ cable = "down" /\ UNCHANGED ethernet

\* eth_device_linkchange, its section with interrupts disabled ...
LinkChange ==
    /\ At(phy, "change")
    /\ link' = [link EXCEPT !.changed = TRUE, !.status = (phy_speed_new # "down")]
    /\ Goto(phy, "post")
    /\ UNCHANGED <<sending, eth_rx_mb, link_up, driver, monitor, bounds>>

\* Mutant: the change is noted and the receive thread not told.
LinkPost_no_message ==
    /\ At(phy, "post")
    /\ phy_speed' = phy_speed_new
    /\ Goto(phy, "delay")
    /\ UNCHANGED <<sending, eth_rx_mb, link, link_up, driver, cable, phy_speed_new, bounds>>

\* ... and its message.
LinkPost ==
    /\ At(phy, "post")
    /\ Notify
    /\ phy_speed' = phy_speed_new
    /\ Goto(phy, "delay")
    /\ UNCHANGED <<sending, link, link_up, driver, cable, phy_speed_new, bounds>>

PhyWake ==
    /\ at[phy] = "delay"
    /\ Goto(phy, "poll")
    /\ UNCHANGED <<sending, eth_rx_mb, link, link_up, driver, monitor, bounds>>

-----------------------------------------------------------------------------
SenderStep(s) ==
    \/ LOCK_TCPIP_CORE(s) \/ ethernetif_linkoutput(s)
    \/ AckTaken(s) \/ UNLOCK_TCPIP_CORE(s)

eth_tx_thread_entry == TxRecv \/ TxCopy \/ TxSpin \/ TxLock \/ TxFill \/ TxAck

eth_rx_thread_entry ==
    RxRecv \/ LinkTest \/ LinkRead \/ LinkSet \/ RxLock \/ RxScan \/ RxCopy

phy_monitor_thread_entry ==
    PhyPoll \/ PhyPollAgain \/ LinkChange \/ LinkPost \/ PhyWake

Interrupt == RxCpltCallback \/ IrqEnd

EthNext ==
    \/ \E s \in Sender : SenderStep(s)
    \/ \E s \in Stack : Wakes(s)
    \/ eth_tx_thread_entry \/ eth_rx_thread_entry \/ phy_monitor_thread_entry
    \/ Interrupt \/ FrameArrives \/ FrameSent \/ CableChange

-----------------------------------------------------------------------------
(* Properties *)

\* A message in the transmit mailbox or in the hands of the transmit thread is on
\* the stack of a sender that still waits in ethernetif_linkoutput: nobody takes
\* the acknowledgement of another packet and returns.
MessageAlive ==
    \A s \in Sender :
        (msg = s \/ \E i \in DOMAIN eth_tx_mb : eth_tx_mb[i] = s) => at[s] = "take"

\* The transmit mailbox always has room: the silent drop of ethernetif_linkoutput
\* does not happen while the core lock lets one sender in at a time.
RoomToSend == \A s \in Sender : at[s] = "send" => Len(eth_tx_mb) < MailMax

\* The receive thread sleeps and nothing is on its way to wake it.
Asleep == at[erx] = "recv" /\ eth_rx_mb = 0 /\ irq = "none"

\* A link change the monitor has reported is not lost, be the mailbox full, the
\* flag read before or cleared after it: when the receive thread sleeps, the netif
\* has the reported state.
LinkChangeKept ==
    Asleep /\ at[phy] # "post" => ~link.changed /\ link_up = (phy_speed # "down")

\* No frame stays in the ring unnoticed, however the interrupts of several frames
\* fall together: frames are left only where the loop of the receive thread gave
\* up, because the transmit thread held the HAL lock or no pbuf was free.
FramesNoticed == Asleep /\ ring > 0 => why \in {"busy", "nomem"}

\* Every sender gets its acknowledgement and returns, also when the driver drops
\* the frame.
SenderReturns == \A s \in Sender : at[s] = "take" ~> at[s] # "take"

\* "Offline" is what the UI shows when the cable is out: a cable that is pulled
\* takes the interface down.
LinkDownIsSeen == cable = "down" ~> ~link_up \/ cable # "down"
=============================================================================
