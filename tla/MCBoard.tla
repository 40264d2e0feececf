------------------------------- MODULE MCBoard -------------------------------
(* The board's own threads: in each behaviour the Ethernet driver with the  *)
(* tcpip thread and one application, or the camera server.                  *)
EXTENDS Ethernet, Camera

CONSTANTS tcpip, app, Uses

VARIABLE use

vars == <<use, ethernet, camera>>

MCStack == {tcpip, app}
MCPriority ==
    [t \in EthThread |->
        CASE t = tcpip -> 10 [] t \in {erx, etx} -> 12 [] t = app -> 15 [] t = phy -> 30]

\* Many frames, frames against packets, packets of two senders.
MCLoads ==
    {[frames |-> 3, packets |-> 0], [frames |-> 2, packets |-> 1],
     [frames |-> 0, packets |-> 2]}

Init == use \in Uses /\ EthInit /\ CameraInit

UseEthernet == use = "ethernet" /\ EthNext /\ UNCHANGED <<use, camera>>
UseCamera == use = "camera" /\ CameraNext /\ UNCHANGED <<use, ethernet>>

Next == UseEthernet \/ UseCamera

\* A step of one thread or device, for fairness.
OfEthernet(A) == use = "ethernet" /\ A /\ UNCHANGED <<use, camera>>
OfCamera(A) == use = "camera" /\ A /\ UNCHANGED <<use, ethernet>>

\* A thread that nobody keeps from running runs, and interrupts are served.
EthFairness ==
    /\ \A s \in Sender : WF_vars(OfEthernet(SenderStep(s)))
    /\ WF_vars(OfEthernet(eth_tx_thread_entry)) /\ WF_vars(OfEthernet(eth_rx_thread_entry))
    /\ WF_vars(OfEthernet(phy_monitor_thread_entry)) /\ WF_vars(OfEthernet(Interrupt))

\* LVGL sleeps in every round, so the server gets to run; it may wait for ever for
\* the network and for a client.
CameraFairness ==
    /\ WF_vars(OfCamera(LvglDraw \/ LvglSleep))
    /\ WF_vars(OfCamera(FrameEventCallback))
    /\ SF_vars(OfCamera(eth_camera_server_thread /\ cam_srv \notin {"netif", "accept"}))

Spec == Init /\ [][Next]_vars /\ EthFairness /\ CameraFairness

\* The type invariant of the part in use.
TypeOK == IF use = "ethernet" THEN EthTypeOK ELSE CameraTypeOK

\* The queues between the board's threads and devices keep within their bounds:
\* mailboxes, descriptor rings and semaphores, and ethernetif_linkoutput never
\* finds the transmit mailbox full and drops a packet.
QueuesBounded == TypeOK /\ RoomToSend
=============================================================================
