-------------------------------- MODULE Camera --------------------------------
(***************************************************************************)
(* The camera server of applications/eth_camera.c: the thread that sends   *)
(* frames to one TCP client, the capture of a frame by DCMI and DMA        *)
(* (ATK_MC2640/atk_mc2640_dcmi.c), and the LVGL thread it means to pause   *)
(* (lvgl/lv_port.c).  LVGL is more urgent than the server.                 *)
(***************************************************************************)
EXTENDS Naturals

CONSTANT RT_SEM_VALUE_MAX  \* where rt_sem_release of dcmi_sem refuses

ASSUME CameraAssumption == RT_SEM_VALUE_MAX \in Nat \ {0}

VARIABLES
    cam_srv,    \* where the server thread is
    lvgl,       \* the LVGL thread: see Lvgl
    g_newconn,  \* a client is being served
    pcb,        \* the client's connection exists
    pending,    \* pending_err of its netconn
    jpeg_buf,   \* what the two halves of the buffer hold
    gen,        \* the capture the DMA is writing: 1 or 2, in turn
    dma,        \* how far the present capture is, or "off"
    raw, ie,    \* the frame flag of DCMI, and its interrupt is enabled
    dcmi_sem,   \* the value of the semaphore
    got         \* rt_sem_take of it succeeded

capture == <<jpeg_buf, gen, dma, raw, ie, dcmi_sem, got>>
client == <<g_newconn, pcb, pending>>
camera == <<cam_srv, lvgl, client, capture>>

\* "sleep" in rt_thread_mdelay, "ready" made ready, "resumed" made ready by the
\* server, which has not scheduled since, "draw" running, "suspend" suspended.
Lvgl == {"sleep", "ready", "resumed", "draw", "suspend"}

\* A half of the buffer: cleared, written by capture 1 or 2, or by the end of a
\* frame too long for the buffer, which wraps around.
Cleared == 0
Overrun == 3

CameraTypeOK ==
    /\ cam_srv \in {"netif", "listen", "accept", "clear", "enable", "start", "take",
                    "stop", "resume", "check", "write", "writing", "close", "nap"}
    /\ lvgl \in Lvgl
    /\ g_newconn \in BOOLEAN /\ pcb \in BOOLEAN
    /\ pending \in {"ERR_OK", "ERR_RST", "ERR_ABRT"}
    /\ jpeg_buf \in [1 .. 2 -> Cleared .. Overrun]
    /\ gen \in 1 .. 2
    /\ dma \in {"off", "on", "half", "full"}
    /\ raw \in BOOLEAN /\ ie \in BOOLEAN /\ got \in BOOLEAN
    /\ dcmi_sem \in 0 .. RT_SEM_VALUE_MAX

\* lv_port_init and eth_camera_capture have started the two threads.
CameraInit ==
    /\ cam_srv = "netif" /\ lvgl = "ready"
    /\ g_newconn = FALSE /\ pcb = FALSE /\ pending = "ERR_OK"
    /\ jpeg_buf = [i \in 1 .. 2 |-> Cleared] /\ gen = 1 /\ dma = "off"
    /\ raw = FALSE /\ ie = FALSE /\ dcmi_sem = 0 /\ got = FALSE

-----------------------------------------------------------------------------
\* The server has the processor: no interrupt is pending, and LVGL does not run.
Cam(c) ==
    /\ cam_srv = c /\ ~(raw /\ ie)
    /\ lvgl \in {"sleep", "suspend", "resumed"}

\* The server goes on, or blocks, which lets LVGL run if it is ready.
Goes(c) == cam_srv' = c /\ UNCHANGED lvgl
Blocks(c) == cam_srv' = c /\ lvgl' = IF lvgl = "resumed" THEN "ready" ELSE lvgl

-----------------------------------------------------------------------------
(* lvgl_thread_entry *)

LvglTimeout == lvgl = "sleep" /\ lvgl' = "ready" /\ UNCHANGED <<cam_srv, client, capture>>

\* lv_timer_handler begins to draw; an interrupt may switch to it at any time.
LvglDraw ==
    /\ lvgl \in {"ready", "resumed"} /\ lvgl' = "draw"
    /\ UNCHANGED <<cam_srv, client, capture>>

LvglSleep == lvgl = "draw" /\ lvgl' = "sleep" /\ UNCHANGED <<cam_srv, client, capture>>

-----------------------------------------------------------------------------
(* eth_camera_server_thread *)

\* The wait for netif_default.
Netif ==
    /\ Cam("netif")
    /\ Blocks("netif") \/ Goes("listen")
    /\ UNCHANGED <<client, capture>>

\* eth_camera_listen_create fails and is tried again, or the camera is set up.
eth_camera_listen_create ==
    /\ Cam("listen")
    /\ Blocks("netif") \/ Blocks("accept")
    /\ UNCHANGED <<client, capture>>

\* netconn_accept: a client, or its receive timeout and another round.
Accept ==
    /\ Cam("accept")
    /\ Blocks("clear")
    /\ g_newconn' = TRUE /\ pcb' = TRUE /\ pending' = "ERR_OK"
    /\ UNCHANGED capture

AcceptTimeout == Cam("accept") /\ Blocks("accept") /\ UNCHANGED <<client, capture>>

\* Mutant: the buffer is not cleared.
Clear_not ==
    /\ Cam("clear")
    /\ cam_srv' = "enable"
    /\ lvgl' = IF lvgl = "resumed" THEN "suspend" ELSE lvgl
    /\ UNCHANGED <<client, capture>>

\* memset, and eth_camera_pause_lvgl: rt_thread_suspend refuses a thread that is
\* not ready.
Clear ==
    /\ Cam("clear")
    /\ jpeg_buf' = [i \in 1 .. 2 |-> Cleared]
    /\ cam_srv' = "enable"
    /\ lvgl' = IF lvgl = "resumed" THEN "suspend" ELSE lvgl
    /\ UNCHANGED <<client, gen, dma, raw, ie, dcmi_sem, got>>

\* atk_mc2640_dcmi_start: the interrupt is enabled first.  Nobody has cleared
\* the flag of the frame before.
EnableIt ==
    /\ Cam("enable")
    /\ ie' = TRUE
    /\ Goes("start")
    /\ UNCHANGED <<client, jpeg_buf, gen, dma, raw, dcmi_sem, got>>

HAL_DCMI_Start_DMA ==
    /\ Cam("start")
    /\ dma' = "on"
    /\ gen' = 3 - gen
    /\ Goes("take")
    /\ UNCHANGED <<client, jpeg_buf, raw, ie, dcmi_sem, got>>

\* rt_sem_take(&dcmi_sem, 3 s): at once if there is a token, a stale one too ...
Take ==
    /\ Cam("take") /\ dcmi_sem > 0
    /\ dcmi_sem' = dcmi_sem - 1
    /\ got' = TRUE
    /\ Goes("stop")
    /\ UNCHANGED <<client, jpeg_buf, gen, dma, raw, ie>>

\* ... or without one when it times out; it may come while the server returns.
TakeTimeout ==
    /\ Cam("take") /\ dcmi_sem = 0
    /\ got' = FALSE
    /\ Blocks("stop")
    /\ UNCHANGED <<client, jpeg_buf, gen, dma, raw, ie, dcmi_sem>>

\* HAL_DCMI_Stop, which cuts the frame unless its end comes first.
Stop ==
    /\ Cam("stop")
    /\ dma' = "off"
    /\ Goes("resume")
    /\ UNCHANGED <<client, jpeg_buf, gen, raw, ie, dcmi_sem, got>>

\* eth_camera_resume_lvgl: rt_thread_resume also ends an ordinary sleep, and
\* does not schedule.
eth_camera_resume_lvgl ==
    /\ Cam("resume")
    /\ lvgl' = IF lvgl \in {"sleep", "suspend"} THEN "resumed" ELSE lvgl
    /\ cam_srv' = IF got THEN "check" ELSE "nap"
    /\ UNCHANGED <<client, capture>>

\* jpeg_frame_length and the test of the first bytes: the first half begins a
\* picture and there is an end.
Valid == jpeg_buf[1] \in {1, 2} /\ jpeg_buf[2] # Cleared

Check ==
    /\ Cam("check")
    /\ Goes(IF Valid THEN "write" ELSE "nap")
    /\ UNCHANGED <<client, capture>>

\* Mutant: a reset connection is treated like any other error.
Write_ignores_reset ==
    /\ Cam("write")
    /\ pending' = "ERR_OK"
    /\ Blocks(IF pending = "ERR_OK" /\ pcb THEN "writing" ELSE "nap")
    /\ UNCHANGED <<g_newconn, pcb, capture>>

\* netconn_write: a pending error is returned, once; without a connection it is
\* ERR_CONN; otherwise the data is sent.
Write ==
    /\ Cam("write")
    /\ pending' = "ERR_OK"
    /\ \/ pending = "ERR_RST" /\ Goes("close")
       \/ pending = "ERR_ABRT" /\ Blocks("nap")
       \/ pending = "ERR_OK" /\ ~pcb /\ Blocks("nap")
       \/ pending = "ERR_OK" /\ pcb /\ Blocks("writing")
    /\ UNCHANGED <<g_newconn, pcb, capture>>

\* The write ends; a connection that was lost meanwhile gives it its error, and
\* leaves the same error pending.
WriteEnd ==
    /\ Cam("writing")
    /\ \/ pcb /\ Blocks("nap")
       \/ pending = "ERR_RST" /\ Goes("close")
       \/ pending = "ERR_ABRT" /\ Blocks("nap")
    /\ UNCHANGED <<client, capture>>

\* netconn_close and netconn_delete.
Close ==
    /\ Cam("close")
    /\ g_newconn' = FALSE /\ pcb' = FALSE /\ pending' = "ERR_OK"
    /\ Blocks("accept")
    /\ UNCHANGED capture

\* rt_thread_mdelay at the end of a round.
Nap == Cam("nap") /\ Blocks("clear") /\ UNCHANGED <<client, capture>>

-----------------------------------------------------------------------------
(* The sensor, the DMA and the DCMI interrupt *)

DmaHalf ==
    /\ dma = "on"
    /\ jpeg_buf' = [jpeg_buf EXCEPT ![1] = gen]
    /\ dma' = "half"
    /\ UNCHANGED <<cam_srv, lvgl, client, gen, raw, ie, dcmi_sem, got>>

DmaFull ==
    /\ dma = "half"
    /\ jpeg_buf' = [jpeg_buf EXCEPT ![2] = gen]
    /\ dma' = "full"
    /\ UNCHANGED <<cam_srv, lvgl, client, gen, raw, ie, dcmi_sem, got>>

\* The frame is longer than the buffer: the circular DMA starts over, and
\* DCMI_DMAXferCplt enables the frame interrupt.
DmaWrap ==
    /\ dma = "full"
    /\ jpeg_buf' = [jpeg_buf EXCEPT ![1] = Overrun]
    /\ ie' = TRUE
    /\ UNCHANGED <<cam_srv, lvgl, client, gen, dma, raw, dcmi_sem, got>>

\* The frame ends, and with it the snapshot.
FrameEnd ==
    /\ dma = "full"
    /\ dma' = "off"
    /\ raw' = TRUE
    /\ UNCHANGED <<cam_srv, lvgl, client, jpeg_buf, gen, ie, dcmi_sem, got>>

\* HAL_DCMI_IRQHandler: the interrupt is disabled, the flag stays, and
\* HAL_DCMI_FrameEventCallback releases the semaphore.
FrameEventCallback ==
    /\ raw /\ ie
    /\ ie' = FALSE
    /\ dcmi_sem' = IF dcmi_sem < RT_SEM_VALUE_MAX THEN dcmi_sem + 1 ELSE dcmi_sem
    /\ UNCHANGED <<cam_srv, lvgl, client, jpeg_buf, gen, dma, raw, got>>

\* External: the client resets the connection, or lwIP gives up retransmitting.
ClientLost(e) ==
    /\ pcb
    /\ pcb' = FALSE /\ pending' = e
    /\ UNCHANGED <<cam_srv, lvgl, g_newconn, capture>>

-----------------------------------------------------------------------------
eth_camera_server_thread ==
    \/ Netif \/ eth_camera_listen_create \/ Accept \/ AcceptTimeout \/ Clear
    \/ EnableIt \/ HAL_DCMI_Start_DMA \/ Take \/ TakeTimeout \/ Stop
    \/ eth_camera_resume_lvgl \/ Check \/ Write \/ WriteEnd \/ Close \/ Nap

lvgl_thread_entry == LvglTimeout \/ LvglDraw \/ LvglSleep

Sensor == DmaHalf \/ DmaFull \/ DmaWrap \/ FrameEnd

CameraNext ==
    \/ eth_camera_server_thread \/ lvgl_thread_entry \/ Sensor
    \/ FrameEventCallback
    \/ \E e \in {"ERR_RST", "ERR_ABRT"} : ClientLost(e)

-----------------------------------------------------------------------------
(* Properties *)

\* What is sent is one whole picture of the capture just made, and stays so while
\* it is being sent: a capture cut short by a stale token of dcmi_sem, the rest of
\* an earlier picture, or one too long for the buffer is never sent.
WholeFrameSent ==
    cam_srv \in {"write", "writing"} => jpeg_buf = [i \in 1 .. 2 |-> gen]

\* Pictures go on being captured while a client is served.
Capturing == []<>(cam_srv \in {"write", "accept"})

\* After the client has reset the connection, be it before or during a write, the
\* server accepts the next one, as long as the camera delivers.
ResetIsNoticed == Capturing => (pending = "ERR_RST" ~> cam_srv = "accept")

\* "When the client disconnects, back to accept": however the connection is lost,
\* the server accepts the next client, as long as the camera delivers.
LostIsNoticed == Capturing => (g_newconn /\ ~pcb ~> cam_srv = "accept")
=============================================================================
