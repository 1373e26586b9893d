------------------------------- MODULE UsbUdl -------------------------------
(***************************************************************************)
(* Packets between the host and the target loader: usb_udl_init,           *)
(* usb_udl_recv and usb_udl_send of drivers/usb/gadget/f_udl.c on the      *)
(* device controller driver of drivers/usb/gadget/comip_udc_otg.c.         *)
(*                                                                         *)
(* Four parties run at once.  The loader's thread is the only thread; it   *)
(* queues requests and then spins on a flag.  The interrupt handler        *)
(* comip_udc_irq interrupts it anywhere and runs to its end.  The          *)
(* controller and the host go on all the time, also under the handler.     *)
(*                                                                         *)
(* The loader has one endpoint in each direction.  A packet is a number;   *)
(* the answer to a packet carries what the loader finds in the packet's    *)
(* buffer.  Of endpoint 0 the model keeps what reaches the other two.      *)
(***************************************************************************)
EXTENDS Integers, Sequences

CONSTANTS
  MaxPkts,     \* bound: packets the host sends
  Answered,    \* the packets the host waits for an answer to
  MaxCtl,      \* bound: control transfers besides the enumeration
  MaxResets    \* bound: bus resets, the one that starts the session included

ASSUME PktsAssumption == MaxPkts \in Nat /\ Answered \subseteq 1..MaxPkts
ASSUME CtlAssumption == MaxCtl \in Nat /\ MaxResets \in Nat

VARIABLES
  \* The loader's thread.
  pc,         \* where it is
  call,       \* comip_ep_queue under way: [ep, req, ret, val]
  idx,        \* dev->rx_req_index
  held,       \* the request whose buffer the loader works on
  got,        \* history: the packets that usb_udl_recv has returned
  cleared,    \* history: the handler has cleared a completion without a request
  \* Shared by the thread and the handler.
  queue,      \* ep->queue of the two endpoints
  flags,      \* [received, sent]: packet_received, packet_sent
  udl_done,   \* dev->udl_done
  isr,        \* [on, todo]: comip_udc_irq, and the endpoints it has to look at
  \* Registers and memory.
  daintmsk,   \* USB_DAINTMSK: endpoints whose interrupts are let through
  gint,       \* USB_GINTSTS: bus events pending
  armed,      \* request that an endpoint's DMA works on
  xfcompl,    \* endpoints with USB_DIOEPINT_XFCOMPL set
  ep0int,     \* what endpoint 0 has pending
  buf,        \* the requests' DMA buffers
  \* The host.
  link,       \* how far the enumeration has got
  sent,       \* packets sent
  waiting,    \* waits for the answer to packet number sent
  ctl, resets

thread == <<pc, call, idx, held, got>>
shared == <<queue, flags, udl_done, isr, cleared>>
hardware == <<daintmsk, gint, armed, xfcompl, ep0int, buf>>
host == <<link, sent, waiting, ctl, resets>>
vars == <<thread, shared, hardware, host>>

DataEps == {"in", "out"}
Eps == DataEps \cup {"ep0"}
RxReq(i) == IF i = 0 THEN "rx0" ELSE "rx1"
Reqs == {"tx", "rx0", "rx1"}
NoReq == "none"

Init ==
  /\ pc = "connected"
  /\ call = [ep |-> "out", req |-> NoReq, ret |-> "recv", val |-> {}]
  /\ idx = 0 /\ held = NoReq /\ got = <<>>
  /\ queue = [e \in DataEps |-> <<>>]
  /\ flags = [received |-> FALSE, sent |-> FALSE]
  /\ udl_done = 0 /\ cleared = FALSE
  /\ isr = [on |-> FALSE, todo |-> {}]
  /\ daintmsk = {} /\ gint = {} /\ xfcompl = {} /\ ep0int = "none"
  /\ armed = [e \in DataEps |-> NoReq]
  /\ buf = [r \in Reqs |-> 0]
  /\ link = "off" /\ sent = 0 /\ waiting = FALSE
  /\ ctl = 0 /\ resets = 0

-----------------------------------------------------------------------------
(***************************************************************************)
(* comip_ep_queue: the endpoint's interrupt is masked, the DMA started     *)
(* when the queue is empty, the request put in the queue, the interrupt    *)
(* unmasked.  usb_ep_int_mask reads the register and writes it back.       *)
(***************************************************************************)
Runs(where) == pc = where /\ ~isr.on

\* Enter comip_ep_queue for request r of endpoint e; go on at ret.
comip_ep_queue(e, r, ret) ==
  /\ pc' = "mask_read"
  /\ call' = [ep |-> e, req |-> r, ret |-> ret, val |-> {}]

ReadMask ==
  /\ Runs("mask_read") \/ Runs("unmask_read")
  /\ call' = [call EXCEPT !.val = daintmsk]
  /\ pc' = IF pc = "mask_read" THEN "mask_write" ELSE "unmask_write"
  /\ UNCHANGED <<idx, held, got, shared, hardware, host>>

Mask ==
  /\ Runs("mask_write")
  /\ daintmsk' = call.val \ {call.ep}
  /\ pc' = "start"
  /\ UNCHANGED <<call, idx, held, got, shared, gint, armed, xfcompl, ep0int, buf, host>>

\* comip_ep_in_start, comip_ep_out_start.
Started(e, r) == [armed EXCEPT ![e] = r]

StartDma ==
  /\ Runs("start")
  /\ armed' = IF queue[call.ep] = <<>> THEN Started(call.ep, call.req) ELSE armed
  /\ pc' = "add"
  /\ UNCHANGED <<call, idx, held, got, shared, daintmsk, gint, xfcompl, ep0int, buf, host>>

AddToQueue ==
  /\ Runs("add")
  /\ queue' = [queue EXCEPT ![call.ep] = Append(@, call.req)]
  /\ pc' = "unmask_read"
  /\ UNCHANGED <<call, idx, held, got, flags, udl_done, isr, cleared, hardware, host>>

\* Faulty variant of Unmasked: the register is written back as it was read.
UnmaskedNot(e) == call.val

Unmasked(e) == call.val \cup {e}

Unmask ==
  /\ Runs("unmask_write")
  /\ daintmsk' = Unmasked(call.ep)
  /\ pc' = call.ret
  /\ UNCHANGED <<call, idx, held, got, shared, gint, armed, xfcompl, ep0int, buf, host>>

-----------------------------------------------------------------------------
(***************************************************************************)
(* f_udl.c, in the loader's thread.                                        *)
(***************************************************************************)

\* The end of usb_udl_init: configured, first receive request.
usb_udl_init ==
  /\ Runs("connected")
  /\ udl_done = 2
  /\ flags' = [flags EXCEPT !.received = FALSE]
  /\ comip_ep_queue("out", RxReq(idx), "recv")
  /\ UNCHANGED <<idx, held, got, queue, udl_done, isr, cleared, hardware, host>>

\* Faulty variants of NextIdx: one buffer instead of two, an index that is
\* counted up; and of Taken: a flag that is not cleared.
NextIdxSame == idx
NextIdxUp == idx + 1
TakenKept == flags

\* rx_req_index ^= 1; packet_received = 0
NextIdx == 1 - idx
Taken == [flags EXCEPT !.received = FALSE]

\* The packet is returned in its DMA buffer and the other buffer submitted.
usb_udl_recv ==
  /\ Runs("recv")
  /\ flags.received
  /\ got' = Append(got, buf[RxReq(idx)])
  /\ held' = RxReq(idx)
  /\ flags' = Taken
  /\ idx' = NextIdx
  /\ comip_ep_queue("out", RxReq(NextIdx), "loader")
  /\ UNCHANGED <<queue, udl_done, isr, cleared, hardware, host>>

\* The loader's turn: it answers, or goes back for the next packet.
LoaderTurn ==
  /\ Runs("loader")
  /\ IF buf[held] \in Answered
     THEN /\ buf' = [buf EXCEPT !["tx"] = buf[held]]
          /\ flags' = [flags EXCEPT !.sent = FALSE]
          /\ comip_ep_queue("in", "tx", "sending")
     ELSE /\ pc' = "recv"
          /\ UNCHANGED <<call, buf, flags>>
  /\ UNCHANGED <<idx, held, got, queue, udl_done, isr, cleared, daintmsk, gint, armed, xfcompl,
                 ep0int, host>>

\* The end of usb_udl_send.
usb_udl_send ==
  /\ Runs("sending")
  /\ flags.sent
  /\ pc' = "recv"
  /\ UNCHANGED <<call, idx, held, got, shared, hardware, host>>

Thread ==
  \/ ReadMask \/ Mask \/ StartDma \/ AddToQueue \/ Unmask
  \/ usb_udl_init \/ usb_udl_recv \/ LoaderTurn \/ usb_udl_send

-----------------------------------------------------------------------------
(***************************************************************************)
(* comip_udc_irq.                                                          *)
(***************************************************************************)
Pending == xfcompl \cup {e \in {"ep0"} : ep0int # "none"}

\* OEPINT and IEPINT come through for endpoints that are not masked; then all
\* of USB_DAINT is looked at.
EpInt == Pending \cap daintmsk # {}

\* comip_udc_reset masks every endpoint, comip_udc_enum_done unmasks endpoint 0.
MaskAfter(events) ==
  IF "ENUMDONE" \in events THEN {"ep0"}
  ELSE IF "USBRST" \in events THEN {} ELSE daintmsk

comip_udc_irq ==
  /\ ~isr.on
  /\ gint # {} \/ EpInt
  /\ isr' = [on |-> TRUE, todo |-> IF EpInt THEN Pending ELSE {}]
  /\ daintmsk' = MaskAfter(gint)
  /\ link' = IF "ENUMDONE" \in gint THEN "ready" ELSE link
  /\ gint' = {}
  /\ UNCHANGED <<thread, queue, flags, udl_done, cleared, armed, xfcompl, ep0int, buf, sent,
                 waiting, ctl, resets>>

\* comip_handle_ep0: SET_CONFIGURATION enables the loader's endpoints and lets
\* their interrupts through.
comip_handle_ep0 ==
  /\ isr.on /\ "ep0" \in isr.todo
  /\ isr' = [isr EXCEPT !.todo = @ \ {"ep0"}]
  /\ ep0int' = "none"
  /\ IF ep0int = "SET_CONFIGURATION"
     THEN /\ daintmsk' = Eps
          /\ udl_done' = 2
          /\ link' = "status"
     ELSE /\ daintmsk' = IF ep0int = "SETUP" THEN daintmsk \cup {"ep0"} ELSE daintmsk
          /\ UNCHANGED <<udl_done, link>>
  /\ UNCHANGED <<thread, queue, flags, cleared, gint, armed, xfcompl, buf, sent, waiting,
                 ctl, resets>>

\* tx_complete and rx_complete.
Completed(e) ==
  IF e = "in" THEN [flags EXCEPT !.sent = TRUE] ELSE [flags EXCEPT !.received = TRUE]

\* comip_handle_ep: the request at the head of the queue is done and the next
\* one started; with no request pending the interrupt is just cleared.
comip_handle_ep(e) ==
  /\ xfcompl' = xfcompl \ {e}
  /\ IF e \in xfcompl /\ queue[e] # <<>>
     THEN /\ queue' = [queue EXCEPT ![e] = Tail(@)]
          /\ flags' = Completed(e)
          /\ armed' = IF Len(queue[e]) > 1 THEN Started(e, queue[e][2]) ELSE armed
     ELSE UNCHANGED <<queue, flags, armed>>
  /\ cleared' = (cleared \/ (e \in xfcompl /\ queue[e] = <<>>))
  /\ UNCHANGED <<thread, udl_done, daintmsk, gint, ep0int, buf, host>>

\* temp &= USB_DAINTMSK
InWanted == "in" \in daintmsk

\* IN endpoints come before OUT endpoints, and only they are filtered again.
HandleIn ==
  /\ isr.on /\ "in" \in isr.todo /\ "ep0" \notin isr.todo
  /\ isr' = [isr EXCEPT !.todo = @ \ {"in"}]
  /\ \/ InWanted /\ comip_handle_ep("in")
     \/ ~InWanted /\ UNCHANGED <<thread, queue, flags, udl_done, cleared, hardware, host>>

HandleOut ==
  /\ isr.on /\ isr.todo = {"out"}
  /\ isr' = [isr EXCEPT !.todo = {}]
  /\ comip_handle_ep("out")

IrqReturn ==
  /\ isr.on /\ isr.todo = {}
  /\ isr' = [isr EXCEPT !.on = FALSE]
  /\ UNCHANGED <<thread, queue, flags, udl_done, cleared, hardware, host>>

Irq == comip_udc_irq \/ comip_handle_ep0 \/ HandleIn \/ HandleOut \/ IrqReturn

-----------------------------------------------------------------------------
(***************************************************************************)
(* The controller and the host.                                            *)
(***************************************************************************)

\* A bus reset: what the endpoints were doing is over.
BusReset ==
  /\ link \in {"off", "up"} /\ resets < MaxResets
  /\ gint' = gint \cup {"USBRST"}
  /\ armed' = [e \in DataEps |-> NoReq]
  /\ ep0int' = "none"
  /\ link' = "reset"
  /\ resets' = resets + 1
  /\ UNCHANGED <<thread, shared, daintmsk, xfcompl, buf, sent, waiting, ctl>>

EnumDone ==
  /\ link = "reset"
  /\ gint' = gint \cup {"ENUMDONE"}
  /\ link' = "enum"
  /\ UNCHANGED <<thread, shared, daintmsk, armed, xfcompl, ep0int, buf, sent, waiting,
                 ctl, resets>>

\* Something happens on endpoint 0.
Ep0Raises(what) ==
  /\ ep0int = "none"
  /\ ep0int' = what
  /\ UNCHANGED <<thread, shared, daintmsk, gint, armed, xfcompl, buf, sent, waiting,
                 resets>>

HostConfigures ==
  link = "ready" /\ link' = "config" /\ Ep0Raises("SET_CONFIGURATION") /\ UNCHANGED ctl

HostStatus ==
  link = "status" /\ link' = "up" /\ Ep0Raises("STATUS") /\ UNCHANGED ctl

\* Another control transfer: its setup packet, or its status stage.
HostControl(what) ==
  /\ link = "up" /\ ctl < MaxCtl
  /\ ctl' = ctl + 1
  /\ Ep0Raises(what)
  /\ UNCHANGED link

\* The host's next packet goes into the buffer that the OUT endpoint works on.
HostSends ==
  /\ link = "up" /\ sent < MaxPkts /\ ~waiting
  /\ armed["out"] # NoReq
  /\ buf' = [buf EXCEPT ![armed["out"]] = sent + 1]
  /\ armed' = [armed EXCEPT !["out"] = NoReq]
  /\ xfcompl' = xfcompl \cup {"out"}
  /\ sent' = sent + 1
  /\ waiting' = (sent + 1 \in Answered)
  /\ UNCHANGED <<thread, shared, daintmsk, gint, ep0int, link, ctl, resets>>

HostReceives ==
  /\ link = "up" /\ armed["in"] # NoReq
  /\ armed' = [armed EXCEPT !["in"] = NoReq]
  /\ xfcompl' = xfcompl \cup {"in"}
  /\ waiting' = FALSE
  /\ UNCHANGED <<thread, shared, daintmsk, gint, ep0int, buf, link, sent, ctl, resets>>

Environment ==
  \/ BusReset \/ EnumDone \/ HostConfigures \/ HostStatus
  \/ \E what \in {"SETUP", "STATUS"} : HostControl(what)
  \/ HostSends \/ HostReceives

Next == Thread \/ Irq \/ Environment

Spec == Init /\ [][Next]_vars

\* The processor runs the thread and takes interrupts; a host that is sent an
\* answer takes it.
FairSpec == Spec /\ WF_vars(Thread) /\ WF_vars(Irq) /\ WF_vars(HostReceives)

-----------------------------------------------------------------------------
(***************************************************************************)
(* Properties.                                                             *)
(***************************************************************************)

\* Every variable stays in its range.
TypeOK ==
  /\ pc \in {"connected", "recv", "loader", "sending", "mask_read", "mask_write",
             "start", "add", "unmask_read", "unmask_write"}
  /\ call \in [ep : DataEps, req : Reqs \cup {NoReq},
               ret : {"recv", "loader", "sending"}, val : SUBSET Eps]
  /\ idx \in 0..1 /\ held \in Reqs \cup {NoReq}
  /\ got \in Seq(0..MaxPkts)
  /\ queue \in [DataEps -> Seq(Reqs)]
  /\ flags \in [received : BOOLEAN, sent : BOOLEAN]
  /\ udl_done \in {0, 2} /\ cleared \in BOOLEAN
  /\ isr \in [on : BOOLEAN, todo : SUBSET Eps]
  /\ daintmsk \subseteq Eps /\ gint \subseteq {"USBRST", "ENUMDONE"}
  /\ armed \in [DataEps -> Reqs \cup {NoReq}]
  /\ xfcompl \subseteq DataEps
  /\ ep0int \in {"none", "SETUP", "STATUS", "SET_CONFIGURATION"}
  /\ buf \in [Reqs -> 0..MaxPkts]
  /\ link \in {"off", "reset", "enum", "ready", "config", "status", "up"}
  /\ sent \in 0..MaxPkts /\ waiting \in BOOLEAN
  /\ ctl \in 0..MaxCtl /\ resets \in 0..MaxResets

\* usb_udl_recv returns the host's packets in order, each of them once, whatever
\* interrupts come in between.
PacketsInOrder == Len(got) <= sent /\ \A i \in 1..Len(got) : got[i] = i

\* The buffer that the loader works on is not overwritten by the next packet:
\* the host may send that one while the loader still reads this one.
BufferIsStable == held # NoReq => buf[held] = got[Len(got)]

\* The two ways of losing a packet: the completion is cleared by a handler that
\* finds no request, and a bus reset stops a request that stays in the queue.
Broken == cleared \/ resets > 1

\* A packet that the controller has taken is received by the loader, unless the
\* session is broken.
PacketsArrive == \A n \in 1..MaxPkts : sent >= n ~> Len(got) >= n \/ Broken

\* usb_udl_send comes back, unless a bus reset has stopped its request: the
\* handler leaves a masked IN endpoint alone.
SendReturns == pc = "sending" ~> pc = "recv" \/ resets > 1

\* A session goes on: no packet and no answer hangs the loader.
SessionGoesOn == PacketsArrive /\ SendReturns

(***************************************************************************)
(* A statement of the repository that the code does not live up to.        *)
(***************************************************************************)

\* "pio or dma irq handler advances the queue": a queued request that the DMA
\* no longer works on is completed and leaves the queue.
QueueAdvances ==
  \A e \in DataEps : queue[e] # <<>> /\ armed[e] = NoReq ~> queue[e] = <<>>

=============================================================================
