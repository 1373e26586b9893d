---------------------------- MODULE UsbUdlProofs -----------------------------
(***************************************************************************)
(* Theorems about UsbUdl: packets arrive in order and stay as they are,    *)
(* and while the session is not broken nobody waits for nothing.           *)
(***************************************************************************)
EXTENDS UsbUdl, TLAPS

-----------------------------------------------------------------------------
(***************************************************************************)
(* The inductive invariant.                                                *)
(***************************************************************************)

\* The request that an endpoint is given, the flag that tells of its completion, and how
\* far comip_ep_queue has got with it.
Req(e) == IF e = "in" THEN "tx" ELSE RxReq(idx)
Flag(e) == IF e = "in" THEN flags.sent ELSE flags.received
CallPcs == {"mask_read", "mask_write", "start", "add", "unmask_read", "unmask_write"}
Queuing(e) == pc \in CallPcs /\ call.ep = e
Early(e) == Queuing(e) /\ pc \in {"mask_read", "mask_write", "start"}
AtAdd(e) == Queuing(e) /\ pc = "add"

\* The controller has been given a request, and its completion has not been handled.
InHand(e) == queue[e] # <<>> \/ AtAdd(e)

\* Where comip_ep_queue goes on, and what an endpoint has to do when it is entered.
Rets(e) == IF e = "in" THEN {"sending"} ELSE {"recv", "loader"}
CallInv ==
  /\ \A e \in DataEps : /\ Queuing(e) => call.req = Req(e) /\ call.ret \in Rets(e)
                        /\ Early(e) => ~InHand(e) /\ ~Flag(e)
  /\ pc = "connected" => ~InHand("out") /\ ~flags.received
  /\ ~Queuing("in") /\ pc # "sending" => ~InHand("in")

\* An endpoint has one request at a time: it is on the DMA, or its completion is pending, or
\* the session is broken.
EpInv(e) ==
  /\ queue[e] \in {<<>>, <<Req(e)>>} /\ armed[e] \in {NoReq, Req(e)}
  /\ AtAdd(e) => queue[e] = <<>>
  /\ armed[e] # NoReq \/ e \in xfcompl => InHand(e)
  /\ armed[e] # NoReq => e \notin xfcompl
  /\ InHand(e) => ~Flag(e) /\ (armed[e] # NoReq \/ e \in xfcompl \/ Broken)

\* The packet that usb_udl_recv has not returned yet is in the buffer it will return.
PacketInv ==
  /\ Len(got) <= sent /\ sent <= Len(got) + 1
  /\ \A i \in 1..Len(got) : got[i] = i
  /\ armed["out"] # NoReq \/ Early("out") \/ pc = "connected" => sent = Len(got)
  /\ "out" \in xfcompl \/ flags.received => sent = Len(got) + 1 /\ buf[RxReq(idx)] = sent
  /\ sent > Len(got) => "out" \in xfcompl \/ flags.received \/ cleared

\* The buffer the loader works on is the one that the controller does not have.
HeldInv ==
  /\ held # NoReq => got # <<>> /\ held = RxReq(1 - idx) /\ buf[held] = Len(got)
  /\ pc = "loader" \/ (pc \in CallPcs /\ call.ret \in {"loader", "sending"}) => held # NoReq

\* Nothing happens before the first bus reset.
SessionInv ==
  resets = 0 => /\ link = "off" /\ udl_done = 0 /\ ep0int = "none" /\ gint = {}
                /\ pc = "connected"

IInv == /\ TypeOK /\ CallInv /\ EpInv("in") /\ EpInv("out")
        /\ PacketInv /\ HeldInv /\ SessionInv

-----------------------------------------------------------------------------
(***************************************************************************)
(* Types.                                                                  *)
(***************************************************************************)
Call == [ep : DataEps, req : Reqs \cup {NoReq}, ret : {"recv", "loader", "sending"},
         val : SUBSET Eps]
Flags == [received : BOOLEAN, sent : BOOLEAN]
Isr == [on : BOOLEAN, todo : SUBSET Eps]

TypeThread ==
  /\ pc \in {"connected", "recv", "loader", "sending"} \cup CallPcs
  /\ call \in Call /\ idx \in 0..1 /\ held \in Reqs \cup {NoReq} /\ got \in Seq(0..MaxPkts)
TypeShared ==
  /\ queue \in [DataEps -> Seq(Reqs)] /\ flags \in Flags
  /\ udl_done \in {0, 2} /\ cleared \in BOOLEAN /\ isr \in Isr
TypeHardware ==
  /\ daintmsk \subseteq Eps /\ gint \subseteq {"USBRST", "ENUMDONE"}
  /\ armed \in [DataEps -> Reqs \cup {NoReq}] /\ xfcompl \subseteq DataEps
  /\ ep0int \in {"none", "SETUP", "STATUS", "SET_CONFIGURATION"}
  /\ buf \in [Reqs -> 0..MaxPkts]
TypeHost ==
  /\ link \in {"off", "reset", "enum", "ready", "config", "status", "up"}
  /\ sent \in 0..MaxPkts /\ waiting \in BOOLEAN
  /\ ctl \in 0..MaxCtl /\ resets \in 0..MaxResets

\* The types, by whose state they speak of.
LEMMA TypeParts == TypeOK <=> TypeThread /\ TypeShared /\ TypeHardware /\ TypeHost
BY DEF TypeOK, TypeThread, TypeShared, TypeHardware, TypeHost, CallPcs, Call, Flags, Isr

\* The same after a step.
LEMMA TypePartsNext ==
  ASSUME TypeThread', TypeShared', TypeHardware', TypeHost'
  PROVE  TypeOK'
BY DEF TypeOK, TypeThread, TypeShared, TypeHardware, TypeHost, CallPcs, Call, Flags, Isr

\* What a step leaves alone keeps its type.
LEMMA UnchangedTypes ==
  ASSUME TypeOK
  PROVE  /\ UNCHANGED thread => TypeThread'
         /\ UNCHANGED shared => TypeShared'
         /\ UNCHANGED hardware => TypeHardware'
         /\ UNCHANGED host => TypeHost'
BY TypeParts DEF TypeThread, TypeShared, TypeHardware, TypeHost, thread, shared, hardware, host

\* The records of the thread and the handler, field by field.
LEMMA CallFields ==
  /\ \A c \in Call : c.ep \in DataEps /\ c.req \in Reqs \cup {NoReq}
                     /\ c.ret \in {"recv", "loader", "sending"} /\ c.val \subseteq Eps
  /\ \A e \in DataEps, r \in Reqs, t \in {"recv", "loader", "sending"} :
       [ep |-> e, req |-> r, ret |-> t, val |-> {}] \in Call
  /\ \A c \in Call, v \in SUBSET Eps :
       /\ [c EXCEPT !.val = v] \in Call
       /\ [c EXCEPT !.val = v].ep = c.ep /\ [c EXCEPT !.val = v].req = c.req
       /\ [c EXCEPT !.val = v].ret = c.ret
BY DEF Call

\* The flags of f_udl.c stay flags.
LEMMA FlagFields ==
  \A f \in Flags :
    /\ [f EXCEPT !.received = TRUE] \in Flags /\ [f EXCEPT !.received = FALSE] \in Flags
    /\ [f EXCEPT !.sent = TRUE] \in Flags /\ [f EXCEPT !.sent = FALSE] \in Flags
BY DEF Flags

\* So does the state of the interrupt handler.
LEMMA IsrFields ==
  \A i \in Isr : /\ i.on \in BOOLEAN /\ i.todo \subseteq Eps
                 /\ \A b \in BOOLEAN : [i EXCEPT !.on = b] \in Isr
                 /\ \A t \in SUBSET Eps : [i EXCEPT !.todo = t] \in Isr
                                          /\ [on |-> TRUE, todo |-> t] \in Isr
BY DEF Isr

\* The two receive requests are different ones.
LEMMA ReqTyped ==
  ASSUME idx \in 0..1
  PROVE  /\ RxReq(idx) \in {"rx0", "rx1"} /\ RxReq(1 - idx) \in {"rx0", "rx1"}
         /\ RxReq(idx) # RxReq(1 - idx) /\ {"rx0", "rx1"} \subseteq Reqs /\ NoReq \notin Reqs
         /\ \A e \in DataEps : Req(e) \in Reqs
BY DEF RxReq, Req, Reqs, NoReq

\* Steps of the thread keep the types.
LEMMA ThreadTyped ==
  ASSUME TypeOK, CallInv, HeldInv, Thread
  PROVE  TypeOK'
<1> USE TypeParts, UnchangedTypes, TypePartsNext
<1>1. CASE ReadMask
  <2>1. TypeThread'
    BY <1>1, CallFields DEF ReadMask, TypeThread, TypeHardware, CallPcs
  <2>2. QED BY <1>1, <2>1 DEF ReadMask
<1>2. CASE Mask
  <2>1. TypeThread'
    BY <1>2 DEF Mask, TypeThread, CallPcs
  <2>2. TypeHardware'
    BY <1>2 DEF Mask, TypeThread, TypeHardware, Call
  <2>3. QED BY <1>2, <2>1, <2>2 DEF Mask
<1>3. CASE StartDma
  <2>1. TypeThread'
    BY <1>3 DEF StartDma, TypeThread, CallPcs
  <2>2. TypeHardware'
    BY <1>3 DEF StartDma, Started, TypeThread, TypeHardware, Call
  <2>3. QED BY <1>3, <2>1, <2>2 DEF StartDma
<1>4. CASE AddToQueue
  <2>1. TypeThread'
    BY <1>4 DEF AddToQueue, TypeThread, CallPcs
  <2>2. queue' \in [DataEps -> Seq(Reqs)]
    <3>1. call.ep \in DataEps /\ call.req \in Reqs
      BY <1>4, CallFields, ReqTyped DEF AddToQueue, Runs, CallInv, Queuing, CallPcs, TypeThread
    <3>2. QED BY <1>4, <3>1 DEF AddToQueue, TypeShared
  <2>3. TypeShared'
    BY <1>4, <2>2 DEF AddToQueue, TypeShared
  <2>4. QED BY <1>4, <2>1, <2>3 DEF AddToQueue
<1>5. CASE Unmask
  <2>1. TypeThread'
    BY <1>5, CallFields DEF Unmask, TypeThread
  <2>2. TypeHardware'
    BY <1>5, CallFields DEF Unmask, Unmasked, TypeThread, TypeHardware, Eps
  <2>3. QED BY <1>5, <2>1, <2>2 DEF Unmask
<1>6. CASE usb_udl_init
  <2>1. TypeThread'
    BY <1>6, ReqTyped, CallFields
    DEF usb_udl_init, comip_ep_queue, TypeThread, CallPcs, DataEps
  <2>2. TypeShared'
    BY <1>6, FlagFields DEF usb_udl_init, TypeShared
  <2>3. QED BY <1>6, <2>1, <2>2 DEF usb_udl_init
<1>7. CASE usb_udl_recv
  <2>1. RxReq(idx) \in Reqs /\ RxReq(1 - idx) \in Reqs /\ buf[RxReq(idx)] \in 0..MaxPkts
    BY ReqTyped DEF TypeThread, TypeHardware
  <2>2. call' \in Call
    BY <1>7, <2>1, CallFields DEF usb_udl_recv, comip_ep_queue, NextIdx, DataEps
  <2>3. TypeThread'
    BY <1>7, <2>1, <2>2 DEF usb_udl_recv, comip_ep_queue, NextIdx, TypeThread, CallPcs
  <2>4. TypeShared'
    BY <1>7, FlagFields DEF usb_udl_recv, Taken, TypeShared
  <2>5. QED BY <1>7, <2>3, <2>4 DEF usb_udl_recv
<1>8. CASE LoaderTurn
  <2>1. held \in Reqs /\ "tx" \in Reqs /\ "in" \in DataEps
    BY <1>8 DEF LoaderTurn, Runs, HeldInv, TypeThread, Reqs, DataEps
  <2>2. TypeThread'
    <3>1. [ep |-> "in", req |-> "tx", ret |-> "sending", val |-> {}] \in Call
      BY <2>1, CallFields
    <3>2. call' \in Call /\ pc' \in {"recv", "mask_read"}
      BY <1>8, <3>1 DEF LoaderTurn, comip_ep_queue, TypeThread
    <3>3. QED BY <1>8, <3>2 DEF LoaderTurn, TypeThread, CallPcs
  <2>3. TypeShared'
    BY <1>8, FlagFields DEF LoaderTurn, TypeShared
  <2>4. TypeHardware'
    BY <1>8, <2>1 DEF LoaderTurn, TypeHardware
  <2>5. QED BY <1>8, <2>2, <2>3, <2>4 DEF LoaderTurn
<1>9. CASE usb_udl_send
  <2>1. TypeThread'
    BY <1>9 DEF usb_udl_send, TypeThread
  <2>2. QED BY <1>9, <2>1 DEF usb_udl_send
<1>10. QED
  BY <1>1, <1>2, <1>3, <1>4, <1>5, <1>6, <1>7, <1>8, <1>9 DEF Thread

\* Steps of the interrupt handler keep the types.
LEMMA IrqTyped ==
  ASSUME TypeOK, Irq
  PROVE  TypeOK'
<1> USE TypeParts, UnchangedTypes, TypePartsNext
<1>1. CASE comip_udc_irq
  <2>1. Pending \subseteq Eps
    BY DEF Pending, Eps, TypeHardware
  <2>2. TypeShared'
    BY <1>1, <2>1, IsrFields DEF comip_udc_irq, TypeShared
  <2>3. TypeHardware'
    BY <1>1 DEF comip_udc_irq, MaskAfter, TypeHardware, Eps
  <2>4. TypeHost'
    BY <1>1 DEF comip_udc_irq, TypeHost
  <2>5. QED BY <1>1, <2>2, <2>3, <2>4 DEF comip_udc_irq
<1>2. CASE comip_handle_ep0
  <2>1. TypeShared'
    BY <1>2, IsrFields DEF comip_handle_ep0, TypeShared
  <2>2. TypeHardware'
    BY <1>2 DEF comip_handle_ep0, TypeHardware, Eps
  <2>3. TypeHost'
    BY <1>2 DEF comip_handle_ep0, TypeHost
  <2>4. QED BY <1>2, <2>1, <2>2, <2>3 DEF comip_handle_ep0
<1>3. ASSUME NEW e \in DataEps, comip_handle_ep(e), isr' \in Isr
      PROVE  TypeOK'
  <2>1. queue[e] \in Seq(Reqs)
    BY DEF TypeShared
  <2>2. flags' \in Flags
    BY <1>3, FlagFields DEF comip_handle_ep, Completed, TypeShared
  <2>3. queue' \in [DataEps -> Seq(Reqs)]
    <3>1. CASE e \in xfcompl /\ queue[e] # <<>>
      <4>1. Tail(queue[e]) \in Seq(Reqs)
        BY <2>1, <3>1
      <4>2. QED BY <1>3, <3>1, <4>1 DEF comip_handle_ep, TypeShared
    <3>2. CASE ~(e \in xfcompl /\ queue[e] # <<>>)
      BY <1>3, <3>2 DEF comip_handle_ep, TypeShared
    <3>3. QED BY <3>1, <3>2
  <2>4. armed' \in [DataEps -> Reqs \cup {NoReq}]
    <3>1. CASE e \in xfcompl /\ queue[e] # <<>> /\ Len(queue[e]) > 1
      <4>1. queue[e][2] \in Reqs
        BY <2>1, <3>1
      <4>2. QED BY <1>3, <3>1, <4>1 DEF comip_handle_ep, Started, TypeHardware
    <3>2. CASE ~(e \in xfcompl /\ queue[e] # <<>> /\ Len(queue[e]) > 1)
      BY <1>3, <3>2 DEF comip_handle_ep, TypeHardware
    <3>3. QED BY <3>1, <3>2
  <2>5. TypeShared'
    BY <1>3, <2>2, <2>3 DEF comip_handle_ep, TypeShared
  <2>6. TypeHardware'
    BY <1>3, <2>4 DEF comip_handle_ep, TypeHardware
  <2>7. QED BY <1>3, <2>5, <2>6 DEF comip_handle_ep
<1>4. CASE HandleIn
  <2>1. isr' \in Isr
    BY <1>4, IsrFields DEF HandleIn, TypeShared
  <2>2. CASE comip_handle_ep("in")
    BY <1>3, <2>1, <2>2 DEF DataEps
  <2>3. CASE UNCHANGED <<thread, queue, flags, udl_done, cleared, hardware, host>>
    <3>1. TypeShared'
      BY <2>1, <2>3 DEF TypeShared
    <3>2. QED BY <2>3, <3>1
  <2>4. QED BY <1>4, <2>2, <2>3 DEF HandleIn
<1>5. CASE HandleOut
  <2>1. isr' \in Isr
    BY <1>5, IsrFields DEF HandleOut, TypeShared
  <2>2. QED BY <1>3, <1>5, <2>1 DEF HandleOut, DataEps
<1>6. CASE IrqReturn
  <2>1. TypeShared'
    BY <1>6, IsrFields DEF IrqReturn, TypeShared
  <2>2. QED BY <1>6, <2>1 DEF IrqReturn
<1>7. QED
  BY <1>1, <1>2, <1>4, <1>5, <1>6 DEF Irq

\* Steps of the controller and the host keep the types.
LEMMA EnvironmentTyped ==
  ASSUME TypeOK, Environment
  PROVE  TypeOK'
<1> USE TypeParts, UnchangedTypes, TypePartsNext
<1>1. CASE BusReset
  <2>1. TypeHardware' /\ TypeHost'
    BY <1>1, CtlAssumption DEF BusReset, TypeHardware, TypeHost
  <2>2. QED BY <1>1, <2>1 DEF BusReset
<1>2. CASE EnumDone
  <2>1. TypeHardware' /\ TypeHost'
    BY <1>2 DEF EnumDone, TypeHardware, TypeHost
  <2>2. QED BY <1>2, <2>1 DEF EnumDone
<1>3. CASE HostConfigures \/ HostStatus
  <2>1. TypeHardware' /\ TypeHost'
    BY <1>3 DEF HostConfigures, HostStatus, Ep0Raises, TypeHardware, TypeHost
  <2>2. QED BY <1>3, <2>1 DEF HostConfigures, HostStatus, Ep0Raises
<1>4. ASSUME NEW what \in {"SETUP", "STATUS"}, HostControl(what)
      PROVE  TypeOK'
  <2>1. TypeHardware' /\ TypeHost'
    BY <1>4, CtlAssumption DEF HostControl, Ep0Raises, TypeHardware, TypeHost
  <2>2. QED BY <1>4, <2>1 DEF HostControl, Ep0Raises
<1>5. CASE HostSends
  <2>1. TypeHardware'
    BY <1>5, PktsAssumption DEF HostSends, TypeHardware, TypeHost, DataEps
  <2>2. TypeHost'
    BY <1>5, PktsAssumption DEF HostSends, TypeHost
  <2>3. QED BY <1>5, <2>1, <2>2 DEF HostSends
<1>6. CASE HostReceives
  <2>1. TypeHardware'
    BY <1>6 DEF HostReceives, TypeHardware, DataEps
  <2>2. TypeHost'
    BY <1>6 DEF HostReceives, TypeHost
  <2>3. QED BY <1>6, <2>1, <2>2 DEF HostReceives
<1>7. QED
  BY <1>1, <1>2, <1>3, <1>4, <1>5, <1>6 DEF Environment

-----------------------------------------------------------------------------
(***************************************************************************)
(* Each action keeps the rest of the invariant.                            *)
(***************************************************************************)
Rest == CallInv /\ EpInv("in") /\ EpInv("out") /\ PacketInv /\ HeldInv /\ SessionInv

\* A step of comip_ep_queue that only looks at the interrupt mask, or writes it.
LEMMA MaskingKeeps ==
  ASSUME IInv, ReadMask \/ Mask \/ Unmask
  PROVE  Rest'
<1>1. /\ TypeThread /\ pc \in CallPcs
      /\ call'.ep = call.ep /\ call'.req = call.req /\ call'.ret = call.ret
      /\ UNCHANGED <<idx, held, got, shared, armed, xfcompl, buf, gint, ep0int, host>>
      /\ pc' \in {"mask_write", "start", "unmask_write"} \/ pc' = call.ret
      /\ pc' # "connected"
  <2>1. TypeThread /\ TypeHardware
    BY TypeParts DEF IInv
  <2>2. CASE ReadMask
    <3>1. daintmsk \in SUBSET Eps /\ call \in Call
      BY <2>1 DEF TypeThread, TypeHardware
    <3>2. call'.ep = call.ep /\ call'.req = call.req /\ call'.ret = call.ret
      BY <2>2, <3>1, CallFields DEF ReadMask
    <3>3. QED BY <2>1, <2>2, <3>2 DEF ReadMask, Runs, CallPcs, hardware
  <2>3. CASE Mask
    BY <2>1, <2>3 DEF Mask, Runs, CallPcs
  <2>4. CASE Unmask
    <3>1. call.ret # "connected"
      BY <2>1, CallFields DEF TypeThread
    <3>2. QED BY <2>1, <2>4, <3>1 DEF Unmask, Runs, CallPcs
  <2>5. QED BY <2>2, <2>3, <2>4
<1>2. UNCHANGED <<queue, flags, udl_done, cleared, link, sent, resets>>
  BY <1>1 DEF shared, host
<1>3. \A e \in DataEps : /\ Queuing(e)' <=> Queuing(e) /\ pc' \in CallPcs
                         /\ Early(e)' => Early(e)
                         /\ AtAdd(e)' <=> AtAdd(e)
  BY <1>1, CallFields DEF Queuing, Early, AtAdd, CallPcs, ReadMask, Mask, Unmask, Runs, TypeThread
<1>4. \A e \in DataEps : /\ InHand(e)' <=> InHand(e)
                         /\ Flag(e)' = Flag(e) /\ Req(e)' = Req(e)
  BY <1>1, <1>2, <1>3 DEF InHand, Flag, Req
<1>5. CallInv'
  <2>1. call.ep \in DataEps
    BY <1>1, CallFields DEF TypeThread
  <2>2. \A e \in DataEps : Queuing(e)' => call'.req = Req(e)' /\ call'.ret \in Rets(e)
    BY <1>1, <1>3, <1>4 DEF IInv, CallInv
  <2>3. \A e \in DataEps : Early(e)' => ~InHand(e)' /\ ~Flag(e)'
    BY <1>3, <1>4 DEF IInv, CallInv
  <2>4. ~Queuing("in")' /\ pc' # "sending" => ~InHand("in")'
    <3>1. CASE call.ep = "in"
      BY <1>1, <1>3, <1>4, <2>1, <3>1 DEF IInv, CallInv, Queuing, DataEps, CallPcs, Rets
    <3>2. CASE call.ep # "in"
      BY <1>1, <1>3, <1>4, <2>1, <3>2 DEF IInv, CallInv, Queuing, DataEps, CallPcs
    <3>3. QED BY <3>1, <3>2
  <2>5. QED BY <1>1, <2>2, <2>3, <2>4 DEF CallInv, Rets
<1>6. EpInv("in")' /\ EpInv("out")'
  BY <1>1, <1>2, <1>3, <1>4 DEF IInv, EpInv, DataEps, Broken
<1>7. PacketInv'
  BY <1>1, <1>2, <1>3 DEF IInv, PacketInv, DataEps, CallPcs
<1>8. HeldInv'
  BY <1>1, <1>2 DEF IInv, HeldInv, CallPcs
<1>9. SessionInv'
  BY <1>1, <1>2 DEF IInv, SessionInv, CallPcs
<1>10. QED BY <1>5, <1>6, <1>7, <1>8, <1>9 DEF Rest

\* comip_ep_in_start and comip_ep_out_start find the queue empty.
LEMMA StartDmaKeeps ==
  ASSUME IInv, StartDma
  PROVE  Rest'
<1>1. /\ TypeThread /\ pc = "start" /\ pc' = "add" /\ call.ep \in DataEps
      /\ UNCHANGED <<call, idx, held, got, shared, xfcompl, buf, gint, ep0int, host>>
  BY TypeParts, CallFields DEF IInv, TypeThread, StartDma, Runs
<1>2. UNCHANGED <<queue, flags, udl_done, cleared, link, sent, resets>>
  BY <1>1 DEF shared, host
<1>3. Early(call.ep) /\ ~InHand(call.ep) /\ ~Flag(call.ep)
  BY <1>1 DEF IInv, CallInv, Early, Queuing, CallPcs, DataEps
<1>4. /\ queue[call.ep] = <<>> /\ call.ep \notin xfcompl
      /\ call.req = Req(call.ep) /\ call.req \in Reqs
  BY <1>1, <1>3, ReqTyped DEF IInv, CallInv, EpInv, InHand, Queuing, CallPcs, DataEps, TypeThread
<1>5. armed' = [armed EXCEPT ![call.ep] = call.req] /\ armed \in [DataEps -> Reqs \cup {NoReq}]
  BY <1>4, TypeParts DEF StartDma, Started, IInv, TypeHardware
<1>6. \A e \in DataEps : /\ Flag(e)' = Flag(e) /\ Req(e)' = Req(e) /\ ~Early(e)'
                         /\ Queuing(e)' <=> Queuing(e)
                         /\ InHand(e)' <=> InHand(e) \/ e = call.ep
                         /\ AtAdd(e)' <=> e = call.ep
                         /\ armed'[e] = IF e = call.ep THEN Req(e) ELSE armed[e]
  BY <1>1, <1>2, <1>4, <1>5 DEF Flag, Req, Early, Queuing, InHand, AtAdd, CallPcs
<1>7. CallInv'
  BY <1>1, <1>2, <1>6 DEF IInv, CallInv, CallPcs, DataEps, Queuing, Rets
<1>8. EpInv("in")' /\ EpInv("out")'
  BY <1>1, <1>2, <1>3, <1>4, <1>6, ReqTyped DEF IInv, EpInv, DataEps, Broken, TypeThread
<1>9. PacketInv'
  BY <1>1, <1>2, <1>3, <1>6 DEF IInv, PacketInv, DataEps, CallPcs
<1>10. HeldInv' /\ SessionInv'
  BY <1>1, <1>2 DEF IInv, HeldInv, SessionInv, CallPcs
<1>11. QED BY <1>7, <1>8, <1>9, <1>10 DEF Rest

\* The request joins the empty queue.
LEMMA AddKeeps ==
  ASSUME IInv, AddToQueue
  PROVE  Rest'
<1>1. /\ TypeThread /\ pc = "add" /\ pc' = "unmask_read" /\ call.ep \in DataEps
      /\ UNCHANGED <<call, idx, held, got, flags, udl_done, cleared, armed, xfcompl, buf,
                     gint, ep0int, link, sent, resets>>
  BY TypeParts, CallFields DEF IInv, TypeThread, AddToQueue, Runs, hardware, host
<1>2. AtAdd(call.ep) /\ queue[call.ep] = <<>> /\ call.req = Req(call.ep)
  BY <1>1 DEF IInv, CallInv, EpInv, AtAdd, Queuing, CallPcs, DataEps
<1>3. /\ queue' = [queue EXCEPT ![call.ep] = <<Req(call.ep)>>]
      /\ queue \in [DataEps -> Seq(Reqs)]
  BY <1>2, TypeParts DEF AddToQueue, IInv, TypeShared
<1>4. \A e \in DataEps : /\ Flag(e)' = Flag(e) /\ Req(e)' = Req(e) /\ ~Early(e)' /\ ~AtAdd(e)'
                         /\ Queuing(e)' <=> Queuing(e)
                         /\ queue'[e] = IF e = call.ep THEN <<Req(e)>> ELSE queue[e]
  BY <1>1, <1>3 DEF Flag, Req, Early, AtAdd, Queuing, CallPcs
<1>5. \A e \in DataEps : InHand(e)' <=> InHand(e)
  <2>1. ASSUME NEW e \in DataEps, e = call.ep
        PROVE  InHand(e) /\ InHand(e)'
    <3>1. queue'[e] = <<Req(e)>>
      BY <1>4, <2>1
    <3>2. queue'[e] # <<>>
      BY <3>1
    <3>3. QED BY <1>2, <2>1, <3>2 DEF InHand
  <2>2. ASSUME NEW e \in DataEps, e # call.ep
        PROVE  InHand(e)' <=> InHand(e)
    BY <1>4, <2>2 DEF InHand, AtAdd, Queuing
  <2>3. QED BY <2>1, <2>2
<1>6. CallInv'
  BY <1>1, <1>4, <1>5 DEF IInv, CallInv, CallPcs, DataEps, Queuing, Rets
<1>7. EpInv("in")' /\ EpInv("out")'
  BY <1>1, <1>4, <1>5 DEF IInv, EpInv, DataEps, Broken
<1>8. PacketInv'
  BY <1>1, <1>4 DEF IInv, PacketInv, DataEps, CallPcs
<1>9. HeldInv' /\ SessionInv'
  BY <1>1 DEF IInv, HeldInv, SessionInv, CallPcs
<1>10. QED BY <1>6, <1>7, <1>8, <1>9 DEF Rest

\* The end of usb_udl_init.
LEMMA InitCallKeeps ==
  ASSUME IInv, usb_udl_init
  PROVE  Rest'
<1>1. /\ TypeThread /\ flags \in Flags /\ pc = "connected" /\ udl_done = 2
      /\ pc' = "mask_read" /\ call' = [ep |-> "out", req |-> RxReq(idx), ret |-> "recv", val |-> {}]
      /\ flags' = [flags EXCEPT !.received = FALSE]
      /\ UNCHANGED <<idx, held, got, queue, udl_done, cleared, armed, xfcompl, buf,
                     gint, ep0int, link, sent, resets>>
  BY TypeParts DEF IInv, TypeShared, usb_udl_init, comip_ep_queue, Runs, hardware, host
<1>2. ~InHand("in") /\ ~InHand("out") /\ ~flags.received /\ sent = Len(got)
  BY <1>1 DEF IInv, CallInv, PacketInv, Queuing, CallPcs
<1>3. queue["in"] = <<>> /\ queue["out"] = <<>> /\ call'.ep = "out"
  BY <1>1, <1>2 DEF InHand
<1>4. /\ flags' = flags /\ ~Queuing("in")' /\ Queuing("out")' /\ ~AtAdd("out")' /\ ~AtAdd("in")'
      /\ ~Early("in")' /\ \A e \in DataEps : Req(e)' = Req(e)
  BY <1>1, <1>2, <1>3 DEF Flags, Queuing, AtAdd, Early, CallPcs, Req
<1>5. ~InHand("in")' /\ ~InHand("out")'
  BY <1>1, <1>3, <1>4 DEF InHand
<1>6. CallInv'
  BY <1>1, <1>2, <1>4, <1>5 DEF CallInv, DataEps, Rets, Flag, Req
<1>7. EpInv("in")' /\ EpInv("out")'
  BY <1>1, <1>2, <1>4, <1>5 DEF IInv, EpInv, DataEps
<1>8. PacketInv'
  BY <1>1, <1>2, <1>4 DEF IInv, PacketInv
<1>9. HeldInv' /\ SessionInv'
  BY <1>1, <1>3 DEF IInv, HeldInv, SessionInv
<1>10. QED BY <1>6, <1>7, <1>8, <1>9 DEF Rest

\* usb_udl_recv: the packet received is the next one, and the other buffer is free.
LEMMA RecvKeeps ==
  ASSUME IInv, usb_udl_recv
  PROVE  Rest'
<1>1. /\ TypeThread /\ flags \in Flags /\ buf \in [Reqs -> 0..MaxPkts] /\ sent \in 0..MaxPkts
      /\ pc = "recv" /\ flags.received
      /\ pc' = "mask_read"
      /\ call' = [ep |-> "out", req |-> RxReq(1 - idx), ret |-> "loader", val |-> {}]
      /\ flags' = [flags EXCEPT !.received = FALSE] /\ idx' = 1 - idx /\ held' = RxReq(idx)
      /\ got' = Append(got, buf[RxReq(idx)])
      /\ UNCHANGED <<queue, udl_done, cleared, armed, xfcompl, buf,
                     gint, ep0int, link, sent, resets>>
  BY TypeParts
  DEF IInv, TypeShared, TypeHardware, TypeHost, usb_udl_recv, comip_ep_queue, Runs, NextIdx, Taken,
      hardware, host
<1>2. ~InHand("in") /\ ~InHand("out") /\ sent = Len(got) + 1 /\ buf[RxReq(idx)] = sent
  BY <1>1 DEF IInv, CallInv, EpInv, PacketInv, Queuing, CallPcs, Flag
<1>3. queue["in"] = <<>> /\ queue["out"] = <<>> /\ call'.ep = "out"
      /\ armed["out"] = NoReq /\ "out" \notin xfcompl
      /\ armed["in"] = NoReq /\ "in" \notin xfcompl
  BY <1>1, <1>2 DEF IInv, EpInv, InHand
<1>4. /\ flags'.received = FALSE /\ flags'.sent = flags.sent
      /\ ~Queuing("in")' /\ Queuing("out")' /\ ~AtAdd("out")' /\ ~AtAdd("in")'
      /\ ~Early("in")' /\ Req("out")' = RxReq(1 - idx) /\ Req("in")' = Req("in")
  BY <1>1, <1>3 DEF Flags, Queuing, AtAdd, Early, CallPcs, Req
<1>5. ~InHand("in")' /\ ~InHand("out")'
  BY <1>1, <1>3, <1>4 DEF InHand
<1>6. CallInv'
  BY <1>1, <1>4, <1>5 DEF CallInv, DataEps, Rets, Flag
<1>7. EpInv("in")' /\ EpInv("out")'
  BY <1>1, <1>3, <1>4, <1>5 DEF EpInv, DataEps
<1>8. /\ got \in Seq(0..MaxPkts) /\ Len(got) \in Nat /\ Len(got') = Len(got) + 1
      /\ \A i \in 1..Len(got) : got'[i] = got[i]
      /\ got'[Len(got) + 1] = sent /\ got' # <<>>
  BY <1>1, <1>2 DEF TypeThread
<1>9. PacketInv'
  <2>1. \A i \in 1..Len(got') : got'[i] = i
    BY <1>2, <1>8 DEF IInv, PacketInv
  <2>2. QED BY <1>1, <1>2, <1>3, <1>4, <1>8, <2>1 DEF PacketInv
<1>10. HeldInv'
  <2>1. 1 - idx' = idx
    BY <1>1 DEF TypeThread
  <2>2. held' = RxReq(1 - idx')
    BY <1>1, <2>1
  <2>3. buf[RxReq(idx)] = Len(got') /\ held' # NoReq
    BY <1>1, <1>2, <1>8, ReqTyped DEF TypeThread
  <2>4. QED BY <1>1, <1>8, <2>2, <2>3 DEF HeldInv
<1>11. SessionInv'
  BY <1>1 DEF IInv, SessionInv
<1>12. QED BY <1>6, <1>7, <1>9, <1>10, <1>11 DEF Rest

\* The loader answers, or goes back for the next packet.
LEMMA LoaderTurnKeeps ==
  ASSUME IInv, LoaderTurn
  PROVE  Rest'
<1>1. /\ TypeThread /\ flags \in Flags /\ buf \in [Reqs -> 0..MaxPkts] /\ pc = "loader"
      /\ UNCHANGED <<idx, held, got, queue, udl_done, cleared, armed, xfcompl,
                     gint, ep0int, link, sent, resets>>
  BY TypeParts DEF IInv, TypeShared, TypeHardware, LoaderTurn, Runs, host
<1>2. ~InHand("in") /\ ~AtAdd("out") /\ ~Queuing("out") /\ held # NoReq
  BY <1>1 DEF IInv, CallInv, HeldInv, Queuing, AtAdd, CallPcs
<1>3. CASE buf[held] \in Answered
  <2>1. /\ pc' = "mask_read"
        /\ call' = [ep |-> "in", req |-> "tx", ret |-> "sending", val |-> {}]
        /\ flags' = [flags EXCEPT !.sent = FALSE]
        /\ buf' = [buf EXCEPT !["tx"] = buf[held]]
    BY <1>3 DEF LoaderTurn, comip_ep_queue
  <2>2. /\ flags'.sent = FALSE /\ flags'.received = flags.received
        /\ buf'["rx0"] = buf["rx0"] /\ buf'["rx1"] = buf["rx1"]
    BY <1>1, <2>1 DEF Flags, Reqs
  <2>3. /\ Queuing("in")' /\ ~Queuing("out")' /\ ~AtAdd("in")' /\ ~AtAdd("out")'
        /\ ~Early("out")' /\ \A e \in DataEps : Req(e)' = Req(e)
    BY <1>1, <2>1 DEF Queuing, AtAdd, Early, CallPcs, Req
  <2>4. ~InHand("in")' /\ (InHand("out")' <=> InHand("out"))
    BY <1>1, <1>2, <2>3 DEF InHand
  <2>5. CallInv'
    BY <1>1, <2>1, <2>2, <2>3, <2>4 DEF CallInv, DataEps, Rets, Flag, Req
  <2>6. EpInv("in")' /\ EpInv("out")'
    BY <1>1, <1>2, <2>2, <2>3, <2>4 DEF IInv, EpInv, DataEps, Flag, Broken
  <2>7. \A i \in 0..1 : buf'[RxReq(i)] = buf[RxReq(i)]
    BY <2>2 DEF RxReq
  <2>8. PacketInv'
    BY <1>1, <2>1, <2>2, <2>3, <2>7 DEF IInv, PacketInv, TypeThread
  <2>9. HeldInv' /\ SessionInv'
    BY <1>1, <1>2, <2>1, <2>7 DEF IInv, HeldInv, SessionInv, TypeThread
  <2>10. QED BY <2>5, <2>6, <2>8, <2>9 DEF Rest
<1>4. CASE buf[held] \notin Answered
  <2>1. pc' = "recv" /\ UNCHANGED <<call, buf, flags>>
    BY <1>4 DEF LoaderTurn
  <2>2. \A e \in DataEps : /\ ~Queuing(e)' /\ ~AtAdd(e)' /\ ~Early(e)' /\ Req(e)' = Req(e)
                           /\ Flag(e)' = Flag(e) /\ ~AtAdd(e) /\ ~Early(e)
                           /\ InHand(e)' <=> InHand(e)
    BY <1>1, <2>1 DEF Queuing, AtAdd, Early, CallPcs, Req, Flag, InHand
  <2>3. CallInv' /\ EpInv("in")' /\ EpInv("out")'
    BY <1>1, <1>2, <2>1, <2>2 DEF IInv, CallInv, EpInv, DataEps, Broken
  <2>4. PacketInv' /\ HeldInv' /\ SessionInv'
    BY <1>1, <2>1, <2>2 DEF IInv, PacketInv, HeldInv, SessionInv, DataEps, CallPcs
  <2>5. QED BY <2>3, <2>4 DEF Rest
<1>5. QED BY <1>3, <1>4

\* usb_udl_send comes back.
LEMMA SendKeeps ==
  ASSUME IInv, usb_udl_send
  PROVE  Rest'
<1>1. /\ pc = "sending" /\ flags.sent /\ pc' = "recv"
      /\ UNCHANGED <<call, idx, held, got, queue, flags, udl_done, cleared, armed, xfcompl, buf,
                     gint, ep0int, link, sent, resets>>
  BY DEF usb_udl_send, Runs, shared, hardware, host
<1>2. ~InHand("in")
  BY <1>1 DEF IInv, EpInv, Flag
<1>3. \A e \in DataEps : /\ ~Queuing(e)' /\ ~AtAdd(e)' /\ ~Early(e)' /\ Req(e)' = Req(e)
                         /\ Flag(e)' = Flag(e) /\ ~AtAdd(e) /\ ~Early(e)
                         /\ InHand(e)' <=> InHand(e)
  BY <1>1 DEF Queuing, AtAdd, Early, CallPcs, Req, Flag, InHand
<1>4. CallInv' /\ EpInv("in")' /\ EpInv("out")'
  BY <1>1, <1>2, <1>3 DEF IInv, CallInv, EpInv, DataEps, Broken
<1>5. PacketInv' /\ HeldInv' /\ SessionInv'
  BY <1>1, <1>3 DEF IInv, PacketInv, HeldInv, SessionInv, DataEps, CallPcs
<1>6. QED BY <1>4, <1>5 DEF Rest

\* A step that the endpoints do not see: the thread stands still, and no request, flag,
\* buffer or packet changes.
LEMMA QuietKeeps ==
  ASSUME IInv,
         UNCHANGED <<thread, queue, flags, cleared, armed, xfcompl, buf, sent, resets>>,
         SessionInv'
  PROVE  Rest'
<1>1. UNCHANGED <<pc, call, idx, held, got>>
  BY DEF thread
<1>2. \A e \in DataEps : /\ Queuing(e)' <=> Queuing(e)
                         /\ AtAdd(e)' <=> AtAdd(e)
                         /\ Early(e)' <=> Early(e)
                         /\ InHand(e)' <=> InHand(e)
                         /\ Req(e)' = Req(e) /\ Flag(e)' = Flag(e)
  BY <1>1 DEF Queuing, AtAdd, Early, Req, Flag, InHand
<1>3. CallInv' /\ EpInv("in")' /\ EpInv("out")'
  BY <1>1, <1>2 DEF IInv, CallInv, EpInv, DataEps, Broken
<1>4. PacketInv' /\ HeldInv'
  BY <1>1, <1>2 DEF IInv, PacketInv, HeldInv, DataEps
<1>5. QED BY <1>3, <1>4 DEF Rest

\* comip_handle_ep: a completion that finds its request tells the thread, one that does not
\* breaks the session.
LEMMA HandleEpKeeps ==
  ASSUME IInv, NEW e \in DataEps, comip_handle_ep(e)
  PROVE  Rest'
<1>1. /\ TypeThread /\ flags \in Flags /\ queue \in [DataEps -> Seq(Reqs)]
      /\ armed \in [DataEps -> Reqs \cup {NoReq}] /\ cleared \in BOOLEAN
      /\ xfcompl' = xfcompl \ {e}
      /\ UNCHANGED <<pc, call, idx, held, got, udl_done, buf, gint, ep0int, link, sent, resets>>
  BY TypeParts
  DEF IInv, TypeShared, TypeHardware, comip_handle_ep, thread, host
<1>2. /\ \A d \in DataEps : /\ Queuing(d)' <=> Queuing(d)
                            /\ AtAdd(d)' <=> AtAdd(d)
                            /\ Early(d)' <=> Early(d)
                            /\ Req(d)' = Req(d)
  BY <1>1 DEF Queuing, AtAdd, Early, Req
<1>3. HeldInv' /\ SessionInv'
  BY <1>1 DEF IInv, HeldInv, SessionInv
<1>4. EpInv(e) /\ EpInv("in") /\ EpInv("out")
  BY DEF IInv, DataEps
<1>5. CASE e \in xfcompl /\ queue[e] # <<>>
  <2>1. /\ queue[e] = <<Req(e)>> /\ ~AtAdd(e) /\ ~Early(e) /\ armed[e] = NoReq
        /\ ~Flag(e) /\ InHand(e)
    BY <1>4, <1>5 DEF EpInv, IInv, CallInv, InHand
  <2>2. Tail(queue[e]) = <<>> /\ Len(queue[e]) = 1
    BY <2>1
  <2>3. /\ queue' = [queue EXCEPT ![e] = <<>>] /\ flags' = Completed(e)
        /\ armed' = armed /\ cleared' = cleared
    BY <1>1, <1>5, <2>2 DEF comip_handle_ep
  <2>4. /\ e = "in" => flags'.sent = TRUE /\ flags'.received = flags.received
        /\ e = "out" => flags'.received = TRUE /\ flags'.sent = flags.sent
    BY <1>1, <2>3 DEF Completed, Flags
  <2>5. /\ queue'[e] = <<>> /\ ~InHand(e)' /\ e \notin xfcompl'
        /\ \A d \in DataEps : d # e => /\ queue'[d] = queue[d] /\ (InHand(d)' <=> InHand(d))
                                       /\ Flag(d)' = Flag(d) /\ (d \in xfcompl' <=> d \in xfcompl)
    BY <1>1, <1>2, <2>1, <2>3, <2>4 DEF InHand, Flag, DataEps
  <2>6. CallInv'
    BY <1>1, <1>2, <2>1, <2>3, <2>4, <2>5 DEF IInv, CallInv, DataEps, InHand
  <2>7. EpInv("in")' /\ EpInv("out")'
    BY <1>1, <1>2, <1>4, <2>1, <2>3, <2>5 DEF EpInv, DataEps, Broken
  <2>8. PacketInv'
    BY <1>1, <1>2, <1>5, <2>1, <2>3, <2>4, <2>5 DEF IInv, PacketInv, DataEps
  <2>9. QED BY <1>3, <2>6, <2>7, <2>8 DEF Rest
<1>6. CASE ~(e \in xfcompl /\ queue[e] # <<>>)
  <2>1. /\ UNCHANGED <<queue, flags, armed>>
        /\ cleared' = (cleared \/ (e \in xfcompl /\ queue[e] = <<>>))
    BY <1>6 DEF comip_handle_ep
  <2>2. e \in xfcompl => cleared' = TRUE
    BY <1>6, <2>1
  <2>3. cleared => cleared'
    BY <2>1
  <2>4. \A d \in DataEps : /\ InHand(d)' <=> InHand(d)
                           /\ Flag(d)' = Flag(d)
                           /\ d \in xfcompl' => d \in xfcompl
                           /\ d \in xfcompl => d \in xfcompl' \/ cleared'
    BY <1>1, <1>2, <2>1, <2>2 DEF InHand, Flag
  <2>5. CallInv'
    BY <1>1, <1>2, <2>1, <2>4 DEF IInv, CallInv, DataEps
  <2>6. EpInv("in")' /\ EpInv("out")'
    BY <1>1, <1>2, <1>4, <2>1, <2>3, <2>4 DEF EpInv, DataEps, Broken
  <2>7. PacketInv'
    BY <1>1, <1>2, <2>1, <2>3, <2>4 DEF IInv, PacketInv, DataEps
  <2>8. QED BY <1>3, <2>5, <2>6, <2>7 DEF Rest
<1>7. QED BY <1>5, <1>6

\* Steps of the interrupt handler keep the invariant.
LEMMA IrqKeeps ==
  ASSUME IInv, Irq
  PROVE  Rest'
<1>1. CASE comip_udc_irq
  <2>1. SessionInv'
    BY <1>1 DEF IInv, SessionInv, comip_udc_irq, thread
  <2>2. QED BY <1>1, <2>1, QuietKeeps DEF comip_udc_irq
<1>2. CASE comip_handle_ep0
  <2>1. SessionInv'
    BY <1>2 DEF IInv, SessionInv, comip_handle_ep0, thread
  <2>2. QED BY <1>2, <2>1, QuietKeeps DEF comip_handle_ep0
<1>3. CASE HandleIn
  <2>1. CASE comip_handle_ep("in")
    BY <2>1, HandleEpKeeps DEF DataEps
  <2>2. CASE UNCHANGED <<thread, queue, flags, udl_done, cleared, hardware, host>>
    <3>1. SessionInv'
      BY <2>2 DEF IInv, SessionInv, thread, hardware, host
    <3>2. QED BY <2>2, <3>1, QuietKeeps DEF hardware, host
  <2>3. QED BY <1>3, <2>1, <2>2 DEF HandleIn
<1>4. CASE HandleOut
  BY <1>4, HandleEpKeeps DEF HandleOut, DataEps
<1>5. CASE IrqReturn
  <2>1. SessionInv'
    BY <1>5 DEF IInv, SessionInv, IrqReturn, thread, hardware, host
  <2>2. QED BY <1>5, <2>1, QuietKeeps DEF IrqReturn, hardware, host
<1>6. QED BY <1>1, <1>2, <1>3, <1>4, <1>5 DEF Irq

\* A bus reset takes the requests off the DMA: it is either the first, before the loader has
\* submitted any, or it breaks the session.
LEMMA BusResetKeeps ==
  ASSUME IInv, BusReset
  PROVE  Rest'
<1>1. /\ resets \in Nat /\ resets' = resets + 1 /\ armed' = [e \in DataEps |-> NoReq]
      /\ UNCHANGED <<pc, call, idx, held, got, queue, flags, udl_done, cleared, xfcompl, buf,
                     sent>>
  BY TypeParts, CtlAssumption DEF IInv, TypeHost, BusReset, thread, shared
<1>2. \A e \in DataEps : /\ Queuing(e)' <=> Queuing(e)
                         /\ AtAdd(e)' <=> AtAdd(e)
                         /\ Early(e)' <=> Early(e)
                         /\ InHand(e)' <=> InHand(e)
                         /\ Req(e)' = Req(e) /\ Flag(e)' = Flag(e) /\ armed'[e] = NoReq
  BY <1>1 DEF Queuing, AtAdd, Early, Req, Flag, InHand
<1>3. resets = 0 => ~InHand("in") /\ ~InHand("out")
  BY DEF IInv, SessionInv, CallInv, Queuing, CallPcs
<1>4. InHand("in") \/ InHand("out") => resets' > 1
  BY <1>1, <1>3
<1>5. CallInv'
  BY <1>1, <1>2 DEF IInv, CallInv, DataEps
<1>6. EpInv("in")' /\ EpInv("out")'
  BY <1>1, <1>2, <1>4 DEF IInv, EpInv, DataEps, Broken
<1>7. PacketInv' /\ HeldInv' /\ SessionInv'
  BY <1>1, <1>2 DEF IInv, PacketInv, HeldInv, SessionInv, DataEps
<1>8. QED BY <1>5, <1>6, <1>7 DEF Rest

\* The next packet goes into the buffer of the request that is on the DMA.
LEMMA HostSendsKeeps ==
  ASSUME IInv, HostSends
  PROVE  Rest'
<1>1. /\ TypeThread /\ buf \in [Reqs -> 0..MaxPkts] /\ sent \in Nat
      /\ armed \in [DataEps -> Reqs \cup {NoReq}]
      /\ armed["out"] # NoReq /\ armed' = [armed EXCEPT !["out"] = NoReq]
      /\ buf' = [buf EXCEPT ![armed["out"]] = sent + 1]
      /\ xfcompl' = xfcompl \cup {"out"} /\ sent' = sent + 1
      /\ UNCHANGED <<pc, call, idx, held, got, queue, flags, udl_done, cleared, gint, ep0int,
                     link, resets>>
  BY TypeParts, PktsAssumption
  DEF IInv, TypeHardware, TypeHost, HostSends, thread, shared
<1>2. /\ armed["out"] = RxReq(idx) /\ InHand("out") /\ "out" \notin xfcompl
      /\ ~flags.received /\ sent = Len(got) /\ RxReq(idx) \in Reqs
      /\ ~Early("out") /\ pc # "connected"
  BY <1>1, ReqTyped DEF IInv, EpInv, CallInv, PacketInv, Req, Flag, TypeThread, DataEps
<1>3. \A e \in DataEps : /\ Queuing(e)' <=> Queuing(e)
                         /\ AtAdd(e)' <=> AtAdd(e)
                         /\ Early(e)' <=> Early(e)
                         /\ InHand(e)' <=> InHand(e)
                         /\ Req(e)' = Req(e) /\ Flag(e)' = Flag(e)
  BY <1>1 DEF Queuing, AtAdd, Early, Req, Flag, InHand
<1>4. /\ armed'["out"] = NoReq /\ armed'["in"] = armed["in"] /\ buf'[RxReq(idx)] = sent + 1
      /\ "out" \in xfcompl' /\ ("in" \in xfcompl' <=> "in" \in xfcompl)
      /\ \A r \in Reqs : r # RxReq(idx) => buf'[r] = buf[r]
  BY <1>1, <1>2 DEF DataEps
<1>5. CallInv'
  BY <1>1, <1>3 DEF IInv, CallInv, DataEps
<1>6. EpInv("in")' /\ EpInv("out")'
  BY <1>1, <1>2, <1>3, <1>4 DEF IInv, EpInv, DataEps, Broken
<1>7. PacketInv'
  BY <1>1, <1>2, <1>3, <1>4 DEF IInv, PacketInv, DataEps, TypeThread
<1>8. HeldInv'
  BY <1>1, <1>4, ReqTyped DEF IInv, HeldInv, TypeThread
<1>9. SessionInv'
  BY <1>1 DEF IInv, SessionInv
<1>10. QED BY <1>5, <1>6, <1>7, <1>8, <1>9 DEF Rest

\* The host takes the answer.
LEMMA HostReceivesKeeps ==
  ASSUME IInv, HostReceives
  PROVE  Rest'
<1>1. /\ armed \in [DataEps -> Reqs \cup {NoReq}]
      /\ armed["in"] # NoReq /\ armed' = [armed EXCEPT !["in"] = NoReq]
      /\ xfcompl' = xfcompl \cup {"in"}
      /\ UNCHANGED <<pc, call, idx, held, got, queue, flags, udl_done, cleared, gint, ep0int,
                     buf, sent, link, resets>>
  BY TypeParts DEF IInv, TypeHardware, HostReceives, thread, shared
<1>2. \A e \in DataEps : /\ Queuing(e)' <=> Queuing(e)
                         /\ AtAdd(e)' <=> AtAdd(e)
                         /\ Early(e)' <=> Early(e)
                         /\ InHand(e)' <=> InHand(e)
                         /\ Req(e)' = Req(e) /\ Flag(e)' = Flag(e)
  BY <1>1 DEF Queuing, AtAdd, Early, Req, Flag, InHand
<1>3. /\ armed'["in"] = NoReq /\ armed'["out"] = armed["out"]
      /\ "in" \in xfcompl' /\ ("out" \in xfcompl' <=> "out" \in xfcompl)
  BY <1>1 DEF DataEps
<1>4. CallInv'
  BY <1>1, <1>2 DEF IInv, CallInv, DataEps
<1>5. EpInv("in")' /\ EpInv("out")'
  BY <1>1, <1>2, <1>3 DEF IInv, EpInv, DataEps, Broken
<1>6. PacketInv' /\ HeldInv' /\ SessionInv'
  BY <1>1, <1>2, <1>3 DEF IInv, PacketInv, HeldInv, SessionInv, DataEps
<1>7. QED BY <1>4, <1>5, <1>6 DEF Rest

\* Steps of the controller and the host keep the invariant.
LEMMA EnvironmentKeeps ==
  ASSUME IInv, Environment
  PROVE  Rest'
<1>1. CASE EnumDone
  <2>1. SessionInv'
    BY <1>1 DEF IInv, SessionInv, EnumDone
  <2>2. QED BY <1>1, <2>1, QuietKeeps DEF EnumDone, shared
<1>2. ASSUME NEW what \in {"SET_CONFIGURATION", "SETUP", "STATUS"}, Ep0Raises(what),
             link # "off"
      PROVE  Rest'
  <2>1. SessionInv'
    BY <1>2 DEF IInv, SessionInv, Ep0Raises
  <2>2. QED BY <1>2, <2>1, QuietKeeps DEF Ep0Raises, shared
<1>3. QED
  BY <1>1, <1>2, BusResetKeeps, HostSendsKeeps, HostReceivesKeeps
  DEF Environment, HostConfigures, HostStatus, HostControl

-----------------------------------------------------------------------------
(***************************************************************************)
(* The invariant, and what follows from it.                                *)
(***************************************************************************)
LEMMA InitIInv == Init => IInv
<1> SUFFICES ASSUME Init PROVE IInv
  OBVIOUS
<1>1. TypeThread
  <2>1. call \in Call
    BY DEF Init, Call, DataEps, Eps, Reqs
  <2>2. got \in Seq(0..MaxPkts)
    BY DEF Init
  <2>3. QED BY <2>1, <2>2 DEF Init, TypeThread
<1>2. TypeShared
  <2>1. queue \in [DataEps -> Seq(Reqs)]
    <3>1. <<>> \in Seq(Reqs)
      OBVIOUS
    <3>2. QED BY <3>1 DEF Init
  <2>2. flags \in Flags
    BY DEF Init, Flags
  <2>3. isr \in Isr
    BY DEF Init, Isr
  <2>4. udl_done \in {0, 2} /\ cleared \in BOOLEAN
    BY Zenon DEF Init
  <2>5. QED BY <2>1, <2>2, <2>3, <2>4 DEF TypeShared
<1>3. TypeHardware
  BY PktsAssumption DEF Init, TypeHardware
<1>4. TypeHost
  <2>1. sent \in 0..MaxPkts /\ ctl \in 0..MaxCtl /\ resets \in 0..MaxResets
    BY PktsAssumption, CtlAssumption DEF Init
  <2>2. waiting \in BOOLEAN
    BY Zenon DEF Init
  <2>3. QED BY <2>1, <2>2 DEF Init, TypeHost
<1>5. \A e \in DataEps : ~Queuing(e) /\ ~AtAdd(e) /\ ~Early(e) /\ ~InHand(e) /\ ~Flag(e)
  BY DEF Init, Queuing, AtAdd, Early, InHand, Flag, CallPcs
<1>6. CallInv
  BY <1>5 DEF Init, CallInv, DataEps, CallPcs
<1>7. EpInv("in") /\ EpInv("out")
  BY <1>5 DEF Init, EpInv, DataEps
<1>8. PacketInv /\ HeldInv /\ SessionInv
  BY <1>5 DEF Init, PacketInv, HeldInv, SessionInv, DataEps, CallPcs
<1>9. QED BY <1>1, <1>2, <1>3, <1>4, <1>6, <1>7, <1>8, TypeParts DEF IInv

\* The invariant is inductive.
LEMMA NextIInv == IInv /\ [Next]_vars => IInv'
<1> SUFFICES ASSUME IInv, [Next]_vars PROVE IInv'
  OBVIOUS
<1>1. CASE Thread
  <2>1. TypeOK'
    BY <1>1, ThreadTyped DEF IInv
  <2>2. Rest'
    BY <1>1, MaskingKeeps, StartDmaKeeps, AddKeeps, InitCallKeeps, RecvKeeps, LoaderTurnKeeps,
       SendKeeps DEF Thread
  <2>3. QED BY <2>1, <2>2 DEF IInv, Rest
<1>2. CASE Irq
  BY <1>2, IrqTyped, IrqKeeps DEF IInv, Rest
<1>3. CASE Environment
  BY <1>3, EnvironmentTyped, EnvironmentKeeps DEF IInv, Rest
<1>4. CASE UNCHANGED vars
  <2>1. UNCHANGED thread /\ UNCHANGED shared /\ UNCHANGED hardware /\ UNCHANGED host
    BY <1>4 DEF vars
  <2>2. TypeOK'
    BY <2>1, TypeParts, UnchangedTypes, TypePartsNext DEF IInv
  <2>3. SessionInv'
    BY <2>1 DEF IInv, SessionInv, thread, shared, hardware, host
  <2>4. Rest'
    BY <2>1, <2>3, QuietKeeps DEF shared, hardware, host
  <2>5. QED BY <2>2, <2>4 DEF IInv, Rest
<1>5. QED BY <1>1, <1>2, <1>3, <1>4 DEF Next

\* Requests, completions, flags and packets fit together in every state, wherever the
\* interrupt handler has come in between.
THEOREM Invariant == Spec => []IInv
<1>1. QED BY InitIInv, NextIInv, PTL DEF Spec

\* Every variable of the packet layer stays in its range.
THEOREM TypeCorrect == Spec => []TypeOK
<1>1. IInv => TypeOK
  BY DEF IInv
<1>2. QED BY <1>1, Invariant, PTL

\* usb_udl_recv returns the packets in order, none twice, for any number of packets,
\* answers, control transfers and bus resets.
THEOREM InOrder == Spec => []PacketsInOrder
<1>1. IInv => PacketsInOrder
  BY DEF IInv, PacketInv, PacketsInOrder
<1>2. QED BY <1>1, Invariant, PTL

\* The host never writes the buffer that the loader works on: two buffers are enough.
THEOREM BufferKept == Spec => []BufferIsStable
<1>1. IInv => BufferIsStable
  <2> SUFFICES ASSUME IInv, held # NoReq PROVE buf[held] = got[Len(got)]
    BY DEF BufferIsStable
  <2>1. got \in Seq(0..MaxPkts) /\ got # <<>>
    BY TypeParts DEF IInv, TypeThread, HeldInv
  <2>2. Len(got) \in 1..Len(got)
    BY <2>1
  <2>3. QED BY <2>2 DEF IInv, HeldInv, PacketInv
<1>2. QED BY <1>1, Invariant, PTL

\* A packet that the controller has taken is not lost on its way to usb_udl_recv, unless a
\* handler has cleared its completion: bus resets lose none.
TakenPacketIsKept == sent > Len(got) => "out" \in xfcompl \/ flags.received \/ cleared
THEOREM NoPacketLost == Spec => []TakenPacketIsKept
<1>1. IInv => TakenPacketIsKept
  BY DEF IInv, PacketInv, TakenPacketIsKept
<1>2. QED BY <1>1, Invariant, PTL

-----------------------------------------------------------------------------
(***************************************************************************)
(* The thread does not spin for nothing.                                   *)
(***************************************************************************)

\* A request that comip_ep_queue was entered for is in hand until it is done.
Asked(e) == IF e = "in" THEN (Queuing(e) /\ ~Early(e)) \/ pc = "sending"
            ELSE ~Early(e) /\ pc # "connected"
AskedInv == \A e \in DataEps : Asked(e) => InHand(e) \/ Flag(e)

\* While usb_udl_recv or usb_udl_send spins, the DMA works on its request or the completion
\* is pending, unless the session is broken.
SpinsForSomething ==
  /\ pc = "recv" /\ ~flags.received /\ ~Broken => armed["out"] # NoReq \/ "out" \in xfcompl
  /\ pc = "sending" /\ ~flags.sent /\ ~Broken => armed["in"] # NoReq \/ "in" \in xfcompl

\* What the thread spins for is armed or has completed.
LEMMA AskedKept == IInv /\ AskedInv /\ [Next]_vars => AskedInv'
<1> SUFFICES ASSUME IInv, AskedInv, [Next]_vars PROVE AskedInv'
  OBVIOUS
<1> USE DEF AskedInv
<1>0. /\ TypeThread /\ flags \in Flags /\ queue \in [DataEps -> Seq(Reqs)]
      /\ call.ep \in DataEps /\ call.ret # "connected"
      /\ Queuing("in") => call.ret = "sending"
      /\ Queuing("out") => call.ret \in {"recv", "loader"}
  BY TypeParts, CallFields DEF IInv, TypeThread, TypeShared, CallInv, Rets, DataEps
<1>1. CASE ReadMask \/ Mask \/ Unmask
  <2>1. call'.ep = call.ep /\ UNCHANGED <<queue, flags>>
    <3>1. call \in Call /\ daintmsk \in SUBSET Eps
      BY TypeParts DEF IInv, TypeThread, TypeHardware
    <3>2. CASE ReadMask
      BY <3>1, <3>2, CallFields DEF ReadMask, shared
    <3>3. CASE Mask \/ Unmask
      BY <3>3 DEF Mask, Unmask, shared
    <3>4. QED BY <1>1, <3>2, <3>3
  <2>2. \A e \in DataEps : (InHand(e)' <=> InHand(e)) /\ Flag(e)' = Flag(e)
                           /\ (Asked(e)' => Asked(e))
    BY <1>0, <1>1, <2>1
    DEF ReadMask, Mask, Unmask, Runs, InHand, AtAdd, Flag, Asked, Queuing, Early, CallPcs, DataEps
  <2>3. QED BY <2>2
<1>2. CASE StartDma
  <2>1. \A e \in DataEps : InHand(e)' <=> InHand(e) \/ e = call.ep
    BY <1>0, <1>2 DEF StartDma, Runs, shared, InHand, AtAdd, Queuing, CallPcs
  <2>2. \A e \in DataEps : Flag(e)' = Flag(e) /\ (Asked(e)' => Asked(e) \/ e = call.ep)
    BY <1>0, <1>2 DEF StartDma, Runs, shared, Flag, Asked, Queuing, Early, CallPcs, DataEps
  <2>3. QED BY <2>1, <2>2
<1>3. CASE AddToQueue
  <2>1. \A e \in DataEps : /\ Flag(e)' = Flag(e) /\ (Asked(e)' => Asked(e))
                           /\ e # call.ep => (InHand(e)' <=> InHand(e))
    BY <1>0, <1>3
    DEF AddToQueue, Runs, InHand, AtAdd, Flag, Asked, Queuing, Early, CallPcs, DataEps
  <2>2. queue'[call.ep] # <<>>
    <3>1. call.req \in Reqs /\ queue[call.ep] \in Seq(Reqs)
      BY <1>0, <1>3, ReqTyped
      DEF AddToQueue, Runs, IInv, CallInv, Queuing, CallPcs, TypeThread
    <3>2. queue'[call.ep] = Append(queue[call.ep], call.req)
      BY <1>0, <1>3 DEF AddToQueue
    <3>3. QED BY <3>1, <3>2
  <2>3. QED BY <2>1, <2>2 DEF InHand
<1>4. CASE usb_udl_init \/ usb_udl_recv
  <2>1. ~InHand("in") /\ ~Asked("in") /\ pc' = "mask_read" /\ call'.ep = "out"
    BY <1>4 DEF usb_udl_init, usb_udl_recv, comip_ep_queue, Runs, IInv, CallInv, Queuing, CallPcs,
                Asked
  <2>2. ~Asked("in")' /\ ~Asked("out")'
    BY <2>1 DEF Asked, Queuing, Early, CallPcs
  <2>3. QED BY <2>2 DEF DataEps
<1>5. CASE LoaderTurn
  <2>1. Asked("out") /\ ~AtAdd("out") /\ UNCHANGED queue /\ flags'.received = flags.received
        /\ ~AtAdd("out")'
    BY <1>0, <1>5, FlagFields
    DEF LoaderTurn, Runs, Asked, Early, Queuing, CallPcs, AtAdd, comip_ep_queue, Flags
  <2>2. InHand("out")' \/ Flag("out")'
    BY <2>1 DEF InHand, Flag, DataEps
  <2>3. ~Asked("in")'
    BY <1>5 DEF LoaderTurn, Asked, Early, Queuing, CallPcs, comip_ep_queue
  <2>4. QED BY <2>2, <2>3 DEF DataEps
<1>6. CASE usb_udl_send
  BY <1>6 DEF usb_udl_send, Runs, shared, Asked, Early, Queuing, CallPcs, InHand, AtAdd, Flag
<1>7. ASSUME UNCHANGED <<pc, call, queue, flags>>
      PROVE  AskedInv'
  BY <1>7 DEF Asked, Early, Queuing, InHand, AtAdd, Flag
<1>8. ASSUME NEW e \in DataEps, comip_handle_ep(e)
      PROVE  AskedInv'
  <2>1. UNCHANGED <<pc, call>>
    BY <1>8 DEF comip_handle_ep, thread
  <2>2. CASE e \in xfcompl /\ queue[e] # <<>>
    <3>1. flags' = Completed(e) /\ \A d \in DataEps : d # e => queue'[d] = queue[d]
      BY <1>0, <1>8, <2>2 DEF comip_handle_ep
    <3>2. Flag(e)' /\ \A d \in DataEps : d # e => Flag(d)' = Flag(d)
      BY <1>0, <3>1 DEF Completed, Flag, Flags, DataEps
    <3>3. QED BY <2>1, <3>1, <3>2 DEF Asked, Early, Queuing, InHand, AtAdd
  <2>3. CASE ~(e \in xfcompl /\ queue[e] # <<>>)
    BY <1>7, <1>8, <2>1, <2>3 DEF comip_handle_ep
  <2>4. QED BY <2>2, <2>3
<1>9. CASE Irq
  BY <1>7, <1>8, <1>9
  DEF Irq, comip_udc_irq, comip_handle_ep0, HandleIn, HandleOut, IrqReturn, thread, DataEps
<1>10. CASE Environment
  BY <1>7, <1>10
  DEF Environment, BusReset, EnumDone, HostConfigures, HostStatus, HostControl, Ep0Raises,
      HostSends, HostReceives, thread, shared
<1>11. CASE UNCHANGED vars
  BY <1>7, <1>11 DEF vars, thread, shared
<1>12. QED
  BY <1>1, <1>2, <1>3, <1>4, <1>5, <1>6, <1>9, <1>10, <1>11 DEF Next, Thread

\* The thread never spins for a request that nobody works on, unless a handler has cleared a
\* completion or a bus reset has come after the enumeration.
THEOREM NoIdleSpin == Spec => []SpinsForSomething
<1>1. Init => AskedInv
  BY DEF Init, AskedInv, Asked, Queuing, Early, CallPcs
<1>2. IInv /\ AskedInv => SpinsForSomething
  BY DEF IInv, AskedInv, EpInv, SpinsForSomething, Asked, Queuing, Early, CallPcs, Flag, DataEps
<1>3. QED BY <1>1, <1>2, AskedKept, Invariant, PTL DEF Spec

=============================================================================
