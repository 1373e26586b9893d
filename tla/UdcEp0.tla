-------------------------------- MODULE UdcEp0 --------------------------------
(***************************************************************************)
(* Endpoint 0 of the device controller driver: the requests of a host that *)
(* resets the bus, sets an address, reads descriptors and picks the        *)
(* configuration.  drivers/usb/gadget/comip_udc_otg.c with the setup       *)
(* functions of f_udl.c and f_abi.c.                                       *)
(*                                                                         *)
(* Everything the driver does here it does in the interrupt handler        *)
(* comip_udc_irq, which runs to its end.  The host and the controller go   *)
(* on between two interrupts, and one interrupt may find several events.   *)
(* UsbUdl has the two data endpoints.                                      *)
(*                                                                         *)
(* Two requests share the endpoint's queue.  ep0_req belongs to the        *)
(* driver: SETUP packets land in its buffer, and the requests the driver   *)
(* answers itself are answered from it.  dev_req belongs to the function   *)
(* and carries descriptors.  The queue is the linked list it is in the     *)
(* code, since the driver may add a request that is in it already.         *)
(***************************************************************************)
EXTENDS Integers

CONSTANTS
  Strings,      \* the function answers string descriptors (f_abi does, f_udl not)
  Asked,        \* bound: the kinds of requests the host makes
  MaxSetups,    \* bound: control transfers the host starts
  MaxResets,    \* bound: bus resets, the first one included
  MaxGivesUp    \* bound: transfers the host gives up

ASSUME Ep0Assumption ==
  Strings \in BOOLEAN /\ {MaxSetups, MaxResets, MaxGivesUp} \subseteq Nat

VARIABLES
  udc,    \* the driver's data
  core,   \* the controller
  host,   \* the host
  cut     \* history: a reset, or the host giving up, came upon a request under way

vars == <<udc, core, host, cut>>

(***************************************************************************)
(* What a host asks for.  "bad_status" is a GET_STATUS of a length other   *)
(* than two, "other" a request neither driver nor function knows, "out" one*)
(* of those with data for the device.                                      *)
(***************************************************************************)
Descriptors == {"device", "config", "string"}
Kinds == Descriptors \cup
         {"status", "bad_status", "address", "conf", "halt", "test", "other", "out"}
HasDataIn(k) == k \in Descriptors \cup {"status", "bad_status"}
\* The requests comip_handle_ep0 gives to comip_udc_do_request.
ForDriver == {"address", "halt", "test", "status", "bad_status"}

Reqs == {"ep0_req", "dev_req"}
NoReq == "none"

-----------------------------------------------------------------------------
(***************************************************************************)
(* ep->queue, a list_head in a ring with the requests.                     *)
(***************************************************************************)
Nodes == Reqs \cup {"head"}
SelfLoops == [n \in Nodes |-> n]

IsEmpty(list) == list.next["head"] = "head"
First(list) == list.next["head"]

list_add_tail(list, r) ==
  LET last == list.prev["head"]
  IN [next |-> [[list.next EXCEPT ![r] = "head"] EXCEPT ![last] = r],
      prev |-> [[list.prev EXCEPT !["head"] = r] EXCEPT ![r] = last]]

list_del_init(list, r) ==
  LET p == list.prev[r]
      n == list.next[r]
  IN [next |-> [[list.next EXCEPT ![p] = n] EXCEPT ![r] = r],
      prev |-> [[list.prev EXCEPT ![n] = p] EXCEPT ![r] = r]]

-----------------------------------------------------------------------------
(***************************************************************************)
(* The driver.  These operators take and return the pair                   *)
(* [u |-> driver, c |-> controller].                                       *)
(***************************************************************************)

\* comip_ep_in_start: the request becomes the IN endpoint's descriptor.
comip_ep_in_start(d, r) == [d EXCEPT !.c.in = r]

\* comip_ep_out_start, which does nothing for a request of length 0.
comip_ep_out_start(d) ==
  IF d.u.length = 0 THEN d ELSE [d EXCEPT !.c.out = TRUE]

\* dev->ep0_req->req.length = dev->eps[0].ep.maxpacket, and receive.
\* Faulty variant: the length is the last answer's.
RearmAsIs(d) == comip_ep_out_start(d)

Rearm(d) == comip_ep_out_start([d EXCEPT !.u.length = 64])

\* comip_ep_queue on endpoint 0, which ends by letting its interrupts through.
comip_ep_queue(d, r) ==
  LET started == IF ~IsEmpty(d.u.queue) THEN d
                 ELSE IF d.u.ep0state = "IN_DATA" THEN comip_ep_in_start(d, r)
                 ELSE Rearm(d)
  IN [started EXCEPT !.u.queue = list_add_tail(@, r), !.c.mask = TRUE]

\* comip_udc_do_request; the answer is empty but for GET_STATUS.
comip_udc_do_request(d, k) ==
  LET set == IF k = "address" THEN [d EXCEPT !.c.addr = 1] ELSE d
  IN IF k = "bad_status" THEN [d |-> d, ret |-> -1]
     ELSE [d |-> comip_ep_queue([set EXCEPT !.u.length = IF k = "status" THEN 2 ELSE 0,
                                            !.u.says.ep0_req = k],
                                "ep0_req"),
           ret |-> 0]

\* udl_setup, abi_setup.  SET_CONFIGURATION enables the two data endpoints.
Known(k) == k \in {"device", "config", "conf"} \/ (k = "string" /\ Strings)

setup(d, k) ==
  IF ~Known(k) THEN [d |-> d, ret |-> -1]
  ELSE LET set == IF k = "conf" THEN [d EXCEPT !.u.enabled = TRUE] ELSE d
           queued == comip_ep_queue([set EXCEPT !.u.says.dev_req = k], "dev_req")
       IN [d |-> [queued EXCEPT !.u.done = queued.u.enabled], ret |-> 0]

Stall(d) == Rearm([d EXCEPT !.c.stall = TRUE, !.u.ep0state = "IDLE"])

Answer(d, k) ==
  LET in == [d EXCEPT !.u.ep0state = IF k = "out" THEN "OUT_DATA" ELSE "IN_DATA"]
      done == IF k \in ForDriver THEN comip_udc_do_request(in, k) ELSE setup(in, k)
  IN IF done.ret < 0 THEN Stall(done.d)
     ELSE IF k = "conf" THEN [done.d EXCEPT !.c.data = done.d.u.enabled]
     ELSE done.d

\* comip_handle_ep0 in EP0_IDLE: i, o are the interrupts it has read and cleared.
\* Faulty variant: receives again also when the packet was a SETUP.
IdleReceives(d, i, o) ==
  LET got == IF i \/ "XFCOMPL" \in o THEN comip_ep_out_start(d) ELSE d
  IN IF "SETUP" \in o THEN Answer(got, got.c.buf) ELSE got

Idle(d, i, o) ==
  LET sent == IF i THEN comip_ep_out_start(d) ELSE d
      got == IF "XFCOMPL" \in o /\ ~d.c.sr THEN comip_ep_out_start(sent) ELSE sent
  IN IF "SETUP" \in o THEN Answer(got, got.c.buf) ELSE got

\* comip_handle_ep0 in EP0_IN_DATA_PHASE: the answer is out.
\* Faulty variant: the request is started once more before it is done.
SentAgain(d, i) ==
  LET r == First(d.u.queue)
      finished == IF IsEmpty(d.u.queue) THEN d
                  ELSE [comip_ep_in_start(d, r) EXCEPT !.u.queue = list_del_init(@, r)]
  IN IF ~i THEN d ELSE [Rearm(finished) EXCEPT !.u.ep0state = "IDLE"]

Sent(d, i) ==
  LET finished == IF IsEmpty(d.u.queue) THEN d
                  ELSE [d EXCEPT !.u.queue = list_del_init(@, First(d.u.queue))]
  IN IF ~i THEN d ELSE [Rearm(finished) EXCEPT !.u.ep0state = "IDLE"]

comip_handle_ep0(d) ==
  LET cleared == [d EXCEPT !.c.diepint = FALSE, !.c.doepint = {}]
  IN CASE d.u.ep0state = "IDLE" -> Idle(cleared, d.c.diepint, d.c.doepint)
       [] d.u.ep0state = "IN_DATA" -> Sent(cleared, d.c.diepint)

Reset(d) ==
  [d EXCEPT !.u.ep0state = "IDLE", !.c.addr = 0, !.c.mask = FALSE, !.c.data = FALSE]

\* EP0_IDLE and comip_udc_enum_done.
EnumDone(d) ==
  [comip_ep_out_start([d EXCEPT !.u.ep0state = "IDLE"])
     EXCEPT !.c.mask = TRUE, !.c.data = FALSE]

Ep0Pending(c) == c.diepint \/ c.doepint # {}

\* comip_udc_irq: reset, end of the enumeration, endpoint 0, in that order.
Handled(d) ==
  LET reset == IF "USBRST" \in d.c.gint THEN Reset(d) ELSE d
      enum == IF "ENUMDONE" \in d.c.gint THEN EnumDone(reset) ELSE reset
      ep0 == IF d.c.mask /\ Ep0Pending(d.c) THEN comip_handle_ep0(enum) ELSE enum
  IN [ep0 EXCEPT !.c.gint = {}]

comip_udc_irq ==
  /\ core.gint # {} \/ (core.mask /\ Ep0Pending(core))
  /\ LET d == Handled([u |-> udc, c |-> core])
     IN udc' = d.u /\ core' = d.c
  /\ UNCHANGED <<host, cut>>

-----------------------------------------------------------------------------
(***************************************************************************)
(* The host and the controller.                                            *)
(***************************************************************************)

\* A request the driver has in its queue, or a SETUP it has yet to look at.
UnderWay == ~IsEmpty(udc.queue) \/ "SETUP" \in core.doepint

\* The endpoints may or may not lose what they were armed with.
BusReset ==
  /\ host.resets < MaxResets
  /\ host' = [host EXCEPT !.resets = @ + 1, !.link = "reset", !.stage = "idle",
                          !.addr = 0, !.conf = FALSE]
  /\ \E keep \in BOOLEAN :
       core' = [core EXCEPT !.gint = @ \cup {"USBRST"},
                            !.in = IF keep THEN @ ELSE NoReq,
                            !.out = keep /\ @]
  /\ cut' = (cut \/ UnderWay)
  /\ UNCHANGED udc

\* The controller reports the speed.  The host then waits before it goes on.
SpeedKnown ==
  /\ host.link = "reset"
  /\ host' = [host EXCEPT !.link = "up"]
  /\ core' = [core EXCEPT !.gint = @ \cup {"ENUMDONE"}]
  /\ UNCHANGED <<udc, cut>>

\* A host configures a device after it has given it an address.
StartTransfer ==
  /\ host.link = "up" /\ host.stage = "idle" /\ core.gint = {}
  /\ host.setups < MaxSetups
  /\ \E k \in Asked \cap Kinds :
       /\ k = "conf" => host.addr = 1
       /\ host' = [host EXCEPT !.setups = @ + 1, !.kind = k, !.stage = "setup"]
  /\ UNCHANGED <<udc, core, cut>>

\* No answer: the host forgets the transfer.
GiveUp ==
  /\ host.stage # "idle" /\ host.gaveUp < MaxGivesUp
  /\ host' = [host EXCEPT !.gaveUp = @ + 1, !.stage = "idle"]
  /\ cut' = (cut \/ UnderWay)
  /\ UNCHANGED <<udc, core>>

At(stage) == host.link = "up" /\ host.stage = stage /\ core.addr = host.addr

\* The SETUP packet arrives in ep0_req's buffer.
Setup ==
  /\ At("setup") /\ core.out
  /\ core' = [core EXCEPT !.out = FALSE, !.buf = host.kind, !.sr = TRUE, !.stall = FALSE,
                          !.doepint = {"SETUP", "XFCOMPL"}]
  /\ host' = [host EXCEPT !.stage = IF HasDataIn(host.kind) THEN "data_in"
                                    ELSE IF host.kind = "out" THEN "data_out"
                                    ELSE "status_in"]
  /\ UNCHANGED <<udc, cut>>

\* The host takes what the IN endpoint has: data, or the status of a transfer
\* without data.  A completed SET_ADDRESS or SET_CONFIGURATION takes effect.
TakeIn ==
  /\ host.link = "up" /\ host.stage \in {"data_in", "status_in"}
  /\ core.in # NoReq /\ ~core.stall
  /\ core' = [core EXCEPT !.in = NoReq, !.diepint = TRUE]
  /\ host' = [host EXCEPT !.got = udc.says[core.in],
                          !.stage = IF @ = "data_in" THEN "status_out" ELSE "idle",
                          !.addr = IF host.kind = "address" THEN 1 ELSE @,
                          !.conf = @ \/ host.kind = "conf"]
  /\ UNCHANGED <<udc, cut>>

\* Data for the device, or the status of a transfer with data from it.
GiveOut ==
  /\ At(host.stage) /\ host.stage \in {"data_out", "status_out"} /\ core.out
  /\ core' = [core EXCEPT !.out = FALSE, !.sr = FALSE, !.doepint = @ \cup {"XFCOMPL"}]
  /\ host' = [host EXCEPT !.stage = IF @ = "data_out" THEN "status_in" ELSE "idle"]
  /\ UNCHANGED <<udc, cut>>

\* A stalled IN endpoint ends the transfer.
TakeStall ==
  /\ At(host.stage) /\ host.stage \in {"data_in", "status_in"} /\ core.stall
  /\ host' = [host EXCEPT !.stage = "idle"]
  /\ UNCHANGED <<udc, core, cut>>

-----------------------------------------------------------------------------
(***************************************************************************)
(* comip_udc_reqs_init and comip_udc_enable; the pull-up is on.            *)
(***************************************************************************)
Init ==
  /\ udc = [ep0state |-> "IDLE", queue |-> [next |-> SelfLoops, prev |-> SelfLoops],
            length |-> 64, says |-> [r \in Reqs |-> "nothing"],
            enabled |-> FALSE, done |-> FALSE]
  /\ core = [in |-> NoReq, out |-> FALSE, diepint |-> FALSE, doepint |-> {},
             sr |-> FALSE, buf |-> "nothing", stall |-> FALSE, addr |-> 0,
             mask |-> FALSE, data |-> FALSE, gint |-> {}]
  /\ host = [link |-> "off", stage |-> "idle", kind |-> "other", got |-> "nothing",
             addr |-> 0, conf |-> FALSE, setups |-> 0, resets |-> 0, gaveUp |-> 0]
  /\ cut = FALSE

HostGoesOn == SpeedKnown \/ Setup \/ TakeIn \/ GiveOut \/ TakeStall

Next == comip_udc_irq \/ HostGoesOn \/ BusReset \/ StartTransfer \/ GiveUp

Spec == Init /\ [][Next]_vars

(***************************************************************************)
(* An interrupt that stays pending is taken, and the host finishes what it *)
(* has started as long as the device lets it.                              *)
(***************************************************************************)
FairSpec ==
  Spec /\ WF_vars(comip_udc_irq) /\ WF_vars(SpeedKnown) /\ WF_vars(Setup)
       /\ WF_vars(TakeIn) /\ WF_vars(GiveOut) /\ WF_vars(TakeStall)

-----------------------------------------------------------------------------
\* Also: the phase EP0_OUT_DATA_PHASE does not outlive the interrupt that
\* enters it, and the driver's length is the packet size or a short answer.
TypeOK ==
  /\ udc \in [ep0state : {"IDLE", "IN_DATA"},
              queue : [next : [Nodes -> Nodes], prev : [Nodes -> Nodes]],
              length : {0, 2, 64}, says : [Reqs -> Kinds \cup {"nothing"}],
              enabled : BOOLEAN, done : BOOLEAN]
  /\ core \in [in : Reqs \cup {NoReq}, out : BOOLEAN, diepint : BOOLEAN,
               doepint : SUBSET {"SETUP", "XFCOMPL"}, sr : BOOLEAN,
               buf : Kinds \cup {"nothing"}, stall : BOOLEAN, addr : 0..1,
               mask : BOOLEAN, data : BOOLEAN, gint : SUBSET {"USBRST", "ENUMDONE"}]
  /\ host \in [link : {"off", "reset", "up"},
               stage : {"idle", "setup", "data_in", "data_out", "status_in", "status_out"},
               kind : Kinds, got : Kinds \cup {"nothing"}, addr : 0..1, conf : BOOLEAN,
               setups : 0..MaxSetups, resets : 0..MaxResets, gaveUp : 0..MaxGivesUp]
  /\ cut \in BOOLEAN

\* What follows is claimed of behaviours without such a cut: no reset and no
\* transfer given up while a request is queued or a SETUP packet not yet looked at.
\* comip_udc_reinit leaves the queue and pending interrupts as they are, so after a
\* cut the device may answer with what it was asked before, or not at all.

\* Without a cut, what the host receives answers the request it has made, never an
\* earlier one: the driver keeps one request per endpoint and answers from two
\* buffers that outlive resets and transfers the host gave up.
AnswersWhatIsAsked == ~cut /\ host.stage = "status_out" => host.got = host.kind

\* Without a cut, the buffer SETUP packets land in is not on its way to the host:
\* ep0_req is never armed in both directions at once.
OneUseOfTheBuffer == ~cut => ~(core.out /\ core.in = "ep0_req")

\* Once the host has configured the device, whatever it asks next and however
\* often it reset the bus before, without a cut, the function has been told and the
\* interrupts of the data endpoints are let through.
ConfiguredIsReady ==
  ~cut /\ host.conf /\ host.link = "up" => udc.done /\ core.data

\* Device and host agree on the address between two transfers, as long as no
\* transfer was given up at all (a SET_ADDRESS given up after it was obeyed leaves
\* the device at the new address) and no reset cut one.
AddressesAgree ==
  ~cut /\ host.gaveUp = 0 /\ host.link = "up" /\ host.stage = "idle" /\ core.gint = {}
    => core.addr = host.addr

\* The three together: buffer, configuration and address.  None of them speaks of
\* what follows a cut, nor the address of what follows a transfer given up.
Safety == TypeOK /\ OneUseOfTheBuffer /\ ConfiguredIsReady /\ AddressesAgree

\* Every transfer ends, with an answer or a stall, and after every bus reset the
\* next transfer does too, unless a reset or a new transfer came upon a request
\* in the queue: comip_udc_reinit leaves the queue as it is.
TransfersEnd == (host.stage # "idle") ~> (host.stage = "idle" \/ cut)
=============================================================================
