---------------------------- MODULE UdcEp0Proofs ----------------------------
(***************************************************************************)
(* Theorems about UdcEp0: the host gets the answer to what it has asked,   *)
(* and driver and host agree on address and configuration, unless a reset  *)
(* or a new transfer came upon a request under way.                        *)
(***************************************************************************)
EXTENDS UdcEp0, TLAPS

-----------------------------------------------------------------------------
(***************************************************************************)
(* The inductive invariant.  A control transfer goes through four phases   *)
(* in the driver and the controller; nothing is said of one that was cut   *)
(* short, but for the types.                                               *)
(***************************************************************************)
\* The queue with nothing but request r in it.
Ring(r) == [SelfLoops EXCEPT ![r] = "head", !["head"] = r]
Holds(r) == udc.queue.next = Ring(r) /\ udc.queue.prev = Ring(r)
Empty == udc.queue.next = SelfLoops /\ udc.queue.prev = SelfLoops

\* Nothing is under way, but for a packet of data or a status from the host.
Quiet ==
  /\ udc.ep0state = "IDLE" /\ Empty
  /\ core.in = NoReq /\ ~core.diepint /\ "SETUP" \notin core.doepint
  /\ host.stage = "status_out" => host.got = host.kind

\* The driver has still to look at a SETUP packet.
SetupCame ==
  /\ udc.ep0state = "IDLE" /\ Empty
  /\ core.in = NoReq /\ ~core.diepint /\ core.doepint = {"SETUP", "XFCOMPL"}
  /\ ~core.out /\ ~core.stall /\ core.sr /\ core.buf = host.kind /\ core.gint = {}
  /\ host.link = "up"
  /\ host.stage = IF HasDataIn(host.kind) THEN "data_in"
                  ELSE IF host.kind = "out" THEN "data_out" ELSE "status_in"

\* Request r is in the queue and on the endpoint, and answers what was asked.
Answering(r) ==
  /\ udc.ep0state = "IN_DATA" /\ Holds(r)
  /\ core.in = r /\ ~core.diepint /\ core.doepint = {} /\ ~core.out /\ core.gint = {}
  /\ ~core.stall /\ udc.says[r] = host.kind
  /\ host.link = "up" /\ host.stage = IF HasDataIn(host.kind) THEN "data_in" ELSE "status_in"
  /\ host.kind = "conf" => udc.enabled /\ udc.done /\ core.data
  /\ host.kind = "address" => core.addr = 1

\* The host has taken it, and the driver has still to see that.
Taken(r) ==
  /\ udc.ep0state = "IN_DATA" /\ Holds(r)
  /\ core.in = NoReq /\ core.diepint /\ core.doepint = {} /\ ~core.out /\ core.gint = {}
  /\ host.link = "up" /\ host.stage \in {"idle", "setup", "status_out"}
  /\ host.stage = "status_out" => host.got = host.kind

PhaseInv == Quiet \/ SetupCame \/ \E r \in Reqs : Answering(r) \/ Taken(r)

\* Both have the same address, but for a reset the driver has not seen, and a SET_ADDRESS
\* that the host has not seen answered.
AddressInv ==
  /\ "USBRST" \in core.gint => host.addr = 0
  /\ "USBRST" \notin core.gint =>
       \/ core.addr = host.addr
       \/ host.kind = "address" /\ core.addr = 1 /\ udc.ep0state = "IN_DATA" /\ ~core.diepint
  /\ host.stage # "idle" => core.gint = {}

\* The host has configured the device in the session that it thinks it is in.
ConfInv == host.conf => core.gint = {} /\ udc.enabled /\ udc.done /\ core.data

\* Before the bus is up nothing is asked, and nothing is configured.
LinkInv == host.link # "up" => host.stage = "idle" /\ ~host.conf

IInv == TypeOK /\ (~cut => PhaseInv /\ AddressInv /\ ConfInv /\ LinkInv)

-----------------------------------------------------------------------------
(***************************************************************************)
(* Types.  The driver's operators take and return its data together with   *)
(* the controller's.                                                       *)
(***************************************************************************)
List == [next : [Nodes -> Nodes], prev : [Nodes -> Nodes]]
Udc == [ep0state : {"IDLE", "IN_DATA", "OUT_DATA"}, queue : List, length : {0, 2, 64},
        says : [Reqs -> Kinds \cup {"nothing"}], enabled : BOOLEAN, done : BOOLEAN]
Core == [in : Reqs \cup {NoReq}, out : BOOLEAN, diepint : BOOLEAN,
         doepint : SUBSET {"SETUP", "XFCOMPL"}, sr : BOOLEAN, buf : Kinds \cup {"nothing"},
         stall : BOOLEAN, addr : 0..1, mask : BOOLEAN, data : BOOLEAN,
         gint : SUBSET {"USBRST", "ENUMDONE"}]
Dev == [u : Udc, c : Core]

\* The fields that arming an endpoint leaves alone.
SameIrq(c, b) ==
  /\ c.diepint = b.diepint /\ c.doepint = b.doepint /\ c.gint = b.gint
  /\ c.buf = b.buf /\ c.sr = b.sr
SameCore(c, b) ==
  SameIrq(c, b) /\ c.stall = b.stall /\ c.addr = b.addr /\ c.mask = b.mask /\ c.data = b.data
SameUdc(u, v) ==
  /\ u.ep0state = v.ep0state /\ u.queue = v.queue /\ u.says = v.says
  /\ u.enabled = v.enabled /\ u.done = v.done

-----------------------------------------------------------------------------
(***************************************************************************)
(* The queue.                                                              *)
(***************************************************************************)
\* A ring of one request.
LEMMA RingIs ==
  ASSUME NEW r \in Reqs
  PROVE  /\ Ring(r) \in [Nodes -> Nodes]
         /\ Ring(r)["head"] = r /\ Ring(r)[r] = "head" /\ r # "head"
         /\ SelfLoops \in [Nodes -> Nodes] /\ \A n \in Nodes : SelfLoops[n] = n
BY DEF Ring, SelfLoops, Nodes, Reqs

\* A queue to which a request is added stays a linked list, and is a ring of one if it was
\* empty.
LEMMA AddIs ==
  ASSUME NEW list \in List, NEW r \in Reqs
  PROVE  /\ list_add_tail(list, r) \in List
         /\ list.next = SelfLoops /\ list.prev = SelfLoops =>
              list_add_tail(list, r).next = Ring(r) /\ list_add_tail(list, r).prev = Ring(r)
<1> DEFINE last == list.prev["head"]
<1>1. last \in Nodes /\ r \in Nodes /\ "head" \in Nodes
  BY DEF List, Nodes
<1>2. list_add_tail(list, r) \in List
  BY <1>1 DEF list_add_tail, List
<1>3. ASSUME list.next = SelfLoops, list.prev = SelfLoops
      PROVE  list_add_tail(list, r).next = Ring(r) /\ list_add_tail(list, r).prev = Ring(r)
  <2>1. last = "head"
    BY <1>3 DEF SelfLoops, Nodes
  <2>2. r # "head"
    BY DEF Reqs
  <2>3. [[SelfLoops EXCEPT ![r] = "head"] EXCEPT !["head"] = r] = Ring(r)
    BY DEF Ring
  <2>4. [[SelfLoops EXCEPT !["head"] = r] EXCEPT ![r] = "head"] = Ring(r)
    BY <2>2, <1>1 DEF Ring, SelfLoops
  <2>5. QED
    BY <1>3, <2>1, <2>3, <2>4 DEF list_add_tail
<1>4. QED
  BY <1>2, <1>3

\* A queue from which a request is taken stays one, and is empty if it held no other.
LEMMA DelIs ==
  ASSUME NEW list \in List, NEW r \in Reqs
  PROVE  /\ list_del_init(list, r) \in List
         /\ list.next = Ring(r) /\ list.prev = Ring(r) =>
              list_del_init(list, r).next = SelfLoops /\ list_del_init(list, r).prev = SelfLoops
<1>1. list.next[r] \in Nodes /\ list.prev[r] \in Nodes /\ r \in Nodes
  BY DEF List, Nodes
<1>2. list_del_init(list, r) \in List
  BY <1>1 DEF list_del_init, List
<1>3. ASSUME list.next = Ring(r), list.prev = Ring(r)
      PROVE  /\ list_del_init(list, r).next = SelfLoops
             /\ list_del_init(list, r).prev = SelfLoops
  <2>1. list.next[r] = "head" /\ list.prev[r] = "head"
    BY <1>3, RingIs
  <2>2. [[Ring(r) EXCEPT !["head"] = "head"] EXCEPT ![r] = r] = SelfLoops
    BY <1>1 DEF Ring, SelfLoops, Nodes, Reqs
  <2>3. QED
    BY <1>3, <2>1, <2>2 DEF list_del_init
<1>4. QED
  BY <1>2, <1>3

-----------------------------------------------------------------------------
(***************************************************************************)
(* Arming endpoint 0.                                                      *)
(***************************************************************************)
\* A request on the IN endpoint.
LEMMA InStartIs ==
  ASSUME NEW d \in Dev, NEW r \in Reqs
  PROVE  LET e == comip_ep_in_start(d, r) IN
         /\ e \in Dev /\ e.u = d.u
         /\ SameCore(e.c, d.c) /\ e.c.in = r /\ e.c.out = d.c.out
<1>1. d.c \in Core /\ d.u \in Udc
  BY DEF Dev
<1> DEFINE f == [d.c EXCEPT !.in = r]
<1>2. f \in Core
  BY <1>1 DEF Core
<1>3. comip_ep_in_start(d, r) = [d EXCEPT !.c = f]
  BY DEF comip_ep_in_start
<1>4. SameCore(f, d.c) /\ f.in = r /\ f.out = d.c.out
  BY <1>1 DEF Core, SameCore, SameIrq
<1>5. QED
  <2> HIDE DEF f
  <2>1. QED
    BY <1>1, <1>2, <1>3, <1>4 DEF Dev

\* The OUT endpoint receives, unless the length is 0.
LEMMA OutStartIs ==
  ASSUME NEW d \in Dev
  PROVE  LET e == comip_ep_out_start(d) IN
         /\ e \in Dev /\ e.u = d.u
         /\ SameCore(e.c, d.c) /\ e.c.in = d.c.in
<1>1. d.c \in Core /\ d.u \in Udc
  BY DEF Dev
<1>2. ASSUME NEW b \in BOOLEAN
      PROVE  [d.c EXCEPT !.out = b] \in Core
  BY <1>1 DEF Core
<1> DEFINE f == [d.c EXCEPT !.out = TRUE]
<1>3. f \in Core
  BY <1>2
<1>4. comip_ep_out_start(d) = IF d.u.length = 0 THEN d ELSE [d EXCEPT !.c = f]
  BY DEF comip_ep_out_start
<1>5. SameCore(f, d.c) /\ f.in = d.c.in
  BY <1>1 DEF Core, SameCore, SameIrq
<1>6. QED
  <2> HIDE DEF f
  <2>1. CASE d.u.length = 0
    BY <1>4, <2>1 DEF SameCore, SameIrq
  <2>2. CASE d.u.length # 0
    BY <1>1, <1>3, <1>4, <1>5, <2>2 DEF Dev
  <2>3. QED
    BY <2>1, <2>2

\* The driver receives with the length of a packet.
LEMMA RearmIs ==
  ASSUME NEW d \in Dev
  PROVE  LET e == Rearm(d) IN
         /\ e \in Dev /\ SameUdc(e.u, d.u)
         /\ SameCore(e.c, d.c) /\ e.c.in = d.c.in
<1> DEFINE v == [d.u EXCEPT !.length = 64]
<1> DEFINE f == [d EXCEPT !.u = v]
<1>1. d.u \in Udc /\ d.c \in Core
  BY DEF Dev
<1>2. v \in Udc /\ SameUdc(v, d.u)
  <2>1. ASSUME NEW n \in {0, 2, 64} PROVE [d.u EXCEPT !.length = n] \in Udc
    BY <1>1 DEF Udc
  <2>2. v \in Udc
    BY <2>1
  <2>3. QED
    BY <1>1, <2>2 DEF Udc, SameUdc
<1>3. Rearm(d) = comip_ep_out_start(f)
  BY DEF Rearm
<1>4. f \in Dev /\ f.u = v /\ f.c = d.c
  <2> HIDE DEF v
  <2>1. QED
    BY <1>1, <1>2 DEF Dev
<1>5. QED
  <2> HIDE DEF f, v
  <2>1. QED
    BY <1>2, <1>3, <1>4, OutStartIs

\* A request is queued behind others, and if there are none it is armed.
LEMMA QueueIs ==
  ASSUME NEW d \in Dev, NEW r \in Reqs
  PROVE  LET e == comip_ep_queue(d, r) IN
         /\ e \in Dev /\ e.u.ep0state = d.u.ep0state /\ e.u.says = d.u.says
         /\ e.u.enabled = d.u.enabled /\ e.u.done = d.u.done
         /\ SameIrq(e.c, d.c) /\ e.c.stall = d.c.stall /\ e.c.addr = d.c.addr
         /\ e.c.data = d.c.data
         /\ /\ d.u.queue.next = SelfLoops /\ d.u.queue.prev = SelfLoops
            /\ d.u.ep0state = "IN_DATA"
            =>
              /\ e.u.queue.next = Ring(r) /\ e.u.queue.prev = Ring(r)
              /\ e.c.in = r /\ e.c.out = d.c.out
<1> DEFINE s == IF ~IsEmpty(d.u.queue) THEN d
                ELSE IF d.u.ep0state = "IN_DATA" THEN comip_ep_in_start(d, r)
                ELSE Rearm(d)
<1>1. /\ s \in Dev /\ SameUdc(s.u, d.u) /\ SameCore(s.c, d.c)
      /\ IsEmpty(d.u.queue) /\ d.u.ep0state = "IN_DATA" => s.c.in = r /\ s.c.out = d.c.out
  BY InStartIs, RearmIs DEF SameUdc, SameCore, SameIrq
<1> DEFINE q == list_add_tail(s.u.queue, r)
<1> DEFINE v == [s.u EXCEPT !.queue = q]
<1> DEFINE w == [s.c EXCEPT !.mask = TRUE]
<1>2. comip_ep_queue(d, r) = [[s EXCEPT !.u = v] EXCEPT !.c = w]
  BY DEF comip_ep_queue
<1> HIDE DEF s
<1>3. s.u \in Udc /\ s.c \in Core
  BY <1>1 DEF Dev
<1>4. /\ q \in List
      /\ s.u.queue.next = SelfLoops /\ s.u.queue.prev = SelfLoops =>
           q.next = Ring(r) /\ q.prev = Ring(r)
  BY <1>3, AddIs DEF Udc
<1>5. /\ v \in Udc /\ v.ep0state = s.u.ep0state /\ v.says = s.u.says
      /\ v.enabled = s.u.enabled /\ v.done = s.u.done /\ v.queue = q
  <2> HIDE DEF q
  <2>1. QED
    BY <1>3, <1>4 DEF Udc
<1>6. /\ w \in Core /\ SameIrq(w, s.c) /\ w.stall = s.c.stall /\ w.addr = s.c.addr
      /\ w.data = s.c.data /\ w.in = s.c.in /\ w.out = s.c.out
  <2>1. ASSUME NEW b \in BOOLEAN PROVE [s.c EXCEPT !.mask = b] \in Core
    BY <1>3 DEF Core
  <2>2. w \in Core
    BY <2>1
  <2>3. QED
    BY <1>3, <2>2 DEF Core, SameIrq
<1> HIDE DEF v, w
<1>7. /\ comip_ep_queue(d, r) \in Dev
      /\ comip_ep_queue(d, r).u = v /\ comip_ep_queue(d, r).c = w
  BY <1>1, <1>2, <1>5, <1>6 DEF Dev
<1>8. d.u.queue.next = SelfLoops => IsEmpty(d.u.queue)
  BY RingIs DEF IsEmpty, SelfLoops, Nodes
<1>9. QED
  BY <1>1, <1>4, <1>5, <1>6, <1>7, <1>8 DEF SameUdc, SameCore, SameIrq

-----------------------------------------------------------------------------
(***************************************************************************)
(* The answer to a SETUP packet.                                           *)
(***************************************************************************)
Kind == Kinds \cup {"nothing"}
\* Of one side's data, as Empty and Holds.
EmptyIn(u) == u.queue.next = SelfLoops /\ u.queue.prev = SelfLoops
Only(u, r) == u.queue.next = Ring(r) /\ u.queue.prev = Ring(r)

\* What was there for the function is there still.
StillReady(e, d) == d.u.enabled /\ d.u.done /\ d.c.data => e.u.enabled /\ e.u.done /\ e.c.data

\* The answer to k is on its way, if the queue was empty.
Replies(e, d, k) ==
  \E r \in Reqs :
    /\ Only(e.u, r) /\ e.u.says[r] = k
    /\ e.c.in = r /\ e.c.out = d.c.out /\ e.c.stall = d.c.stall
    /\ e.c.addr = IF k = "address" THEN 1 ELSE d.c.addr

\* A driver that is about to answer.
Free(d) == EmptyIn(d.u) /\ d.u.ep0state = "IN_DATA"

\* Queueing with a new text in one of the two requests.
LEMMA SayIs ==
  ASSUME NEW d \in Dev, NEW r \in Reqs, NEW k \in Kind
  PROVE  LET f == [d EXCEPT !.u.says[r] = k] IN
         /\ f \in Dev /\ f.u.says[r] = k /\ f.c = d.c
         /\ f.u.queue = d.u.queue /\ f.u.ep0state = d.u.ep0state
         /\ f.u.enabled = d.u.enabled /\ f.u.done = d.u.done
<1> DEFINE t == [d.u.says EXCEPT ![r] = k]
<1> DEFINE v == [d.u EXCEPT !.says = t]
<1>1. d.u \in Udc /\ d.c \in Core /\ d.u.says \in [Reqs -> Kind]
  BY DEF Dev, Udc, Kind
<1>2. t \in [Reqs -> Kind] /\ t[r] = k
  BY <1>1
<1>3. /\ v \in Udc /\ v.says = t /\ v.queue = d.u.queue /\ v.ep0state = d.u.ep0state
      /\ v.enabled = d.u.enabled /\ v.done = d.u.done
  <2> HIDE DEF t
  <2>1. QED
    BY <1>1, <1>2 DEF Udc, Kind
<1>4. [d EXCEPT !.u.says[r] = k] = [d EXCEPT !.u = v]
  OBVIOUS
<1>5. QED
  <2> HIDE DEF v
  <2>1. QED
    BY <1>1, <1>2, <1>3, <1>4 DEF Dev

\* The length of the driver's own answer.
WithLength(d, n) == [d EXCEPT !.u.length = n]

\* It is all that changes.
LEMMA LengthIs ==
  ASSUME NEW d \in Dev, NEW n \in {0, 2, 64}
  PROVE  LET f == WithLength(d, n) IN
         /\ f \in Dev /\ f.c = d.c /\ SameUdc(f.u, d.u)
<1> DEFINE v == [d.u EXCEPT !.length = n]
<1>1. d.u \in Udc /\ d.c \in Core
  BY DEF Dev
<1>2. v \in Udc /\ SameUdc(v, d.u)
  BY <1>1 DEF Udc, SameUdc
<1>3. WithLength(d, n) = [d EXCEPT !.u = v]
  BY DEF WithLength
<1>4. QED
  <2> HIDE DEF v
  <2>1. QED
    BY <1>1, <1>2, <1>3 DEF Dev

\* The address.
WithAddr(d, n) == [d EXCEPT !.c.addr = n]

\* It is all that changes.
LEMMA AddrIs ==
  ASSUME NEW d \in Dev, NEW n \in 0..1
  PROVE  LET f == WithAddr(d, n) IN
         /\ f \in Dev /\ f.u = d.u /\ f.c.addr = n /\ f.c.in = d.c.in /\ f.c.out = d.c.out
         /\ SameIrq(f.c, d.c) /\ f.c.stall = d.c.stall /\ f.c.data = d.c.data
         /\ f.c.mask = d.c.mask
<1> DEFINE w == [d.c EXCEPT !.addr = n]
<1>1. d.u \in Udc /\ d.c \in Core
  BY DEF Dev
<1>2. /\ w \in Core /\ w.addr = n /\ w.in = d.c.in /\ w.out = d.c.out
      /\ SameIrq(w, d.c) /\ w.stall = d.c.stall /\ w.data = d.c.data /\ w.mask = d.c.mask
  BY <1>1 DEF Core, SameIrq
<1>3. WithAddr(d, n) = [d EXCEPT !.c = w]
  BY DEF WithAddr
<1>4. QED
  <2> HIDE DEF w
  <2>1. QED
    BY <1>1, <1>2, <1>3 DEF Dev

\* What the driver answers itself: all but a GET_STATUS of a wrong length.
LEMMA DoRequestIs ==
  ASSUME NEW d \in Dev, NEW k \in ForDriver
  PROVE  LET e == comip_udc_do_request(d, k) IN
         \/ k = "bad_status" /\ e.ret = -1 /\ e.d = d
         \/ /\ k # "bad_status" /\ e.ret = 0 /\ e.d \in Dev /\ e.d.u.ep0state = d.u.ep0state
            /\ SameIrq(e.d.c, d.c) /\ StillReady(e.d, d)
            /\ Free(d) => Replies(e.d, d, k)
<1> DEFINE set == IF k = "address" THEN WithAddr(d, 1) ELSE d
<1> DEFINE n == IF k = "status" THEN 2 ELSE 0
<1> DEFINE f == WithLength(set, n)
<1> DEFINE g == [f EXCEPT !.u.says["ep0_req"] = k]
<1> DEFINE q == comip_ep_queue(g, "ep0_req")
<1>1. "ep0_req" \in Reqs /\ k \in Kind /\ n \in {0, 2, 64} /\ 1 \in 0..1
  BY DEF Reqs, Kind, Kinds, ForDriver
<1>2. CASE k = "bad_status"
  BY <1>2 DEF comip_udc_do_request
<1>3. CASE k # "bad_status"
  <2>1. comip_udc_do_request(d, k) = [d |-> q, ret |-> 0]
    BY <1>3 DEF comip_udc_do_request, WithAddr, WithLength
  <2>2. /\ set \in Dev /\ set.u = d.u /\ set.c.addr = IF k = "address" THEN 1 ELSE d.c.addr
        /\ set.c.in = d.c.in /\ set.c.out = d.c.out /\ SameIrq(set.c, d.c)
        /\ set.c.stall = d.c.stall /\ set.c.data = d.c.data
    <3>1. CASE k = "address"
      BY <1>1, <3>1, AddrIs
    <3>2. CASE k # "address"
      BY <3>2 DEF SameIrq
    <3>3. QED
      BY <3>1, <3>2
  <2>3. f \in Dev /\ f.c = set.c /\ SameUdc(f.u, d.u)
    <3> HIDE DEF set, n
    <3>1. QED
      BY <1>1, <2>2, LengthIs DEF SameUdc
  <2>4. /\ g \in Dev /\ g.u.says["ep0_req"] = k /\ g.c = f.c
        /\ g.u.queue = f.u.queue /\ g.u.ep0state = f.u.ep0state
        /\ g.u.enabled = f.u.enabled /\ g.u.done = f.u.done
    <3> HIDE DEF f
    <3>1. QED
      BY <1>1, <2>3, SayIs
  <2>5. /\ q \in Dev /\ q.u.ep0state = g.u.ep0state /\ q.u.says = g.u.says
        /\ q.u.enabled = g.u.enabled /\ q.u.done = g.u.done
        /\ SameIrq(q.c, g.c) /\ q.c.stall = g.c.stall /\ q.c.addr = g.c.addr
        /\ q.c.data = g.c.data
        /\ EmptyIn(g.u) /\ g.u.ep0state = "IN_DATA" =>
              /\ Only(q.u, "ep0_req") /\ q.c.in = "ep0_req" /\ q.c.out = g.c.out
    <3> HIDE DEF g
    <3>1. QED
      BY <1>1, <2>4, QueueIs DEF EmptyIn, Only
  <2> HIDE DEF set, f, g, q
  <2>6. SameIrq(q.c, d.c) /\ StillReady(q, d) /\ q.u.ep0state = d.u.ep0state
    BY <2>2, <2>3, <2>4, <2>5 DEF SameIrq, StillReady, SameUdc
  <2>7. Free(d) => Replies(q, d, k)
    BY <1>1, <2>2, <2>3, <2>4, <2>5 DEF Free, EmptyIn, Replies, SameUdc
  <2>8. QED
    BY <1>3, <2>1, <2>5, <2>6, <2>7
<1>4. QED
  BY <1>2, <1>3

\* What the function answers: its descriptors, and SET_CONFIGURATION, which enables the
\* data endpoints.
LEMMA SetupIs ==
  ASSUME NEW d \in Dev, NEW k \in Kind
  PROVE  LET e == setup(d, k) IN
         \/ ~Known(k) /\ e.ret = -1 /\ e.d = d
         \/ /\ Known(k) /\ e.ret = 0 /\ e.d \in Dev /\ e.d.u.ep0state = d.u.ep0state
            /\ SameIrq(e.d.c, d.c) /\ StillReady(e.d, d)
            /\ k = "conf" => e.d.u.enabled /\ e.d.u.done
            /\ Free(d) /\ k # "address" => Replies(e.d, d, k)
<1> DEFINE v == [d.u EXCEPT !.enabled = TRUE]
<1> DEFINE set == IF k = "conf" THEN [d EXCEPT !.u = v] ELSE d
<1> DEFINE g == [set EXCEPT !.u.says["dev_req"] = k]
<1> DEFINE q == comip_ep_queue(g, "dev_req")
<1> DEFINE w == [q.u EXCEPT !.done = q.u.enabled]
<1> DEFINE f == [q EXCEPT !.u = w]
<1>1. "dev_req" \in Reqs /\ d.u \in Udc /\ d.c \in Core
  BY DEF Reqs, Dev
<1>2. CASE ~Known(k)
  BY <1>2 DEF setup
<1>3. CASE Known(k)
  <2>1. setup(d, k) = [d |-> f, ret |-> 0]
    BY <1>3 DEF setup
  <2>2. /\ v \in Udc /\ v.enabled /\ v.queue = d.u.queue /\ v.ep0state = d.u.ep0state
        /\ v.done = d.u.done
    <3>1. ASSUME NEW b \in BOOLEAN PROVE [d.u EXCEPT !.enabled = b] \in Udc
      BY <1>1 DEF Udc
    <3>2. v \in Udc
      BY <3>1
    <3>3. QED
      BY <1>1, <3>2 DEF Udc
  <2>3. /\ set \in Dev /\ set.c = d.c
        /\ set.u.queue = d.u.queue /\ set.u.ep0state = d.u.ep0state /\ set.u.done = d.u.done
        /\ d.u.enabled \/ k = "conf" => set.u.enabled
    <3> HIDE DEF v
    <3>1. CASE k = "conf"
      BY <1>1, <2>2, <3>1 DEF Dev
    <3>2. CASE k # "conf"
      BY <3>2
    <3>3. QED
      BY <3>1, <3>2
  <2>4. /\ g \in Dev /\ g.u.says["dev_req"] = k /\ g.c = set.c
        /\ g.u.queue = set.u.queue /\ g.u.ep0state = set.u.ep0state
        /\ g.u.enabled = set.u.enabled /\ g.u.done = set.u.done
    <3> HIDE DEF set
    <3>1. QED
      BY <1>1, <2>3, SayIs
  <2>5. /\ q \in Dev /\ q.u.ep0state = g.u.ep0state /\ q.u.says = g.u.says
        /\ q.u.enabled = g.u.enabled /\ q.u.done = g.u.done
        /\ SameIrq(q.c, g.c) /\ q.c.stall = g.c.stall /\ q.c.addr = g.c.addr
        /\ q.c.data = g.c.data
        /\ EmptyIn(g.u) /\ g.u.ep0state = "IN_DATA" =>
              /\ Only(q.u, "dev_req") /\ q.c.in = "dev_req" /\ q.c.out = g.c.out
    <3> HIDE DEF g
    <3>1. QED
      BY <1>1, <2>4, QueueIs DEF EmptyIn, Only
  <2>6. /\ w \in Udc /\ w.done = q.u.enabled /\ w.enabled = q.u.enabled
        /\ w.queue = q.u.queue /\ w.ep0state = q.u.ep0state /\ w.says = q.u.says
    <3> HIDE DEF q
    <3>1. q.u \in Udc /\ q.u.enabled \in BOOLEAN
      BY <2>5 DEF Dev, Udc
    <3>2. QED
      BY <3>1 DEF Udc
  <2>7. f \in Dev /\ f.u = w /\ f.c = q.c
    <3> HIDE DEF w, q
    <3>1. QED
      BY <2>5, <2>6 DEF Dev
  <2> HIDE DEF set, g, q, w, f
  <2>8. /\ SameIrq(f.c, d.c) /\ StillReady(f, d) /\ f.u.ep0state = d.u.ep0state
        /\ k = "conf" => f.u.enabled /\ f.u.done
    BY <2>3, <2>4, <2>5, <2>6, <2>7 DEF SameIrq, StillReady
  <2>9. Free(d) /\ k # "address" => Replies(f, d, k)
    BY <1>1, <2>3, <2>4, <2>5, <2>6, <2>7 DEF Free, EmptyIn, Only, Replies
  <2>10. QED
    BY <1>3, <2>1, <2>7, <2>8, <2>9
<1>4. QED
  BY <1>2, <1>3

\* A request is refused.
LEMMA StallIs ==
  ASSUME NEW d \in Dev
  PROVE  LET e == Stall(d) IN
         /\ e \in Dev /\ e.u.ep0state = "IDLE" /\ e.u.queue = d.u.queue /\ e.u.says = d.u.says
         /\ e.u.enabled = d.u.enabled /\ e.u.done = d.u.done
         /\ SameIrq(e.c, d.c) /\ e.c.addr = d.c.addr /\ e.c.data = d.c.data /\ e.c.in = d.c.in
<1> DEFINE w == [d.c EXCEPT !.stall = TRUE]
<1> DEFINE v == [d.u EXCEPT !.ep0state = "IDLE"]
<1> DEFINE f == [[d EXCEPT !.c = w] EXCEPT !.u = v]
<1>1. d.u \in Udc /\ d.c \in Core
  BY DEF Dev
<1>2. /\ w \in Core /\ SameIrq(w, d.c) /\ w.addr = d.c.addr /\ w.data = d.c.data
      /\ w.in = d.c.in
  <2>1. ASSUME NEW b \in BOOLEAN PROVE [d.c EXCEPT !.stall = b] \in Core
    BY <1>1 DEF Core
  <2>2. w \in Core
    BY <2>1
  <2>3. QED
    BY <1>1, <2>2 DEF Core, SameIrq
<1>3. /\ v \in Udc /\ v.ep0state = "IDLE" /\ v.queue = d.u.queue /\ v.says = d.u.says
      /\ v.enabled = d.u.enabled /\ v.done = d.u.done
  <2>1. ASSUME NEW s \in {"IDLE", "IN_DATA", "OUT_DATA"}
        PROVE  [d.u EXCEPT !.ep0state = s] \in Udc
    BY <1>1 DEF Udc
  <2>2. v \in Udc
    BY <2>1
  <2>3. QED
    BY <1>1, <2>2 DEF Udc
<1>4. Stall(d) = Rearm(f)
  BY DEF Stall
<1>5. f \in Dev /\ f.u = v /\ f.c = w
  <2> HIDE DEF v, w
  <2>1. QED
    BY <1>1, <1>2, <1>3 DEF Dev
<1>6. QED
  <2> HIDE DEF f, v, w
  <2>1. QED
    BY <1>2, <1>3, <1>4, <1>5, RearmIs DEF SameUdc, SameCore, SameIrq

\* A driver that knows of nothing else in the queue answers the request, or refuses it; and
\* the phase EP0_OUT_DATA_PHASE is left at once.
LEMMA AnswerIs ==
  ASSUME NEW d \in Dev, NEW k \in Kind
  PROVE  LET e == Answer(d, k) IN
         /\ e \in Dev /\ SameIrq(e.c, d.c) /\ StillReady(e, d)
         /\ \/ /\ e.u.ep0state = "IDLE" /\ e.u.queue = d.u.queue /\ e.c.in = d.c.in
               /\ e.c.addr = d.c.addr
            \/ /\ e.u.ep0state = "IN_DATA" /\ k # "out"
               /\ k = "conf" => e.u.enabled /\ e.u.done /\ e.c.data
               /\ EmptyIn(d.u) => Replies(e, d, k)
<1> DEFINE s == IF k = "out" THEN "OUT_DATA" ELSE "IN_DATA"
<1> DEFINE v == [d.u EXCEPT !.ep0state = s]
<1> DEFINE in == [d EXCEPT !.u = v]
<1> DEFINE done == IF k \in ForDriver THEN comip_udc_do_request(in, k) ELSE setup(in, k)
<1>1. d.u \in Udc /\ d.c \in Core
  BY DEF Dev
<1>2. /\ v \in Udc /\ v.ep0state = s /\ v.queue = d.u.queue
      /\ v.enabled = d.u.enabled /\ v.done = d.u.done
  <2>1. s \in {"IDLE", "IN_DATA", "OUT_DATA"}
    OBVIOUS
  <2>2. QED
    <3> HIDE DEF s
    <3>1. QED
      BY <1>1, <2>1 DEF Udc
<1>3. in \in Dev /\ in.u = v /\ in.c = d.c
  <2> HIDE DEF v
  <2>1. QED
    BY <1>1, <1>2 DEF Dev
<1>4. Answer(d, k) = IF done.ret < 0 THEN Stall(done.d)
                     ELSE IF k = "conf" THEN [done.d EXCEPT !.c.data = done.d.u.enabled]
                     ELSE done.d
  BY DEF Answer
<1>5. \/ done.ret = -1 /\ done.d = in
      \/ /\ done.ret = 0 /\ k # "out" /\ done.d \in Dev /\ done.d.u.ep0state = s
         /\ SameIrq(done.d.c, d.c) /\ StillReady(done.d, d)
         /\ k = "conf" => done.d.u.enabled /\ done.d.u.done
         /\ EmptyIn(d.u) => Replies(done.d, d, k)
  <2> HIDE DEF in, v
  <2>1. CASE k \in ForDriver
    <3>1. k # "conf" /\ k # "out"
      BY <2>1 DEF ForDriver
    <3>2. QED
      BY <1>2, <1>3, <2>1, <3>1, DoRequestIs DEF StillReady, Free, EmptyIn, Replies
  <2>2. CASE k \notin ForDriver
    <3>1. k # "address" /\ (Known(k) => k # "out")
      BY <2>2 DEF ForDriver, Known
    <3>2. QED
      BY <1>2, <1>3, <2>2, <3>1, SetupIs DEF StillReady, Free, EmptyIn, Replies
  <2>3. QED
    BY <2>1, <2>2
<1> HIDE DEF done
<1>6. CASE done.ret = -1 /\ done.d = in
  <2>1. Answer(d, k) = Stall(in)
    BY <1>4, <1>6
  <2>2. QED
    <3> HIDE DEF in, v
    <3>1. QED
      BY <1>2, <1>3, <2>1, StallIs DEF StillReady, SameIrq
<1>7. CASE done.ret = 0 /\ k # "out" /\ k # "conf"
  BY <1>4, <1>5, <1>7
<1>8. CASE done.ret = 0 /\ k = "conf"
  <2> DEFINE b == done.d
  <2> DEFINE w == [b.c EXCEPT !.data = b.u.enabled]
  <2>1. Answer(d, k) = [b EXCEPT !.c = w] /\ b \in Dev
    BY <1>4, <1>5, <1>8
  <2> HIDE DEF b
  <2>2. b.u \in Udc /\ b.c \in Core /\ b.u.enabled \in BOOLEAN
    BY <2>1 DEF Dev, Udc
  <2>3. /\ w \in Core /\ w.data = b.u.enabled /\ SameIrq(w, b.c) /\ w.in = b.c.in
        /\ w.out = b.c.out /\ w.stall = b.c.stall /\ w.addr = b.c.addr
    BY <2>2 DEF Core, SameIrq
  <2>4. Answer(d, k) \in Dev /\ Answer(d, k).u = b.u /\ Answer(d, k).c = w
    <3> HIDE DEF w
    <3>1. QED
      BY <2>1, <2>2, <2>3 DEF Dev
  <2> HIDE DEF w
  <2>5. /\ k # "out" /\ b.u.ep0state = "IN_DATA" /\ SameIrq(b.c, d.c)
        /\ b.u.enabled /\ b.u.done
        /\ EmptyIn(d.u) => Replies(b, d, k)
    BY <1>5, <1>8 DEF b
  <2> DEFINE e == Answer(d, k)
  <2>6. SameIrq(e.c, d.c) /\ StillReady(e, d)
    BY <2>3, <2>4, <2>5 DEF SameIrq, StillReady
  <2>7. Replies(b, d, k) => Replies(e, d, k)
    BY <2>3, <2>4 DEF Replies
  <2>8. e.u.ep0state = "IN_DATA" /\ e.u.enabled /\ e.u.done /\ e.c.data
    BY <2>3, <2>4, <2>5
  <2> HIDE DEF e
  <2>9. QED
    BY <2>4, <2>5, <2>6, <2>7, <2>8 DEF e
<1>9. QED
  BY <1>5, <1>6, <1>7, <1>8

-----------------------------------------------------------------------------
(***************************************************************************)
(* The interrupt handler.                                                  *)
(***************************************************************************)
\* In EP0_IDLE: a SETUP packet is answered, anything else lets the endpoint receive again.
LEMMA IdleIs ==
  ASSUME NEW d \in Dev, NEW i \in BOOLEAN, NEW o \in SUBSET {"SETUP", "XFCOMPL"},
         d.u.ep0state = "IDLE"
  PROVE  LET e == Idle(d, i, o) IN
         /\ e \in Dev /\ SameIrq(e.c, d.c) /\ StillReady(e, d)
         /\ e.u.ep0state \in {"IDLE", "IN_DATA"}
         /\ \/ /\ e.u.ep0state = "IDLE" /\ e.u.queue = d.u.queue /\ e.c.in = d.c.in
               /\ e.c.addr = d.c.addr
            \/ /\ "SETUP" \in o /\ e.u.ep0state = "IN_DATA" /\ d.c.buf # "out"
               /\ d.c.buf = "conf" => e.u.enabled /\ e.u.done /\ e.c.data
               /\ EmptyIn(d.u) /\ ~i /\ d.c.sr => Replies(e, d, d.c.buf)
<1> DEFINE sent == IF i THEN comip_ep_out_start(d) ELSE d
<1> DEFINE got == IF "XFCOMPL" \in o /\ ~d.c.sr THEN comip_ep_out_start(sent) ELSE sent
<1>1. sent \in Dev /\ sent.u = d.u /\ SameCore(sent.c, d.c) /\ sent.c.in = d.c.in
  BY OutStartIs DEF SameCore, SameIrq
<1>2. got \in Dev /\ got.u = d.u /\ SameCore(got.c, d.c) /\ got.c.in = d.c.in
  <2> HIDE DEF sent
  <2>1. QED
    BY <1>1, OutStartIs DEF SameCore, SameIrq
<1>3. ~i /\ d.c.sr => got = d
  OBVIOUS
<1>4. Idle(d, i, o) = IF "SETUP" \in o THEN Answer(got, got.c.buf) ELSE got
  BY DEF Idle
<1> HIDE DEF sent, got
<1>5. CASE "SETUP" \notin o
  BY <1>2, <1>4, <1>5 DEF SameCore, SameIrq, StillReady
<1>6. CASE "SETUP" \in o
  <2>1. got.c.buf \in Kind /\ got.c.buf = d.c.buf
    BY <1>2 DEF Dev, Core, Kind, SameCore, SameIrq
  <2>2. Idle(d, i, o) = Answer(got, d.c.buf)
    BY <1>4, <1>6, <2>1
  <2>3. /\ Answer(got, d.c.buf) \in Dev
        /\ SameIrq(Answer(got, d.c.buf).c, got.c) /\ StillReady(Answer(got, d.c.buf), got)
        /\ \/ /\ Answer(got, d.c.buf).u.ep0state = "IDLE"
              /\ Answer(got, d.c.buf).u.queue = got.u.queue
              /\ Answer(got, d.c.buf).c.in = got.c.in
              /\ Answer(got, d.c.buf).c.addr = got.c.addr
           \/ /\ Answer(got, d.c.buf).u.ep0state = "IN_DATA" /\ d.c.buf # "out"
              /\ d.c.buf = "conf" => /\ Answer(got, d.c.buf).u.enabled
                                     /\ Answer(got, d.c.buf).u.done
                                     /\ Answer(got, d.c.buf).c.data
              /\ EmptyIn(got.u) => Replies(Answer(got, d.c.buf), got, d.c.buf)
    BY <1>2, <2>1, AnswerIs
  <2>4. QED
    BY <1>2, <1>3, <1>6, <2>2, <2>3 DEF SameCore, SameIrq, StillReady
<1>7. QED
  BY <1>5, <1>6

\* In EP0_IN_DATA_PHASE: the request that was sent leaves the queue.
LEMMA SentIs ==
  ASSUME NEW d \in Dev, d.u.ep0state = "IN_DATA"
  PROVE  LET e == Sent(d, TRUE) IN
         /\ e \in Dev /\ SameIrq(e.c, d.c) /\ StillReady(e, d) /\ e.u.ep0state = "IDLE"
         /\ e.c.in = d.c.in /\ e.c.addr = d.c.addr
         /\ \A r \in Reqs : Only(d.u, r) => EmptyIn(e.u)
<1> DEFINE q == list_del_init(d.u.queue, First(d.u.queue))
<1> DEFINE v == [d.u EXCEPT !.queue = q]
<1> DEFINE finished == IF IsEmpty(d.u.queue) THEN d ELSE [d EXCEPT !.u = v]
<1> DEFINE a == Rearm(finished)
<1> DEFINE w == [a.u EXCEPT !.ep0state = "IDLE"]
<1>1. d.u \in Udc /\ d.c \in Core /\ d.u.queue \in List
  BY DEF Dev, Udc
<1>2. ~IsEmpty(d.u.queue) => First(d.u.queue) \in Reqs
  BY <1>1 DEF List, Nodes, IsEmpty, First
<1>3. ASSUME ~IsEmpty(d.u.queue)
      PROVE  /\ q \in List
             /\ \A r \in Reqs : Only(d.u, r) => q.next = SelfLoops /\ q.prev = SelfLoops
  <2>1. \A r \in Reqs : Only(d.u, r) => First(d.u.queue) = r
    BY RingIs DEF Only, First
  <2>2. QED
    BY <1>1, <1>2, <1>3, <2>1, DelIs DEF Only
<1>4. \A r \in Reqs : Only(d.u, r) => ~IsEmpty(d.u.queue)
  BY RingIs DEF Only, IsEmpty
<1>5. /\ finished \in Dev /\ finished.c = d.c
      /\ finished.u.enabled = d.u.enabled /\ finished.u.done = d.u.done
      /\ \A r \in Reqs : Only(d.u, r) => EmptyIn(finished.u)
  <2> HIDE DEF q
  <2>1. CASE IsEmpty(d.u.queue)
    BY <1>4, <2>1
  <2>2. CASE ~IsEmpty(d.u.queue)
    <3>1. /\ v \in Udc /\ v.queue = q /\ v.enabled = d.u.enabled /\ v.done = d.u.done
      BY <1>1, <1>3, <2>2 DEF Udc
    <3>2. finished = [d EXCEPT !.u = v]
      BY <2>2
    <3> HIDE DEF v, finished
    <3>3. finished \in Dev /\ finished.u = v /\ finished.c = d.c
      BY <1>1, <3>1, <3>2 DEF Dev
    <3>4. QED
      BY <1>3, <2>2, <3>1, <3>3 DEF EmptyIn
  <2>3. QED
    BY <2>1, <2>2
<1>6. Sent(d, TRUE) = [a EXCEPT !.u = w]
  BY DEF Sent
<1>7. /\ a \in Dev /\ SameUdc(a.u, finished.u)
      /\ SameCore(a.c, finished.c) /\ a.c.in = finished.c.in
  <2> HIDE DEF finished
  <2>1. QED
    BY <1>5, RearmIs
<1> HIDE DEF finished, a
<1>8. /\ w \in Udc /\ w.ep0state = "IDLE" /\ w.queue = a.u.queue
      /\ w.enabled = a.u.enabled /\ w.done = a.u.done
  <2>1. a.u \in Udc
    BY <1>7 DEF Dev
  <2>2. ASSUME NEW s \in {"IDLE", "IN_DATA", "OUT_DATA"}
        PROVE  [a.u EXCEPT !.ep0state = s] \in Udc
    BY <2>1 DEF Udc
  <2>3. w \in Udc
    BY <2>2
  <2>4. QED
    BY <2>1, <2>3 DEF Udc
<1> HIDE DEF w
<1>9. Sent(d, TRUE) \in Dev /\ Sent(d, TRUE).u = w /\ Sent(d, TRUE).c = a.c
  BY <1>6, <1>7, <1>8 DEF Dev
<1>10. QED
  BY <1>5, <1>7, <1>8, <1>9 DEF SameUdc, SameCore, SameIrq, StillReady, EmptyIn

\* comip_handle_ep0 begins with reading and clearing the interrupts.
Cleared(d) == [d EXCEPT !.c.diepint = FALSE, !.c.doepint = {}]

\* They are all that changes.
LEMMA ClearedIs ==
  ASSUME NEW d \in Dev
  PROVE  LET f == Cleared(d) IN
         /\ f \in Dev /\ f.u = d.u /\ ~f.c.diepint /\ f.c.doepint = {}
         /\ f.c.in = d.c.in /\ f.c.out = d.c.out /\ f.c.gint = d.c.gint /\ f.c.sr = d.c.sr
         /\ f.c.buf = d.c.buf /\ f.c.stall = d.c.stall /\ f.c.addr = d.c.addr
         /\ f.c.data = d.c.data
<1>1. d.u \in Udc /\ d.c \in Core
  BY DEF Dev
<1>2. ASSUME NEW i \in BOOLEAN, NEW o \in SUBSET {"SETUP", "XFCOMPL"}
      PROVE  LET w == [d.c EXCEPT !.diepint = i, !.doepint = o] IN
             /\ w \in Core /\ w.diepint = i /\ w.doepint = o
             /\ w.in = d.c.in /\ w.out = d.c.out /\ w.gint = d.c.gint /\ w.sr = d.c.sr
             /\ w.buf = d.c.buf /\ w.stall = d.c.stall /\ w.addr = d.c.addr /\ w.data = d.c.data
  BY <1>1 DEF Core
<1> DEFINE w == [d.c EXCEPT !.diepint = FALSE, !.doepint = {}]
<1>3. /\ w \in Core /\ ~w.diepint /\ w.doepint = {}
      /\ w.in = d.c.in /\ w.out = d.c.out /\ w.gint = d.c.gint /\ w.sr = d.c.sr
      /\ w.buf = d.c.buf /\ w.stall = d.c.stall /\ w.addr = d.c.addr /\ w.data = d.c.data
  <2>1. FALSE \in BOOLEAN /\ {} \in SUBSET {"SETUP", "XFCOMPL"}
    OBVIOUS
  <2>2. QED
    BY <1>2, <2>1
<1>4. Cleared(d) = [d EXCEPT !.c = w]
  BY DEF Cleared
<1>5. QED
  <2> HIDE DEF w
  <2>1. QED
    BY <1>1, <1>3, <1>4 DEF Dev

\* Nothing is done but to receive, or a request is refused.
Unanswered(e, d) ==
  e.u.ep0state = "IDLE" /\ e.u.queue = d.u.queue /\ e.c.in = d.c.in /\ e.c.addr = d.c.addr

\* What comip_handle_ep0 does in the phases of a transfer.
LEMMA HandleIs ==
  ASSUME NEW d \in Dev, d.u.ep0state \in {"IDLE", "IN_DATA"}
  PROVE  LET e == comip_handle_ep0(d) IN
         /\ e \in Dev /\ e.u.ep0state \in {"IDLE", "IN_DATA"}
         /\ e.c.gint = d.c.gint /\ ~e.c.diepint /\ e.c.doepint = {} /\ StillReady(e, d)
         /\ d.u.ep0state = "IDLE" /\ "SETUP" \notin d.c.doepint => Unanswered(e, d)
         /\ d.u.ep0state = "IN_DATA" /\ d.c.diepint =>
              /\ e.u.ep0state = "IDLE" /\ e.c.in = d.c.in /\ e.c.addr = d.c.addr
              /\ \A r \in Reqs : Only(d.u, r) => EmptyIn(e.u)
         /\ d.u.ep0state = "IDLE" /\ EmptyIn(d.u) /\ ~d.c.diepint /\ d.c.sr =>
              \/ Unanswered(e, d)
              \/ /\ e.u.ep0state = "IN_DATA" /\ d.c.buf # "out" /\ Replies(e, d, d.c.buf)
                 /\ d.c.buf = "conf" => e.u.enabled /\ e.u.done /\ e.c.data
<1> DEFINE f == Cleared(d)
<1> DEFINE e == comip_handle_ep0(d)
<1>1. /\ f \in Dev /\ f.u = d.u /\ ~f.c.diepint /\ f.c.doepint = {}
      /\ f.c.in = d.c.in /\ f.c.out = d.c.out /\ f.c.gint = d.c.gint /\ f.c.sr = d.c.sr
      /\ f.c.buf = d.c.buf /\ f.c.stall = d.c.stall /\ f.c.addr = d.c.addr
      /\ f.c.data = d.c.data
  BY ClearedIs
<1>2. d.c.diepint \in BOOLEAN /\ d.c.doepint \in SUBSET {"SETUP", "XFCOMPL"}
  BY DEF Dev, Core
<1>3. CASE d.u.ep0state = "IDLE"
  <2>1. e = Idle(f, d.c.diepint, d.c.doepint)
    BY <1>3 DEF comip_handle_ep0, Cleared
  <2> HIDE DEF f, e
  <2>2. /\ e \in Dev /\ SameIrq(e.c, f.c) /\ StillReady(e, f)
        /\ e.u.ep0state \in {"IDLE", "IN_DATA"}
        /\ \/ /\ e.u.ep0state = "IDLE" /\ e.u.queue = f.u.queue /\ e.c.in = f.c.in
              /\ e.c.addr = f.c.addr
           \/ /\ "SETUP" \in d.c.doepint /\ e.u.ep0state = "IN_DATA" /\ f.c.buf # "out"
              /\ f.c.buf = "conf" => e.u.enabled /\ e.u.done /\ e.c.data
              /\ EmptyIn(f.u) /\ ~d.c.diepint /\ f.c.sr => Replies(e, f, f.c.buf)
    BY <1>1, <1>2, <1>3, <2>1, IdleIs
  <2>3. Replies(e, f, f.c.buf) => Replies(e, d, d.c.buf)
    BY <1>1 DEF Replies
  <2>4. SameIrq(e.c, f.c) => e.c.gint = d.c.gint /\ ~e.c.diepint /\ e.c.doepint = {}
    BY <1>1 DEF SameIrq
  <2>5. StillReady(e, d)
    BY <1>1, <2>2 DEF StillReady
  <2>6. QED
    BY <1>1, <1>3, <2>2, <2>3, <2>4, <2>5 DEF Unanswered, e
<1>4. CASE d.u.ep0state = "IN_DATA"
  <2>1. e = Sent(f, d.c.diepint)
    BY <1>4 DEF comip_handle_ep0, Cleared
  <2>2. CASE ~d.c.diepint
    <3>1. e = f
      BY <2>1, <2>2 DEF Sent
    <3> HIDE DEF f, e
    <3>2. QED
      BY <1>1, <1>4, <2>2, <3>1 DEF StillReady, e
  <2>3. CASE d.c.diepint
    <3>1. e = Sent(f, TRUE)
      BY <2>1, <2>3 DEF Sent
    <3> HIDE DEF f, e
    <3>2. /\ e \in Dev /\ SameIrq(e.c, f.c) /\ StillReady(e, f) /\ e.u.ep0state = "IDLE"
          /\ e.c.in = f.c.in /\ e.c.addr = f.c.addr
          /\ \A r \in Reqs : Only(f.u, r) => EmptyIn(e.u)
      BY <1>1, <1>4, <3>1, SentIs
    <3>3. e.c.gint = d.c.gint /\ ~e.c.diepint /\ e.c.doepint = {} /\ StillReady(e, d)
      BY <1>1, <3>2 DEF SameIrq, StillReady
    <3>4. QED
      BY <1>1, <1>4, <3>2, <3>3 DEF e
  <2>4. QED
    BY <1>2, <2>2, <2>3
<1>5. QED
  BY <1>3, <1>4

\* A reset that the driver sees.
LEMMA ResetIs ==
  ASSUME NEW d \in Dev
  PROVE  LET e == Reset(d) IN
         /\ e \in Dev /\ e.u.ep0state = "IDLE" /\ e.u.queue = d.u.queue
         /\ SameIrq(e.c, d.c) /\ e.c.in = d.c.in /\ e.c.addr = 0
<1>1. d.u \in Udc /\ d.c \in Core
  BY DEF Dev
<1> DEFINE v == [d.u EXCEPT !.ep0state = "IDLE"]
<1> DEFINE w == [d.c EXCEPT !.addr = 0, !.mask = FALSE, !.data = FALSE]
<1>2. v \in Udc /\ v.ep0state = "IDLE" /\ v.queue = d.u.queue
  <2>1. ASSUME NEW s \in {"IDLE", "IN_DATA", "OUT_DATA"}
        PROVE  [d.u EXCEPT !.ep0state = s] \in Udc
    BY <1>1 DEF Udc
  <2>2. v \in Udc
    BY <2>1
  <2>3. QED
    BY <1>1, <2>2 DEF Udc
<1>3. w \in Core /\ SameIrq(w, d.c) /\ w.in = d.c.in /\ w.addr = 0
  <2>1. ASSUME NEW n \in 0..1, NEW b \in BOOLEAN
        PROVE  [d.c EXCEPT !.addr = n, !.mask = b, !.data = b] \in Core
    BY <1>1 DEF Core
  <2>2. w \in Core
    <3>1. 0 \in 0..1 /\ FALSE \in BOOLEAN
      OBVIOUS
    <3>2. QED
      BY <2>1, <3>1, Zenon
  <2>3. QED
    BY <1>1, <2>2 DEF Core, SameIrq
<1>4. Reset(d) = [[d EXCEPT !.u = v] EXCEPT !.c = w]
  BY DEF Reset
<1>5. QED
  <2> HIDE DEF v, w
  <2>1. QED
    BY <1>1, <1>2, <1>3, <1>4 DEF Dev

\* The end of the enumeration.
LEMMA EnumDoneIs ==
  ASSUME NEW d \in Dev
  PROVE  LET e == EnumDone(d) IN
         /\ e \in Dev /\ e.u.ep0state = "IDLE" /\ e.u.queue = d.u.queue
         /\ SameIrq(e.c, d.c) /\ e.c.in = d.c.in /\ e.c.addr = d.c.addr
<1>1. d.u \in Udc /\ d.c \in Core
  BY DEF Dev
<1> DEFINE v == [d.u EXCEPT !.ep0state = "IDLE"]
<1> DEFINE f == [d EXCEPT !.u = v]
<1> DEFINE a == comip_ep_out_start(f)
<1> DEFINE w == [a.c EXCEPT !.mask = TRUE, !.data = FALSE]
<1>2. v \in Udc /\ v.ep0state = "IDLE" /\ v.queue = d.u.queue
  <2>1. ASSUME NEW s \in {"IDLE", "IN_DATA", "OUT_DATA"}
        PROVE  [d.u EXCEPT !.ep0state = s] \in Udc
    BY <1>1 DEF Udc
  <2>2. v \in Udc
    BY <2>1
  <2>3. QED
    BY <1>1, <2>2 DEF Udc
<1>3. f \in Dev /\ f.u = v /\ f.c = d.c
  <2> HIDE DEF v
  <2>1. QED
    BY <1>1, <1>2 DEF Dev
<1>4. a \in Dev /\ a.u = v /\ SameCore(a.c, d.c) /\ a.c.in = d.c.in
  <2> HIDE DEF f
  <2>1. QED
    BY <1>3, OutStartIs
<1>5. EnumDone(d) = [a EXCEPT !.c = w]
  BY DEF EnumDone
<1> HIDE DEF a
<1>6. w \in Core /\ SameIrq(w, a.c) /\ w.in = a.c.in /\ w.addr = a.c.addr
  <2>1. a.c \in Core
    BY <1>4 DEF Dev
  <2>2. ASSUME NEW m \in BOOLEAN, NEW b \in BOOLEAN
        PROVE  [a.c EXCEPT !.mask = m, !.data = b] \in Core
    BY <2>1 DEF Core
  <2>3. w \in Core
    BY <2>2
  <2>4. QED
    BY <2>1, <2>3 DEF Core, SameIrq
<1> HIDE DEF v, w
<1>7. EnumDone(d) \in Dev /\ EnumDone(d).u = v /\ EnumDone(d).c = w
  BY <1>1, <1>2, <1>4, <1>5, <1>6 DEF Dev
<1>8. QED
  BY <1>2, <1>4, <1>6, <1>7 DEF SameCore, SameIrq

\* All that an interrupt without a reset or an enumeration does is comip_handle_ep0.  One
\* that finds no SETUP packet and no transfer leaves endpoint 0 as it is, but for the
\* address.
LEMMA HandledIs ==
  ASSUME NEW d \in Dev, d.u.ep0state \in {"IDLE", "IN_DATA"},
         d.c.gint # {} \/ (d.c.mask /\ Ep0Pending(d.c))
  PROVE  LET e == Handled(d) IN
         /\ e \in Dev /\ e.u.ep0state \in {"IDLE", "IN_DATA"} /\ e.c.gint = {}
         /\ d.c.gint = {} => e = comip_handle_ep0(d)
         /\ d.u.ep0state = "IDLE" /\ ~d.c.diepint /\ "SETUP" \notin d.c.doepint =>
              /\ e.u.ep0state = "IDLE" /\ e.u.queue = d.u.queue /\ e.c.in = d.c.in
              /\ ~e.c.diepint /\ "SETUP" \notin e.c.doepint
              /\ e.c.addr = IF "USBRST" \in d.c.gint THEN 0 ELSE d.c.addr
<1> DEFINE reset == IF "USBRST" \in d.c.gint THEN Reset(d) ELSE d
<1> DEFINE enum == IF "ENUMDONE" \in d.c.gint THEN EnumDone(reset) ELSE reset
<1> DEFINE ep0 == IF d.c.mask /\ Ep0Pending(d.c) THEN comip_handle_ep0(enum) ELSE enum
<1> DEFINE w == [ep0.c EXCEPT !.gint = {}]
<1> DEFINE e == Handled(d)
<1>1. /\ reset \in Dev /\ reset.u.ep0state \in {"IDLE", "IN_DATA"} /\ SameIrq(reset.c, d.c)
      /\ reset.u.queue = d.u.queue /\ reset.c.in = d.c.in
      /\ d.u.ep0state = "IDLE" => reset.u.ep0state = "IDLE"
      /\ reset.c.addr = IF "USBRST" \in d.c.gint THEN 0 ELSE d.c.addr
  <2>1. CASE "USBRST" \in d.c.gint
    BY <2>1, ResetIs
  <2>2. CASE "USBRST" \notin d.c.gint
    BY <2>2 DEF SameIrq
  <2>3. QED
    BY <2>1, <2>2
<1>2. /\ enum \in Dev /\ enum.u.ep0state \in {"IDLE", "IN_DATA"} /\ SameIrq(enum.c, d.c)
      /\ enum.u.queue = d.u.queue /\ enum.c.in = d.c.in
      /\ d.u.ep0state = "IDLE" => enum.u.ep0state = "IDLE"
      /\ enum.c.addr = reset.c.addr
  <2> HIDE DEF reset
  <2>1. CASE "ENUMDONE" \in d.c.gint
    BY <1>1, <2>1, EnumDoneIs DEF SameIrq
  <2>2. CASE "ENUMDONE" \notin d.c.gint
    BY <1>1, <2>2
  <2>3. QED
    BY <2>1, <2>2
<1>3. d.c.gint = {} => enum = d
  OBVIOUS
<1>4. e = [ep0 EXCEPT !.c = w]
  BY DEF Handled
<1> HIDE DEF reset, enum
<1>5. /\ ep0 \in Dev /\ ep0.u.ep0state \in {"IDLE", "IN_DATA"} /\ ep0.c.gint = d.c.gint
      /\ d.u.ep0state = "IDLE" /\ ~d.c.diepint /\ "SETUP" \notin d.c.doepint =>
           /\ Unanswered(ep0, enum) /\ ~ep0.c.diepint /\ "SETUP" \notin ep0.c.doepint
  <2>1. CASE d.c.mask /\ Ep0Pending(d.c)
    <3>1. ep0 = comip_handle_ep0(enum)
      BY <2>1
    <3>2. enum.c.gint = d.c.gint /\ enum.c.doepint = d.c.doepint
      BY <1>2 DEF SameIrq
    <3> HIDE DEF ep0
    <3>3. QED
      BY <1>2, <3>1, <3>2, HandleIs
  <2>2. CASE ~(d.c.mask /\ Ep0Pending(d.c))
    BY <1>2, <2>2 DEF SameIrq, Unanswered
  <2>3. QED
    BY <2>1, <2>2
<1>6. d.c.gint = {} => ep0 = comip_handle_ep0(d)
  BY <1>3
<1> HIDE DEF ep0
<1>7. ep0.u \in Udc /\ ep0.c \in Core
  BY <1>5 DEF Dev
<1>8. /\ w \in Core /\ w.gint = {} /\ w.in = ep0.c.in /\ w.diepint = ep0.c.diepint
      /\ w.doepint = ep0.c.doepint /\ w.addr = ep0.c.addr
  <2>1. ASSUME NEW g \in SUBSET {"USBRST", "ENUMDONE"}
        PROVE  [ep0.c EXCEPT !.gint = g] \in Core
    BY <1>7 DEF Core
  <2>2. w \in Core
    BY <2>1
  <2>3. QED
    BY <1>7, <2>2 DEF Core
<1>9. d.c.gint = {} => e = ep0
  <2>1. ASSUME ep0.c.gint = {}
        PROVE  [ep0 EXCEPT !.c = w] = ep0
    <3>1. w = ep0.c
      BY <1>7, <2>1 DEF Core
    <3> HIDE DEF w
    <3>2. QED
      BY <1>5, <3>1 DEF Dev
  <2>2. QED
    BY <1>4, <1>5, <2>1
<1> HIDE DEF w, e
<1>10. e \in Dev /\ e.u = ep0.u /\ e.c = w
  BY <1>4, <1>5, <1>7, <1>8 DEF Dev
<1>11. QED
  BY <1>1, <1>2, <1>5, <1>6, <1>8, <1>9, <1>10 DEF Unanswered, e

-----------------------------------------------------------------------------
(***************************************************************************)
(* Each action preserves the invariant.                                    *)
(***************************************************************************)
Host == [link : {"off", "reset", "up"},
         stage : {"idle", "setup", "data_in", "data_out", "status_in", "status_out"},
         kind : Kinds, got : Kind, addr : 0..1, conf : BOOLEAN,
         setups : 0..MaxSetups, resets : 0..MaxResets, gaveUp : 0..MaxGivesUp]

\* The types as the lemmas have them.
LEMMA Types ==
  TypeOK <=> /\ udc \in Udc /\ udc.ep0state \in {"IDLE", "IN_DATA"}
             /\ core \in Core /\ host \in Host /\ cut \in BOOLEAN
<1>1. udc \in [ep0state : {"IDLE", "IN_DATA"},
               queue : [next : [Nodes -> Nodes], prev : [Nodes -> Nodes]],
               length : {0, 2, 64}, says : [Reqs -> Kinds \cup {"nothing"}],
               enabled : BOOLEAN, done : BOOLEAN]
        <=> udc \in Udc /\ udc.ep0state \in {"IDLE", "IN_DATA"}
  BY DEF Udc, List
<1>2. QED
  BY <1>1 DEF TypeOK, Core, Host, Kind

\* The same of the next state.
LEMMA TypesNext ==
  TypeOK' <=> /\ udc' \in Udc /\ udc'.ep0state \in {"IDLE", "IN_DATA"}
              /\ core' \in Core /\ host' \in Host /\ cut' \in BOOLEAN
<1>1. udc' \in [ep0state : {"IDLE", "IN_DATA"},
                queue : [next : [Nodes -> Nodes], prev : [Nodes -> Nodes]],
                length : {0, 2, 64}, says : [Reqs -> Kinds \cup {"nothing"}],
                enabled : BOOLEAN, done : BOOLEAN]
        <=> udc' \in Udc /\ udc'.ep0state \in {"IDLE", "IN_DATA"}
  BY DEF Udc, List
<1>2. QED
  BY <1>1 DEF TypeOK, Core, Host, Kind

\* Nothing is under way but in the phase Quiet.
LEMMA UnderWayIs ==
  ASSUME TypeOK, PhaseInv, ~UnderWay
  PROVE  Quiet
<1>1. \A r \in Reqs : Holds(r) => ~IsEmpty(udc.queue)
  BY RingIs DEF Holds, IsEmpty
<1>2. QED
  BY <1>1 DEF PhaseInv, UnderWay, SetupCame, Answering, Taken

\* It holds in the beginning.
LEMMA InitHolds == Init => IInv
<1> SUFFICES ASSUME Init PROVE IInv
  OBVIOUS
<1>1. SelfLoops \in [Nodes -> Nodes]
  BY DEF SelfLoops
<1>2. udc \in Udc /\ udc.ep0state = "IDLE" /\ Empty
  BY <1>1 DEF Init, Udc, List, Empty
<1>3. core \in Core
  BY DEF Init, Core
<1>4. host \in Host
  <2>1. 0 \in 0..MaxSetups /\ 0 \in 0..MaxResets /\ 0 \in 0..MaxGivesUp
    BY Ep0Assumption
  <2>2. QED
    BY <2>1 DEF Init, Host, Kind, Kinds
<1>5. TypeOK
  BY <1>2, <1>3, <1>4, Types DEF Init
<1>6. PhaseInv
  BY <1>2 DEF Init, PhaseInv, Quiet
<1>7. AddressInv /\ ConfInv /\ LinkInv
  BY DEF Init, AddressInv, ConfInv, LinkInv
<1>8. QED
  BY <1>5, <1>6, <1>7 DEF IInv

\* The interrupt handler.
LEMMA IrqHolds ==
  ASSUME IInv, comip_udc_irq
  PROVE  IInv'
<1> DEFINE d == [u |-> udc, c |-> core]
<1> DEFINE e == Handled(d)
<1>1. udc \in Udc /\ udc.ep0state \in {"IDLE", "IN_DATA"} /\ core \in Core
  BY Types DEF IInv
<1>2. d \in Dev /\ d.u = udc /\ d.c = core
  BY <1>1 DEF Dev
<1>3. udc' = e.u /\ core' = e.c /\ host' = host /\ cut' = cut
  BY DEF comip_udc_irq
<1>4. core.gint # {} \/ (core.mask /\ Ep0Pending(core))
  BY DEF comip_udc_irq
<1> HIDE DEF d, e
<1>5. /\ e \in Dev /\ e.u.ep0state \in {"IDLE", "IN_DATA"} /\ e.c.gint = {}
      /\ core.gint = {} => e = comip_handle_ep0(d)
      /\ udc.ep0state = "IDLE" /\ ~core.diepint /\ "SETUP" \notin core.doepint =>
           /\ e.u.ep0state = "IDLE" /\ e.u.queue = udc.queue /\ e.c.in = core.in
           /\ ~e.c.diepint /\ "SETUP" \notin e.c.doepint
           /\ e.c.addr = IF "USBRST" \in core.gint THEN 0 ELSE core.addr
  BY <1>1, <1>2, <1>4, HandledIs DEF e
<1>6. TypeOK'
  <2>1. e.u \in Udc /\ e.c \in Core
    BY <1>5 DEF Dev
  <2>2. host \in Host /\ cut \in BOOLEAN
    BY Types DEF IInv
  <2>3. QED
    BY <1>3, <1>5, <2>1, <2>2, TypesNext
<1>7. ASSUME core.gint = {}
      PROVE  /\ e.c.gint = core.gint /\ ~e.c.diepint /\ e.c.doepint = {} /\ StillReady(e, d)
             /\ udc.ep0state = "IN_DATA" /\ core.diepint =>
                  /\ e.u.ep0state = "IDLE" /\ e.c.in = core.in /\ e.c.addr = core.addr
                  /\ \A r \in Reqs : Only(udc, r) => EmptyIn(e.u)
             /\ udc.ep0state = "IDLE" /\ EmptyIn(udc) /\ ~core.diepint /\ core.sr =>
                  \/ Unanswered(e, d)
                  \/ /\ e.u.ep0state = "IN_DATA" /\ core.buf # "out" /\ Replies(e, d, core.buf)
                     /\ core.buf = "conf" => e.u.enabled /\ e.u.done /\ e.c.data
  BY <1>1, <1>2, <1>5, <1>7, HandleIs
<1>8. ASSUME ~cut
      PROVE  PhaseInv' /\ AddressInv' /\ ConfInv' /\ LinkInv'
  <2>1. TypeOK /\ PhaseInv /\ AddressInv /\ ConfInv /\ LinkInv
    BY <1>8 DEF IInv
  <2>2. ConfInv' /\ LinkInv'
    BY <1>2, <1>3, <1>5, <1>7, <2>1 DEF ConfInv, LinkInv, StillReady
  <2>3. CASE Quiet
    <3>1. Quiet'
      BY <1>3, <1>5, <2>3 DEF Quiet, Empty
    <3>2. AddressInv'
      <4>1. "USBRST" \in core.gint => host.addr = 0
        BY <2>1 DEF AddressInv
      <4>2. "USBRST" \notin core.gint => core.addr = host.addr
        BY <2>1, <2>3 DEF AddressInv, Quiet
      <4>3. core'.gint = {} /\ core'.addr = host.addr
        BY <1>3, <1>5, <2>3, <4>1, <4>2 DEF Quiet
      <4>4. QED
        BY <1>3, <4>3 DEF AddressInv
    <3>3. QED
      BY <2>2, <3>1, <3>2 DEF PhaseInv
  <2>4. CASE SetupCame
    <3>1. /\ core.gint = {} /\ udc.ep0state = "IDLE" /\ EmptyIn(udc) /\ ~core.diepint
          /\ core.sr /\ core.buf = host.kind /\ core.in = NoReq /\ ~core.out /\ ~core.stall
          /\ core.addr = host.addr
      BY <2>1, <2>4 DEF SetupCame, AddressInv, Empty, EmptyIn
    <3>2. CASE Unanswered(e, d)
      <4>1. Quiet'
        BY <1>2, <1>3, <1>7, <2>4, <3>1, <3>2
           DEF Unanswered, Quiet, SetupCame, Empty, EmptyIn
      <4>2. AddressInv'
        BY <1>2, <1>3, <1>5, <3>1, <3>2 DEF Unanswered, AddressInv
      <4>3. QED
        BY <2>2, <4>1, <4>2 DEF PhaseInv
    <3>3. CASE /\ e.u.ep0state = "IN_DATA" /\ core.buf # "out" /\ Replies(e, d, core.buf)
               /\ core.buf = "conf" => e.u.enabled /\ e.u.done /\ e.c.data
      <4>1. PICK r \in Reqs :
              /\ Only(e.u, r) /\ e.u.says[r] = host.kind
              /\ e.c.in = r /\ ~e.c.out /\ ~e.c.stall
              /\ e.c.addr = IF host.kind = "address" THEN 1 ELSE core.addr
        BY <1>2, <3>1, <3>3 DEF Replies
      <4>2. Answering(r)'
        BY <1>3, <1>5, <1>7, <2>4, <3>1, <3>3, <4>1 DEF Answering, SetupCame, Holds, Only
      <4>3. AddressInv'
        BY <1>3, <1>5, <1>7, <3>1, <3>3, <4>1 DEF AddressInv
      <4>4. PhaseInv'
        BY <4>1, <4>2 DEF PhaseInv
      <4>5. QED
        BY <2>2, <4>3, <4>4
    <3>4. QED
      BY <1>7, <3>1, <3>2, <3>3
  <2>5. ASSUME NEW r \in Reqs, Answering(r)
        PROVE  FALSE
    BY <1>4, <2>5 DEF Answering, Ep0Pending
  <2>6. ASSUME NEW r \in Reqs, Taken(r)
        PROVE  PhaseInv' /\ AddressInv'
    <3>1. /\ core.gint = {} /\ udc.ep0state = "IN_DATA" /\ core.diepint /\ Only(udc, r)
          /\ core.in = NoReq /\ core.addr = host.addr
          /\ host.stage = "status_out" => host.got = host.kind
      BY <2>1, <2>6 DEF Taken, AddressInv, Holds, Only
    <3>2. /\ e.u.ep0state = "IDLE" /\ e.c.in = core.in /\ e.c.addr = core.addr
          /\ EmptyIn(e.u) /\ ~e.c.diepint /\ e.c.doepint = {}
      BY <1>7, <3>1
    <3>3. Quiet'
      BY <1>3, <3>1, <3>2 DEF Quiet, Empty, EmptyIn
    <3>4. AddressInv'
      BY <1>3, <1>5, <3>1, <3>2 DEF AddressInv
    <3>5. QED
      BY <3>3, <3>4 DEF PhaseInv
  <2>7. QED
    BY <2>1, <2>2, <2>3, <2>4, <2>5, <2>6 DEF PhaseInv
<1>9. QED
  BY <1>3, <1>6, <1>8 DEF IInv

\* The bus is reset.
LEMMA BusResetHolds ==
  ASSUME IInv, BusReset
  PROVE  IInv'
<1>1. udc \in Udc /\ udc.ep0state \in {"IDLE", "IN_DATA"} /\ core \in Core /\ host \in Host
  BY Types DEF IInv
<1>2. PICK keep \in BOOLEAN :
        core' = [core EXCEPT !.gint = @ \cup {"USBRST"}, !.in = IF keep THEN @ ELSE NoReq,
                             !.out = keep /\ @]
  BY DEF BusReset
<1>3. /\ core' \in Core /\ core'.diepint = core.diepint /\ core'.doepint = core.doepint
      /\ core'.gint = core.gint \cup {"USBRST"} /\ (core.in = NoReq => core'.in = NoReq)
  BY <1>1, <1>2 DEF Core
<1>4. /\ host' \in Host /\ host'.stage = "idle" /\ host'.addr = 0 /\ ~host'.conf
      /\ host'.link = "reset" /\ host'.kind = host.kind
  <2>1. host.resets \in Nat /\ host.resets + 1 \in 0..MaxResets
    BY <1>1, Ep0Assumption DEF BusReset, Host
  <2>2. ASSUME NEW n \in 0..MaxResets, NEW a \in 0..1, NEW b \in BOOLEAN
        PROVE  [host EXCEPT !.resets = n, !.link = "reset", !.stage = "idle",
                            !.addr = a, !.conf = b] \in Host
    BY <1>1 DEF Host
  <2> DEFINE h == [host EXCEPT !.resets = host.resets + 1, !.link = "reset", !.stage = "idle",
                               !.addr = 0, !.conf = FALSE]
  <2>3. 0 \in 0..1 /\ FALSE \in BOOLEAN
    OBVIOUS
  <2>4. h \in Host
    BY <2>1, <2>2, <2>3, Zenon
  <2>5. host' = h
    BY DEF BusReset
  <2>6. QED
    BY <1>1, <2>4, <2>5 DEF Host
<1>5. udc' = udc /\ cut' = (cut \/ UnderWay)
  BY DEF BusReset
<1>6. TypeOK'
  <2>1. cut' \in BOOLEAN
    BY <1>5
  <2>2. QED
    BY <1>1, <1>3, <1>4, <1>5, <2>1, TypesNext
<1>7. ASSUME ~cut'
      PROVE  PhaseInv' /\ AddressInv' /\ ConfInv' /\ LinkInv'
  <2>1. Quiet
    BY <1>5, <1>7, UnderWayIs DEF IInv
  <2>2. Quiet'
    BY <1>3, <1>4, <1>5, <2>1 DEF Quiet, Empty
  <2>3. QED
    BY <1>3, <1>4, <2>2 DEF PhaseInv, AddressInv, ConfInv, LinkInv
<1>8. QED
  BY <1>6, <1>7 DEF IInv

\* The host gives a transfer up.
LEMMA GiveUpHolds ==
  ASSUME IInv, GiveUp
  PROVE  IInv'
<1>1. udc \in Udc /\ udc.ep0state \in {"IDLE", "IN_DATA"} /\ core \in Core /\ host \in Host
  BY Types DEF IInv
<1>2. /\ host' \in Host /\ host'.stage = "idle" /\ host'.addr = host.addr
      /\ host'.conf = host.conf /\ host'.link = host.link
  <2>1. host.gaveUp \in Nat /\ host.gaveUp + 1 \in 0..MaxGivesUp
    BY <1>1, Ep0Assumption DEF GiveUp, Host
  <2>2. ASSUME NEW n \in 0..MaxGivesUp
        PROVE  [host EXCEPT !.gaveUp = n, !.stage = "idle"] \in Host
    BY <1>1 DEF Host
  <2> DEFINE h == [host EXCEPT !.gaveUp = host.gaveUp + 1, !.stage = "idle"]
  <2>3. h \in Host
    BY <2>1, <2>2
  <2>4. host' = h
    BY DEF GiveUp
  <2>5. QED
    BY <1>1, <2>3, <2>4 DEF Host
<1>3. udc' = udc /\ core' = core /\ cut' = (cut \/ UnderWay)
  BY DEF GiveUp
<1>4. TypeOK'
  <2>1. cut' \in BOOLEAN
    BY <1>3
  <2>2. QED
    BY <1>1, <1>2, <1>3, <2>1, TypesNext
<1>5. ASSUME ~cut'
      PROVE  PhaseInv' /\ AddressInv' /\ ConfInv' /\ LinkInv'
  <2>1. Quiet /\ AddressInv /\ ConfInv /\ LinkInv
    BY <1>3, <1>5, UnderWayIs DEF IInv
  <2>2. Quiet'
    BY <1>2, <1>3, <2>1 DEF Quiet, Empty
  <2>3. AddressInv'
    BY <1>2, <1>3, <2>1 DEF AddressInv, Quiet
  <2>4. QED
    BY <1>2, <1>3, <2>1, <2>2, <2>3 DEF PhaseInv, ConfInv, LinkInv
<1>6. QED
  BY <1>4, <1>5 DEF IInv

\* The enumeration ends.
LEMMA SpeedKnownHolds ==
  ASSUME IInv, SpeedKnown
  PROVE  IInv'
<1>1. udc \in Udc /\ udc.ep0state \in {"IDLE", "IN_DATA"} /\ core \in Core /\ host \in Host
      /\ cut \in BOOLEAN
  BY Types DEF IInv
<1>2. /\ host' \in Host /\ host'.link = "up" /\ host'.stage = host.stage
      /\ host'.kind = host.kind /\ host'.got = host.got /\ host'.addr = host.addr
      /\ host'.conf = host.conf
  BY <1>1 DEF SpeedKnown, Host
<1>3. /\ core' \in Core /\ core'.gint = core.gint \cup {"ENUMDONE"} /\ core'.in = core.in
      /\ core'.diepint = core.diepint /\ core'.doepint = core.doepint /\ core'.addr = core.addr
  BY <1>1 DEF SpeedKnown, Core
<1>4. udc' = udc /\ cut' = cut
  BY DEF SpeedKnown
<1>5. TypeOK'
  BY <1>1, <1>2, <1>3, <1>4, TypesNext
<1>6. ASSUME ~cut
      PROVE  PhaseInv' /\ AddressInv' /\ ConfInv' /\ LinkInv'
  <2>1. /\ PhaseInv /\ AddressInv /\ ConfInv /\ LinkInv /\ host.link = "reset"
        /\ host.stage = "idle" /\ ~host.conf
    BY <1>6 DEF IInv, SpeedKnown, LinkInv
  <2>2. Quiet
    BY <2>1 DEF PhaseInv, SetupCame, Answering, Taken
  <2>3. Quiet'
    BY <1>2, <1>3, <1>4, <2>2 DEF Quiet, Empty
  <2>4. AddressInv'
    BY <1>2, <1>3, <1>4, <2>1, <2>2 DEF AddressInv, Quiet
  <2>5. QED
    BY <1>2, <2>1, <2>3, <2>4 DEF PhaseInv, ConfInv, LinkInv
<1>7. QED
  BY <1>4, <1>5, <1>6 DEF IInv

\* The host starts a transfer.
LEMMA StartTransferHolds ==
  ASSUME IInv, StartTransfer
  PROVE  IInv'
<1>1. udc \in Udc /\ udc.ep0state \in {"IDLE", "IN_DATA"} /\ core \in Core /\ host \in Host
      /\ cut \in BOOLEAN
  BY Types DEF IInv
<1>2. PICK k \in Kinds :
        host' = [host EXCEPT !.setups = @ + 1, !.kind = k, !.stage = "setup"]
  BY DEF StartTransfer
<1>3. /\ host' \in Host /\ host'.stage = "setup" /\ host'.link = host.link
      /\ host'.addr = host.addr /\ host'.conf = host.conf
  <2>1. host.setups \in Nat /\ host.setups + 1 \in 0..MaxSetups
    BY <1>1, Ep0Assumption DEF StartTransfer, Host
  <2>2. ASSUME NEW n \in 0..MaxSetups
        PROVE  [host EXCEPT !.setups = n, !.kind = k, !.stage = "setup"] \in Host
    BY <1>1 DEF Host
  <2> DEFINE h == [host EXCEPT !.setups = host.setups + 1, !.kind = k, !.stage = "setup"]
  <2>3. h \in Host
    BY <2>1, <2>2
  <2>4. host' = h
    BY <1>2
  <2>5. QED
    BY <1>1, <2>3, <2>4 DEF Host
<1>4. /\ udc' = udc /\ core' = core /\ cut' = cut
      /\ host.link = "up" /\ host.stage = "idle" /\ core.gint = {}
  BY DEF StartTransfer
<1>5. TypeOK'
  BY <1>1, <1>3, <1>4, TypesNext
<1>6. ASSUME ~cut
      PROVE  PhaseInv' /\ AddressInv' /\ ConfInv' /\ LinkInv'
  <2>1. PhaseInv /\ AddressInv /\ ConfInv /\ LinkInv
    BY <1>6 DEF IInv
  <2>2. ASSUME Quiet
        PROVE  Quiet' /\ AddressInv'
    BY <1>3, <1>4, <2>1, <2>2 DEF Quiet, Empty, AddressInv
  <2>3. ~SetupCame
    BY <1>4 DEF SetupCame
  <2>4. ASSUME NEW r \in Reqs, Answering(r)
        PROVE  FALSE
    BY <1>4, <2>4 DEF Answering
  <2>5. ASSUME NEW r \in Reqs, Taken(r)
        PROVE  Taken(r)' /\ AddressInv'
    BY <1>3, <1>4, <2>1, <2>5 DEF Taken, Holds, AddressInv
  <2>6. PhaseInv' /\ AddressInv'
    BY <2>1, <2>2, <2>3, <2>4, <2>5 DEF PhaseInv
  <2>7. QED
    BY <1>3, <1>4, <2>1, <2>6 DEF ConfInv, LinkInv
<1>7. QED
  BY <1>4, <1>5, <1>6 DEF IInv

\* A SETUP packet arrives.
LEMMA SetupHolds ==
  ASSUME IInv, Setup
  PROVE  IInv'
<1>1. udc \in Udc /\ udc.ep0state \in {"IDLE", "IN_DATA"} /\ core \in Core /\ host \in Host
      /\ cut \in BOOLEAN
  BY Types DEF IInv
<1> DEFINE s == IF HasDataIn(host.kind) THEN "data_in"
                ELSE IF host.kind = "out" THEN "data_out" ELSE "status_in"
<1>2. /\ host' \in Host /\ host'.stage = s /\ host'.link = host.link /\ host'.kind = host.kind
      /\ host'.addr = host.addr /\ host'.conf = host.conf
  <2>1. s \in {"data_in", "data_out", "status_in"}
    OBVIOUS
  <2>2. host' = [host EXCEPT !.stage = s]
    BY DEF Setup
  <2> HIDE DEF s
  <2>3. QED
    BY <1>1, <2>1, <2>2 DEF Host
<1>3. /\ core' \in Core /\ ~core'.out /\ core'.buf = host.kind /\ core'.sr /\ ~core'.stall
      /\ core'.doepint = {"SETUP", "XFCOMPL"} /\ core'.in = core.in
      /\ core'.diepint = core.diepint /\ core'.addr = core.addr /\ core'.data = core.data
      /\ core'.gint = core.gint
  <2> DEFINE c == [core EXCEPT !.out = FALSE, !.buf = host.kind, !.sr = TRUE, !.stall = FALSE,
                               !.doepint = {"SETUP", "XFCOMPL"}]
  <2>1. ASSUME NEW o \in BOOLEAN, NEW b \in Kind, NEW r \in BOOLEAN, NEW t \in BOOLEAN,
               NEW i \in SUBSET {"SETUP", "XFCOMPL"}
        PROVE  [core EXCEPT !.out = o, !.buf = b, !.sr = r, !.stall = t, !.doepint = i] \in Core
    BY <1>1 DEF Core, Kind
  <2>2. /\ host.kind \in Kind /\ FALSE \in BOOLEAN /\ TRUE \in BOOLEAN
        /\ {"SETUP", "XFCOMPL"} \in SUBSET {"SETUP", "XFCOMPL"}
    BY <1>1 DEF Host, Kind
  <2>3. c \in Core
    BY <2>1, <2>2, Zenon
  <2>4. core' = c
    BY DEF Setup
  <2>5. QED
    BY <1>1, <2>3, <2>4 DEF Core
<1>4. /\ udc' = udc /\ cut' = cut /\ host.link = "up" /\ host.stage = "setup"
      /\ core.addr = host.addr /\ core.out
  BY DEF Setup, At
<1>5. TypeOK'
  BY <1>1, <1>2, <1>3, <1>4, TypesNext
<1>6. ASSUME ~cut
      PROVE  PhaseInv' /\ AddressInv' /\ ConfInv' /\ LinkInv'
  <2>1. PhaseInv /\ AddressInv /\ ConfInv /\ LinkInv
    BY <1>6 DEF IInv
  <2>2. core.gint = {}
    BY <1>4, <2>1 DEF AddressInv
  <2>3. Quiet
    <3>1. ~SetupCame /\ \A r \in Reqs : ~Answering(r) /\ ~Taken(r)
      BY <1>4 DEF SetupCame, Answering, Taken
    <3>2. QED
      BY <2>1, <3>1 DEF PhaseInv
  <2>4. SetupCame'
    <3> HIDE DEF s
    <3>1. /\ udc'.ep0state = "IDLE" /\ Empty' /\ core'.in = NoReq /\ ~core'.diepint
          /\ core'.gint = {}
      BY <1>3, <1>4, <2>2, <2>3 DEF Quiet, Empty
    <3>2. s = IF HasDataIn(host.kind) THEN "data_in"
              ELSE IF host.kind = "out" THEN "data_out" ELSE "status_in"
      BY DEF s
    <3>3. QED
      BY <1>2, <1>3, <1>4, <3>1, <3>2 DEF SetupCame
  <2>5. AddressInv'
    <3> HIDE DEF s
    <3>1. QED
      BY <1>2, <1>3, <1>4, <2>2 DEF AddressInv
  <2>6. ConfInv' /\ LinkInv'
    <3> HIDE DEF s
    <3>1. QED
      BY <1>2, <1>3, <1>4, <2>1, <2>2 DEF ConfInv, LinkInv
  <2>7. QED
    BY <2>4, <2>5, <2>6 DEF PhaseInv
<1>7. QED
  BY <1>4, <1>5, <1>6 DEF IInv

\* The host takes the answer.
LEMMA TakeInHolds ==
  ASSUME IInv, TakeIn
  PROVE  IInv'
<1>1. udc \in Udc /\ udc.ep0state \in {"IDLE", "IN_DATA"} /\ core \in Core /\ host \in Host
      /\ cut \in BOOLEAN
  BY Types DEF IInv
<1> DEFINE s == IF host.stage = "data_in" THEN "status_out" ELSE "idle"
<1> DEFINE a == IF host.kind = "address" THEN 1 ELSE host.addr
<1> DEFINE b == host.conf \/ host.kind = "conf"
<1>2. core.in \in Reqs /\ udc.says[core.in] \in Kind
  BY <1>1 DEF TakeIn, Core, Udc, Kind
<1>3. /\ host' \in Host /\ host'.stage = s /\ host'.link = host.link /\ host'.kind = host.kind
      /\ host'.addr = a /\ host'.conf = b /\ host'.got = udc.says[core.in]
  <2>1. s \in {"status_out", "idle"} /\ a \in 0..1 /\ b \in BOOLEAN
    BY <1>1 DEF Host
  <2>2. host' = [host EXCEPT !.got = udc.says[core.in], !.stage = s, !.addr = a, !.conf = b]
    BY DEF TakeIn
  <2> HIDE DEF s, a, b
  <2>3. ASSUME NEW g \in Kind
        PROVE  [host EXCEPT !.got = g, !.stage = s, !.addr = a, !.conf = b] \in Host
    BY <1>1, <2>1 DEF Host
  <2>4. host' \in Host
    BY <1>2, <2>2, <2>3
  <2>5. QED
    BY <1>1, <2>2, <2>4 DEF Host
<1>4. /\ core' \in Core /\ core'.in = NoReq /\ core'.diepint /\ core'.doepint = core.doepint
      /\ core'.out = core.out /\ core'.gint = core.gint /\ core'.addr = core.addr
      /\ core'.data = core.data
  <2> DEFINE c == [core EXCEPT !.in = NoReq, !.diepint = TRUE]
  <2>1. ASSUME NEW i \in BOOLEAN, NEW n \in Reqs \cup {NoReq}
        PROVE  [core EXCEPT !.in = n, !.diepint = i] \in Core
    BY <1>1 DEF Core
  <2>2. TRUE \in BOOLEAN /\ NoReq \in Reqs \cup {NoReq}
    OBVIOUS
  <2>3. c \in Core
    BY <2>1, <2>2, Zenon
  <2>4. core' = c
    BY DEF TakeIn
  <2>5. QED
    BY <1>1, <2>3, <2>4 DEF Core
<1>5. /\ udc' = udc /\ cut' = cut /\ host.link = "up" /\ core.in # NoReq
  BY DEF TakeIn
<1> HIDE DEF b
<1>6. TypeOK'
  BY <1>1, <1>3, <1>4, <1>5, TypesNext
<1>7. ASSUME ~cut
      PROVE  PhaseInv' /\ AddressInv' /\ ConfInv' /\ LinkInv'
  <2>1. PhaseInv /\ AddressInv /\ ConfInv /\ LinkInv
    BY <1>7 DEF IInv
  <2>2. PICK r \in Reqs : Answering(r)
    BY <1>5, <2>1 DEF PhaseInv, Quiet, SetupCame, Taken
  <2>3. Taken(r)'
    <3>1. udc'.ep0state = "IN_DATA" /\ Holds(r)'
      BY <1>5, <2>2 DEF Answering, Holds
    <3>2. /\ core'.in = NoReq /\ core'.diepint /\ core'.doepint = {} /\ ~core'.out
          /\ core'.gint = {} /\ host'.link = "up" /\ host'.got = host'.kind
      BY <1>3, <1>4, <2>2 DEF Answering
    <3>3. host'.stage \in {"idle", "setup", "status_out"}
      BY <1>3
    <3>4. QED
      BY <3>1, <3>2, <3>3 DEF Taken
  <2>4. core'.gint = {} /\ core'.addr = host'.addr
    <3>1. core.gint = {} /\ (host.kind = "address" => core.addr = 1)
      BY <2>2 DEF Answering
    <3>2. host.kind # "address" => core.addr = host.addr
      BY <2>1, <3>1 DEF AddressInv
    <3>3. QED
      BY <1>3, <1>4, <3>1, <3>2
  <2>5. AddressInv'
    BY <2>4 DEF AddressInv
  <2>6. host'.conf => udc.enabled /\ udc.done /\ core.data
    BY <1>3, <2>1, <2>2 DEF b, ConfInv, Answering
  <2>7. ConfInv' /\ LinkInv'
    BY <1>3, <1>4, <1>5, <2>4, <2>6 DEF ConfInv, LinkInv
  <2>8. QED
    BY <2>3, <2>5, <2>7 DEF PhaseInv
<1>8. QED
  BY <1>5, <1>6, <1>7 DEF IInv

\* The host sends data, or the status of a transfer.
LEMMA GiveOutHolds ==
  ASSUME IInv, GiveOut
  PROVE  IInv'
<1>1. udc \in Udc /\ udc.ep0state \in {"IDLE", "IN_DATA"} /\ core \in Core /\ host \in Host
      /\ cut \in BOOLEAN
  BY Types DEF IInv
<1> DEFINE s == IF host.stage = "data_out" THEN "status_in" ELSE "idle"
<1>2. /\ host' \in Host /\ host'.stage = s /\ host'.link = host.link /\ host'.kind = host.kind
      /\ host'.addr = host.addr /\ host'.conf = host.conf
  <2>1. s \in {"status_in", "idle"}
    OBVIOUS
  <2>2. host' = [host EXCEPT !.stage = s]
    BY DEF GiveOut
  <2> HIDE DEF s
  <2>3. QED
    BY <1>1, <2>1, <2>2 DEF Host
<1>3. /\ core' \in Core /\ core'.doepint = core.doepint \cup {"XFCOMPL"} /\ core'.in = core.in
      /\ core'.diepint = core.diepint /\ core'.addr = core.addr /\ core'.data = core.data
      /\ core'.gint = core.gint
  <2> DEFINE c == [core EXCEPT !.out = FALSE, !.sr = FALSE,
                               !.doepint = core.doepint \cup {"XFCOMPL"}]
  <2>1. ASSUME NEW o \in BOOLEAN, NEW r \in BOOLEAN, NEW i \in SUBSET {"SETUP", "XFCOMPL"}
        PROVE  [core EXCEPT !.out = o, !.sr = r, !.doepint = i] \in Core
    BY <1>1 DEF Core
  <2>2. FALSE \in BOOLEAN /\ core.doepint \cup {"XFCOMPL"} \in SUBSET {"SETUP", "XFCOMPL"}
    BY <1>1 DEF Core
  <2>3. c \in Core
    BY <2>1, <2>2, Zenon
  <2>4. core' = c
    BY DEF GiveOut
  <2>5. QED
    BY <1>1, <2>3, <2>4 DEF Core
<1>4. /\ udc' = udc /\ cut' = cut /\ host.link = "up" /\ core.out
      /\ host.stage \in {"data_out", "status_out"}
  BY DEF GiveOut, At
<1>5. TypeOK'
  BY <1>1, <1>2, <1>3, <1>4, TypesNext
<1>6. ASSUME ~cut
      PROVE  PhaseInv' /\ AddressInv' /\ ConfInv' /\ LinkInv'
  <2>1. PhaseInv /\ AddressInv /\ ConfInv /\ LinkInv
    BY <1>6 DEF IInv
  <2>2. core.gint = {}
    BY <1>4, <2>1 DEF AddressInv
  <2>3. Quiet
    <3>1. ~SetupCame /\ \A r \in Reqs : ~Answering(r) /\ ~Taken(r)
      BY <1>4 DEF SetupCame, Answering, Taken
    <3>2. QED
      BY <2>1, <3>1 DEF PhaseInv
  <2>4. Quiet'
    BY <1>2, <1>3, <1>4, <2>3 DEF Quiet, Empty
  <2>5. AddressInv'
    <3>1. core.addr = host.addr
      BY <2>1, <2>2, <2>3 DEF AddressInv, Quiet
    <3> HIDE DEF s
    <3>2. QED
      BY <1>2, <1>3, <2>2, <3>1 DEF AddressInv
  <2>6. ConfInv' /\ LinkInv'
    <3> HIDE DEF s
    <3>1. QED
      BY <1>2, <1>3, <1>4, <2>1 DEF ConfInv, LinkInv
  <2>7. QED
    BY <2>4, <2>5, <2>6 DEF PhaseInv
<1>7. QED
  BY <1>4, <1>5, <1>6 DEF IInv

\* The host sees the refusal.
LEMMA TakeStallHolds ==
  ASSUME IInv, TakeStall
  PROVE  IInv'
<1>1. udc \in Udc /\ udc.ep0state \in {"IDLE", "IN_DATA"} /\ core \in Core /\ host \in Host
      /\ cut \in BOOLEAN
  BY Types DEF IInv
<1>2. /\ host' \in Host /\ host'.stage = "idle" /\ host'.link = host.link
      /\ host'.addr = host.addr /\ host'.conf = host.conf
  BY <1>1 DEF TakeStall, Host
<1>3. /\ udc' = udc /\ core' = core /\ cut' = cut
      /\ host.link = "up" /\ host.stage \in {"data_in", "status_in"} /\ core.stall
  BY DEF TakeStall, At
<1>4. TypeOK'
  BY <1>1, <1>2, <1>3, TypesNext
<1>5. ASSUME ~cut
      PROVE  PhaseInv' /\ AddressInv' /\ ConfInv' /\ LinkInv'
  <2>1. PhaseInv /\ AddressInv /\ ConfInv /\ LinkInv
    BY <1>5 DEF IInv
  <2>2. Quiet
    <3>1. ~SetupCame /\ \A r \in Reqs : ~Answering(r) /\ ~Taken(r)
      BY <1>3 DEF SetupCame, Answering, Taken
    <3>2. QED
      BY <2>1, <3>1 DEF PhaseInv
  <2>3. Quiet'
    BY <1>2, <1>3, <2>2 DEF Quiet, Empty
  <2>4. AddressInv'
    BY <1>2, <1>3, <2>1, <2>2 DEF AddressInv, Quiet
  <2>5. QED
    BY <1>2, <1>3, <2>1, <2>3, <2>4 DEF PhaseInv, ConfInv, LinkInv
<1>6. QED
  BY <1>3, <1>4, <1>5 DEF IInv

\* Nothing happens.
LEMMA StutterHolds ==
  ASSUME IInv, UNCHANGED vars
  PROVE  IInv'
BY DEF IInv, vars, TypeOK, PhaseInv, AddressInv, ConfInv, LinkInv, Quiet, SetupCame,
       Answering, Taken, Empty, Holds

-----------------------------------------------------------------------------
(***************************************************************************)
(* The theorems.                                                           *)
(***************************************************************************)
\* Between the phases of a transfer driver, controller and host go together, as
\* comip_handle_ep0 and comip_udc_irq take them.
THEOREM Invariant == Spec => []IInv
<1>1. IInv /\ [Next]_vars => IInv'
  BY IrqHolds, BusResetHolds, GiveUpHolds, SpeedKnownHolds, StartTransferHolds, SetupHolds,
     TakeInHolds, GiveOutHolds, TakeStallHolds, StutterHolds DEF Next, HostGoesOn
<1>2. QED
  BY InitHolds, <1>1, PTL DEF Spec

\* As long as no reset and no giving up cuts a transfer under way, the queue of one request
\* and the phases of comip_handle_ep0 keep the buffer of SETUP packets off the IN endpoint
\* while it may receive, and a configured device has been told so by the function's setup;
\* if no transfer is given up at all, device and host also have the same address between two
\* transfers.
THEOREM SafetyHolds == Spec => []Safety
<1>1. IInv => Safety
  <2> SUFFICES ASSUME IInv PROVE Safety
    OBVIOUS
  <2>1. OneUseOfTheBuffer
    BY DEF OneUseOfTheBuffer, IInv, PhaseInv, Quiet, SetupCame, Answering, Taken, NoReq
  <2>2. ConfiguredIsReady
    BY DEF ConfiguredIsReady, IInv, ConfInv
  <2>3. AddressesAgree
    <3> SUFFICES ASSUME ~cut, host.stage = "idle", core.gint = {}
                 PROVE  core.addr = host.addr
      BY DEF AddressesAgree
    <3>1. PhaseInv /\ AddressInv
      BY DEF IInv
    <3>2. core.addr = host.addr \/ (udc.ep0state = "IN_DATA" /\ ~core.diepint)
      BY <3>1 DEF AddressInv
    <3>3. ~(udc.ep0state = "IN_DATA" /\ ~core.diepint)
      BY <3>1 DEF PhaseInv, Quiet, SetupCame, Answering, Taken
    <3>4. QED
      BY <3>2, <3>3
  <2>4. QED
    BY <2>1, <2>2, <2>3 DEF Safety, IInv
<1>2. QED
  BY Invariant, <1>1, PTL

\* As long as no reset and no giving up cuts a transfer under way, what the host has received
\* when it ends a transfer is the answer that setup or comip_udc_do_request gave to this
\* request, and to no earlier one.
THEOREM AnswerFits == Spec => []AnswersWhatIsAsked
<1>1. IInv => AnswersWhatIsAsked
  BY DEF AnswersWhatIsAsked, IInv, PhaseInv, Quiet, SetupCame, Answering, Taken
<1>2. QED
  BY Invariant, <1>1, PTL
=============================================================================
